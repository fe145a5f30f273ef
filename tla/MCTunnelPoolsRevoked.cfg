SPECIFICATION Spec
CONSTANTS
  c1 = c1
  c2 = c2
  c3 = c3
  x1 = x1
  x2 = x2
  h1 = h1
  h2 = h2
  hs = hs
  t1 = t1
  t2 = t2
  Identities = {x1, x2}
  Hostnames = {h1, h2, hs}
  ServerHostname = hs
  TunnelIds = {t1, t2}
  NoTunnelId = NoTunnelId
  Connections = {c1, c3}
  NoConnection = NoConnection
  IdentityOf <- MCIdentityOf
  TunnelInputs <- MCTunnelInputs
  MaxApplies = 3
  MaxAbandons = 0
  MaxTunnelConnections = 2
  MaxPerTunnel = 1
  MaxPerIdentity = 1
INVARIANT RevokedConnectionsClosed
CHECK_DEADLOCK FALSE
