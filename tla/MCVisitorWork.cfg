SPECIFICATION FairSpec
CONSTANTS
  v1 = v1
  v2 = v2
  c1 = c1
  c2 = c2
  x1 = x1
  x2 = x2
  h1 = h1
  h2 = h2
  hs = hs
  t1 = t1
  t2 = t2
  Identities = {x1, x2}
  Hostnames = {h1, h2, hs}
  ServerHostname = hs
  TunnelIds = {t1, t2}
  NoTunnelId = NoTunnelId
  Visitors = {v1, v2}
  Connections = {c1, c2}
  NoConnection = NoConnection
  IdentityOf <- MCIdentityOf
  Inputs <- MCInputs
  MaxApplies = 2
  MaxPendingStreamOpens = 1
  MaxActiveRoutedStreams = 1
INVARIANTS
  PlacedWorkAuthorized
  ReportedQuiescenceIsFinal
  GateAccounting
PROPERTIES
  AuthorizationDecides
  QuiescenceNoticed
CHECK_DEADLOCK TRUE
