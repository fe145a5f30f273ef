--------------------------- MODULE MCTunnelPools ---------------------------
(***************************************************************************)
(* A small instance of TunnelPools: two Tunnels, two Client identities     *)
(* (two connections for the first, one for the second), inputs that create *)
(* both Tunnels, merge them (t2 moves to the first place, the identity x1  *)
(* to t2) and revoke x1.                                                   *)
(***************************************************************************)
EXTENDS TunnelPools, TLC

CONSTANTS c1, c2, c3, x1, x2, h1, h2, hs, t1, t2

MCIdentityOf == [c \in Connections |-> IF c = c3 THEN x2 ELSE x1]

Tunnel(id, identities, hostnames) ==
  [id |-> id, authorized_client_identities |-> identities,
   public_hostnames |-> hostnames]

Both == <<Tunnel(t1, <<x1>>, <<h1>>), Tunnel(t2, <<x2>>, <<h2>>)>>
Merged == <<Tunnel(t2, <<x2, x1>>, <<h2>>)>>
Revoked == <<Tunnel(t2, <<x2>>, <<h2>>)>>

MCTunnelInputs == {Both, Merged, Revoked}

\* c1 and c2 present the same identity.
ConnectionSymmetry == Permutations({c1, c2})
=============================================================================
