--------------------------- MODULE MCVisitorWork ---------------------------
(***************************************************************************)
(* A small instance of VisitorWork: two Tunnels that exchange a Client     *)
(* identity and a Public hostname across three inputs, an input that       *)
(* starts a drain, and an input that does not validate.                    *)
(***************************************************************************)
EXTENDS VisitorWork, TLC

CONSTANTS v1, v2, c1, c2, x1, x2, h1, h2, hs, t1, t2

MCIdentityOf == c1 :> x1 @@ c2 :> x2

Tunnel(id, identities, hostnames) ==
  [id |-> id, authorized_client_identities |-> identities,
   public_hostnames |-> hostnames]

\* Each Tunnel with its own identity and hostname.
Both == <<Tunnel(t1, <<x1>>, <<h1>>), Tunnel(t2, <<x2>>, <<h2>>)>>
\* The other order, with the hostnames exchanged.
Exchanged == <<Tunnel(t2, <<x2>>, <<h1>>), Tunnel(t1, <<x1>>, <<h2>>)>>
\* x2 is revoked and h2 moves to the remaining Tunnel.
Revoked == <<Tunnel(t1, <<x1>>, <<h1, h2>>)>>
\* One identity twice.
Invalid == <<Tunnel(t1, <<x1>>, <<h1>>), Tunnel(t2, <<x1>>, <<h2>>)>>

MCInputs ==
  {[tunnels |-> Both, drain |-> FALSE],
   [tunnels |-> Exchanged, drain |-> FALSE],
   [tunnels |-> Revoked, drain |-> TRUE],
   [tunnels |-> Invalid, drain |-> TRUE]}
=============================================================================
