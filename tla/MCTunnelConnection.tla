------------------------- MODULE MCTunnelConnection -------------------------
(***************************************************************************)
(* A small instance of TunnelConnection: two Visitors that share a budget  *)
(* of one permit with other connections.                                   *)
(***************************************************************************)
EXTENDS TunnelConnection, TLC

CONSTANTS v1, v2

VisitorSymmetry == Permutations({v1, v2})
=============================================================================
