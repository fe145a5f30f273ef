-------------------------- MODULE MCManagedSession --------------------------
(***************************************************************************)
(* A small instance of ManagedSession: two applicable snapshots, one that  *)
(* the Server refuses, one that does not parse and one over a limit.       *)
(***************************************************************************)
EXTENDS ManagedSession

CONSTANTS r1, r2, rRefused, rInvalid, rOver
=============================================================================
