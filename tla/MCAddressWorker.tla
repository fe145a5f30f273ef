---------------------------- MODULE MCAddressWorker ----------------------------
(***************************************************************************)
(* Instance of AddressWorker: a predecessor, its replacement and a third   *)
(* runtime to hint at instead, so that a hint can change its target.       *)
(***************************************************************************)
EXTENDS AddressWorker, TLC

CONSTANTS g1, g2, g3

MCGenerations == {g1, g2, g3}
Symmetry == Permutations(MCGenerations)
================================================================================
