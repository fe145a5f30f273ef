------------------------ MODULE MCAddressController ------------------------
(***************************************************************************)
(* A small instance of AddressController: two addresses, assigned one at a *)
(* time, so that every apply removes one or changes nothing.               *)
(***************************************************************************)
EXTENDS AddressController

CONSTANTS a1, a2
=============================================================================
