-------------------------- MODULE MCServerCertificate --------------------------
(***************************************************************************)
(* Two processes on one directory, which may hold the certificate of an    *)
(* older version.                                                          *)
(***************************************************************************)
EXTENDS ServerCertificate
MCLegacies == {[account |-> 0, certificate |-> 1], [account |-> 1, certificate |-> 0]}
===============================================================================
