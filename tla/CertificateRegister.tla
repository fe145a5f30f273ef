-------------------------- MODULE CertificateRegister --------------------------
(***************************************************************************)
(* What the certificate store promises, whatever stops in the middle: a    *)
(* register that holds the last value acknowledged or, while a write is in *)
(* doubt, that value or the written one, and never anything else.  A write *)
(* changes the account or the certificate and keeps the other.  A damaged  *)
(* register falls back to a value it once acknowledged.                    *)
(***************************************************************************)
EXTENDS Naturals

CONSTANT MaxCertificate
VARIABLES value, acked, doubt, past

registerVars == <<value, acked, doubt, past>>

RegisterInit == doubt = {} /\ past = {value} /\ acked = value

KeepsRest(g, h) == g.account = h.account \/ g.certificate = h.certificate

Write ==
  /\ doubt = {}
  /\ \E account, certificate \in 0..MaxCertificate :
       LET g == [account |-> account, certificate |-> certificate] IN
         KeepsRest(g, value) /\ doubt' = {g}
  /\ UNCHANGED <<value, acked, past>>

\* The written value appears, or disappears again with the power.
Waver == value' \in {acked} \cup doubt /\ UNCHANGED <<acked, doubt, past>>

Acknowledge ==
  /\ value' = value /\ acked' = value
  /\ doubt' = {} /\ past' = past \cup {value}

Damage == value' \in past /\ acked' = value' /\ doubt = {} /\ UNCHANGED <<doubt, past>>

RegisterNext == Write \/ Waver \/ Acknowledge \/ Damage

RegisterSpec == RegisterInit /\ [][RegisterNext]_registerVars
===============================================================================
