------------------------------- MODULE MCProcess -------------------------------
(***************************************************************************)
(* Instance of Process: two Visitors, one of them behind the trusted proxy *)
(* address, and limits small enough for each to reject the second.         *)
(***************************************************************************)
EXTENDS Process

MCConfigs ==
  {[managed |-> TRUE,  acme |-> TRUE,  proxied |-> TRUE,  probe |-> TRUE,  grace |-> "some"],
   [managed |-> FALSE, acme |-> FALSE, proxied |-> FALSE, probe |-> TRUE,  grace |-> "some"],
   [managed |-> TRUE,  acme |-> FALSE, proxied |-> FALSE, probe |-> FALSE, grace |-> "long"],
   [managed |-> FALSE, acme |-> TRUE,  proxied |-> TRUE,  probe |-> FALSE, grace |-> "zero"]}
MCLimits == [pending |-> 2, perSource |-> 1, opens |-> 1, active |-> 1]
================================================================================
