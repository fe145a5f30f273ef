------------------------- MODULE VisitorWorkProofs -------------------------
(***************************************************************************)
(* Theorems about VisitorWork for every set of Visitors, connections,      *)
(* identities, hostnames, inputs and limits.                               *)
(***************************************************************************)
EXTENDS VisitorWork, FiniteSetTheorems, SequenceTheorems, TLAPS

(***************************************************************************)
(* The places of a list are natural numbers, and its entries have the type *)
(* of the list (the `tunnels` of an input are a Vec).                      *)
(***************************************************************************)
LEMMA ListPlaces ==
  ASSUME NEW S, NEW s \in Seq(S), NEW i \in DOMAIN s
  PROVE  i \in Nat /\ s[i] \in S
OBVIOUS

(***************************************************************************)
(* A valid list of Tunnels yields a well-typed Authorization snapshot      *)
(* (try_from_managed_tunnels).                                             *)
(***************************************************************************)
LEMMA SnapshotType ==
  ASSUME NEW tunnels \in Seq(ServerTunnelConfig), ManagedTunnelsValid(tunnels)
  PROVE  SnapshotOf(tunnels) \in AuthorizationSnapshot
<1>1. ASSUME NEW places, places \subseteq (Nat \X Nat)
      PROVE  TunnelOf(places) \in Nat
  <2>1. CASE places = {}
    BY <2>1 DEF TunnelOf, None
  <2>2. CASE places # {}
    <3>1. (CHOOSE p \in places : TRUE) \in places
      BY <2>2
    <3>2. (CHOOSE p \in places : TRUE) \in Nat \X Nat
      BY <3>1, <1>1
    <3> QED
      BY <2>2, <3>2 DEF TunnelOf
  <2> QED
    BY <2>1, <2>2
<1>2. \A x \in Identities : IdentityPlaces(tunnels, x) \subseteq (Nat \X Nat)
  <2>1. ASSUME NEW i \in DOMAIN tunnels
        PROVE  /\ i \in Nat
               /\ DOMAIN tunnels[i].authorized_client_identities \subseteq Nat
    <3>1. i \in Nat /\ tunnels[i] \in ServerTunnelConfig
      BY ListPlaces
    <3>2. tunnels[i].authorized_client_identities \in Seq(Identities)
      BY <3>1 DEF ServerTunnelConfig
    <3> QED
      BY <3>1, <3>2, ListPlaces
  <2> QED
    BY <2>1 DEF IdentityPlaces
<1>3. \A h \in Hostnames : HostnamePlaces(tunnels, h) \subseteq (Nat \X Nat)
  <2>1. ASSUME NEW i \in DOMAIN tunnels
        PROVE  /\ i \in Nat
               /\ DOMAIN tunnels[i].public_hostnames \subseteq Nat
    <3>1. i \in Nat /\ tunnels[i] \in ServerTunnelConfig
      BY ListPlaces
    <3>2. tunnels[i].public_hostnames \in Seq(Hostnames)
      BY <3>1 DEF ServerTunnelConfig
    <3> QED
      BY <3>1, <3>2, ListPlaces
  <2> QED
    BY <2>1 DEF HostnamePlaces
<1>4. [x \in Identities |-> TunnelOf(IdentityPlaces(tunnels, x))] \in [Identities -> Nat]
  BY <1>1, <1>2
<1>5. [h \in Hostnames |-> TunnelOf(HostnamePlaces(tunnels, h))] \in [Hostnames -> Nat]
  BY <1>1, <1>3
<1>6. [i \in DOMAIN tunnels |-> tunnels[i].id] \in Seq(TunnelIds)
  <2>1. \A i \in DOMAIN tunnels : tunnels[i].id \in TunnelIds
    <3>1. \A i \in DOMAIN tunnels : tunnels[i] \in ServerTunnelConfig
      BY ListPlaces
    <3> QED
      BY <3>1 DEF ServerTunnelConfig, ManagedTunnelsValid
  <2>2. DOMAIN tunnels = 1..Len(tunnels) /\ Len(tunnels) \in Nat
    BY LenProperties
  <2> QED
    BY <2>1, <2>2, SeqDef
<1> QED
  BY <1>4, <1>5, <1>6 DEF SnapshotOf, AuthorizationSnapshot

-----------------------------------------------------------------------------
(***************************************************************************)
(* Counting the Visitors in given stages when one task moves on: the gate  *)
(* and the semaphores count exactly such sets.                             *)
(***************************************************************************)
LEMMA StageMove ==
  ASSUME NEW CONSTANT v \in Visitors, NEW CONSTANT s, NEW CONSTANT stages,
         visitor_pc \in [Visitors -> VisitorStages],
         visitor_pc' = [visitor_pc EXCEPT ![v] = s]
  PROVE  /\ Cardinality(InStages(stages)) \in Nat
         /\ visitor_pc[v] \in stages => Cardinality(InStages(stages)) >= 1
         /\ Cardinality(InStages(stages)') =
              Cardinality(InStages(stages)) + (IF s \in stages THEN 1 ELSE 0)
                - (IF visitor_pc[v] \in stages THEN 1 ELSE 0)
<1> DEFINE before == InStages(stages)
           after  == InStages(stages)'
           rest   == before \ {v}
<1>1. IsFiniteSet(before) /\ before \subseteq Visitors
  BY VisitorsAssumption, FS_Subset DEF InStages
<1>2. IsFiniteSet(rest) /\ v \notin rest
  BY <1>1, FS_RemoveElement
<1>3. /\ Cardinality(before) \in Nat
      /\ Cardinality(rest) \in Nat
  BY <1>1, <1>2, FS_CardinalityType
<1>4. Cardinality(rest) = IF v \in before THEN Cardinality(before) - 1
                                          ELSE Cardinality(before)
  BY <1>1, FS_RemoveElement
<1>5. v \in before <=> visitor_pc[v] \in stages
  BY DEF InStages
<1>6. CASE s \in stages
  <2>1. after = rest \cup {v}
    BY <1>6 DEF InStages
  <2>2. Cardinality(after) = Cardinality(rest) + 1
    BY <2>1, <1>2, FS_AddElement
  <2> QED
    BY <1>6, <2>2, <1>3, <1>4, <1>5
<1>7. CASE s \notin stages
  <2>1. after = rest
    BY <1>7 DEF InStages
  <2> QED
    BY <1>7, <2>1, <1>3, <1>4, <1>5
<1> QED
  BY <1>6, <1>7

(***************************************************************************)
(* The inductive invariant of the gate: the counters cannot be typed       *)
(* (they would go below zero) without knowing what they count.             *)
(***************************************************************************)
GateInv == TypeOK /\ GateAccounting

(***************************************************************************)
(* Every step of a Visitor task keeps the gate's accounts.                 *)
(***************************************************************************)
LEMMA VisitorStepGateInv ==
  ASSUME GateInv, NEW CONSTANT v \in Visitors, VisitorStep(v)
  PROVE  GateInv'
<1> USE VisitorsAssumption, ConnectionsAssumption, ServerHostnameAssumption
<1> DEFINE R == Reserving
           O == {"opening"}
           A == {"assigned", "running"}
           W == {"running", "dropping"}
           Counts(s) ==
             /\ visitor_pc' \in [Visitors -> VisitorStages]
             /\ pending_admissions \in Nat
             /\ visitor_pc[v] \in R => pending_admissions >= 1
             /\ Cardinality(InStages(R)') =
                  pending_admissions + (IF s \in R THEN 1 ELSE 0)
                    - (IF visitor_pc[v] \in R THEN 1 ELSE 0)
             /\ pending_stream_opens \in Nat
             /\ visitor_pc[v] \in O => pending_stream_opens >= 1
             /\ Cardinality(InStages(O)') =
                  pending_stream_opens + (IF s \in O THEN 1 ELSE 0)
                    - (IF visitor_pc[v] \in O THEN 1 ELSE 0)
             /\ active_routed_streams \in Nat
             /\ visitor_pc[v] \in A => active_routed_streams >= 1
             /\ Cardinality(InStages(A)') =
                  active_routed_streams + (IF s \in A THEN 1 ELSE 0)
                    - (IF visitor_pc[v] \in A THEN 1 ELSE 0)
             /\ v \in work <=> visitor_pc[v] \in W
             /\ InStages(W)' = IF s \in W THEN work \cup {v} ELSE work \ {v}
<1>1. ASSUME NEW CONSTANT s \in VisitorStages,
             visitor_pc' = [visitor_pc EXCEPT ![v] = s]
      PROVE  Counts(s)
  <2>1. visitor_pc \in [Visitors -> VisitorStages]
    BY DEF GateInv, TypeOK
  <2>2. /\ v \in work <=> visitor_pc[v] \in W
        /\ InStages(W)' = IF s \in W THEN work \cup {v} ELSE work \ {v}
    <3>1. work = InStages(W)
      BY DEF GateInv, GateAccounting
    <3> QED
      BY <1>1, <2>1, <3>1 DEF InStages
  <2>3. /\ pending_admissions = Cardinality(InStages(R))
        /\ pending_stream_opens = Cardinality(InStages(O))
        /\ active_routed_streams = Cardinality(InStages(A))
    BY DEF GateInv, GateAccounting
  <2>4. visitor_pc' \in [Visitors -> VisitorStages]
    BY <1>1, <2>1
  <2>5. /\ pending_admissions \in Nat
        /\ visitor_pc[v] \in R => pending_admissions >= 1
        /\ Cardinality(InStages(R)') =
             pending_admissions + (IF s \in R THEN 1 ELSE 0)
               - (IF visitor_pc[v] \in R THEN 1 ELSE 0)
    BY <1>1, <2>1, <2>3, StageMove
  <2>6. /\ pending_stream_opens \in Nat
        /\ visitor_pc[v] \in O => pending_stream_opens >= 1
        /\ Cardinality(InStages(O)') =
             pending_stream_opens + (IF s \in O THEN 1 ELSE 0)
               - (IF visitor_pc[v] \in O THEN 1 ELSE 0)
    BY <1>1, <2>1, <2>3, StageMove
  <2>7. /\ active_routed_streams \in Nat
        /\ visitor_pc[v] \in A => active_routed_streams >= 1
        /\ Cardinality(InStages(A)') =
             active_routed_streams + (IF s \in A THEN 1 ELSE 0)
               - (IF visitor_pc[v] \in A THEN 1 ELSE 0)
    BY <1>1, <2>1, <2>3, StageMove
  <2> QED
    BY <2>2, <2>4, <2>5, <2>6, <2>7
<1> HIDE DEF Counts
<1>2. ASSUME ForgetRoute(v)
      PROVE  /\ visitor_pc' = [visitor_pc EXCEPT ![v] = "done"]
             /\ hostname' \in [Visitors -> Hostnames]
             /\ route_version' \in [Visitors -> Nat]
             /\ connection' \in [Visitors -> Connections \cup {NoConnection}]
  BY <1>2 DEF ForgetRoute, GateInv, TypeOK
<1>3. CASE BeginAdmission(v)
  <2> USE <1>3 DEF BeginAdmission,
               gateVars, permitVars, applyVars, reportVars, serveVars
  <2>1. visitor_pc[v] = "arrived" /\ visitor_pc' = [visitor_pc EXCEPT ![v] = "admitted"]
    OBVIOUS
  <2>2. /\ visitor_pc' \in [Visitors -> VisitorStages]
        /\ pending_admissions + 1 \in Nat
        /\ Cardinality(InStages(R)') = pending_admissions + 1
        /\ pending_stream_opens \in Nat
        /\ Cardinality(InStages(O)') = pending_stream_opens
        /\ active_routed_streams \in Nat
        /\ Cardinality(InStages(A)') = active_routed_streams
        /\ InStages(W)' = work
    <3>1. Counts("admitted")
      BY <2>1, <1>1 DEF VisitorStages, Reserving
    <3> QED
      BY <2>1, <3>1 DEF Counts, Reserving
  <2>3. TypeOK'
    BY <2>2, LimitsAssumption DEF GateInv, TypeOK
  <2>4. GateAccounting'
    BY <2>2 DEF GateAccounting
  <2> QED
    BY <2>3, <2>4 DEF GateInv
<1>4. CASE RefuseAdmission(v)
  <2> USE <1>4 DEF RefuseAdmission,
               gateVars, permitVars, applyVars, reportVars, serveVars
  <2>1. visitor_pc[v] = "arrived" /\ visitor_pc' = [visitor_pc EXCEPT ![v] = "done"]
    BY <1>2
  <2>2. /\ visitor_pc' \in [Visitors -> VisitorStages]
        /\ pending_admissions \in Nat
        /\ Cardinality(InStages(R)') = pending_admissions
        /\ pending_stream_opens \in Nat
        /\ Cardinality(InStages(O)') = pending_stream_opens
        /\ active_routed_streams \in Nat
        /\ Cardinality(InStages(A)') = active_routed_streams
        /\ InStages(W)' = work
    <3>1. Counts("done")
      BY <2>1, <1>1 DEF VisitorStages, Reserving
    <3> QED
      BY <2>1, <3>1 DEF Counts, Reserving
  <2>3. TypeOK'
    BY <2>2, <1>2, LimitsAssumption DEF GateInv, TypeOK
  <2>4. GateAccounting'
    BY <2>2 DEF GateAccounting
  <2> QED
    BY <2>3, <2>4 DEF GateInv
<1>5. CASE RouteLookup(v)
  <2> USE <1>5 DEF RouteLookup, gateVars, permitVars, applyVars, reportVars, serveVars
  <2>1. visitor_pc[v] = "admitted" /\ visitor_pc' = [visitor_pc EXCEPT ![v] = "looked_up"]
    OBVIOUS
  <2>2. /\ visitor_pc' \in [Visitors -> VisitorStages]
        /\ pending_admissions \in Nat
        /\ Cardinality(InStages(R)') = pending_admissions
        /\ pending_stream_opens \in Nat
        /\ Cardinality(InStages(O)') = pending_stream_opens
        /\ active_routed_streams \in Nat
        /\ Cardinality(InStages(A)') = active_routed_streams
        /\ InStages(W)' = work
    <3>1. Counts("looked_up")
      BY <2>1, <1>1 DEF VisitorStages, Reserving
    <3> QED
      BY <2>1, <3>1, SMTT(30) DEF Counts, Reserving
  <2>3. TypeOK'
    BY <2>2, LimitsAssumption DEF GateInv, TypeOK
  <2>4. GateAccounting'
    BY <2>2 DEF GateAccounting
  <2> QED
    BY <2>3, <2>4 DEF GateInv
<1>6. CASE RouteUnauthorized(v)
  <2> USE <1>6 DEF RouteUnauthorized, DropAdmission, NotifyQuiescent,
               gateVars, permitVars, applyVars, reportVars, serveVars
  <2>1. visitor_pc[v] = "admitted" /\ visitor_pc' = [visitor_pc EXCEPT ![v] = "done"]
    BY <1>2
  <2>2. /\ visitor_pc' \in [Visitors -> VisitorStages]
        /\ pending_admissions - 1 \in Nat
        /\ Cardinality(InStages(R)') = pending_admissions - 1
        /\ pending_stream_opens \in Nat
        /\ Cardinality(InStages(O)') = pending_stream_opens
        /\ active_routed_streams \in Nat
        /\ Cardinality(InStages(A)') = active_routed_streams
        /\ InStages(W)' = work
    <3>1. Counts("done")
      BY <2>1, <1>1 DEF VisitorStages, Reserving
    <3> QED
      BY <2>1, <3>1 DEF Counts, Reserving
  <2>3. TypeOK'
    BY <2>2, <1>2, LimitsAssumption DEF GateInv, TypeOK
  <2>4. GateAccounting'
    BY <2>2 DEF GateAccounting
  <2> QED
    BY <2>3, <2>4 DEF GateInv
<1>7. CASE RouteSelect(v)
  <2> USE <1>7 DEF RouteSelect, gateVars, permitVars, applyVars, reportVars, serveVars
  <2>1. visitor_pc[v] = "looked_up" /\ visitor_pc' = [visitor_pc EXCEPT ![v] = "routed"]
    OBVIOUS
  <2>2. /\ visitor_pc' \in [Visitors -> VisitorStages]
        /\ pending_admissions \in Nat
        /\ Cardinality(InStages(R)') = pending_admissions
        /\ pending_stream_opens \in Nat
        /\ Cardinality(InStages(O)') = pending_stream_opens
        /\ active_routed_streams \in Nat
        /\ Cardinality(InStages(A)') = active_routed_streams
        /\ InStages(W)' = work
    <3>1. Counts("routed")
      BY <2>1, <1>1 DEF VisitorStages, Reserving
    <3> QED
      BY <2>1, <3>1 DEF Counts, Reserving
  <2>3. TypeOK'
    BY <2>2, LimitsAssumption DEF GateInv, TypeOK
  <2>4. GateAccounting'
    BY <2>2 DEF GateAccounting
  <2> QED
    BY <2>3, <2>4 DEF GateInv
<1>8. CASE NoActiveTunnelConnection(v)
  <2> USE <1>8 DEF NoActiveTunnelConnection, DropAdmission, NotifyQuiescent,
               gateVars, permitVars, applyVars, reportVars, serveVars
  <2>1. visitor_pc[v] = "looked_up" /\ visitor_pc' = [visitor_pc EXCEPT ![v] = "done"]
    BY <1>2
  <2>2. /\ visitor_pc' \in [Visitors -> VisitorStages]
        /\ pending_admissions - 1 \in Nat
        /\ Cardinality(InStages(R)') = pending_admissions - 1
        /\ pending_stream_opens \in Nat
        /\ Cardinality(InStages(O)') = pending_stream_opens
        /\ active_routed_streams \in Nat
        /\ Cardinality(InStages(A)') = active_routed_streams
        /\ InStages(W)' = work
    <3>1. Counts("done")
      BY <2>1, <1>1 DEF VisitorStages, Reserving
    <3> QED
      BY <2>1, <3>1 DEF Counts, Reserving
  <2>3. TypeOK'
    BY <2>2, <1>2, LimitsAssumption DEF GateInv, TypeOK
  <2>4. GateAccounting'
    BY <2>2 DEF GateAccounting
  <2> QED
    BY <2>3, <2>4 DEF GateInv
<1>9. CASE StartOpen(v)
  <2> USE <1>9 DEF StartOpen, gateVars, permitVars, applyVars, reportVars, serveVars
  <2>1. visitor_pc[v] = "routed" /\ visitor_pc' = [visitor_pc EXCEPT ![v] = "opening"]
    OBVIOUS
  <2>2. /\ visitor_pc' \in [Visitors -> VisitorStages]
        /\ pending_admissions \in Nat
        /\ Cardinality(InStages(R)') = pending_admissions
        /\ pending_stream_opens + 1 \in Nat
        /\ Cardinality(InStages(O)') = pending_stream_opens + 1
        /\ active_routed_streams \in Nat
        /\ Cardinality(InStages(A)') = active_routed_streams
        /\ InStages(W)' = work
    <3>1. Counts("opening")
      BY <2>1, <1>1 DEF VisitorStages, Reserving
    <3> QED
      BY <2>1, <3>1 DEF Counts, Reserving
  <2>3. TypeOK'
    BY <2>2, LimitsAssumption DEF GateInv, TypeOK
  <2>4. GateAccounting'
    BY <2>2 DEF GateAccounting
  <2> QED
    BY <2>3, <2>4 DEF GateInv
<1>10. CASE StartOpenSaturated(v)
  <2> USE <1>10 DEF StartOpenSaturated, DropAdmission, NotifyQuiescent,
               gateVars, permitVars, applyVars, reportVars, serveVars
  <2>1. visitor_pc[v] = "routed" /\ visitor_pc' = [visitor_pc EXCEPT ![v] = "done"]
    BY <1>2
  <2>2. /\ visitor_pc' \in [Visitors -> VisitorStages]
        /\ pending_admissions - 1 \in Nat
        /\ Cardinality(InStages(R)') = pending_admissions - 1
        /\ pending_stream_opens \in Nat
        /\ Cardinality(InStages(O)') = pending_stream_opens
        /\ active_routed_streams \in Nat
        /\ Cardinality(InStages(A)') = active_routed_streams
        /\ InStages(W)' = work
    <3>1. Counts("done")
      BY <2>1, <1>1 DEF VisitorStages, Reserving
    <3> QED
      BY <2>1, <3>1 DEF Counts, Reserving
  <2>3. TypeOK'
    BY <2>2, <1>2, LimitsAssumption DEF GateInv, TypeOK
  <2>4. GateAccounting'
    BY <2>2 DEF GateAccounting
  <2> QED
    BY <2>3, <2>4 DEF GateInv
<1>11. CASE OpenSucceeds(v)
  <2> USE <1>11 DEF OpenSucceeds,
               gateVars, permitVars, applyVars, reportVars, serveVars
  <2>1. visitor_pc[v] = "opening" /\ visitor_pc' = [visitor_pc EXCEPT ![v] = "assigned"]
    OBVIOUS
  <2>2. /\ visitor_pc' \in [Visitors -> VisitorStages]
        /\ pending_admissions \in Nat
        /\ Cardinality(InStages(R)') = pending_admissions
        /\ pending_stream_opens - 1 \in Nat
        /\ Cardinality(InStages(O)') = pending_stream_opens - 1
        /\ active_routed_streams + 1 \in Nat
        /\ Cardinality(InStages(A)') = active_routed_streams + 1
        /\ InStages(W)' = work
    <3>1. Counts("assigned")
      BY <2>1, <1>1 DEF VisitorStages, Reserving
    <3>2. /\ visitor_pc[v] \in R /\ "assigned" \in R
          /\ visitor_pc[v] \in O /\ "assigned" \notin O
          /\ visitor_pc[v] \notin A /\ "assigned" \in A
          /\ visitor_pc[v] \notin W /\ "assigned" \notin W
      BY <2>1 DEF Reserving
    <3>3. /\ pending_admissions \in Nat
          /\ Cardinality(InStages(R)') = pending_admissions + 1 - 1
          /\ pending_stream_opens \in Nat /\ pending_stream_opens >= 1
          /\ Cardinality(InStages(O)') = pending_stream_opens + 0 - 1
          /\ active_routed_streams \in Nat
          /\ Cardinality(InStages(A)') = active_routed_streams + 1 - 0
      BY <3>1, <3>2 DEF Counts
    <3>4. visitor_pc' \in [Visitors -> VisitorStages] /\ InStages(W)' = work
      BY <3>1, <3>2 DEF Counts
    <3> QED
      BY <3>3, <3>4
  <2>3. TypeOK'
    BY <2>2, LimitsAssumption DEF GateInv, TypeOK
  <2>4. GateAccounting'
    BY <2>2 DEF GateAccounting
  <2> QED
    BY <2>3, <2>4 DEF GateInv
<1>12. CASE OpenFails(v)
  <2> USE <1>12 DEF OpenFails, DropAdmission, NotifyQuiescent,
               gateVars, permitVars, applyVars, reportVars, serveVars
  <2>1. visitor_pc[v] = "opening" /\ visitor_pc' = [visitor_pc EXCEPT ![v] = "done"]
    BY <1>2
  <2>2. /\ visitor_pc' \in [Visitors -> VisitorStages]
        /\ pending_admissions - 1 \in Nat
        /\ Cardinality(InStages(R)') = pending_admissions - 1
        /\ pending_stream_opens - 1 \in Nat
        /\ Cardinality(InStages(O)') = pending_stream_opens - 1
        /\ active_routed_streams \in Nat
        /\ Cardinality(InStages(A)') = active_routed_streams
        /\ InStages(W)' = work
    <3>1. Counts("done")
      BY <2>1, <1>1 DEF VisitorStages, Reserving
    <3> QED
      BY <2>1, <3>1 DEF Counts, Reserving
  <2>3. TypeOK'
    BY <2>2, <1>2, LimitsAssumption DEF GateInv, TypeOK
  <2>4. GateAccounting'
    BY <2>2 DEF GateAccounting
  <2> QED
    BY <2>3, <2>4 DEF GateInv
<1>13. CASE RegisterActiveVisitorWork(v)
  <2> USE <1>13 DEF RegisterActiveVisitorWork,
               gateVars, permitVars, applyVars, reportVars, serveVars
  <2>1. visitor_pc[v] = "assigned" /\ visitor_pc' = [visitor_pc EXCEPT ![v] = "running"]
    OBVIOUS
  <2>2. /\ visitor_pc' \in [Visitors -> VisitorStages]
        /\ pending_admissions - 1 \in Nat
        /\ Cardinality(InStages(R)') = pending_admissions - 1
        /\ pending_stream_opens \in Nat
        /\ Cardinality(InStages(O)') = pending_stream_opens
        /\ active_routed_streams \in Nat
        /\ Cardinality(InStages(A)') = active_routed_streams
        /\ InStages(W)' = work \cup {v}
    <3>1. Counts("running")
      BY <2>1, <1>1 DEF VisitorStages, Reserving
    <3> QED
      BY <2>1, <3>1 DEF Counts, Reserving
  <2>3. TypeOK'
    BY <2>2, LimitsAssumption DEF GateInv, TypeOK
  <2>4. GateAccounting'
    BY <2>2 DEF GateAccounting
  <2> QED
    BY <2>3, <2>4 DEF GateInv
<1>14. CASE RejectActiveVisitorWork(v)
  <2> USE <1>14 DEF RejectActiveVisitorWork, DropAdmission, NotifyQuiescent,
               gateVars, permitVars, applyVars, reportVars, serveVars
  <2>1. visitor_pc[v] = "assigned" /\ visitor_pc' = [visitor_pc EXCEPT ![v] = "done"]
    BY <1>2
  <2>2. /\ visitor_pc' \in [Visitors -> VisitorStages]
        /\ pending_admissions - 1 \in Nat
        /\ Cardinality(InStages(R)') = pending_admissions - 1
        /\ pending_stream_opens \in Nat
        /\ Cardinality(InStages(O)') = pending_stream_opens
        /\ active_routed_streams - 1 \in Nat
        /\ Cardinality(InStages(A)') = active_routed_streams - 1
        /\ InStages(W)' = work
    <3>1. Counts("done")
      BY <2>1, <1>1 DEF VisitorStages, Reserving
    <3> QED
      BY <2>1, <3>1 DEF Counts, Reserving
  <2>3. TypeOK'
    BY <2>2, <1>2, LimitsAssumption DEF GateInv, TypeOK
  <2>4. GateAccounting'
    BY <2>2 DEF GateAccounting
  <2> QED
    BY <2>3, <2>4 DEF GateInv
<1>15. CASE ProxyEnds(v)
  <2> USE <1>15 DEF ProxyEnds, gateVars, permitVars, applyVars, reportVars, serveVars
  <2>1. visitor_pc[v] = "running" /\ visitor_pc' = [visitor_pc EXCEPT ![v] = "dropping"]
    OBVIOUS
  <2>2. /\ visitor_pc' \in [Visitors -> VisitorStages]
        /\ pending_admissions \in Nat
        /\ Cardinality(InStages(R)') = pending_admissions
        /\ pending_stream_opens \in Nat
        /\ Cardinality(InStages(O)') = pending_stream_opens
        /\ active_routed_streams - 1 \in Nat
        /\ Cardinality(InStages(A)') = active_routed_streams - 1
        /\ InStages(W)' = work
    <3>1. Counts("dropping")
      BY <2>1, <1>1 DEF VisitorStages, Reserving
    <3> QED
      BY <2>1, <3>1 DEF Counts, Reserving
  <2>3. TypeOK'
    BY <2>2, LimitsAssumption DEF GateInv, TypeOK
  <2>4. GateAccounting'
    BY <2>2 DEF GateAccounting
  <2> QED
    BY <2>3, <2>4 DEF GateInv
<1>16. CASE RemoveWork(v)
  <2> USE <1>16 DEF RemoveWork, NotifyQuiescent,
               gateVars, permitVars, applyVars, reportVars, serveVars
  <2>1. visitor_pc[v] = "dropping" /\ visitor_pc' = [visitor_pc EXCEPT ![v] = "done"]
    BY <1>2
  <2>2. /\ visitor_pc' \in [Visitors -> VisitorStages]
        /\ pending_admissions \in Nat
        /\ Cardinality(InStages(R)') = pending_admissions
        /\ pending_stream_opens \in Nat
        /\ Cardinality(InStages(O)') = pending_stream_opens
        /\ active_routed_streams \in Nat
        /\ Cardinality(InStages(A)') = active_routed_streams
        /\ InStages(W)' = work \ {v}
    <3>1. Counts("done")
      BY <2>1, <1>1 DEF VisitorStages, Reserving
    <3> QED
      BY <2>1, <3>1 DEF Counts, Reserving
  <2>3. TypeOK'
    BY <2>2, <1>2, LimitsAssumption DEF GateInv, TypeOK
  <2>4. GateAccounting'
    BY <2>2 DEF GateAccounting
  <2> QED
    BY <2>3, <2>4 DEF GateInv
<1>17. CASE CancelReservation(v)
  <2> USE <1>17 DEF CancelReservation, DropAdmission, NotifyQuiescent,
               gateVars, permitVars, applyVars, reportVars, serveVars
  <2>1. visitor_pc[v] \in Reserving /\ visitor_pc' = [visitor_pc EXCEPT ![v] = "done"]
    BY <1>2
  <2>2. /\ visitor_pc' \in [Visitors -> VisitorStages]
        /\ pending_admissions - 1 \in Nat
        /\ Cardinality(InStages(R)') = pending_admissions - 1
        /\ pending_stream_opens' \in 0..pending_stream_opens
        /\ Cardinality(InStages(O)') = pending_stream_opens'
        /\ active_routed_streams' \in 0..active_routed_streams
        /\ Cardinality(InStages(A)') = active_routed_streams'
        /\ InStages(W)' = work
    <3>1. Counts("done")
      BY <2>1, <1>1 DEF VisitorStages, Reserving
    <3>2. /\ "done" \notin R /\ "done" \notin O /\ "done" \notin A /\ "done" \notin W
          /\ visitor_pc[v] \in O <=> visitor_pc[v] = "opening"
          /\ visitor_pc[v] \in A <=> visitor_pc[v] = "assigned"
          /\ visitor_pc[v] \notin W
      BY <2>1 DEF Reserving
    <3>3. /\ pending_stream_opens' \in 0..pending_stream_opens
          /\ Cardinality(InStages(O)') = pending_stream_opens'
      BY <3>1, <3>2 DEF Counts
    <3>4. /\ active_routed_streams' \in 0..active_routed_streams
          /\ Cardinality(InStages(A)') = active_routed_streams'
      BY <3>1, <3>2 DEF Counts
    <3>5. /\ pending_admissions - 1 \in Nat
          /\ Cardinality(InStages(R)') = pending_admissions - 1
      BY <2>1, <3>1, <3>2 DEF Counts
    <3>6. visitor_pc' \in [Visitors -> VisitorStages] /\ InStages(W)' = work
      BY <3>1, <3>2 DEF Counts
    <3> QED
      BY <3>3, <3>4, <3>5, <3>6
  <2>3. TypeOK'
    BY <2>2, <1>2, LimitsAssumption DEF GateInv, TypeOK
  <2>4. GateAccounting'
    BY <2>2 DEF GateAccounting
  <2> QED
    BY <2>3, <2>4 DEF GateInv
<1> QED
  BY <1>3, <1>4, <1>5, <1>6, <1>7, <1>8, <1>9, <1>10, <1>11, <1>12, <1>13, <1>14, <1>15, <1>16,
     <1>17 DEF VisitorStep

(***************************************************************************)
(* The apply, the state document and the run loop leave the Visitor tasks  *)
(* and the gate's accounts alone.                                          *)
(***************************************************************************)
LEMMA OtherStepGateInv ==
  ASSUME GateInv, ApplyStep \/ ReportStep \/ ServeStep
  PROVE  /\ GateInv'
         /\ UNCHANGED <<visitorVars, work>>
<1> USE LimitsAssumption
<1>1. ASSUME UNCHANGED <<visitorVars, work, pending_admissions, permitVars>>,
             authorization' \in [version: Nat, snapshot: AuthorizationSnapshot],
             abort_requested' \in [Visitors -> BOOLEAN],
             sealed' \in BOOLEAN, apply_pc' \in ApplyStages, apply_drain' \in BOOLEAN,
             applies' \in 0..MaxApplies, interrupted' \in BOOLEAN,
             first_apply_completed' \in BOOLEAN,
             draining' \in BOOLEAN, report_pc' \in {"idle", "draining_read"},
             report_draining' \in BOOLEAN, reported_quiescent' \in BOOLEAN,
             serve_pc' \in ServeStages, notified' \in BOOLEAN
      PROVE  GateInv' /\ UNCHANGED <<visitorVars, work>>
  <2>1. TypeOK'
    BY <1>1 DEF GateInv, TypeOK, visitorVars, permitVars
  <2>2. GateAccounting'
    BY <1>1 DEF GateInv, GateAccounting, InStages, visitorVars, permitVars
  <2> QED
    BY <1>1, <2>1, <2>2 DEF GateInv
<1> USE DEF GateInv, TypeOK, gateVars, applyVars, reportVars, serveVars
<1>2. ASSUME NEW input \in Inputs, RejectInput(input)
      PROVE  GateInv' /\ UNCHANGED <<visitorVars, work>>
  BY <1>1, <1>2 DEF RejectInput
<1>3. ASSUME NEW input \in Inputs, CommitSnapshot(input)
      PROVE  GateInv' /\ UNCHANGED <<visitorVars, work>>
  <2>1. SnapshotOf(input.tunnels) \in AuthorizationSnapshot
    BY <1>3, InputsAssumption, SnapshotType DEF CommitSnapshot
  <2>2. authorization' \in [version: Nat, snapshot: AuthorizationSnapshot]
    BY <1>3, <2>1 DEF CommitSnapshot, Commit
  <2>3. apply_pc' \in ApplyStages /\ apply_drain' \in BOOLEAN /\ applies' \in 0..MaxApplies
    BY <1>3, InputsAssumption DEF CommitSnapshot, ApplyStages
  <2> QED
    BY <1>1, <1>3, <2>2, <2>3 DEF CommitSnapshot
<1>4. CASE PoolsRealigned
  BY <1>1, <1>4 DEF PoolsRealigned, ApplyStages
<1>5. CASE ResetStreams
  <2>1. abort_requested' \in [Visitors -> BOOLEAN]
    BY <1>5 DEF ResetStreams
  <2>2. apply_pc' \in ApplyStages
    BY <1>5 DEF ResetStreams, ApplyStages
  <2> QED
    BY <1>1, <1>5, <2>1, <2>2 DEF ResetStreams
<1>6. CASE SealForDrain
  BY <1>1, <1>6 DEF SealForDrain, ApplyStages
<1>7. CASE BeginDrain
  BY <1>1, <1>7 DEF BeginDrain, ApplyStages
<1>8. CASE ReportDraining
  BY <1>1, <1>8 DEF ReportDraining
<1>9. CASE ReportVisitors
  BY <1>1, <1>9 DEF ReportVisitors
<1>10. CASE ServeSeal
  BY <1>1, <1>10 DEF ServeSeal, ServeStages
<1>11. CASE WaitEnable
  BY <1>1, <1>11 DEF WaitEnable, ServeStages
<1>12. CASE WaitCheck
  BY <1>1, <1>12 DEF WaitCheck, ServeStages
<1>13. CASE WaitWake
  BY <1>1, <1>13 DEF WaitWake, ServeStages
<1>14. CASE ServeAbort
  BY <1>1, <1>14 DEF ServeAbort, ServeStages
<1>15. CASE ServeJoin
  BY <1>1, <1>15 DEF ServeJoin, ServeStages
<1>16. CASE AbandonApply
  BY <1>1, <1>16 DEF AbandonApply, ApplyStages
<1> QED
  BY <1>2, <1>3, <1>4, <1>5, <1>6, <1>7, <1>8, <1>9, <1>10, <1>11, <1>12, <1>13,
     <1>14, <1>15, <1>16 DEF ApplyStep, ReportStep, ServeStep

(***************************************************************************)
(* The gate's inductive invariant holds of the whole specification.        *)
(***************************************************************************)
THEOREM GateInvariant == Spec => []GateInv
<1>1. Init => GateInv
  <2> SUFFICES ASSUME Init PROVE GateInv
    OBVIOUS
  <2>1. EmptyManaged \in AuthorizationSnapshot
    <3>1. <<>> \in Seq(ServerTunnelConfig)
      OBVIOUS
    <3>2. ManagedTunnelsValid(<<>>)
      BY DEF ManagedTunnelsValid, AuthorizationMapsValid, AtMostOne, IdentityPlaces,
             HostnamePlaces
    <3> QED
      BY <3>1, <3>2, SnapshotType DEF EmptyManaged
  <2>2. TypeOK
    <3>1. authorization \in [version: Nat, snapshot: AuthorizationSnapshot]
      BY <2>1 DEF Init, AuthorizationInit
    <3>2. /\ visitor_pc \in [Visitors -> VisitorStages]
          /\ hostname \in [Visitors -> Hostnames]
          /\ route_version \in [Visitors -> Nat]
          /\ connection \in [Visitors -> Connections \cup {NoConnection}]
          /\ abort_requested \in [Visitors -> BOOLEAN]
      BY ServerHostnameAssumption DEF Init, VisitorStages
    <3>3. /\ 0 \in Nat /\ 0 \in 0..MaxPendingStreamOpens
          /\ 0 \in 0..MaxActiveRoutedStreams /\ 0 \in 0..MaxApplies
      BY LimitsAssumption
    <3> QED
      BY <3>1, <3>2, <3>3 DEF Init, TypeOK, ApplyStages, ServeStages
  <2>3. /\ InStages(Reserving) = {} /\ InStages({"running", "dropping"}) = {}
        /\ InStages({"opening"}) = {} /\ InStages({"assigned", "running"}) = {}
    BY DEF Init, InStages, Reserving
  <2>4. GateAccounting
    BY <2>3, FS_EmptySet DEF Init, GateAccounting
  <2> QED
    BY <2>2, <2>4 DEF GateInv
<1>2. GateInv /\ [Next]_vars => GateInv'
  <2> SUFFICES ASSUME GateInv, [Next]_vars PROVE GateInv'
    OBVIOUS
  <2>1. CASE UNCHANGED vars
    BY <2>1 DEF GateInv, TypeOK, GateAccounting, InStages, vars, visitorVars, gateVars,
                permitVars, applyVars, reportVars, serveVars
  <2>2. CASE Next
    BY <2>2, VisitorStepGateInv, OtherStepGateInv DEF Next
  <2> QED
    BY <2>1, <2>2
<1> QED
  BY <1>1, <1>2, PTL DEF Spec

(***************************************************************************)
(* Every variable of the model keeps its type; in particular no counter of *)
(* the gate or of the admission semaphores ever goes below zero or above   *)
(* its limit.                                                              *)
(***************************************************************************)
THEOREM TypeCorrect == Spec => []TypeOK
<1>1. GateInv => TypeOK
  BY DEF GateInv
<1> QED
  BY <1>1, GateInvariant, PTL

(***************************************************************************)
(* Reservations, records and permits are released exactly once on every    *)
(* path of a Visitor task, for any number of Visitors.                     *)
(***************************************************************************)
THEOREM AccountingCorrect == Spec => []GateAccounting
<1>1. GateInv => GateAccounting
  BY DEF GateInv
<1> QED
  BY <1>1, GateInvariant, PTL

-----------------------------------------------------------------------------
(***************************************************************************)
(* What a step of one Visitor task does to the records of all: it leaves   *)
(* the apply, the state document and the seal alone, changes no other      *)
(* record, and adds its own only unsealed and authorized by the snapshot   *)
(* that is live.                                                           *)
(***************************************************************************)
LEMMA VisitorStepRecords ==
  ASSUME GateInv, NEW CONSTANT v \in Visitors, VisitorStep(v)
  PROVE  /\ UNCHANGED <<applyVars, reportVars, sealed>>
         /\ \A u \in work' : /\ hostname'[u] = hostname[u]
                             /\ connection'[u] = connection[u]
                             /\ abort_requested'[u] = abort_requested[u]
         /\ \A u \in work' \ work : ~sealed /\ Authorized(u)
<1>1. /\ visitor_pc \in [Visitors -> VisitorStages]
      /\ hostname \in [Visitors -> Hostnames]
      /\ connection \in [Visitors -> Connections \cup {NoConnection}]
      /\ abort_requested \in [Visitors -> BOOLEAN]
  BY DEF GateInv, TypeOK
<1>2. /\ work \subseteq Visitors
      /\ v \in work => visitor_pc[v] \in {"running", "dropping"}
  BY DEF GateInv, TypeOK, GateAccounting, InStages
<1> USE DEF gateVars, permitVars, applyVars, reportVars, serveVars
<1>3. CASE BeginAdmission(v)
  BY <1>1, <1>2, <1>3 DEF BeginAdmission
<1>4. CASE RefuseAdmission(v)
  BY <1>1, <1>2, <1>4 DEF RefuseAdmission, ForgetRoute
<1>5. CASE RouteLookup(v)
  BY <1>1, <1>2, <1>5 DEF RouteLookup
<1>6. CASE RouteUnauthorized(v)
  BY <1>1, <1>2, <1>6 DEF RouteUnauthorized, ForgetRoute, DropAdmission
<1>7. CASE RouteSelect(v)
  BY <1>1, <1>2, <1>7 DEF RouteSelect
<1>8. CASE NoActiveTunnelConnection(v)
  BY <1>1, <1>2, <1>8 DEF NoActiveTunnelConnection, ForgetRoute, DropAdmission
<1>9. CASE StartOpen(v)
  BY <1>1, <1>2, <1>9 DEF StartOpen
<1>10. CASE StartOpenSaturated(v)
  BY <1>1, <1>2, <1>10 DEF StartOpenSaturated, ForgetRoute, DropAdmission
<1>11. CASE OpenSucceeds(v)
  BY <1>1, <1>2, <1>11 DEF OpenSucceeds
<1>12. CASE OpenFails(v)
  BY <1>1, <1>2, <1>12 DEF OpenFails, ForgetRoute, DropAdmission
<1>13. CASE RegisterActiveVisitorWork(v)
  BY <1>1, <1>2, <1>13 DEF RegisterActiveVisitorWork, RemainsCurrentAndAuthorized
<1>14. CASE RejectActiveVisitorWork(v)
  BY <1>1, <1>2, <1>14 DEF RejectActiveVisitorWork, ForgetRoute, DropAdmission
<1>15. CASE ProxyEnds(v)
  BY <1>1, <1>2, <1>15 DEF ProxyEnds
<1>16. CASE RemoveWork(v)
  BY <1>1, <1>2, <1>16 DEF RemoveWork, ForgetRoute
<1>17. CASE CancelReservation(v)
  BY <1>1, <1>2, <1>17 DEF CancelReservation, ForgetRoute, DropAdmission, Reserving
<1> QED
  BY <1>3, <1>4, <1>5, <1>6, <1>7, <1>8, <1>9,
     <1>10, <1>11, <1>12, <1>13, <1>14, <1>15, <1>16, <1>17 DEF VisitorStep

(***************************************************************************)
(* Authorization is a matter of the live snapshot, the Visitor's hostname  *)
(* and its connection.                                                     *)
(***************************************************************************)
LEMMA AuthorizedStable ==
  ASSUME NEW CONSTANT u, authorization' = authorization,
         hostname'[u] = hostname[u], connection'[u] = connection[u]
  PROVE  Authorized(u)' <=> Authorized(u)
BY DEF Authorized, Current, AuthorizedTogether, TunnelIndexForPublicHostname,
       TunnelIndexForClientIdentity

(***************************************************************************)
(* Once an apply has run to its end and until the next swap, every running *)
(* Visitor that was not told to abort is authorized by the live snapshot:  *)
(* for any inputs, no registration of an old route escapes a replacement.  *)
(***************************************************************************)
THEOREM PlacementSafe == Spec => []PlacedWorkAuthorized
<1>1. Init => PlacedWorkAuthorized
  BY DEF Init, PlacedWorkAuthorized
<1>2. GateInv /\ PlacedWorkAuthorized /\ [Next]_vars => PlacedWorkAuthorized'
  <2> SUFFICES ASSUME GateInv, PlacedWorkAuthorized, [Next]_vars,
                      apply_pc' \notin {"realigning", "resetting"},
                      ~interrupted',
                      NEW u \in work'
               PROVE  (abort_requested[u] \/ Authorized(u))'
    BY DEF PlacedWorkAuthorized
  <2>1. ASSUME NEW v \in Visitors, VisitorStep(v)
        PROVE  (abort_requested[u] \/ Authorized(u))'
    <3>1. /\ apply_pc' = apply_pc /\ authorization' = authorization
          /\ interrupted' = interrupted
          /\ hostname'[u] = hostname[u] /\ connection'[u] = connection[u]
          /\ abort_requested'[u] = abort_requested[u]
          /\ u \in work' \ work => Authorized(u)
      BY <2>1, VisitorStepRecords DEF applyVars
    <3>2. abort_requested[u] \/ Authorized(u)
      BY <3>1 DEF PlacedWorkAuthorized
    <3> QED
      BY <3>1, <3>2, AuthorizedStable
  <2>2. ASSUME ApplyStep \/ ReportStep \/ ServeStep,
               UNCHANGED <<authorization, apply_pc, interrupted, abort_requested>>
        PROVE  (abort_requested[u] \/ Authorized(u))'
    <3>1. u \in work /\ hostname'[u] = hostname[u] /\ connection'[u] = connection[u]
      BY <2>2, OtherStepGateInv DEF visitorVars
    <3>2. abort_requested[u] \/ Authorized(u)
      BY <2>2, <3>1 DEF PlacedWorkAuthorized
    <3> QED
      BY <2>2, <3>1, <3>2, AuthorizedStable
  <2>3. ASSUME ApplyStep, apply_pc \in {"sealing", "draining"},
               UNCHANGED <<authorization, interrupted, abort_requested>>
        PROVE  (abort_requested[u] \/ Authorized(u))'
    <3>1. u \in work /\ hostname'[u] = hostname[u] /\ connection'[u] = connection[u]
      BY <2>3, OtherStepGateInv DEF visitorVars
    <3>2. abort_requested[u] \/ Authorized(u)
      BY <2>3, <3>1 DEF PlacedWorkAuthorized
    <3> QED
      BY <2>3, <3>1, <3>2, AuthorizedStable
  <2>4. CASE \E input \in Inputs : RejectInput(input) \/ CommitSnapshot(input)
    <3>1. CASE \E input \in Inputs : RejectInput(input)
      BY <3>1, <2>2 DEF RejectInput, ApplyStep
    <3>2. CASE \E input \in Inputs : CommitSnapshot(input)
      BY <3>2 DEF CommitSnapshot
    <3> QED
      BY <2>4, <3>1, <3>2
  <2>5. CASE PoolsRealigned
    BY <2>5 DEF PoolsRealigned
  <2>6. CASE ResetStreams
    <3>1. u \in Visitors /\ u \in work /\ authorization' = authorization
          /\ hostname'[u] = hostname[u] /\ connection'[u] = connection[u]
      BY <2>6 DEF ResetStreams, gateVars, visitorVars, GateInv, TypeOK
    <3>2. abort_requested'[u] <=> (abort_requested[u] \/ ~Authorized(u))
      BY <2>6, <3>1 DEF ResetStreams
    <3> QED
      BY <3>1, <3>2, AuthorizedStable
  <2>7. CASE SealForDrain
    BY <2>7, <2>3 DEF SealForDrain, ApplyStep
  <2>8. CASE BeginDrain
    BY <2>8, <2>3 DEF BeginDrain, ApplyStep
  <2>9. CASE ReportStep
    BY <2>9, <2>2 DEF ReportStep, ReportDraining, ReportVisitors, applyVars
  <2>10. CASE ServeStep
    BY <2>10, <2>2 DEF ServeStep, ServeSeal, WaitEnable, WaitCheck, WaitWake, ServeAbort,
                       ServeJoin, applyVars
  <2>11. CASE UNCHANGED vars
    <3>1. /\ work' = work /\ apply_pc' = apply_pc /\ authorization' = authorization
          /\ hostname' = hostname /\ connection' = connection
          /\ abort_requested' = abort_requested /\ interrupted' = interrupted
      BY <2>11 DEF vars, gateVars, applyVars, visitorVars
    <3>2. abort_requested[u] \/ Authorized(u)
      BY <3>1 DEF PlacedWorkAuthorized
    <3> QED
      BY <3>1, <3>2, AuthorizedStable
  <2>12. CASE AbandonApply
    BY <2>12 DEF AbandonApply
  <2> QED
    BY <2>1, <2>4, <2>5, <2>6, <2>7, <2>8, <2>9, <2>10, <2>11, <2>12 DEF Next, ApplyStep
<1> QED
  BY <1>1, <1>2, GateInvariant, PTL DEF Spec

(***************************************************************************)
(* A Visitor is only ever placed by a step in which the live snapshot      *)
(* authorizes it, inside an apply's window as well as outside it.          *)
(***************************************************************************)
THEOREM PlacementUsesLiveSnapshot == Spec => NewWorkUsesLiveSnapshot
<1>1. GateInv /\ [Next]_vars => [\A v \in work' \ work : Authorized(v)]_vars
  <2> SUFFICES ASSUME GateInv, Next PROVE \A u \in work' \ work : Authorized(u)
    OBVIOUS
  <2>1. CASE \E v \in Visitors : VisitorStep(v)
    BY <2>1, VisitorStepRecords
  <2>2. CASE ApplyStep \/ ReportStep \/ ServeStep
    BY <2>2, OtherStepGateInv
  <2> QED
    BY <2>1, <2>2 DEF Next
<1> QED
  BY <1>1, GateInvariant, PTL DEF Spec, NewWorkUsesLiveSnapshot

(***************************************************************************)
(* A replacement aborts nobody whom the new snapshot authorizes: an abort  *)
(* comes only from the scan, and the scan reads the snapshot in force      *)
(* (reset_streams_matching).                                               *)
(***************************************************************************)
THEOREM AuthorizedWorkKept == Spec => AuthorizedWorkSurvives
<1> USE DEF vars, applyVars, reportVars, serveVars
<1>1. GateInv /\ [Next]_vars
        => [\A v \in work : (abort_requested'[v] /\ ~abort_requested[v]) => ~Authorized(v)]_vars
  <2> SUFFICES ASSUME GateInv, Next, NEW v \in work,
                      abort_requested'[v], ~abort_requested[v]
               PROVE  ~Authorized(v)
    OBVIOUS
  <2>0. v \in Visitors /\ abort_requested \in [Visitors -> BOOLEAN]
    BY DEF GateInv, TypeOK
  <2>1. ResetStreams
    <3>1. CASE \E w \in Visitors : VisitorStep(w)
      BY <2>0, <3>1
         DEF VisitorStep, BeginAdmission, RefuseAdmission, RouteLookup, RouteUnauthorized,
             RouteSelect, NoActiveTunnelConnection, StartOpen, StartOpenSaturated,
             OpenSucceeds, OpenFails, RegisterActiveVisitorWork, RejectActiveVisitorWork,
             ProxyEnds, RemoveWork, CancelReservation
    <3>2. CASE ApplyStep
      BY <3>2 DEF ApplyStep, RejectInput, CommitSnapshot, PoolsRealigned, AbandonApply,
           SealForDrain, BeginDrain
    <3>3. CASE ReportStep \/ ServeStep
      BY <3>3 DEF ReportStep, ReportDraining, ReportVisitors, ServeStep, ServeSeal,
           WaitEnable, WaitCheck, WaitWake, ServeAbort, ServeJoin
    <3> QED
      BY <3>1, <3>2, <3>3 DEF Next
  <2> QED
    BY <2>0, <2>1 DEF ResetStreams
<1> QED
  BY <1>1, GateInvariant, PTL DEF Spec, AuthorizedWorkSurvives

-----------------------------------------------------------------------------
(***************************************************************************)
(* The inductive invariant behind reported quiescence: `draining` is never *)
(* visible, nor read into a document, before the gate is sealed, and a     *)
(* sealed gate without records stays without records.                      *)
(***************************************************************************)
DrainInv ==
  /\ draining => sealed
  /\ apply_pc = "draining" => sealed
  /\ report_draining => sealed
  /\ reported_quiescent => sealed /\ work = {}

(***************************************************************************)
(* Once a state document has said `draining` with zero visitors, no        *)
(* Visitor is ever placed again.                                           *)
(***************************************************************************)
THEOREM ReportedQuiescenceSafe == Spec => []ReportedQuiescenceIsFinal
<1>1. Init => DrainInv
  BY DEF Init, DrainInv
<1>2. GateInv /\ DrainInv /\ [Next]_vars => DrainInv'
  <2> SUFFICES ASSUME GateInv, DrainInv, [Next]_vars PROVE DrainInv'
    OBVIOUS
  <2>1. ASSUME NEW v \in Visitors, VisitorStep(v) PROVE DrainInv'
    <3>1. /\ UNCHANGED <<applyVars, reportVars, sealed>>
          /\ sealed => work' \subseteq work
      BY <2>1, VisitorStepRecords
    <3> QED
      BY <3>1 DEF DrainInv, applyVars, reportVars
  <2>2. ASSUME ApplyStep \/ ReportStep \/ ServeStep PROVE work' = work
    BY <2>2, OtherStepGateInv
  <2>3. CASE ApplyStep
    BY <2>3, <2>2 DEF ApplyStep, DrainInv, RejectInput, CommitSnapshot, PoolsRealigned,
       AbandonApply, ResetStreams, SealForDrain, BeginDrain, gateVars, reportVars
  <2>4. CASE ReportDraining
    BY <2>4 DEF DrainInv, ReportDraining, gateVars, applyVars
  <2>5. CASE ReportVisitors
    <3>1. IsFiniteSet(work)
      BY VisitorsAssumption, FS_Subset DEF GateInv, TypeOK
    <3>2. Cardinality(work) = 0 => work = {}
      BY <3>1, FS_EmptySet
    <3> QED
      BY <2>5, <3>2 DEF DrainInv, ReportVisitors, gateVars, applyVars
  <2>6. CASE ServeStep
    BY <2>6, <2>2 DEF ServeStep, DrainInv, ServeSeal, WaitEnable, WaitCheck, WaitWake,
       ServeAbort, ServeJoin, gateVars, applyVars, reportVars
  <2>7. CASE UNCHANGED vars
    BY <2>7 DEF DrainInv, vars, gateVars, applyVars, reportVars
  <2> QED
    BY <2>1, <2>3, <2>4, <2>5, <2>6, <2>7 DEF Next, ReportStep
<1>3. DrainInv => ReportedQuiescenceIsFinal
  BY DEF DrainInv, ReportedQuiescenceIsFinal
<1> QED
  BY <1>1, <1>2, <1>3, GateInvariant, PTL DEF Spec
=============================================================================
