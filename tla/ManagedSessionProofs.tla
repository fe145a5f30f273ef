------------------------ MODULE ManagedSessionProofs ------------------------
(***************************************************************************)
(* Theorems about ManagedSession for every set of revisions, both roles    *)
(* and every number of publications, failures and changes of facts.        *)
(***************************************************************************)
EXTENDS ManagedSession, SequenceTheorems, TLAPS

(***************************************************************************)
(* An apply between its start and its result: the input handed to the role *)
(* is the last in the inbox until the role has taken it, and the outcome   *)
(* tells what the role did with it.  An apply that was dropped leaves      *)
(* inputs in the Client's inbox, which the role takes first.               *)
(***************************************************************************)
ApplyInv ==
  /\ applying = NoRevision => outcome = "none"
  /\ applying # NoRevision /\ outcome = "none" =>
       /\ inbox # <<>> /\ inbox[Len(inbox)] = applying
       /\ ~abandoned => Len(inbox) = 1 /\ applied = live
  /\ outcome # "none" => inbox = <<>>
  /\ outcome = "ok" => live = applying /\ live \in ever_live
  /\ outcome = "err" /\ ~abandoned => applied = live
  /\ applied # NoRevision => applied \in ever_live

Inv == SessionTruthful /\ ApplyInv

-----------------------------------------------------------------------------
(***************************************************************************)
(* drive_report keeps the types and starts a document only for the         *)
(* revision that its caller names.                                         *)
(***************************************************************************)
LEMMA Driven ==
  ASSUME NEW rev \in MaybeRevision, NEW is_pending \in BOOLEAN, NEW is_spaced \in BOOLEAN,
         NEW flight \in Documents \cup {NoDocument},
         DriveReport(rev, is_pending, flight, is_spaced)
  PROVE  /\ revision' = rev
         /\ report_pending' \in BOOLEAN
         /\ in_flight' \in Documents \cup {NoDocument}
         /\ spaced' \in BOOLEAN
         /\ in_flight' # NoDocument =>
              in_flight' = flight \/ (in_flight'.revision = rev /\ rev # NoRevision)
<1>1. 0 \in 0..MaxFacts
  BY BoundsAssumption
<1> QED
  BY <1>1 DEF DriveReport, Documents, MaybeRevision

\* A state document is not the absent one.
LEMMA DocumentExists ==
  ASSUME NEW d \in Documents
  PROVE  d # NoDocument
BY NoRevisionAssumption DEF Documents, NoDocument

(***************************************************************************)
(* Control, and connections that come and go.                              *)
(***************************************************************************)
LEMMA ControlStep ==
  ASSUME Inv,
         \/ \E r \in Revisions : Publish(r)
         \/ Connect \/ FailConnection \/ StopSession
         \/ \E r \in Revisions : AcceptOverLimit(r)
  PROVE  Inv'
<1> USE DEF Inv, SessionTruthful, controlVars, queueVars, reportVars, roleVars
<1>1. ASSUME NEW r \in Revisions, Publish(r) PROVE Inv'
  <2> USE <1>1 DEF Publish
  <2>1. TypeOK'
    BY AppendProperties DEF TypeOK
  <2>2. OnlyAppliedReported'
    BY DEF OnlyAppliedReported
  <2>3. AppliedIsLive'
    BY DEF AppliedIsLive
  <2>4. ApplyInv'
    BY DEF ApplyInv
  <2> QED
    BY <2>1, <2>2, <2>3, <2>4
<1>2. CASE Connect
  <2> USE <1>2 DEF Connect
  <2>a. wire' \in Seq(Revisions)
    BY ElementOfSeq, LenProperties, EmptySeq DEF TypeOK, Desired
  <2>1. TypeOK'
    BY <2>a DEF TypeOK
  <2>2. OnlyAppliedReported'
    BY DEF OnlyAppliedReported
  <2>3. AppliedIsLive'
    BY DEF AppliedIsLive
  <2>4. ApplyInv'
    BY DEF ApplyInv
  <2> QED
    BY <2>1, <2>2, <2>3, <2>4
<1>3. CASE DropConnection /\ conn' \in {"down", "stopped"} /\ failures' \in 0..MaxFailures
  <2> USE <1>3 DEF DropConnection
  <2>a. /\ wire' \in Seq(Revisions) /\ chunk' \in Seq(Revisions) /\ inbox' \in Seq(Revisions)
    BY EmptySeq DEF TypeOK
  <2>1. TypeOK'
    BY <2>a DEF TypeOK, MaybeRevision
  <2>2. OnlyAppliedReported'
    BY DEF OnlyAppliedReported
  <2>3. AppliedIsLive'
    BY DEF AppliedIsLive
  <2>4. ApplyInv'
    BY DEF ApplyInv
  <2> QED
    BY <2>1, <2>2, <2>3, <2>4
<1>4. FailConnection => failures' \in 0..MaxFailures
  BY BoundsAssumption DEF FailConnection, TypeOK
<1> QED
  BY <1>1, <1>2, <1>3, <1>4 DEF FailConnection, StopSession, AcceptOverLimit, TypeOK

(***************************************************************************)
(* The state documents: every one is started for the applied revision.     *)
(***************************************************************************)
LEMMA ReportStep ==
  ASSUME Inv, Report \/ SpacingElapses \/ RoleStateChanged \/ FactChanges
  PROVE  Inv'
<1> USE BoundsAssumption DEF Inv, SessionTruthful, controlVars, queueVars, reportVars, roleVars
<1>a. /\ revision \in MaybeRevision /\ report_pending \in BOOLEAN /\ spaced \in BOOLEAN
      /\ in_flight \in Documents \cup {NoDocument} /\ NoDocument \in Documents \cup {NoDocument}
      /\ revision # NoRevision => revision \in ever_live
  BY DEF TypeOK, OnlyAppliedReported, ApplyInv
<1>1. CASE RenderDocument
  <2> USE <1>1 DEF RenderDocument
  <2>a. /\ in_flight' \in Documents /\ in_flight'.revision = in_flight.revision
    BY DEF TypeOK, Documents
  <2>1. TypeOK'
    BY <2>a DEF TypeOK
  <2>2. OnlyAppliedReported'
    BY <2>a DEF OnlyAppliedReported
  <2>3. AppliedIsLive'
    BY DEF AppliedIsLive
  <2>4. ApplyInv'
    BY DEF ApplyInv
  <2> QED
    BY <2>1, <2>2, <2>3, <2>4
<1>2. CASE ReportFinished
  <2> USE <1>2 DEF ReportFinished
  <2>a. /\ revision' = revision /\ report_pending' \in BOOLEAN /\ spaced' \in BOOLEAN
        /\ in_flight' \in Documents \cup {NoDocument}
        /\ in_flight' # NoDocument =>
             in_flight' = NoDocument \/ (in_flight'.revision = revision /\ revision # NoRevision)
    BY <1>a, Driven
  <2>1. TypeOK'
    BY <1>a, <2>a DEF TypeOK
  <2>2. OnlyAppliedReported'
    BY <1>a, <2>a DEF OnlyAppliedReported
  <2>3. AppliedIsLive'
    BY DEF AppliedIsLive
  <2>4. ApplyInv'
    BY DEF ApplyInv
  <2> QED
    BY <2>1, <2>2, <2>3, <2>4
<1>3. CASE SpacingElapses
  <2> USE <1>3 DEF SpacingElapses
  <2>a. /\ revision' = revision /\ report_pending' \in BOOLEAN /\ spaced' \in BOOLEAN
        /\ in_flight' \in Documents \cup {NoDocument}
        /\ in_flight' # NoDocument =>
             in_flight' = in_flight \/ (in_flight'.revision = revision /\ revision # NoRevision)
    BY <1>a, Driven
  <2>1. TypeOK'
    BY <1>a, <2>a DEF TypeOK
  <2>2. OnlyAppliedReported'
    BY <1>a, <2>a DEF OnlyAppliedReported
  <2>3. AppliedIsLive'
    BY DEF AppliedIsLive
  <2>4. ApplyInv'
    BY DEF ApplyInv
  <2> QED
    BY <2>1, <2>2, <2>3, <2>4
<1>4. CASE RoleStateChanged
  <2> USE <1>4 DEF RoleStateChanged
  <2>a. /\ revision' = revision /\ report_pending' \in BOOLEAN /\ spaced' \in BOOLEAN
        /\ in_flight' \in Documents \cup {NoDocument}
        /\ in_flight' # NoDocument =>
             in_flight' = in_flight \/ (in_flight'.revision = revision /\ revision # NoRevision)
    BY <1>a, Driven
  <2>1. TypeOK'
    BY <1>a, <2>a DEF TypeOK
  <2>2. OnlyAppliedReported'
    BY <1>a, <2>a DEF OnlyAppliedReported
  <2>3. AppliedIsLive'
    BY DEF AppliedIsLive
  <2>4. ApplyInv'
    BY DEF ApplyInv
  <2> QED
    BY <2>1, <2>2, <2>3, <2>4
<1>5. CASE FactChanges
  <2> USE <1>5 DEF FactChanges
  <2>1. TypeOK'
    BY DEF TypeOK
  <2>2. OnlyAppliedReported'
    BY DEF OnlyAppliedReported
  <2>3. AppliedIsLive'
    BY DEF AppliedIsLive
  <2>4. ApplyInv'
    BY DEF ApplyInv
  <2> QED
    BY <2>1, <2>2, <2>3, <2>4
<1> QED
  BY <1>1, <1>2, <1>3, <1>4, <1>5 DEF Report

(***************************************************************************)
(* Snapshots on their way from the wire into an apply and out of it.       *)
(***************************************************************************)
LEMMA SnapshotStep ==
  ASSUME Inv,
         \/ ReadChunk
         \/ \E r \in Revisions : AcceptEqual(r) \/ AcceptInvalid(r) \/ NoteSnapshot(r)
         \/ TakeEqual \/ StartApply \/ FinishApply
  PROVE  Inv'
<1> USE DEF Inv, SessionTruthful, controlVars, queueVars, reportVars, roleVars
<1>a. /\ revision \in MaybeRevision /\ report_pending \in BOOLEAN /\ spaced \in BOOLEAN
      /\ in_flight \in Documents \cup {NoDocument}
      /\ applied \in MaybeRevision /\ (applied # NoRevision => applied \in ever_live)
      /\ chunk # <<>> => Tail(chunk) \in Seq(Revisions)
  BY HeadTailProperties DEF TypeOK, ApplyInv
<1>1. CASE ReadChunk
  <2> USE <1>1 DEF ReadChunk
  <2>a. chunk' \in Seq(Revisions) /\ wire' \in Seq(Revisions)
    <3>1. PICK n \in 1..MaxChunk : /\ n <= Len(wire)
                                   /\ chunk' = SubSeq(wire, 1, n)
                                   /\ wire' = SubSeq(wire, n + 1, Len(wire))
      OBVIOUS
    <3>2. wire \in Seq(Revisions) /\ Len(wire) \in Nat /\ n \in Nat
      BY LenProperties, BoundsAssumption DEF TypeOK
    <3>3. \A i \in 1..Len(wire) : wire[i] \in Revisions
      BY <3>2, ElementOfSeq
    <3> QED
      BY <3>1, <3>2, <3>3, SubSeqProperties
  <2>1. TypeOK'
    BY <2>a DEF TypeOK
  <2>2. OnlyAppliedReported'
    BY DEF OnlyAppliedReported
  <2>3. AppliedIsLive'
    BY DEF AppliedIsLive
  <2>4. ApplyInv'
    BY DEF ApplyInv
  <2> QED
    BY <2>1, <2>2, <2>3, <2>4
<1>2. ASSUME NEW r \in Revisions, AcceptEqual(r) PROVE Inv'
  <2> USE <1>2 DEF AcceptEqual, Accepting, EqualWhileIdle
  <2>a. /\ revision' = r /\ report_pending' \in BOOLEAN /\ spaced' \in BOOLEAN
        /\ in_flight' \in Documents \cup {NoDocument}
        /\ in_flight' # NoDocument =>
             in_flight' = in_flight \/ (in_flight'.revision = r /\ r # NoRevision)
    BY <1>a, Driven DEF ScheduleReport, MaybeRevision, TypeOK
  <2>1. TypeOK'
    BY <1>a, <2>a DEF TypeOK, MaybeRevision
  <2>2. OnlyAppliedReported'
    BY <1>a, <2>a DEF OnlyAppliedReported
  <2>3. AppliedIsLive'
    BY DEF AppliedIsLive
  <2>4. ApplyInv'
    BY DEF ApplyInv
  <2> QED
    BY <2>1, <2>2, <2>3, <2>4
<1>3. ASSUME NEW r \in Revisions, AcceptInvalid(r) PROVE Inv'
  <2> USE <1>3 DEF AcceptInvalid, Accepting
  <2>1. TypeOK'
    BY <1>a DEF TypeOK
  <2>2. OnlyAppliedReported'
    BY DEF OnlyAppliedReported
  <2>3. AppliedIsLive'
    BY DEF AppliedIsLive
  <2>4. ApplyInv'
    BY DEF ApplyInv
  <2> QED
    BY <2>1, <2>2, <2>3, <2>4
<1>4. ASSUME NEW r \in Revisions, NoteSnapshot(r) PROVE Inv'
  <2> USE <1>4 DEF NoteSnapshot, Accepting
  <2>1. TypeOK'
    BY <1>a DEF TypeOK, MaybeRevision
  <2>2. OnlyAppliedReported'
    BY DEF OnlyAppliedReported
  <2>3. AppliedIsLive'
    BY DEF AppliedIsLive
  <2>4. ApplyInv'
    BY DEF ApplyInv
  <2> QED
    BY <2>1, <2>2, <2>3, <2>4
<1>5. CASE TakeEqual
  <2> USE <1>5 DEF TakeEqual, Taking
  <2>a. /\ revision' = pending /\ report_pending' \in BOOLEAN /\ spaced' \in BOOLEAN
        /\ in_flight' \in Documents \cup {NoDocument}
        /\ in_flight' # NoDocument =>
             in_flight' = in_flight \/ (in_flight'.revision = pending /\ pending # NoRevision)
    BY <1>a, Driven DEF ScheduleReport, MaybeRevision, TypeOK
  <2>1. TypeOK'
    BY <1>a, <2>a DEF TypeOK, MaybeRevision
  <2>2. OnlyAppliedReported'
    BY <1>a, <2>a DEF OnlyAppliedReported
  <2>3. AppliedIsLive'
    BY DEF AppliedIsLive
  <2>4. ApplyInv'
    BY DEF ApplyInv
  <2> QED
    BY <2>1, <2>2, <2>3, <2>4
<1>6. CASE StartApply
  <2> USE <1>6 DEF StartApply, Taking
  <2>a. /\ inbox \in Seq(Revisions) /\ pending \in Revisions
        /\ outcome = "none" /\ (~abandoned => applied = live /\ inbox = <<>>)
    BY DEF TypeOK, MaybeRevision, ApplyInv, AppliedIsLive
  <2>b. /\ inbox' \in Seq(Revisions) /\ Len(inbox') = Len(inbox) + 1 /\ inbox' # <<>>
        /\ inbox'[Len(inbox')] = pending
    BY <2>a, AppendProperties
  <2>c. ~abandoned => Len(inbox') = 1
    BY <2>a, <2>b
  <2>1. TypeOK'
    BY <2>a, <2>b DEF TypeOK, MaybeRevision
  <2>2. OnlyAppliedReported'
    BY <2>a DEF OnlyAppliedReported
  <2>3. AppliedIsLive'
    BY <2>a DEF AppliedIsLive
  <2>4. ApplyInv'
    BY <2>a, <2>b, <2>c DEF ApplyInv
  <2> QED
    BY <2>1, <2>2, <2>3, <2>4
<1>7. CASE FinishApply /\ outcome = "ok"
  <2> USE <1>7 DEF FinishApply
  <2>b. applying \in ever_live /\ applying = live /\ inbox = <<>> /\ applying # NoRevision
    BY DEF ApplyInv
  <2>a. /\ revision' = applying /\ report_pending' \in BOOLEAN /\ spaced' \in BOOLEAN
        /\ in_flight' \in Documents \cup {NoDocument}
        /\ in_flight' # NoDocument =>
             in_flight' = in_flight \/ (in_flight'.revision = applying /\ applying # NoRevision)
    BY <1>a, Driven DEF ScheduleReport, MaybeRevision, TypeOK
  <2>1. TypeOK'
    BY <1>a, <2>a, <2>b DEF TypeOK, MaybeRevision
  <2>2. OnlyAppliedReported'
    BY <1>a, <2>a, <2>b DEF OnlyAppliedReported
  <2>3. AppliedIsLive'
    BY <2>b DEF AppliedIsLive
  <2>4. ApplyInv'
    BY <2>b DEF ApplyInv
  <2> QED
    BY <2>1, <2>2, <2>3, <2>4
<1>8. CASE FinishApply /\ outcome # "ok"
  <2> USE <1>8 DEF FinishApply
  <2>a. outcome = "err"
    BY DEF TypeOK
  <2>1. TypeOK'
    BY <2>a DEF TypeOK, MaybeRevision
  <2>2. OnlyAppliedReported'
    BY DEF OnlyAppliedReported
  <2>3. AppliedIsLive'
    BY <2>a DEF AppliedIsLive, ApplyInv
  <2>4. ApplyInv'
    BY <2>a DEF ApplyInv
  <2> QED
    BY <2>1, <2>2, <2>3, <2>4
<1> QED
  BY <1>1, <1>2, <1>3, <1>4, <1>5, <1>6, <1>7, <1>8

(***************************************************************************)
(* The role takes its next input.  Only the last one can have an apply     *)
(* waiting, and when nothing was dropped it is the only one.               *)
(***************************************************************************)
LEMMA RoleStep ==
  ASSUME Inv, RoleApplies
  PROVE  Inv'
<1> USE DEF Inv, SessionTruthful, controlVars, queueVars, reportVars, roleVars
<1> DEFINE r == Head(inbox)
           refuses == role = "server" /\ r \in Refused
<1>1. /\ inbox \in Seq(Revisions) /\ inbox # <<>> /\ inbox' = Tail(inbox)
      /\ live' = (IF refuses THEN live ELSE r)
      /\ ever_live' = (IF refuses THEN ever_live ELSE ever_live \cup {r})
      /\ outcome' = IF applying # NoRevision /\ Len(inbox) = 1
                    THEN (IF refuses THEN "err" ELSE "ok")
                    ELSE outcome
      /\ UNCHANGED <<role, controlVars, chunk, pending, applying, reportVars, applied,
                     facts, changed, abandoned>>
  BY DEF RoleApplies, TypeOK
<1>2. /\ r = inbox[1] /\ r \in Revisions /\ Len(inbox) \in Nat /\ Len(inbox) >= 1
      /\ Tail(inbox) \in Seq(Revisions) /\ Len(Tail(inbox)) = Len(inbox) - 1
      /\ \A i \in 1..Len(Tail(inbox)) : Tail(inbox)[i] = inbox[i + 1]
  BY <1>1, HeadTailProperties, EmptySeq, LenProperties, ElementOfSeq
<1> HIDE DEF r, refuses
<1>3. outcome = "none"
  BY <1>1 DEF ApplyInv, TypeOK
<1>4. TypeOK'
  BY <1>1, <1>2 DEF TypeOK, MaybeRevision
<1>5. OnlyAppliedReported'
  BY <1>1 DEF OnlyAppliedReported
<1>6. AppliedIsLive'
  BY <1>1 DEF AppliedIsLive
<1>7. ApplyInv'
  <2>1. CASE applying = NoRevision
    BY <1>1, <1>3, <2>1 DEF ApplyInv
  <2>2. CASE applying # NoRevision /\ Len(inbox) = 1
    <3>1. inbox' = <<>>
      BY <1>1, <1>2, <2>2, EmptySeq
    <3>2. r = applying
      BY <1>2, <1>3, <2>2 DEF ApplyInv
    <3> QED
      BY <1>1, <1>3, <2>2, <3>1, <3>2 DEF ApplyInv
  <2>3. CASE applying # NoRevision /\ Len(inbox) # 1
    <3>1. Len(inbox') \in Nat /\ Len(inbox') >= 1 /\ inbox' # <<>>
      <4>1. Len(inbox') = Len(inbox) - 1
        BY <1>1, <1>2
      <4>2. Len(inbox') \in Nat /\ Len(inbox') >= 1
        BY <1>2, <2>3, <4>1
      <4> QED
        BY <4>2, EmptySeq
    <3>2. inbox'[Len(inbox')] = inbox[Len(inbox)]
      BY <1>1, <1>2, <3>1
    <3> QED
      BY <1>1, <1>3, <2>3, <3>1, <3>2 DEF ApplyInv
  <2> QED
    BY <2>1, <2>2, <2>3
<1> QED
  BY <1>4, <1>5, <1>6, <1>7

-----------------------------------------------------------------------------
\* A session starts with nothing applied and nothing in flight.
LEMMA InvInit == Init => Inv
<1> SUFFICES ASSUME Init PROVE Inv
  OBVIOUS
<1> USE DEF Init
<1>1. 0 \in 0..MaxFailures /\ 0 \in 0..MaxFacts
  BY BoundsAssumption
<1>2. published \in Seq(Revisions) /\ wire \in Seq(Revisions) /\ chunk \in Seq(Revisions)
      /\ inbox \in Seq(Revisions)
  BY EmptySeq
<1>3. TypeOK
  BY <1>1, <1>2 DEF TypeOK, MaybeRevision
<1>4. OnlyAppliedReported /\ AppliedIsLive /\ ApplyInv
  BY DEF OnlyAppliedReported, AppliedIsLive, ApplyInv
<1> QED
  BY <1>3, <1>4 DEF Inv, SessionTruthful

\* Every step keeps the invariant.
LEMMA InvStep == Inv /\ [Next]_vars => Inv'
<1> SUFFICES ASSUME Inv, [Next]_vars PROVE Inv'
  OBVIOUS
<1>1. CASE UNCHANGED vars
  BY <1>1 DEF vars, controlVars, queueVars, reportVars, roleVars, Inv, SessionTruthful, TypeOK,
              OnlyAppliedReported, AppliedIsLive, ApplyInv
<1> QED
  BY <1>1, ControlStep, ReportStep, SnapshotStep, RoleStep DEF Next, Accept

(***************************************************************************)
(* What the Managed session remembers and tells Control is true of the     *)
(* role: a document names a revision that has been in force, and the       *)
(* remembered revision is the input in force, over rollbacks, refusals and *)
(* reconnections, until an apply is dropped and another one has finished.  *)
(***************************************************************************)
THEOREM SessionSafe == Spec => []SessionTruthful
<1>1. Inv => SessionTruthful
  BY DEF Inv
<1> QED
  BY <1>1, InvInit, InvStep, PTL DEF Spec
=============================================================================
