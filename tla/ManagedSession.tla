--------------------------- MODULE ManagedSession ---------------------------
(***************************************************************************)
(* The Managed session: snapshots of the desired state come down from      *)
(* Control, are applied one at a time by a role (Server or Client), and    *)
(* state documents go back up.  Each connection has its own queue and      *)
(* report state; the applied revision outlives connections.                *)
(*                                                                         *)
(*   - ManagedSession::run (src/managed_session/session.rs);               *)
(*   - ConnectionLifecycle (src/managed_session/lifecycle.rs);             *)
(*   - SnapshotQueue, AppliedRevision (src/managed_session/reconcile.rs);  *)
(*   - what each RoleAdapter::apply does when its future is dropped.       *)
(*                                                                         *)
(* A snapshot is named by its revision.  Deadlines, transport errors and   *)
(* refused state documents all fail the connection, at any time.           *)
(***************************************************************************)
EXTENDS Naturals, Sequences

CONSTANTS Revisions,       \* revisions that Control may publish
          NoRevision,
          Invalid,         \* parse_input rejects them
          OverLimit,       \* parse_input finds a limit exceeded
          Refused,         \* the Server's apply returns an error
          MaxPublishes,    \* bound: snapshots that Control publishes
          MaxChunk,        \* bound: snapshots in one chunk of the downlink
          MaxFailures,     \* bound: connections that fail
          MaxFacts         \* bound: changes of the role's reported facts

ASSUME NoRevisionAssumption == NoRevision \notin Revisions
ASSUME InputsAssumption ==
  Invalid \cup OverLimit \cup Refused \subseteq Revisions
ASSUME BoundsAssumption ==
  {MaxPublishes, MaxChunk, MaxFailures, MaxFacts} \subseteq Nat

VARIABLES
  role,            \* "server" or "client", fixed
  \* Control and the wire.
  published,       \* the snapshots Control has published, oldest first
  wire,            \* snapshots on the downlink
  conn,            \* the connection to Control
  failures,
  acknowledged,    \* the last document Control has acknowledged
  \* ConnectionLifecycle.
  chunk,           \* events of the chunk being ingested
  pending,         \* SnapshotQueue::pending
  applying,        \* the revision in apply, if any
  outcome,         \* the result the apply future is about to return
  revision, report_pending, in_flight,    \* ReportState
  spaced,          \* STATE_REQUEST_SPACING has passed since last_started
  \* The process.
  applied,         \* AppliedRevision
  \* The role.
  inbox,           \* inputs handed to the role
  live,            \* the input in force
  facts, changed,  \* reported facts (a version), the Notify permit
  abandoned,       \* history: the last apply to start was dropped
  ever_live        \* history: inputs that have been in force

controlVars == <<published, wire, conn, failures, acknowledged>>
queueVars   == <<pending, applying, outcome>>
reportVars  == <<revision, report_pending, in_flight, spaced>>
roleVars    == <<inbox, live, facts, changed, ever_live>>
vars == <<role, controlVars, chunk, queueVars, reportVars, applied, roleVars, abandoned>>

Documents == [revision: Revisions, rendered: BOOLEAN, facts: 0..MaxFacts]
NoDocument == [revision |-> NoRevision, rendered |-> FALSE, facts |-> 0]
MaybeRevision == Revisions \cup {NoRevision}

TypeOK ==
  /\ role \in {"server", "client"}
  /\ published \in Seq(Revisions)
  /\ wire \in Seq(Revisions)
  /\ conn \in {"down", "up", "stopped"}
  /\ failures \in 0..MaxFailures
  /\ acknowledged \in Documents \cup {NoDocument}
  /\ chunk \in Seq(Revisions)
  /\ pending \in MaybeRevision
  /\ applying \in MaybeRevision
  /\ outcome \in {"none", "ok", "err"}
  /\ revision \in MaybeRevision
  /\ report_pending \in BOOLEAN
  /\ in_flight \in Documents \cup {NoDocument}
  /\ spaced \in BOOLEAN
  /\ applied \in MaybeRevision
  /\ inbox \in Seq(Revisions)
  /\ live \in MaybeRevision
  /\ facts \in 0..MaxFacts
  /\ changed \in BOOLEAN
  /\ abandoned \in BOOLEAN
  /\ ever_live \subseteq Revisions

Init ==
  /\ role \in {"server", "client"}
  /\ published = <<>>
  /\ wire = <<>>
  /\ conn = "down"
  /\ failures = 0
  /\ acknowledged = NoDocument
  /\ chunk = <<>>
  /\ pending = NoRevision
  /\ applying = NoRevision
  /\ outcome = "none"
  /\ revision = NoRevision
  /\ report_pending = FALSE
  /\ in_flight = NoDocument
  /\ spaced = TRUE
  /\ applied = NoRevision
  /\ inbox = <<>>
  /\ live = NoRevision
  /\ facts = 0
  /\ changed = FALSE
  /\ abandoned = FALSE
  /\ ever_live = {}

-----------------------------------------------------------------------------
\* Control, and the connection to it.

Desired == IF published = <<>> THEN NoRevision ELSE published[Len(published)]

Publish(r) ==
  /\ Len(published) < MaxPublishes
  /\ r # Desired
  /\ published' = Append(published, r)
  /\ wire' = IF conn = "up" THEN Append(wire, r) ELSE wire
  /\ UNCHANGED <<role, conn, failures, acknowledged, chunk, queueVars, reportVars, applied,
                 roleVars, abandoned>>

\* The downlink of a new connection begins with the current snapshot.
Connect ==
  /\ conn = "down"
  /\ conn' = "up"
  /\ wire' = IF published = <<>> THEN <<>> ELSE <<Desired>>
  /\ UNCHANGED <<role, published, failures, acknowledged, chunk, queueVars, reportVars,
                 applied, roleVars, abandoned>>

(***************************************************************************)
(* The lifecycle is dropped with everything it owns, the apply future      *)
(* included.  What the Server's future had not committed never happens;    *)
(* the Client's input is already in the Address controller's channel.      *)
(***************************************************************************)
DropConnection ==
  /\ wire' = <<>>
  /\ chunk' = <<>>
  /\ pending' = NoRevision
  /\ applying' = NoRevision
  /\ outcome' = "none"
  /\ revision' = NoRevision
  /\ report_pending' = FALSE
  /\ in_flight' = NoDocument
  /\ spaced' = TRUE
  /\ inbox' = IF role = "server" THEN <<>> ELSE inbox
  /\ abandoned' = (abandoned \/ applying # NoRevision)
  /\ UNCHANGED <<role, published, acknowledged, applied, live, facts, changed, ever_live>>

FailConnection ==
  /\ conn = "up"
  /\ failures < MaxFailures
  /\ failures' = failures + 1
  /\ conn' = "down"
  /\ DropConnection

StopSession ==
  /\ conn # "stopped"
  /\ conn' = "stopped"
  /\ DropConnection
  /\ UNCHANGED failures

-----------------------------------------------------------------------------
\* ReportState.

(***************************************************************************)
(* drive_report, from the values the calling step leaves: it starts a      *)
(* request when a document is pending, none is in flight and the spacing   *)
(* has passed.                                                             *)
(***************************************************************************)
DriveReport(rev, is_pending, flight, is_spaced) ==
  LET starts == is_pending /\ flight = NoDocument /\ rev # NoRevision /\ is_spaced
  IN  /\ revision' = rev
      /\ report_pending' = (is_pending /\ ~starts)
      /\ in_flight' = IF starts
                      THEN [revision |-> rev, rendered |-> FALSE, facts |-> 0]
                      ELSE flight
      /\ spaced' = (is_spaced /\ ~starts)

ScheduleReport(rev) == DriveReport(rev, TRUE, in_flight, spaced)

\* The task is at its select: no chunk being ingested, nothing to take.
Selecting ==
  /\ conn = "up"
  /\ chunk = <<>>
  /\ ~(applying = NoRevision /\ pending # NoRevision)

\* The request future renders the facts when it is first polled.
RenderDocument ==
  /\ Selecting
  /\ in_flight # NoDocument
  /\ ~in_flight.rendered
  /\ in_flight' = [in_flight EXCEPT !.rendered = TRUE, !.facts = facts]
  /\ UNCHANGED <<role, controlVars, chunk, queueVars, revision, report_pending, spaced,
                 applied, roleVars, abandoned>>

ReportFinished ==
  /\ Selecting
  /\ in_flight.rendered
  /\ acknowledged' = in_flight
  /\ DriveReport(revision, report_pending, NoDocument, spaced)
  /\ UNCHANGED <<role, published, wire, conn, failures, chunk, queueVars, applied,
                 roleVars, abandoned>>

SpacingElapses ==
  /\ Selecting
  /\ ~spaced
  /\ DriveReport(revision, report_pending, in_flight, TRUE)
  /\ UNCHANGED <<role, controlVars, chunk, queueVars, applied, roleVars, abandoned>>

\* Mutant: a change is dropped while a request is in flight.
RoleStateChangedWhenQuiet ==
  /\ Selecting
  /\ changed
  /\ changed' = FALSE
  /\ DriveReport(revision, report_pending \/ (revision # NoRevision /\ in_flight = NoDocument),
                 in_flight, spaced)
  /\ UNCHANGED <<role, controlVars, chunk, queueVars, applied, inbox, live, facts,
                 ever_live, abandoned>>

\* note_role_state_changed: before the first revision it sends nothing.
RoleStateChanged ==
  /\ Selecting
  /\ changed
  /\ changed' = FALSE
  /\ DriveReport(revision, report_pending \/ revision # NoRevision, in_flight, spaced)
  /\ UNCHANGED <<role, controlVars, chunk, queueVars, applied, inbox, live, facts,
                 ever_live, abandoned>>

-----------------------------------------------------------------------------
\* Snapshots.

ReadChunk ==
  /\ Selecting
  /\ \E n \in 1..MaxChunk :
       /\ n <= Len(wire)
       /\ chunk' = SubSeq(wire, 1, n)
       /\ wire' = SubSeq(wire, n + 1, Len(wire))
  /\ UNCHANGED <<role, published, conn, failures, acknowledged, queueVars, reportVars,
                 applied, roleVars, abandoned>>

\* accept_envelope of the next event of the chunk.
Accepting(r) == conn = "up" /\ chunk # <<>> /\ r = Head(chunk)
\* The input of the snapshot is one the role's parser accepts.
InputParses(r) == r \notin Invalid \cup OverLimit
EqualWhileIdle(r) == applying = NoRevision /\ applied = r

AcceptEqual(r) ==
  /\ Accepting(r)
  /\ EqualWhileIdle(r)
  /\ ScheduleReport(r)
  /\ chunk' = Tail(chunk)
  /\ UNCHANGED <<role, controlVars, queueVars, applied, roleVars, abandoned>>

AcceptOverLimit(r) ==
  /\ Accepting(r)
  /\ ~EqualWhileIdle(r)
  /\ r \in OverLimit
  /\ conn' = "down"
  /\ DropConnection
  /\ UNCHANGED failures

AcceptInvalid(r) ==
  /\ Accepting(r)
  /\ ~EqualWhileIdle(r)
  /\ r \in Invalid \ OverLimit
  /\ chunk' = Tail(chunk)
  /\ UNCHANGED <<role, controlVars, queueVars, reportVars, applied, roleVars, abandoned>>

\* Mutant: the oldest candidate is kept.
NoteOldest(r) ==
  /\ Accepting(r)
  /\ ~EqualWhileIdle(r)
  /\ InputParses(r)
  /\ pending' = IF pending = NoRevision THEN r ELSE pending
  /\ chunk' = Tail(chunk)
  /\ UNCHANGED <<role, controlVars, applying, outcome, reportVars, applied, roleVars,
                 abandoned>>

\* note_when_idle and note_while_applying: the newest candidate replaces
\* the pending one.
NoteSnapshot(r) ==
  /\ Accepting(r)
  /\ ~EqualWhileIdle(r)
  /\ InputParses(r)
  /\ pending' = r
  /\ chunk' = Tail(chunk)
  /\ UNCHANGED <<role, controlVars, applying, outcome, reportVars, applied, roleVars,
                 abandoned>>

\* take_next at the top of the idle loop.
Taking == conn = "up" /\ chunk = <<>> /\ applying = NoRevision /\ pending # NoRevision

TakeEqual ==
  /\ Taking
  /\ pending = applied
  /\ pending' = NoRevision
  /\ ScheduleReport(pending)
  /\ UNCHANGED <<role, controlVars, chunk, applying, outcome, applied, roleVars, abandoned>>

StartApply ==
  /\ Taking
  /\ pending # applied
  /\ pending' = NoRevision
  /\ applying' = pending
  /\ inbox' = Append(inbox, pending)
  /\ UNCHANGED <<role, controlVars, chunk, outcome, reportVars, applied, live, facts,
                 changed, ever_live, abandoned>>

\* Mutant: a rejected input is taken for applied.
FinishApplyAlways ==
  /\ Selecting
  /\ outcome # "none"
  /\ applied' = applying
  /\ applying' = NoRevision
  /\ outcome' = "none"
  /\ abandoned' = FALSE
  /\ ScheduleReport(applying)
  /\ UNCHANGED <<role, controlVars, chunk, pending, roleVars>>

FinishApply ==
  /\ Selecting
  /\ outcome # "none"
  /\ applying' = NoRevision
  /\ outcome' = "none"
  /\ IF outcome = "ok"
     THEN /\ applied' = applying
          /\ abandoned' = FALSE
          /\ ScheduleReport(applying)
     ELSE UNCHANGED <<applied, abandoned, reportVars>>
  /\ UNCHANGED <<role, controlVars, chunk, pending, roleVars>>

-----------------------------------------------------------------------------
\* The role.

(***************************************************************************)
(* The next input is applied or, by the Server, refused before anything    *)
(* changed.  Only the last one can still have an apply future waiting.     *)
(***************************************************************************)
RoleApplies ==
  LET r       == Head(inbox)
      refuses == role = "server" /\ r \in Refused
  IN  /\ inbox # <<>>
      /\ inbox' = Tail(inbox)
      /\ live' = IF refuses THEN live ELSE r
      /\ ever_live' = IF refuses THEN ever_live ELSE ever_live \cup {r}
      /\ outcome' = IF applying # NoRevision /\ Len(inbox) = 1
                    THEN (IF refuses THEN "err" ELSE "ok")
                    ELSE outcome
      /\ UNCHANGED <<role, controlVars, chunk, pending, applying, reportVars, applied,
                     facts, changed, abandoned>>

\* A connection or a Visitor comes or goes: notify_one keeps a permit.
FactChanges ==
  /\ facts < MaxFacts
  /\ facts' = facts + 1
  /\ changed' = TRUE
  /\ UNCHANGED <<role, controlVars, chunk, queueVars, reportVars, applied, inbox, live,
                 ever_live, abandoned>>

-----------------------------------------------------------------------------
Accept ==
  \E r \in Revisions :
    AcceptEqual(r) \/ AcceptOverLimit(r) \/ AcceptInvalid(r) \/ NoteSnapshot(r)

Report == RenderDocument \/ ReportFinished

Next ==
  \/ \E r \in Revisions : Publish(r)
  \/ Connect
  \/ FailConnection
  \/ StopSession
  \/ Report
  \/ SpacingElapses
  \/ RoleStateChanged
  \/ ReadChunk
  \/ Accept
  \/ TakeEqual
  \/ StartApply
  \/ FinishApply
  \/ RoleApplies
  \/ FactChanges

Spec == Init /\ [][Next]_vars

(***************************************************************************)
(* Fairness.  The session's task is polled whenever a branch of its select *)
(* is ready and retries a failed connection after a bounded delay; the     *)
(* role's tasks run; Control answers a state request (a request that is    *)
(* not answered within its deadline fails the connection instead).  The    *)
(* select polls its branches in a fixed order, and no branch before these  *)
(* is ready forever.                                                       *)
(***************************************************************************)
FairSpec ==
  /\ Spec
  /\ WF_vars(Connect)
  /\ WF_vars(Report)
  /\ WF_vars(SpacingElapses)
  /\ WF_vars(RoleStateChanged)
  /\ WF_vars(ReadChunk)
  /\ WF_vars(Accept)
  /\ WF_vars(TakeEqual)
  /\ WF_vars(StartApply)
  /\ WF_vars(FinishApply)
  /\ WF_vars(RoleApplies)

-----------------------------------------------------------------------------
\* Properties.

\* A rejected, superseded or merely received revision is never reported: a
\* document names the applied revision of its time, which has been in force
\* (schedule_report and its callers).
OnlyAppliedReported ==
  /\ revision \in {NoRevision, applied}
  /\ in_flight # NoDocument => in_flight.revision \in ever_live

\* Between applies, unless an apply was dropped since the last one that
\* finished, the remembered revision is the input in force: neither a refused
\* input nor a reconnection makes them differ (run_state_machine,
\* AppliedRevision).
AppliedIsLive ==
  (applying = NoRevision /\ ~abandoned) => (applied = live /\ inbox = <<>>)

(***************************************************************************)
(* What the session remembers and tells Control is true of the role, over  *)
(* rollbacks, refusals, dropped applies and reconnections.                 *)
(***************************************************************************)
SessionTruthful == TypeOK /\ OnlyAppliedReported /\ AppliedIsLive

\* Inputs that the role can apply.
Applicable(r) == r \in Revisions \ (Invalid \cup OverLimit \cup Refused)

\* Control has published a revision again: the rollback may arrive in one
\* chunk with the snapshot it undoes, and is then skipped as already applied
\* while that snapshot waits to be applied (accept_envelope).
RolledBack == \E i, j \in DOMAIN published : i < j /\ published[i] = published[j]

(***************************************************************************)
(* Latest-state reconciliation: once Control stops publishing, the role    *)
(* ends up with the last snapshot that Control published, through failures *)
(* and refused or invalid inputs, unless Control rolled back               *)
(* (SnapshotQueue, drive_until_transition).                                *)
(***************************************************************************)
LatestSnapshotTakesEffect ==
  <>[](conn = "stopped" \/ RolledBack \/ (Applicable(Desired) => live = Desired))

(***************************************************************************)
(* A change of a reported fact reaches Control in a document rendered      *)
(* after it, whatever requests are in flight or pending, as long as the    *)
(* connection lasts and has a revision to report (note_role_state_changed, *)
(* drive_report).                                                          *)
(***************************************************************************)
FactsReported ==
  \A n \in 1..MaxFacts :
    (facts = n /\ revision # NoRevision) ~> (acknowledged.facts >= n \/ conn # "up")
=============================================================================
