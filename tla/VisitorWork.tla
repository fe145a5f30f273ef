---------------------------- MODULE VisitorWork ----------------------------
(***************************************************************************)
(* Placement of Visitors on Tunnel connections, and everything that races  *)
(* with it: Authorization replacement, Managed drain, the state document   *)
(* and the graceful wait for quiescence.                                   *)
(*                                                                         *)
(*   - VisitorIntake (src/server/visitor_stream.rs): one task per Visitor; *)
(*   - the active-Visitor-work gate of TunnelRegistry                      *)
(*     (src/server/tunnel_registry.rs): reservations, records, the seal;   *)
(*   - ServerAuthorizationAdapter::apply and ServerReportedState           *)
(*     (src/server/managed_adapter.rs), ServerDrain (src/server/drain.rs); *)
(*   - the tail of the Server run loop (src/server/mod.rs).                *)
(*                                                                         *)
(* A step is what the code does between two points where another task can  *)
(* run and observe it: one critical section of the gate's mutex, one lock  *)
(* acquisition, one await.  Pool selection is left open here (any          *)
(* connection may be selected); module TunnelPools models the pools.       *)
(***************************************************************************)
EXTENDS Authorization, FiniteSets

CONSTANTS Visitors,                \* Visitor TCP connections (one task each)
          Connections,             \* Tunnel connections a route may select
          NoConnection,            \* no connection selected yet
          IdentityOf,              \* the Client identity of each connection
          Inputs,                  \* Managed inputs [tunnels, drain]
          MaxApplies,              \* bound: inputs that Control publishes
          MaxPendingStreamOpens,   \* limit of the pending stream-open semaphore
          MaxActiveRoutedStreams   \* limit of the active routed-stream semaphore

ASSUME VisitorsAssumption == IsFiniteSet(Visitors)
ASSUME ConnectionsAssumption == NoConnection \notin Connections
ASSUME IdentityOfAssumption == IdentityOf \in [Connections -> Identities]
ASSUME InputsAssumption ==
  /\ \A input \in Inputs : input.drain \in BOOLEAN
  /\ \A input \in Inputs : input.tunnels \in Seq(ServerTunnelConfig)
ASSUME LimitsAssumption ==
  /\ MaxApplies \in Nat
  /\ MaxPendingStreamOpens \in Nat
  /\ MaxActiveRoutedStreams \in Nat

VARIABLES
  \* One Visitor task.
  visitor_pc,            \* where the task is
  hostname,              \* the Public hostname of its ClientHello
  route_version,         \* the Arc of the snapshot its route was looked up in
  connection,            \* the Tunnel connection selected for it
  abort_requested,       \* its record's abort_requested flag
  \* The active-Visitor-work gate, guarded by one mutex.
  work,                  \* the Visitors with a record
  pending_admissions,    \* reservations not yet converted or dropped
  sealed,
  \* Server admission semaphores, as permits handed out.
  pending_stream_opens,
  active_routed_streams,
  \* The Managed adapter's apply.
  apply_pc, apply_drain, applies,
  interrupted,           \* history: the last apply was dropped after its swap
  first_apply_completed, \* the first apply has opened the readiness gate
  draining,              \* ServerDrain
  \* The state document.
  report_pc, report_draining,
  reported_quiescent,    \* history: some document said draining, 0 visitors
  \* The Server run loop after its accept loop, and its Notify subscription.
  serve_pc, notified

visitorVars == <<visitor_pc, hostname, route_version, connection>>
gateVars    == <<work, pending_admissions, sealed>>
permitVars  == <<pending_stream_opens, active_routed_streams>>
applyVars   == <<authorization, apply_pc, apply_drain, applies, interrupted,
                 first_apply_completed, draining>>
reportVars  == <<report_pc, report_draining, reported_quiescent>>
serveVars   == <<serve_pc, notified>>
vars == <<visitorVars, abort_requested, gateVars, permitVars, applyVars,
          reportVars, serveVars>>

\* Stages of a Visitor task in which it holds a reservation at the gate.
Reserving == {"admitted", "looked_up", "routed", "opening", "assigned"}

VisitorStages == Reserving \cup {"arrived", "running", "dropping", "done"}

ApplyStages == {"idle", "realigning", "resetting", "sealing", "draining"}

ServeStages ==
  {"serving", "draining", "enabled", "waiting", "quiescent", "aborting", "ended"}

TypeOK ==
  /\ authorization \in [version: Nat, snapshot: AuthorizationSnapshot]
  /\ visitor_pc \in [Visitors -> VisitorStages]
  /\ hostname \in [Visitors -> Hostnames]
  /\ route_version \in [Visitors -> Nat]
  /\ connection \in [Visitors -> Connections \cup {NoConnection}]
  /\ abort_requested \in [Visitors -> BOOLEAN]
  /\ work \subseteq Visitors
  /\ pending_admissions \in Nat
  /\ sealed \in BOOLEAN
  /\ pending_stream_opens \in 0..MaxPendingStreamOpens
  /\ active_routed_streams \in 0..MaxActiveRoutedStreams
  /\ apply_pc \in ApplyStages
  /\ apply_drain \in BOOLEAN
  /\ applies \in 0..MaxApplies
  /\ interrupted \in BOOLEAN
  /\ first_apply_completed \in BOOLEAN
  /\ draining \in BOOLEAN
  /\ report_pc \in {"idle", "draining_read"}
  /\ report_draining \in BOOLEAN
  /\ reported_quiescent \in BOOLEAN
  /\ serve_pc \in ServeStages
  /\ notified \in BOOLEAN

Init ==
  /\ AuthorizationInit
  /\ visitor_pc = [v \in Visitors |-> "arrived"]
  /\ hostname = [v \in Visitors |-> ServerHostname]
  /\ route_version = [v \in Visitors |-> 0]
  /\ connection = [v \in Visitors |-> NoConnection]
  /\ abort_requested = [v \in Visitors |-> FALSE]
  /\ work = {}
  /\ pending_admissions = 0
  /\ sealed = FALSE
  /\ pending_stream_opens = 0
  /\ active_routed_streams = 0
  /\ apply_pc = "idle"
  /\ apply_drain = FALSE
  /\ applies = 0
  /\ interrupted = FALSE
  /\ first_apply_completed = FALSE
  /\ draining = FALSE
  /\ report_pc = "idle"
  /\ report_draining = FALSE
  /\ reported_quiescent = FALSE
  /\ serve_pc = "serving"
  /\ notified = FALSE

-----------------------------------------------------------------------------
\* Helpers.

Quiescent == work = {} /\ pending_admissions = 0

\* Mutant: notifies only at quiescence, tested before the account is updated.
NotifyIfAlreadyQuiescent ==
  notified' = (notified \/ (serve_pc \in {"enabled", "waiting"} /\ Quiescent))

\* quiescent.notify_waiters(): wakes the waiter that has enabled its
\* subscription; nobody else keeps the notification.
NotifyQuiescent == notified' = (notified \/ serve_pc \in {"enabled", "waiting"})

\* The task returns: what it routed is dropped with it.
ForgetRoute(v) ==
  /\ visitor_pc' = [visitor_pc EXCEPT ![v] = "done"]
  /\ hostname' = [hostname EXCEPT ![v] = ServerHostname]
  /\ route_version' = [route_version EXCEPT ![v] = 0]
  /\ connection' = [connection EXCEPT ![v] = NoConnection]

\* ActiveVisitorAdmission is dropped while still pending.
DropAdmission ==
  /\ pending_admissions' = pending_admissions - 1
  /\ NotifyQuiescent
  /\ UNCHANGED <<work, sealed, serve_pc>>

\* The Visitors whose task is in one of the given stages.
InStages(stages) == {v \in Visitors : visitor_pc[v] \in stages}

\* The pools' write lock is held from the swap to the end of realignment.
PoolsWriteLocked == apply_pc = "realigning"

Authorized(v) ==
  AuthorizedTogether(Current, hostname[v], IdentityOf[connection[v]])

-----------------------------------------------------------------------------
\* The Visitor task: handle_parsed, route_tunnel_connection, forward_to_tunnel.

\* begin_active_visitor_admission, for a ClientHello that does not name the
\* Server hostname.
BeginAdmission(v) ==
  /\ visitor_pc[v] = "arrived"
  /\ ~sealed
  /\ \E h \in Hostnames \ {ServerHostname} : hostname' = [hostname EXCEPT ![v] = h]
  /\ visitor_pc' = [visitor_pc EXCEPT ![v] = "admitted"]
  /\ pending_admissions' = pending_admissions + 1
  /\ UNCHANGED <<route_version, connection, abort_requested, work, sealed,
                 permitVars, applyVars, reportVars, serveVars>>

RefuseAdmission(v) ==
  /\ visitor_pc[v] = "arrived"
  /\ sealed
  /\ ForgetRoute(v)
  /\ UNCHANGED <<abort_requested, gateVars, permitVars, applyVars, reportVars, serveVars>>

\* The pools' read lock, then the snapshot: the route keeps both the pool and
\* the snapshot's Arc, and gives the lock back.
RouteLookup(v) ==
  /\ visitor_pc[v] = "admitted"
  /\ ~PoolsWriteLocked
  /\ TunnelIndexForPublicHostname(Current, hostname[v]) # None
  /\ visitor_pc' = [visitor_pc EXCEPT ![v] = "looked_up"]
  /\ route_version' = [route_version EXCEPT ![v] = authorization.version]
  /\ UNCHANGED <<hostname, connection, abort_requested, gateVars, permitVars,
                 applyVars, reportVars, serveVars>>

RouteUnauthorized(v) ==
  /\ visitor_pc[v] = "admitted"
  /\ ~PoolsWriteLocked
  /\ TunnelIndexForPublicHostname(Current, hostname[v]) = None
  /\ ForgetRoute(v)
  /\ DropAdmission
  /\ UNCHANGED <<abort_requested, permitVars, applyVars, reportVars>>

\* select_connection on the pool cloned at lookup, whatever happened since.
RouteSelect(v) ==
  /\ visitor_pc[v] = "looked_up"
  /\ \E c \in Connections : connection' = [connection EXCEPT ![v] = c]
  /\ visitor_pc' = [visitor_pc EXCEPT ![v] = "routed"]
  /\ UNCHANGED <<hostname, route_version, abort_requested, gateVars, permitVars,
                 applyVars, reportVars, serveVars>>

NoActiveTunnelConnection(v) ==
  /\ visitor_pc[v] = "looked_up"
  /\ ForgetRoute(v)
  /\ DropAdmission
  /\ UNCHANGED <<abort_requested, permitVars, applyVars, reportVars>>

\* try_admit_pending_stream_open, just before the wait for Visitor credit.
StartOpen(v) ==
  /\ visitor_pc[v] = "routed"
  /\ pending_stream_opens < MaxPendingStreamOpens
  /\ pending_stream_opens' = pending_stream_opens + 1
  /\ visitor_pc' = [visitor_pc EXCEPT ![v] = "opening"]
  /\ UNCHANGED <<hostname, route_version, connection, abort_requested, gateVars,
                 active_routed_streams, applyVars, reportVars, serveVars>>

StartOpenSaturated(v) ==
  /\ visitor_pc[v] = "routed"
  /\ pending_stream_opens >= MaxPendingStreamOpens
  /\ ForgetRoute(v)
  /\ DropAdmission
  /\ UNCHANGED <<abort_requested, permitVars, applyVars, reportVars>>

\* open_tunnel_stream succeeds and the active routed-stream permit is taken
\* before the pending-open permit is given back.
OpenSucceeds(v) ==
  /\ visitor_pc[v] = "opening"
  /\ active_routed_streams < MaxActiveRoutedStreams
  /\ active_routed_streams' = active_routed_streams + 1
  /\ pending_stream_opens' = pending_stream_opens - 1
  /\ visitor_pc' = [visitor_pc EXCEPT ![v] = "assigned"]
  /\ UNCHANGED <<hostname, route_version, connection, abort_requested, gateVars,
                 applyVars, reportVars, serveVars>>

\* It fails, times out, or finds the active streams saturated.
OpenFails(v) ==
  /\ visitor_pc[v] = "opening"
  /\ pending_stream_opens' = pending_stream_opens - 1
  /\ ForgetRoute(v)
  /\ DropAdmission
  /\ UNCHANGED <<abort_requested, active_routed_streams, applyVars, reportVars>>

\* register_active_visitor_work converts the reservation under the gate.
RemainsCurrentAndAuthorized(v) ==
  /\ route_version[v] = authorization.version
  /\ Authorized(v)

RegisterActiveVisitorWork(v) ==
  /\ visitor_pc[v] = "assigned"
  /\ ~sealed
  /\ RemainsCurrentAndAuthorized(v)
  /\ pending_admissions' = pending_admissions - 1
  /\ work' = work \cup {v}
  /\ visitor_pc' = [visitor_pc EXCEPT ![v] = "running"]
  /\ UNCHANGED <<hostname, route_version, connection, abort_requested, sealed,
                 permitVars, applyVars, reportVars, serveVars>>

\* Mutant: the active routed-stream permit is not dropped with the stream.
RejectActiveVisitorWorkLeaks(v) ==
  /\ visitor_pc[v] = "assigned"
  /\ sealed \/ ~RemainsCurrentAndAuthorized(v)
  /\ ForgetRoute(v)
  /\ DropAdmission
  /\ UNCHANGED <<abort_requested, permitVars, applyVars, reportVars>>

RejectActiveVisitorWork(v) ==
  /\ visitor_pc[v] = "assigned"
  /\ sealed \/ ~RemainsCurrentAndAuthorized(v)
  /\ ForgetRoute(v)
  /\ DropAdmission
  /\ active_routed_streams' = active_routed_streams - 1
  /\ UNCHANGED <<abort_requested, pending_stream_opens, applyVars, reportVars>>

\* The proxy returns, fails or is aborted.  ActiveVisitorWork::drop gives the
\* permit back first and removes the record under the mutex afterwards.
ProxyEnds(v) ==
  /\ visitor_pc[v] = "running"
  /\ active_routed_streams' = active_routed_streams - 1
  /\ visitor_pc' = [visitor_pc EXCEPT ![v] = "dropping"]
  /\ UNCHANGED <<hostname, route_version, connection, abort_requested, gateVars,
                 pending_stream_opens, applyVars, reportVars, serveVars>>

RemoveWork(v) ==
  /\ visitor_pc[v] = "dropping"
  /\ work' = work \ {v}
  /\ ForgetRoute(v)
  /\ abort_requested' = [abort_requested EXCEPT ![v] = FALSE]
  /\ NotifyQuiescent
  /\ UNCHANGED <<pending_admissions, sealed, permitVars, applyVars, reportVars, serve_pc>>

\* visitor_intakes.abort_all(): a task that holds a reservation is dropped
\* with whatever permit it has; a running proxy ends as in ProxyEnds.
CancelReservation(v) ==
  /\ serve_pc = "aborting"
  /\ visitor_pc[v] \in Reserving
  /\ pending_stream_opens' =
       IF visitor_pc[v] = "opening" THEN pending_stream_opens - 1
                                    ELSE pending_stream_opens
  /\ active_routed_streams' =
       IF visitor_pc[v] = "assigned" THEN active_routed_streams - 1
                                     ELSE active_routed_streams
  /\ ForgetRoute(v)
  /\ DropAdmission
  /\ UNCHANGED <<abort_requested, applyVars, reportVars>>

-----------------------------------------------------------------------------
\* ServerAuthorizationAdapter::apply, one input at a time.

RejectInput(input) ==
  /\ apply_pc = "idle"
  /\ applies < MaxApplies
  /\ ~ManagedTunnelsValid(input.tunnels)
  /\ applies' = applies + 1
  /\ UNCHANGED <<visitorVars, abort_requested, gateVars, permitVars, authorization,
                 apply_pc, apply_drain, interrupted, first_apply_completed, draining,
                 reportVars, serveVars>>

\* commit_authorization takes the pools' write lock and swaps the snapshot
\* while it holds the gate's mutex.
CommitSnapshot(input) ==
  /\ apply_pc = "idle"
  /\ applies < MaxApplies
  /\ ManagedTunnelsValid(input.tunnels)
  /\ Commit(input.tunnels)
  /\ applies' = applies + 1
  /\ apply_drain' = input.drain
  /\ apply_pc' = "realigning"
  /\ UNCHANGED <<visitorVars, abort_requested, gateVars, permitVars, interrupted,
                 first_apply_completed, draining, reportVars, serveVars>>

\* Realignment ends (module TunnelPools) and the pools' lock is released.
PoolsRealigned ==
  /\ apply_pc = "realigning"
  /\ apply_pc' = "resetting"
  /\ UNCHANGED <<visitorVars, abort_requested, gateVars, permitVars, authorization,
                 apply_drain, applies, interrupted, first_apply_completed, draining,
                 reportVars, serveVars>>

(***************************************************************************)
(* The Managed session drops the apply future when its connection fails    *)
(* while the apply waits for a pool's lock: the snapshot is swapped, and   *)
(* nothing after that wait runs.                                           *)
(***************************************************************************)
AbandonApply ==
  /\ apply_pc = "realigning"
  /\ apply_pc' = "idle"
  /\ interrupted' = TRUE
  /\ UNCHANGED <<visitorVars, abort_requested, gateVars, permitVars, authorization,
                 apply_drain, applies, first_apply_completed, draining, reportVars, serveVars>>

\* Mutant: only Visitors whose hostname lost its Tunnel are reset.
ResetStreamsByHostname ==
  /\ apply_pc = "resetting"
  /\ abort_requested' =
       [v \in Visitors |->
          \/ abort_requested[v]
          \/ v \in work /\ TunnelIndexForPublicHostname(Current, hostname[v]) = None]
  /\ first_apply_completed' = TRUE
  /\ interrupted' = FALSE
  /\ apply_pc' = IF apply_drain THEN "sealing" ELSE "idle"
  /\ UNCHANGED <<visitorVars, gateVars, permitVars, authorization, apply_drain,
                 applies, draining, reportVars, serveVars>>

\* Mutant: Visitors placed under an earlier snapshot are reset with the others.
ResetStreamsStale ==
  /\ apply_pc = "resetting"
  /\ abort_requested' =
       [v \in Visitors |->
          \/ abort_requested[v]
          \/ v \in work /\ (~Authorized(v) \/ route_version[v] # authorization.version)]
  /\ first_apply_completed' = TRUE
  /\ interrupted' = FALSE
  /\ apply_pc' = IF apply_drain THEN "sealing" ELSE "idle"
  /\ UNCHANGED <<visitorVars, gateVars, permitVars, authorization, apply_drain,
                 applies, draining, reportVars, serveVars>>

\* reset_streams_matching(!stream_remains_authorized), under the mutex; the
\* first success then opens readiness, and a requested drain comes last.  The
\* replacement hint published in between belongs to the Tunnel event streams.
ResetStreams ==
  /\ apply_pc = "resetting"
  /\ abort_requested' =
       [v \in Visitors |-> abort_requested[v] \/ (v \in work /\ ~Authorized(v))]
  /\ first_apply_completed' = TRUE
  /\ interrupted' = FALSE
  /\ apply_pc' = IF apply_drain THEN "sealing" ELSE "idle"
  /\ UNCHANGED <<visitorVars, gateVars, permitVars, authorization, apply_drain,
                 applies, draining, reportVars, serveVars>>

\* Mutant: the drain starts and leaves the seal to the run loop.
SealLeftToRunLoop ==
  /\ apply_pc = "sealing"
  /\ apply_pc' = "draining"
  /\ UNCHANGED <<visitorVars, abort_requested, gateVars, permitVars,
                 authorization, apply_drain, applies, interrupted,
                 first_apply_completed, draining,
                 reportVars, serveVars>>

\* stop_accepting_new_work, then drain.begin().
SealForDrain ==
  /\ apply_pc = "sealing"
  /\ sealed' = TRUE
  /\ apply_pc' = "draining"
  /\ UNCHANGED <<visitorVars, abort_requested, work, pending_admissions, permitVars,
                 authorization, apply_drain, applies, interrupted,
                 first_apply_completed, draining, reportVars,
                 serveVars>>

BeginDrain ==
  /\ apply_pc = "draining"
  /\ draining' = TRUE
  /\ apply_pc' = "idle"
  /\ UNCHANGED <<visitorVars, abort_requested, gateVars, permitVars, authorization,
                 apply_drain, applies, interrupted, first_apply_completed, reportVars,
                 serveVars>>

-----------------------------------------------------------------------------
\* ServerReportedState::fields: the fields of a state document are read one
\* after the other.

ReportDraining ==
  /\ report_pc = "idle"
  /\ report_draining' = draining
  /\ report_pc' = "draining_read"
  /\ UNCHANGED <<visitorVars, abort_requested, gateVars, permitVars, applyVars,
                 reported_quiescent, serveVars>>

ReportVisitors ==
  /\ report_pc = "draining_read"
  /\ reported_quiescent' =
       (reported_quiescent \/ (report_draining /\ Cardinality(work) = 0))
  /\ report_pc' = "idle"
  /\ report_draining' = FALSE
  /\ UNCHANGED <<visitorVars, abort_requested, gateVars, permitVars, applyVars, serveVars>>

-----------------------------------------------------------------------------
\* The Server run loop once a shutdown or a Managed drain ended its accept loop.

ServeSeal ==
  /\ serve_pc = "serving"
  /\ sealed' = TRUE
  /\ serve_pc' = "draining"
  /\ UNCHANGED <<visitorVars, abort_requested, work, pending_admissions, permitVars,
                 applyVars, reportVars, notified>>

\* wait_quiescent: subscribe, then check, then wait.
WaitEnable ==
  /\ serve_pc = "draining"
  /\ serve_pc' = "enabled"
  /\ notified' = FALSE
  /\ UNCHANGED <<visitorVars, abort_requested, gateVars, permitVars, applyVars, reportVars>>

WaitCheck ==
  /\ serve_pc = "enabled"
  /\ serve_pc' = IF Quiescent THEN "quiescent" ELSE "waiting"
  /\ UNCHANGED <<visitorVars, abort_requested, gateVars, permitVars, applyVars,
                 reportVars, notified>>

WaitWake ==
  /\ serve_pc = "waiting"
  /\ notified
  /\ serve_pc' = "draining"
  /\ notified' = FALSE
  /\ UNCHANGED <<visitorVars, abort_requested, gateVars, permitVars, applyVars, reportVars>>

\* Quiescence, the graceful deadline or Fast shutdown: close every Tunnel
\* connection and abort the Visitor tasks.
ServeAbort ==
  /\ serve_pc \in {"draining", "enabled", "waiting", "quiescent"}
  /\ serve_pc' = "aborting"
  /\ notified' = FALSE
  /\ UNCHANGED <<visitorVars, abort_requested, gateVars, permitVars, applyVars, reportVars>>

\* join_next until every Visitor task has ended.
ServeJoin ==
  /\ serve_pc = "aborting"
  /\ \A v \in Visitors : visitor_pc[v] \in {"arrived", "done"}
  /\ serve_pc' = "ended"
  /\ UNCHANGED <<visitorVars, abort_requested, gateVars, permitVars, applyVars,
                 reportVars, notified>>

-----------------------------------------------------------------------------
VisitorStep(v) ==
  \/ BeginAdmission(v)
  \/ RefuseAdmission(v)
  \/ RouteLookup(v)
  \/ RouteUnauthorized(v)
  \/ RouteSelect(v)
  \/ NoActiveTunnelConnection(v)
  \/ StartOpen(v)
  \/ StartOpenSaturated(v)
  \/ OpenSucceeds(v)
  \/ OpenFails(v)
  \/ RegisterActiveVisitorWork(v)
  \/ RejectActiveVisitorWork(v)
  \/ ProxyEnds(v)
  \/ RemoveWork(v)
  \/ CancelReservation(v)

ApplyStep ==
  \/ \E input \in Inputs : RejectInput(input) \/ CommitSnapshot(input)
  \/ PoolsRealigned
  \/ AbandonApply
  \/ ResetStreams
  \/ SealForDrain
  \/ BeginDrain

ReportStep == ReportDraining \/ ReportVisitors

ServeStep ==
  \/ ServeSeal
  \/ WaitEnable
  \/ WaitCheck
  \/ WaitWake
  \/ ServeAbort
  \/ ServeJoin

Next == (\E v \in Visitors : VisitorStep(v)) \/ ApplyStep \/ ReportStep \/ ServeStep

Spec == Init /\ [][Next]_vars

(***************************************************************************)
(* Fairness.  Tokio polls every ready task again: an apply in progress     *)
(* goes on, an aborted proxy is polled and its record removed, and the     *)
(* run loop's wait goes on once it is notified.  Nothing is assumed of     *)
(* Control, of proxies that were not aborted, or of the deadline.          *)
(***************************************************************************)
ApplyProgress == PoolsRealigned \/ ResetStreams \/ SealForDrain \/ BeginDrain

AbortedWorkProgress(v) == (abort_requested[v] /\ ProxyEnds(v)) \/ RemoveWork(v)

WaitProgress == WaitEnable \/ WaitCheck \/ WaitWake

FairSpec ==
  /\ Spec
  /\ WF_vars(ApplyProgress)
  /\ \A v \in Visitors : WF_vars(AbortedWorkProgress(v))
  /\ WF_vars(WaitProgress)

-----------------------------------------------------------------------------
\* Properties.

(***************************************************************************)
(* Once an apply has run to its end and until the next one swaps the       *)
(* snapshot, every running Visitor that was not told to abort has a Public *)
(* hostname and a Client identity that the live snapshot authorizes for    *)
(* one Tunnel: no registration of an old route slips past the replacement  *)
(* scan, and a completed apply repairs what an interrupted one left        *)
(* (register_active_visitor_work, commit_authorization).                   *)
(***************************************************************************)
PlacedWorkAuthorized ==
  (apply_pc \notin {"realigning", "resetting"} /\ ~interrupted) =>
    \A v \in work : abort_requested[v] \/ Authorized(v)

(***************************************************************************)
(* During an apply too, a Visitor placed by this step is authorized by the *)
(* snapshot that is live: placement never uses the replaced one.           *)
(***************************************************************************)
NewWorkUsesLiveSnapshot ==
  [][\A v \in work' \ work : Authorized(v)]_vars

(***************************************************************************)
(* Once a state document has said `draining` with zero visitors, no        *)
(* Visitor is ever placed again: quiescence reported to Control is final   *)
(* (ServerAuthorizationAdapter::apply, ServerReportedState::fields).       *)
(***************************************************************************)
ReportedQuiescenceIsFinal == reported_quiescent => work = {}

(***************************************************************************)
(* Reservations, records and permits are released exactly once on every    *)
(* path: rejection, failure, revocation, cancellation and normal return    *)
(* (ActiveVisitorAdmission::drop, ActiveVisitorWork::drop).                *)
(***************************************************************************)
GateAccounting ==
  /\ pending_admissions = Cardinality(InStages(Reserving))
  /\ work = InStages({"running", "dropping"})
  /\ pending_stream_opens = Cardinality(InStages({"opening"}))
  /\ active_routed_streams = Cardinality(InStages({"assigned", "running"}))

(***************************************************************************)
(* An apply aborts only Visitors that the new snapshot does not authorize: *)
(* unrelated work survives a replacement (reset_streams_matching).         *)
(***************************************************************************)
AuthorizedWorkSurvives ==
  [][\A v \in work : (abort_requested'[v] /\ ~abort_requested[v]) => ~Authorized(v)]_vars

(***************************************************************************)
(* A Visitor whose authorization was taken away by an apply ends, even if  *)
(* a later apply would authorize it again, unless the apply is interrupted *)
(* (commit_authorization).                                                 *)
(***************************************************************************)
RevokedWorkEnds ==
  \A v \in Visitors :
    (v \in work /\ ~Authorized(v)) ~> (v \notin work \/ interrupted)

(***************************************************************************)
(* The live snapshot alone decides which Visitors run: it is the one that  *)
(* places them, it ends those it does not authorize, and no apply ends any *)
(* other, not even one placed under an earlier snapshot                    *)
(* (register_active_visitor_work, reset_streams_matching).                 *)
(***************************************************************************)
AuthorizationDecides ==
  NewWorkUsesLiveSnapshot /\ AuthorizedWorkSurvives /\ RevokedWorkEnds

(***************************************************************************)
(* The graceful wait never sleeps through quiescence: the notification     *)
(* cannot be lost between the check and the wait (wait_quiescent).         *)
(***************************************************************************)
QuiescenceNoticed ==
  (serve_pc \in {"enabled", "waiting"} /\ Quiescent)
    ~> (serve_pc \in {"quiescent", "aborting", "ended"})
=============================================================================
