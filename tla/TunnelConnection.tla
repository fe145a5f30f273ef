--------------------------- MODULE TunnelConnection ---------------------------
(***************************************************************************)
(* One Tunnel connection, both ends: the Server opens a stream for each    *)
(* Visitor it places (src/src/tunnel/server.rs), the Client backs streams  *)
(* with permits of a budget that all its connections share                 *)
(* (src/src/tunnel/credit.rs) and may withdraw the connection from         *)
(* placement (src/src/tunnel/client.rs); the Server may shut it down.      *)
(*                                                                         *)
(* A step is what one task does between two points where another task, on  *)
(* another thread or at the other end, can act.  Bytes, deadlines' lengths *)
(* and the content of the event stream are left out.                       *)
(***************************************************************************)
EXTENDS Naturals, FiniteSets

CONSTANTS
  Visitors,   \* Visitors that the Server tries to place on this connection
  Budget,     \* permits of the Client instance
  MaxIdle,    \* MAX_IDLE_VISITOR_CREDIT
  MaxOthers   \* bound: permits that other connections hold at once

ASSUME VisitorsAssumption == IsFiniteSet(Visitors)
ASSUME BudgetAssumption == Budget \in Nat \ {0} /\ MaxIdle \in Nat \ {0}

\* The withdrawal request and its one retry.
Attempts == {1, 2}

VARIABLES
  connection,           \* "open", or why it was closed
  \* Server: Visitor opens and the accounts of Shared.
  placement, visitor_work, requests_in_flight, session, events_open,
  \* Server: placement withdrawal, and close_after_quiescence.
  request, withdrawn, withdrawal_waiters, confirmed, closing,
  \* Server: serve_connection's shutdown.
  shutdown, goaway,
  \* QUIC: stream credit that the Server holds and has not used.
  granted,
  \* Client: VisitorCredits, the session task's acquisition, and the budget.
  idle, held, maintaining, acquisition, available, others,
  \* Client: the session task, and the streams that reached it.
  task, draining, stream, retained,
  \* Client: the withdrawal future.
  withdrawal, attempt, withdrawal_confirmed

placeVars    == <<placement, visitor_work>>
accountVars  == <<requests_in_flight, session, events_open>>
commitVars   == <<request, withdrawn, withdrawal_waiters, confirmed>>
shutdownVars == <<shutdown, goaway>>
serverVars   == <<placeVars, accountVars, commitVars, closing, shutdownVars>>
creditVars   == <<idle, held, maintaining, acquisition>>
budgetVars   == <<available, others>>
taskVars     == <<task, draining>>
streamVars   == <<stream, retained>>
withdrawVars == <<withdrawal, attempt, withdrawal_confirmed>>
clientVars   == <<creditVars, budgetVars, taskVars, streamVars, withdrawVars>>
vars == <<connection, granted, serverVars, clientVars>>

Closings == {"lost", "quiesced", "drained", "withdrawn", "unconfirmed"}
Placements == {"idle", "checked", "opening", "opened", "passed", "placed", "gone"}
Requests ==
  {"none", "sent", "accepted", "registered", "committed", "answering",
   "answered", "timed_out", "failed"}
Streams ==
  {"none", "arriving", "handling", "finished", "dropping", "leaving",
   "rejected", "resetting", "over"}

TypeOK ==
  /\ connection \in {"open"} \cup Closings
  /\ placement \in [Visitors -> Placements]
  /\ visitor_work \in Nat /\ requests_in_flight \in Nat
  /\ session \in {"connecting", "accepted", "established", "none"}
  /\ events_open \in BOOLEAN
  /\ request \in [Attempts -> Requests]
  /\ withdrawn \in BOOLEAN /\ confirmed \in BOOLEAN
  /\ withdrawal_waiters \in Nat
  /\ closing \in {"withdrawal", "quiescence", "waiters", "sleeping"}
  /\ shutdown \in {"serving", "requested", "goaway", "drain_sent"}
  /\ goaway \in BOOLEAN
  /\ granted \in Nat
  /\ idle \in 0..MaxIdle /\ held \in 0..Budget
  /\ maintaining \in BOOLEAN
  /\ acquisition \in {"none", "pending", "ready"}
  /\ available \in 0..Budget /\ others \in 0..Budget
  /\ task \in {"connecting", "joining", "candidate", "running", "closing", "ended"}
  /\ draining \in BOOLEAN
  /\ stream \in [Visitors -> Streams]
  /\ retained \in BOOLEAN
  /\ withdrawal \in {"none", "sending", "waiting", "draining", "done"}
  /\ attempt \in 1..2
  /\ withdrawal_confirmed \in BOOLEAN

\* The event stream is subscribed and the CONNECT request is on its way: two
\* requests in flight.  The Client's transport starts with no stream credit.
Init ==
  /\ connection = "open"
  /\ placement = [v \in Visitors |-> "idle"]
  /\ visitor_work = 0
  /\ requests_in_flight = 2
  /\ session = "connecting"
  /\ events_open = TRUE
  /\ request = [r \in Attempts |-> "none"]
  /\ withdrawn = FALSE
  /\ withdrawal_waiters = 0
  /\ confirmed = FALSE
  /\ closing = "withdrawal"
  /\ shutdown = "serving"
  /\ goaway = FALSE
  /\ granted = 0
  /\ idle = 0
  /\ held = 0
  /\ maintaining = TRUE
  /\ acquisition = "none"
  /\ available = Budget
  /\ others = 0
  /\ task \in {"connecting", "joining"}
  /\ draining = FALSE
  /\ stream = [v \in Visitors |-> "none"]
  /\ retained = FALSE
  /\ withdrawal = "none"
  /\ attempt = 1
  /\ withdrawal_confirmed = FALSE

Open == connection = "open"

-----------------------------------------------------------------------------
\* The Server places Visitors.

\* ServerTunnel::accepts_visitors, read when an open begins.
AcceptsVisitors == Open /\ ~withdrawn /\ ~goaway

Place(v, stage) == placement' = [placement EXCEPT ![v] = stage]

CheckAccepts(v) ==
  /\ Open /\ placement[v] = "idle"
  /\ Place(v, IF AcceptsVisitors THEN "checked" ELSE "gone")
  /\ UNCHANGED <<connection, granted, visitor_work, accountVars, commitVars, closing,
                 shutdownVars, clientVars>>

StartWork(v) ==
  /\ placement[v] = "checked"
  /\ Place(v, "opening")
  /\ visitor_work' = visitor_work + 1
  /\ requests_in_flight' = requests_in_flight + 1
  /\ UNCHANGED <<connection, granted, session, events_open, commitVars, closing,
                 shutdownVars, clientVars>>

\* opener().open_bi() uses one credit; the stream is on its way to the Client.
OpenStream(v) ==
  /\ placement[v] = "opening"
  /\ Open /\ session = "established" /\ granted > 0
  /\ Place(v, "opened")
  /\ granted' = granted - 1
  /\ stream' = [stream EXCEPT ![v] = "arriving"]
  /\ UNCHANGED <<connection, visitor_work, accountVars, commitVars, closing, shutdownVars,
                 creditVars, budgetVars, taskVars, retained, withdrawVars>>

\* The drop of VisitorWork, with the open or with both halves of the stream.
DropWork ==
  /\ visitor_work' = visitor_work - 1
  /\ requests_in_flight' = requests_in_flight - 1
  /\ UNCHANGED <<connection, granted, session, events_open, commitVars, closing,
                 shutdownVars, clientVars>>

\* GOAWAY is read before the commitment and not held across it.
PassGoaway(v) ==
  /\ placement[v] = "opened"
  /\ ~goaway
  /\ Place(v, "passed")
  /\ UNCHANGED <<connection, granted, visitor_work, accountVars, commitVars, closing,
                 shutdownVars, clientVars>>

\* Mutant: the placement commits without another look at the withdrawal.
CommitPlacementUnchecked(v) ==
  /\ placement[v] = "passed"
  /\ Place(v, "placed")
  /\ UNCHANGED <<connection, granted, visitor_work, accountVars, commitVars, closing,
                 shutdownVars, clientVars>>

\* Placement commitment, under the read lock of `withdrawn`.
CommitPlacement(v) ==
  /\ placement[v] = "passed"
  /\ ~withdrawn
  /\ Place(v, "placed")
  /\ UNCHANGED <<connection, granted, visitor_work, accountVars, commitVars, closing,
                 shutdownVars, clientVars>>

RejectOpened(v) ==
  /\ \/ placement[v] = "opened" /\ goaway
     \/ placement[v] = "passed" /\ withdrawn
  /\ Place(v, "gone")
  /\ DropWork

\* The deadline, the end of the connection, GOAWAY or the withdrawal ends an
\* open that still waits.
CancelOpen(v) ==
  /\ placement[v] = "opening"
  /\ Place(v, "gone")
  /\ DropWork

\* Both halves of the Server's stream are dropped.
PlacedEnds(v) ==
  /\ placement[v] = "placed"
  /\ Place(v, "gone")
  /\ DropWork

-----------------------------------------------------------------------------
\* The Server's requests: the session, the event stream, the withdrawal.

\* The CONNECT request leaves the account before the session is published.
AcceptSession(outcome) ==
  /\ Open /\ session = "connecting"
  /\ session' = outcome
  /\ requests_in_flight' = requests_in_flight - 1
  /\ UNCHANGED <<connection, granted, placeVars, events_open, commitVars, closing,
                 shutdownVars, clientVars>>

PublishSession ==
  /\ session = "accepted"
  /\ session' = "established"
  /\ UNCHANGED <<connection, granted, placeVars, requests_in_flight, events_open,
                 commitVars, closing, shutdownVars, clientVars>>

\* Mutant: the event stream lasts as long as the connection.
EventsEndAtClose ==
  /\ events_open /\ ~Open
  /\ events_open' = FALSE
  /\ requests_in_flight' = requests_in_flight - 1
  /\ UNCHANGED <<connection, granted, placeVars, session, commitVars, closing,
                 shutdownVars, clientVars>>

\* GOAWAY ends the event stream.  A subscription that is interrupted and
\* made again before that leaves the accounts as they were.
EventsEnd ==
  /\ events_open /\ goaway
  /\ events_open' = FALSE
  /\ requests_in_flight' = requests_in_flight - 1
  /\ UNCHANGED <<connection, granted, placeVars, session, commitVars, closing,
                 shutdownVars, clientVars>>

Answered(r, answer) == request' = [request EXCEPT ![r] = answer]

AcceptWithdrawal(r) ==
  /\ Open /\ request[r] = "sent" /\ ~goaway
  /\ Answered(r, "accepted")
  /\ requests_in_flight' = requests_in_flight + 1
  /\ UNCHANGED <<connection, granted, placeVars, session, events_open, withdrawn,
                 withdrawal_waiters, confirmed, closing, shutdownVars, clientVars>>

\* A request accepted after GOAWAY is reset with H3_REQUEST_REJECTED.
RejectUnprocessed(r) ==
  /\ Open /\ request[r] = "sent" /\ goaway
  /\ Answered(r, "failed")
  /\ UNCHANGED <<connection, granted, placeVars, accountVars, withdrawn,
                 withdrawal_waiters, confirmed, closing, shutdownVars, clientVars>>

\* The request did not end before its deadline: 408.
RequestTimesOut(r) ==
  /\ request[r] = "accepted"
  /\ Answered(r, "timed_out")
  /\ requests_in_flight' = requests_in_flight - 1
  /\ UNCHANGED <<connection, granted, placeVars, session, events_open, withdrawn,
                 withdrawal_waiters, confirmed, closing, shutdownVars, clientVars>>

RegisterWaiter(r) ==
  /\ request[r] = "accepted"
  /\ Answered(r, "registered")
  /\ withdrawal_waiters' = withdrawal_waiters + 1
  /\ UNCHANGED <<connection, granted, placeVars, accountVars, withdrawn, confirmed,
                 closing, shutdownVars, clientVars>>

CommitWithdrawal(r) ==
  /\ request[r] = "registered"
  /\ Answered(r, "committed")
  /\ withdrawn' = TRUE
  /\ UNCHANGED <<connection, granted, placeVars, accountVars, withdrawal_waiters,
                 confirmed, closing, shutdownVars, clientVars>>

WithdrawalQuiescent(r) ==
  /\ request[r] = "committed"
  /\ visitor_work = 0
  /\ Answered(r, "answering")
  /\ UNCHANGED <<connection, granted, placeVars, accountVars, withdrawn,
                 withdrawal_waiters, confirmed, closing, shutdownVars, clientVars>>

\* Mutant: a failed write returns early and forgets its waiter.
SendConfirmationLeaks(r, sent) ==
  /\ request[r] = "answering"
  /\ Answered(r, IF sent THEN "answered" ELSE "failed")
  /\ confirmed' = (confirmed \/ sent)
  /\ withdrawal_waiters' = IF sent THEN withdrawal_waiters - 1 ELSE withdrawal_waiters
  /\ requests_in_flight' = requests_in_flight - 1
  /\ UNCHANGED <<connection, granted, placeVars, session, events_open, withdrawn,
                 closing, shutdownVars, clientVars>>

\* The write of the 204 completes, or is cancelled at its deadline.
SendConfirmation(r, sent) ==
  /\ request[r] = "answering"
  /\ Answered(r, IF sent THEN "answered" ELSE "failed")
  /\ confirmed' = (confirmed \/ sent)
  /\ withdrawal_waiters' = withdrawal_waiters - 1
  /\ requests_in_flight' = requests_in_flight - 1
  /\ UNCHANGED <<connection, granted, placeVars, session, events_open, withdrawn,
                 closing, shutdownVars, clientVars>>

-----------------------------------------------------------------------------
\* The Server closes: close_after_quiescence, shutdown, the end of the session.

CloseSeesWithdrawal ==
  /\ closing = "withdrawal" /\ withdrawn
  /\ closing' = "quiescence"
  /\ UNCHANGED <<connection, granted, placeVars, accountVars, commitVars, shutdownVars,
                 clientVars>>

CloseSeesQuiescence ==
  /\ closing = "quiescence" /\ visitor_work = 0
  /\ closing' = "waiters"
  /\ UNCHANGED <<connection, granted, placeVars, accountVars, commitVars, shutdownVars,
                 clientVars>>

CloseSeesAnswer ==
  /\ closing = "waiters"
  /\ confirmed \/ withdrawal_waiters = 0
  /\ closing' = "sleeping"
  /\ UNCHANGED <<connection, granted, placeVars, accountVars, commitVars, shutdownVars,
                 clientVars>>

Close(why) ==
  /\ Open
  /\ connection' = why
  /\ UNCHANGED <<granted, serverVars, creditVars, budgetVars, taskVars, streamVars>>

PostQuiescenceClose ==
  /\ closing = "sleeping"
  /\ Close("quiesced")
  /\ UNCHANGED withdrawVars

RequestShutdown ==
  /\ Open /\ shutdown = "serving"
  /\ shutdown' = "requested"
  /\ UNCHANGED <<connection, granted, placeVars, accountVars, commitVars, closing, goaway,
                 clientVars>>

SendGoaway ==
  /\ Open /\ shutdown = "requested"
  /\ shutdown' = "goaway"
  /\ goaway' = TRUE
  /\ UNCHANGED <<connection, granted, placeVars, accountVars, commitVars, closing, clientVars>>

\* Mutant: DRAIN follows GOAWAY at once.
SendDrainAtOnce ==
  /\ Open /\ shutdown = "goaway"
  /\ session = "established"
  /\ shutdown' = "drain_sent"
  /\ UNCHANGED <<connection, granted, placeVars, accountVars, commitVars, closing, goaway,
                 clientVars>>

SendDrain ==
  /\ Open /\ shutdown = "goaway"
  /\ requests_in_flight = 0
  /\ session = "established"
  /\ shutdown' = "drain_sent"
  /\ UNCHANGED <<connection, granted, placeVars, accountVars, commitVars, closing, goaway,
                 clientVars>>

\* No session has been published: nothing to drain.
CloseWithoutSession ==
  /\ shutdown = "goaway"
  /\ requests_in_flight = 0
  /\ session # "established"
  /\ Close("drained")
  /\ UNCHANGED withdrawVars

\* The session's handler sees the Client's CLOSE.
SessionCloses ==
  /\ task = "closing"
  /\ Close("drained")
  /\ UNCHANGED withdrawVars

\* The network, a revocation, a fast shutdown of either end, a deadline of an
\* orderly one, a rejected candidate or a protocol error.
ConnectionEnds == Close("lost") /\ UNCHANGED withdrawVars

-----------------------------------------------------------------------------
\* The Client's credit.

\* Handlers, queued ones included: each holds a permit.
Handlers == {v \in Visitors : stream[v] \in {"handling", "finished", "dropping", "leaving"}}

\* Streams that the Client's transport has not freed.
Live == {v \in Visitors : stream[v] \in {"arriving", "handling", "dropping", "rejected", "resetting"}}

(***************************************************************************)
(* quinn: set_max_concurrent_bi_streams(limit) allocates credit for        *)
(* streams up to the limit, as does the end of a stream.  Credit is never  *)
(* taken back.                                                             *)
(***************************************************************************)
SetLimit(limit, live) ==
  granted' = IF limit > granted + live THEN limit - live ELSE granted

NeedsIdle == maintaining /\ idle < MaxIdle

AcquirePermit ==
  /\ task = "running" /\ acquisition = "pending"
  /\ idle < MaxIdle /\ available > 0
  /\ acquisition' = "ready"
  /\ available' = available - 1
  /\ UNCHANGED <<connection, granted, serverVars, idle, held, maintaining, others,
                 taskVars, streamVars, withdrawVars>>

OfferIdle ==
  /\ task = "running" /\ acquisition = "ready" /\ NeedsIdle
  /\ idle' = idle + 1
  /\ held' = held + 1
  /\ SetLimit(held + 1, Cardinality(Live))
  /\ acquisition' = "pending"
  /\ UNCHANGED <<connection, serverVars, maintaining, budgetVars, taskVars, streamVars,
                 withdrawVars>>

\* Idle maintenance has stopped: the session task drops its acquisition.
DropAcquisition ==
  /\ task = "running" /\ ~maintaining /\ acquisition # "none"
  /\ available' = IF acquisition = "ready" THEN available + 1 ELSE available
  /\ acquisition' = "none"
  /\ UNCHANGED <<connection, granted, serverVars, idle, held, maintaining, others,
                 taskVars, streamVars, withdrawVars>>

\* VisitorCredits::release_idle, with or without the pending acquisition.
ReleaseIdle(dropped) ==
  /\ maintaining' = FALSE
  /\ held' = held - idle
  /\ idle' = 0
  /\ acquisition' = IF dropped THEN "none" ELSE acquisition
  /\ available' = available + idle
                    + (IF dropped /\ acquisition = "ready" THEN 1 ELSE 0)
  /\ UNCHANGED others

\* Another connection of the Client instance takes or returns a permit.
OtherConnection ==
  /\ \/ available > 0 /\ others < MaxOthers /\ others' = others + 1 /\ available' = available - 1
     \/ others > 0 /\ others' = others - 1 /\ available' = available + 1
  /\ UNCHANGED <<connection, granted, serverVars, creditVars, taskVars, streamVars,
                 withdrawVars>>

-----------------------------------------------------------------------------
\* The Client's session task and handlers.

\* A candidate ("joining") offers no credit before it joins.
ConnectReturns ==
  /\ Open /\ session \in {"accepted", "established"} /\ task \in {"connecting", "joining"}
  /\ task' = IF task = "joining" THEN "candidate" ELSE "running"
  /\ acquisition' = IF task = "joining" THEN "none" ELSE "pending"
  /\ UNCHANGED <<connection, granted, serverVars, idle, held, maintaining, budgetVars,
                 draining, streamVars, withdrawVars>>

ReleaseCredit ==
  /\ Open /\ task = "candidate"
  /\ task' = "running"
  /\ acquisition' = "pending"
  /\ UNCHANGED <<connection, granted, serverVars, idle, held, maintaining, budgetVars,
                 draining, streamVars, withdrawVars>>

Stream(v, stage) == stream' = [stream EXCEPT ![v] = stage]

Arrived(v) == Open /\ task = "running" /\ stream[v] = "arriving"

\* VisitorCredits::assign: an idle permit, or a spare one, or a rejection.
AssignIdle(v) ==
  /\ Arrived(v) /\ idle > 0
  /\ idle' = idle - 1
  /\ Stream(v, "handling")
  /\ UNCHANGED <<connection, granted, serverVars, held, maintaining, acquisition,
                 budgetVars, taskVars, retained, withdrawVars>>

AssignSpare(v) ==
  /\ Arrived(v) /\ idle = 0 /\ available > 0
  /\ available' = available - 1
  /\ held' = held + 1
  /\ SetLimit(held + 1, Cardinality(Live))
  /\ Stream(v, "handling")
  /\ UNCHANGED <<connection, serverVars, idle, maintaining, acquisition, others, taskVars,
                 retained, withdrawVars>>

RejectArrived(v) ==
  /\ Arrived(v) /\ idle = 0 /\ available = 0
  /\ Stream(v, "rejected")
  /\ UNCHANGED <<connection, granted, serverVars, creditVars, budgetVars, taskVars,
                 retained, withdrawVars>>

\* Both directions end while the handler still holds its halves.
TransportFinishes(v) ==
  /\ Open /\ stream[v] = "handling"
  /\ Stream(v, "finished")
  /\ retained' = TRUE
  /\ SetLimit(held, Cardinality(Live) - 1)
  /\ UNCHANGED <<connection, serverVars, creditVars, budgetVars, taskVars, withdrawVars>>

\* Mutant: before_drop gives the permit back as well.
HandlerDropsReleasing(v) ==
  /\ stream[v] \in {"handling", "finished"}
  /\ Stream(v, IF stream[v] = "handling" THEN "dropping" ELSE "leaving")
  /\ held' = held - 1
  /\ available' = available + 1
  /\ UNCHANGED <<connection, granted, serverVars, idle, maintaining, acquisition, others,
                 taskVars, retained, withdrawVars>>

\* before_drop of the last half: the limit goes down first.
HandlerDrops(v) ==
  /\ stream[v] \in {"handling", "finished"}
  /\ Stream(v, IF stream[v] = "handling" THEN "dropping" ELSE "leaving")
  /\ held' = held - 1
  /\ UNCHANGED <<connection, granted, serverVars, idle, maintaining, acquisition, budgetVars,
                 taskVars, retained, withdrawVars>>

\* VisitorPermit is dropped after the transport's handles.
PermitReturns(v) ==
  /\ stream[v] \in {"dropping", "leaving"}
  /\ Stream(v, IF stream[v] = "dropping" THEN "resetting" ELSE "over")
  /\ available' = available + 1
  /\ UNCHANGED <<connection, granted, serverVars, creditVars, others, taskVars, retained,
                 withdrawVars>>

StreamFreed(v) ==
  /\ stream[v] \in {"rejected", "resetting"}
  /\ Stream(v, "over")
  /\ SetLimit(held, Cardinality(Live) - 1)
  /\ UNCHANGED <<connection, serverVars, creditVars, budgetVars, taskVars, retained,
                 withdrawVars>>

ObserveDrain ==
  /\ Open /\ task = "running" /\ shutdown = "drain_sent" /\ ~draining
  /\ draining' = TRUE
  /\ ReleaseIdle(TRUE)
  /\ UNCHANGED <<connection, granted, serverVars, task, streamVars, withdrawVars>>

\* The leases are drained and no stream waits: acknowledge with CLOSE.
CloseSession ==
  /\ Open /\ task = "running" /\ draining
  /\ Handlers = {}
  /\ task' = "closing"
  /\ UNCHANGED <<connection, granted, serverVars, creditVars, budgetVars, draining,
                 streamVars, withdrawVars>>

\* Mutant: the idle permits stay with the connection's credits.
SessionTaskEndsKeepingIdle ==
  /\ ~Open /\ task # "ended"
  /\ task' = "ended"
  /\ acquisition' = "none"
  /\ available' = IF acquisition = "ready" THEN available + 1 ELSE available
  /\ UNCHANGED <<connection, granted, serverVars, idle, held, maintaining, others, draining,
                 streamVars, withdrawVars>>

\* The task returns, and CreditMaintenance is dropped with it.
SessionTaskEnds ==
  /\ ~Open /\ task # "ended"
  /\ task' = "ended"
  /\ ReleaseIdle(TRUE)
  /\ UNCHANGED <<connection, granted, serverVars, draining, streamVars,
                 withdrawVars>>

-----------------------------------------------------------------------------
\* The Client withdraws the connection.

\* Mutant: the reserved permits are released when the withdrawal begins.
StartWithdrawalReleasing ==
  /\ Open /\ task = "running" /\ withdrawal = "none"
  /\ withdrawal' = "sending"
  /\ ReleaseIdle(FALSE)
  /\ UNCHANGED <<connection, granted, serverVars, taskVars, streamVars, attempt,
                 withdrawal_confirmed>>

\* stop_replenishing: the idle permits stay reserved.
StartWithdrawal ==
  /\ Open /\ task = "running" /\ withdrawal = "none"
  /\ withdrawal' = "sending"
  /\ maintaining' = FALSE
  /\ UNCHANGED <<connection, granted, serverVars, idle, held, acquisition, budgetVars,
                 taskVars, streamVars, attempt, withdrawal_confirmed>>

SendWithdrawal ==
  /\ Open /\ withdrawal = "sending"
  /\ withdrawal' = "waiting"
  /\ request' = [request EXCEPT ![attempt] = "sent"]
  /\ UNCHANGED <<connection, granted, placeVars, accountVars, withdrawn,
                 withdrawal_waiters, confirmed, closing, shutdownVars, creditVars,
                 budgetVars, taskVars, streamVars, attempt, withdrawal_confirmed>>

\* GOAWAY has arrived: no request can be opened.
WithdrawalForbidden ==
  /\ withdrawal = "sending" /\ goaway
  /\ Close("unconfirmed")
  /\ withdrawal' = "done"
  /\ UNCHANGED <<attempt, withdrawal_confirmed>>

\* A reset stream or a 408 is retried once.
RetryWithdrawal ==
  /\ Open /\ withdrawal = "waiting" /\ attempt = 1
  /\ request[attempt] \in {"failed", "timed_out"}
  /\ withdrawal' = "sending"
  /\ attempt' = 2
  /\ UNCHANGED <<connection, granted, serverVars, creditVars, budgetVars, taskVars,
                 streamVars, withdrawal_confirmed>>

WithdrawalExhausted ==
  /\ withdrawal = "waiting" /\ attempt = 2
  /\ request[attempt] \in {"failed", "timed_out"}
  /\ Close("unconfirmed")
  /\ withdrawal' = "done"
  /\ UNCHANGED <<attempt, withdrawal_confirmed>>

WithdrawalConfirmed ==
  /\ withdrawal = "waiting" /\ request[attempt] = "answered"
  /\ withdrawal' = "draining"
  /\ withdrawal_confirmed' = TRUE
  /\ ReleaseIdle(FALSE)
  /\ UNCHANGED <<connection, granted, serverVars, taskVars, streamVars, attempt>>

WithdrawalDrained ==
  /\ withdrawal = "draining" /\ Handlers = {}
  /\ Close("withdrawn")
  /\ withdrawal' = "done"
  /\ UNCHANGED <<attempt, withdrawal_confirmed>>

WithdrawalLost ==
  /\ ~Open /\ withdrawal \in {"sending", "waiting", "draining"}
  /\ withdrawal' = "done"
  /\ UNCHANGED <<connection, granted, serverVars, creditVars, budgetVars, taskVars,
                 streamVars, attempt, withdrawal_confirmed>>

-----------------------------------------------------------------------------
PlaceStep(v) ==
  \/ CheckAccepts(v) \/ StartWork(v) \/ OpenStream(v) \/ PassGoaway(v)
  \/ CommitPlacement(v) \/ RejectOpened(v) \/ CancelOpen(v) \/ PlacedEnds(v)

RequestStep(r) ==
  \/ AcceptWithdrawal(r) \/ RejectUnprocessed(r) \/ RequestTimesOut(r)
  \/ RegisterWaiter(r) \/ CommitWithdrawal(r) \/ WithdrawalQuiescent(r)
  \/ \E sent \in BOOLEAN : SendConfirmation(r, sent)

ServerStep ==
  \/ \E outcome \in {"accepted", "none"} : AcceptSession(outcome)
  \/ PublishSession \/ EventsEnd
  \/ CloseSeesWithdrawal \/ CloseSeesQuiescence \/ CloseSeesAnswer \/ PostQuiescenceClose
  \/ RequestShutdown \/ SendGoaway \/ SendDrain \/ CloseWithoutSession \/ SessionCloses

HandlerStep(v) ==
  \/ AssignIdle(v) \/ AssignSpare(v) \/ RejectArrived(v) \/ TransportFinishes(v)
  \/ HandlerDrops(v) \/ PermitReturns(v) \/ StreamFreed(v)

ClientStep ==
  \/ ConnectReturns \/ ReleaseCredit \/ AcquirePermit \/ OfferIdle \/ DropAcquisition
  \/ ObserveDrain \/ CloseSession \/ SessionTaskEnds
  \/ StartWithdrawal \/ SendWithdrawal \/ WithdrawalForbidden \/ RetryWithdrawal
  \/ WithdrawalExhausted \/ WithdrawalConfirmed \/ WithdrawalDrained \/ WithdrawalLost

Next ==
  \/ \E v \in Visitors : PlaceStep(v) \/ HandlerStep(v)
  \/ \E r \in Attempts : RequestStep(r)
  \/ ServerStep \/ ClientStep \/ OtherConnection \/ ConnectionEnds

Spec == Init /\ [][Next]_vars

(***************************************************************************)
(* Fairness.  Every task is polled again once it can go on, and timers     *)
(* elapse: an open that waits has a deadline, a 204 is written or its      *)
(* write is cancelled, the post-quiescence sleep ends.  The Client answers *)
(* DRAIN and its session task sees the end of the connection; a candidate  *)
(* joins or is dropped; a handler that has begun to drop its halves drops  *)
(* the permit too.  Nothing is assumed of handlers that run: each is a     *)
(* detached task that a silent backend may keep for ever, also after the   *)
(* connection has ended.  Nor of Visitors, of credit, of other             *)
(* connections, or of the shutdown's own deadline.                         *)
(***************************************************************************)
FairSpec ==
  /\ Spec
  /\ \A v \in Visitors :
       /\ WF_vars(StartWork(v) \/ PassGoaway(v) \/ CommitPlacement(v) \/ RejectOpened(v)
                    \/ CancelOpen(v))
       /\ WF_vars(PermitReturns(v))
  /\ \A r \in Attempts :
       WF_vars(RequestTimesOut(r) \/ RegisterWaiter(r) \/ CommitWithdrawal(r)
                 \/ WithdrawalQuiescent(r) \/ \E sent \in BOOLEAN : SendConfirmation(r, sent))
  /\ WF_vars(CloseSeesWithdrawal \/ CloseSeesQuiescence \/ CloseSeesAnswer
               \/ PostQuiescenceClose)
  /\ WF_vars(PublishSession \/ \E outcome \in {"accepted", "none"} : AcceptSession(outcome))
  /\ WF_vars(EventsEnd)
  /\ WF_vars(SendDrain \/ CloseWithoutSession)
  /\ WF_vars(SessionCloses)
  /\ WF_vars(ConnectReturns \/ ObserveDrain \/ CloseSession \/ SessionTaskEnds)
  /\ WF_vars(ReleaseCredit \/ (task = "candidate" /\ ConnectionEnds))

-----------------------------------------------------------------------------
\* Properties.

Placed == {v \in Visitors : placement[v] = "placed"}

(***************************************************************************)
(* Permits are neither lost nor made: the budget is what is available,     *)
(* what other connections hold, what an acquisition holds, idle permits    *)
(* and handlers; the stream limit counts idle permits and handlers that    *)
(* have not begun to drop (VisitorCredits, VisitorPermit).                 *)
(***************************************************************************)
PermitAccounting ==
  /\ available + others + idle + Cardinality(Handlers)
       + (IF acquisition = "ready" THEN 1 ELSE 0) = Budget
  /\ held = idle + Cardinality({v \in Visitors : stream[v] \in {"handling", "finished"}})

(***************************************************************************)
(* A withdrawal that the Client knows to be confirmed leaves no Visitor    *)
(* placed, then or later: a placement commits before the withdrawal, and   *)
(* the 204 waits for it, or never (open_visitor_stream, serve_withdrawal). *)
(***************************************************************************)
ConfirmedIsQuiescent == withdrawal_confirmed => Placed = {}

(***************************************************************************)
(* The orderly ways to close cut nothing: when the Server closes after     *)
(* quiescence or at the end of a drained session, or the Client after a    *)
(* confirmed withdrawal, no Visitor is placed, and at the two latter no    *)
(* handler of the Client is left (close_after_quiescence, serve_connection,*)
(* ClientTunnel::withdrawal).                                              *)
(***************************************************************************)
OrderlyCloseCutsNothing ==
  [][(Open /\ connection' \in {"quiesced", "drained", "withdrawn"}) =>
       /\ Placed = {}
       /\ connection' # "quiesced" => Handlers = {}]_vars

(***************************************************************************)
(* A Visitor that the Server has placed finds a permit at the Client, also *)
(* while the connection is being withdrawn, as long as no handler has      *)
(* outlived its stream: then QUIC has granted credit that no permit backs  *)
(* (stop_replenishing, VisitorCredits::assign).                            *)
(***************************************************************************)
PlacedFindsPermit ==
  [][\A v \in Visitors :
       (placement[v] = "placed" /\ stream[v] = "arriving" /\ stream'[v] = "rejected")
         => retained]_vars

(***************************************************************************)
(* A withdrawn connection whose last Visitor has left is closed, whether   *)
(* or not a 204 could be sent (close_after_quiescence).                    *)
(***************************************************************************)
WithdrawnCloses == (withdrawn /\ visitor_work = 0) ~> ~Open

(***************************************************************************)
(* A connection that is shut down closes without its deadline, unless a    *)
(* Visitor keeps it: the Server's wait for its requests, the DRAIN, and    *)
(* the Client's wait for its handlers never wait for each other.           *)
(***************************************************************************)
ShutdownDrains == goaway ~> (~Open \/ Placed # {} \/ Handlers # {})

(***************************************************************************)
(* Once the connection has ended, its permits return to the budget of the  *)
(* Client instance, all but those of handlers that still run: the idle     *)
(* permits and an acquired one are given back even while handlers retain   *)
(* the pool (Drop of CreditMaintenance, VisitorPermit).                    *)
(***************************************************************************)
RunningHandlers == {v \in Visitors : stream[v] \in {"handling", "finished"}}
PermitsReturned == ~Open ~> (available + others + Cardinality(RunningHandlers) = Budget)
===============================================================================
