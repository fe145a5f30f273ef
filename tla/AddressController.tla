------------------------- MODULE AddressController -------------------------
(***************************************************************************)
(* The Client's Address controller and the outer loop of its address       *)
(* workers: maintenance intent, re-adoption, worker generations,           *)
(* Assignment convergence, fatal completions and the shutdown drain.       *)
(*                                                                         *)
(*   - AddressController in Managed mode                                   *)
(*     (src/client/address_controller.rs);                                 *)
(*   - run_address_worker (src/client/address_worker.rs), with a Connected *)
(*     stretch as one stage;                                               *)
(*   - AssignmentConvergenceTracker (src/client/assignment_convergence.rs);*)
(*   - OrderlyShutdown as the controller uses it (src/shutdown.rs).        *)
(*                                                                         *)
(* A worker is named by its generation.  Workers run on other threads than *)
(* the controller: between two steps of one, the other moves.              *)
(***************************************************************************)
EXTENDS Naturals, Sequences, FiniteSets

CONSTANTS Addresses,
          Assignments,   \* the `server_addresses` sets that Control assigns
          MaxApplies,    \* bound: assignments that Control sends
          MaxWorkers     \* bound: workers ever spawned

ASSUME AddressesAssumption == IsFiniteSet(Addresses) /\ Addresses # {}
ASSUME AssignmentsAssumption == Assignments \subseteq SUBSET Addresses
ASSUME BoundsAssumption == MaxApplies \in Nat /\ MaxWorkers \in Nat

VARIABLES
  \* The controller.
  slots,             \* `workers`: the generation that owns each address
  running,           \* generations whose completion was not taken yet
  next_generation,
  shared_worker_count,
  controller,        \* what AddressController::run is doing
  desired,           \* the assignment it is applying
  first_error,       \* drain_workers_preserving keeps an error
  apply_rx, applies, session_open,     \* the apply channel
  \* Shared with the workers.
  orderly, shutdown, \* OrderlyShutdown::mode and the shutdown channel
  intent,            \* each worker's maintenance channel
  assigned, connected,                 \* AssignmentConvergenceTracker
  \* The workers.
  address_of, stage, result,
  unseen,            \* the receiver of the outer loop has a new value
  woken              \* the receiver of wait_for_retry_delay has one

sharedVars     == <<orderly, shutdown>>
trackerVars    == <<assigned, connected>>
channelVars    == <<apply_rx, applies, session_open>>
slotVars       == <<slots, running, next_generation, shared_worker_count>>
controllerVars == <<controller, desired, first_error>>
workerVars     == <<address_of, stage, result, intent, unseen, woken>>
vars == <<sharedVars, trackerVars, channelVars, slotVars, controllerVars, workerVars>>

Workers == 1..MaxWorkers
NoWorker == 0

Stages == {"unborn", "checking", "establishing", "connected", "withdrawing",
           "run_ended", "delaying", "backoff", "exiting", "finished"}

TypeOK ==
  /\ slots \in [Addresses -> Workers \cup {NoWorker}]
  /\ running \subseteq Workers
  /\ next_generation \in 1..(MaxWorkers + 1)
  /\ shared_worker_count \in 0..Cardinality(Addresses)
  /\ controller \in {"select", "intents", "adding", "draining", "stopped"}
  /\ desired \subseteq Addresses
  /\ first_error \in BOOLEAN
  /\ apply_rx \in Seq(SUBSET Addresses)
  /\ applies \in 0..MaxApplies
  /\ session_open \in BOOLEAN
  /\ orderly \in {"none", "graceful", "fast"}
  /\ shutdown \in BOOLEAN
  /\ intent \in [Workers -> {"Maintain", "Retire"}]
  /\ assigned \subseteq Addresses
  /\ connected \subseteq Addresses
  /\ address_of \in [Workers -> Addresses]
  /\ stage \in [Workers -> Stages]
  /\ result \in [Workers -> {"none", "ok", "lost", "withdrawal_failed", "err"}]
  /\ unseen \in [Workers -> BOOLEAN]
  /\ woken \in [Workers -> BOOLEAN]

Init ==
  /\ slots = [a \in Addresses |-> NoWorker]
  /\ running = {}
  /\ next_generation = 1
  /\ shared_worker_count = 0
  /\ controller = "select"
  /\ desired = {}
  /\ first_error = FALSE
  /\ apply_rx = <<>>
  /\ applies = 0
  /\ session_open = TRUE
  /\ orderly = "none"
  /\ shutdown = FALSE
  /\ intent = [g \in Workers |-> "Maintain"]
  /\ assigned = {}
  /\ connected = {}
  /\ address_of = [g \in Workers |-> CHOOSE a \in Addresses : TRUE]
  /\ stage = [g \in Workers |-> "unborn"]
  /\ result = [g \in Workers |-> "none"]
  /\ unseen = [g \in Workers |-> FALSE]
  /\ woken = [g \in Workers |-> FALSE]

-----------------------------------------------------------------------------
\* Helpers.

Spawned(g) == stage[g] # "unborn"

\* WorkerSlot::is_live: the worker still holds a maintenance receiver.
IsLive(g) == g # NoWorker /\ Spawned(g) /\ stage[g] # "finished"

\* Mutant: an internal stop is always fast.
RequestShutdownFast ==
  /\ orderly' = "fast"
  /\ shutdown' = TRUE

\* request_shutdown never escalates a shutdown that has started.
RequestShutdown ==
  /\ orderly' = IF orderly = "none" THEN "fast" ELSE orderly
  /\ shutdown' = TRUE

-----------------------------------------------------------------------------
\* The Managed session and the signals.

SendAssignment(addresses) ==
  /\ session_open
  /\ controller # "stopped"
  /\ applies < MaxApplies
  /\ applies' = applies + 1
  /\ apply_rx' = Append(apply_rx, addresses)
  /\ UNCHANGED <<session_open, sharedVars, trackerVars, slotVars, controllerVars, workerVars>>

\* The session returns.  Its adapter is a local of run_managed_client and outlives
\* it; that the controller sees the channel close (recv gives None) is more than
\* that caller does.
SessionEnds ==
  /\ session_open
  /\ session_open' = FALSE
  /\ UNCHANGED <<apply_rx, applies, sharedVars, trackerVars, slotVars, controllerVars,
                 workerVars>>

\* AddressControllerShutdown::begin: the mode first, then the channel.
BeginGraceful ==
  /\ orderly = "none"
  /\ orderly' = "graceful"
  /\ UNCHANGED <<shutdown, trackerVars, channelVars, slotVars, controllerVars, workerVars>>

BeginFast ==
  /\ orderly # "fast"
  /\ orderly' = "fast"
  /\ UNCHANGED <<shutdown, trackerVars, channelVars, slotVars, controllerVars, workerVars>>

SendShutdown ==
  /\ orderly # "none"
  /\ ~shutdown
  /\ shutdown' = TRUE
  /\ UNCHANGED <<orderly, trackerVars, channelVars, slotVars, controllerVars, workerVars>>

-----------------------------------------------------------------------------
\* AddressController::run.

\* set_assigned, then replace_intent.
ReceiveAssignment ==
  /\ controller = "select"
  /\ apply_rx # <<>>
  /\ assigned' = Head(apply_rx)
  /\ desired' = Head(apply_rx)
  /\ apply_rx' = Tail(apply_rx)
  /\ controller' = "intents"
  /\ UNCHANGED <<applies, session_open, sharedVars, connected, slotVars, first_error,
                 workerVars>>

\* The channels to which the first loop of replace_intent sends a new value.
Readopted == {g \in Workers : /\ slots[address_of[g]] = g /\ IsLive(g)
                              /\ address_of[g] \in desired /\ intent[g] = "Retire"}
Retired   == {g \in Workers : /\ slots[address_of[g]] = g /\ IsLive(g)
                              /\ address_of[g] \notin desired /\ intent[g] = "Maintain"}

\* Desired, Retiring, and its worker gone before it could be re-adopted.
Forgotten(a) ==
  /\ a \in desired
  /\ slots[a] # NoWorker
  /\ intent[slots[a]] = "Retire"
  /\ ~IsLive(slots[a])

\* Every receiver of these channels has a new value.
Wake(gs) ==
  /\ unseen' = [g \in Workers |-> unseen[g] \/ g \in gs]
  /\ woken' = [g \in Workers |-> woken[g] \/ (g \in gs /\ stage[g] = "backoff")]

\* Mutant: a Retiring worker of a desired address keeps retiring.
ReplaceIntentsRetireOnly ==
  /\ controller = "intents"
  /\ intent' = [g \in Workers |-> IF g \in Retired THEN "Retire" ELSE intent[g]]
  /\ Wake(Retired)
  /\ controller' = "adding"
  /\ UNCHANGED <<sharedVars, trackerVars, channelVars, slotVars, desired, first_error,
                 address_of, stage, result>>

\* replace_intent, over the existing slots: re-adopt a desired Retiring
\* worker that is live, forget one that is not, retire the undesired.
ReplaceIntents ==
  /\ controller = "intents"
  /\ intent' = [g \in Workers |-> IF g \in Readopted THEN "Maintain"
                                  ELSE IF g \in Retired THEN "Retire" ELSE intent[g]]
  /\ Wake(Readopted \cup Retired)
  /\ slots' = [a \in Addresses |-> IF Forgotten(a) THEN NoWorker ELSE slots[a]]
  /\ shared_worker_count' =
       shared_worker_count - Cardinality({a \in Addresses : Forgotten(a)})
  /\ controller' = "adding"
  /\ UNCHANGED <<sharedVars, trackerVars, channelVars, running, next_generation, desired,
                 first_error, address_of, stage, result>>

\* Mutant: a worker is spawned for every desired address that is not connected.
MissingUnconnected(a) == a \in desired /\ (slots[a] = NoWorker \/ a \notin connected)

\* Desired addresses without a live worker.
Missing(a) == a \in desired /\ ~IsLive(slots[a])

\* spawn_worker, and add: a dead slot is replaced.
AddMissing(a) ==
  /\ controller = "adding"
  /\ Missing(a)
  /\ next_generation <= MaxWorkers
  /\ next_generation' = next_generation + 1
  /\ slots' = [slots EXCEPT ![a] = next_generation]
  /\ shared_worker_count' = shared_worker_count + (IF slots[a] = NoWorker THEN 1 ELSE 0)
  /\ running' = running \cup {next_generation}
  /\ address_of' = [address_of EXCEPT ![next_generation] = a]
  /\ stage' = [stage EXCEPT ![next_generation] = "checking"]
  /\ desired' = desired \ {a}
  /\ UNCHANGED <<sharedVars, trackerVars, channelVars, controller, first_error, result,
                 intent, unseen, woken>>

\* A desired address whose worker is live needs nothing.
AddNothing(a) ==
  /\ controller = "adding"
  /\ a \in desired
  /\ ~Missing(a)
  /\ desired' = desired \ {a}
  /\ UNCHANGED <<sharedVars, trackerVars, channelVars, slotVars, controller, first_error,
                 workerVars>>

AssignmentApplied ==
  /\ controller = "adding"
  /\ desired = {}
  /\ controller' = "select"
  /\ UNCHANGED <<sharedVars, trackerVars, channelVars, slotVars, desired, first_error,
                 workerVars>>

ApplyChannelClosed ==
  /\ controller = "select"
  /\ apply_rx = <<>>
  /\ ~session_open
  /\ RequestShutdown
  /\ controller' = "draining"
  /\ UNCHANGED <<trackerVars, channelVars, slotVars, desired, first_error, workerVars>>

ShutdownRequested ==
  /\ controller = "select"
  /\ shutdown
  /\ controller' = "draining"
  /\ UNCHANGED <<sharedVars, trackerVars, channelVars, slotVars, desired, first_error,
                 workerVars>>

FreeSlot(g) ==
  /\ slots' = [slots EXCEPT ![address_of[g]] = NoWorker]
  /\ shared_worker_count' = shared_worker_count - 1

Completes(g) ==
  /\ controller \in {"select", "draining"}
  /\ g \in running
  /\ stage[g] = "finished"
  /\ running' = running \ {g}

\* next_completion of a worker that still owns its slot.
CompleteOk(g) ==
  /\ Completes(g)
  /\ slots[address_of[g]] = g
  /\ result[g] = "ok"
  /\ FreeSlot(g)
  /\ UNCHANGED <<sharedVars, trackerVars, channelVars, next_generation, controllerVars,
                 workerVars>>

\* Mutant: the others are left to end by themselves.
CompleteErrKeepsOthers(g) ==
  /\ Completes(g)
  /\ slots[address_of[g]] = g
  /\ result[g] = "err"
  /\ FreeSlot(g)
  /\ first_error' = TRUE
  /\ controller' = "draining"
  /\ UNCHANGED <<sharedVars, trackerVars, channelVars, next_generation, desired, workerVars>>

\* The first failure stops every worker; later ones change nothing.
CompleteErr(g) ==
  /\ Completes(g)
  /\ slots[address_of[g]] = g
  /\ result[g] = "err"
  /\ FreeSlot(g)
  /\ IF first_error THEN UNCHANGED sharedVars ELSE RequestShutdown
  /\ first_error' = TRUE
  /\ controller' = "draining"
  /\ UNCHANGED <<trackerVars, channelVars, next_generation, desired, workerVars>>

\* A replaced worker's completion is ignored.
CompleteStale(g) ==
  /\ Completes(g)
  /\ slots[address_of[g]] # g
  /\ UNCHANGED <<sharedVars, trackerVars, channelVars, slots, next_generation,
                 shared_worker_count, controllerVars, workerVars>>

DrainEnds ==
  /\ controller = "draining"
  /\ running = {}
  /\ \A a \in Addresses : slots[a] = NoWorker
  /\ controller' = "stopped"
  /\ UNCHANGED <<sharedVars, trackerVars, channelVars, slotVars, desired, first_error,
                 workerVars>>

-----------------------------------------------------------------------------
\* run_address_worker.

MoveTo(g, s) == stage' = [stage EXCEPT ![g] = s]

\* The worker has decided to return; its receivers are still alive.
Exit(g, r) ==
  /\ MoveTo(g, "exiting")
  /\ result' = [result EXCEPT ![g] = r]

WorkerUnchanged ==
  UNCHANGED <<sharedVars, assigned, channelVars, slotVars, controllerVars, address_of, intent>>

\* Its receivers and the convergence tracker stay as they are.
Silently == WorkerUnchanged /\ UNCHANGED <<connected, unseen, woken>>

MustStop(g) == shutdown \/ intent[g] = "Retire"

\* The top of the loop.
WorkerStops(g) ==
  /\ stage[g] = "checking"
  /\ MustStop(g)
  /\ Exit(g, "ok")
  /\ Silently

WorkerDials(g) ==
  /\ stage[g] = "checking"
  /\ ~MustStop(g)
  /\ MoveTo(g, "establishing")
  /\ Silently /\ UNCHANGED result

EstablishingShutdown(g) ==
  /\ stage[g] = "establishing"
  /\ shutdown
  /\ Exit(g, "ok")
  /\ Silently

\* Mutant: the dial in progress is not cancelled.
EstablishingRetiredWaits(g) ==
  /\ stage[g] = "establishing"
  /\ unseen[g]
  /\ intent[g] = "Retire"
  /\ unseen' = [unseen EXCEPT ![g] = FALSE]
  /\ WorkerUnchanged /\ UNCHANGED <<stage, result, connected, woken>>

EstablishingRetired(g) ==
  /\ stage[g] = "establishing"
  /\ intent[g] = "Retire"
  /\ Exit(g, "ok")
  /\ unseen' = [unseen EXCEPT ![g] = FALSE]
  /\ WorkerUnchanged /\ UNCHANGED <<connected, woken>>

\* Retired and re-adopted since the last look: the dial starts over.
EstablishingReadopted(g) ==
  /\ stage[g] = "establishing"
  /\ unseen[g]
  /\ intent[g] = "Maintain"
  /\ MoveTo(g, "checking")
  /\ unseen' = [unseen EXCEPT ![g] = FALSE]
  /\ WorkerUnchanged /\ UNCHANGED <<connected, result, woken>>

EstablishConnected(g) ==
  /\ stage[g] = "establishing"
  /\ intent[g] = "Maintain"
  /\ MoveTo(g, "connected")
  /\ connected' = connected \cup {address_of[g]}
  /\ WorkerUnchanged /\ UNCHANGED <<result, unseen, woken>>

EstablishRetryable(g) ==
  /\ stage[g] = "establishing"
  /\ intent[g] = "Maintain"
  /\ MoveTo(g, "delaying")
  /\ Silently /\ UNCHANGED result

EstablishFatal(g) ==
  /\ stage[g] = "establishing"
  /\ intent[g] = "Maintain"
  /\ Exit(g, "err")
  /\ Silently

\* A connection withdraws once a graceful shutdown has started.
RunWithdraws(g) ==
  /\ stage[g] = "connected"
  /\ orderly = "graceful"
  /\ MoveTo(g, "withdrawing")
  /\ Silently /\ UNCHANGED result

\* ConnectedAddress::run returns: lost, closed by the shutdown, or at the
\* end of the withdrawal.
RunReturns(g, outcome) ==
  /\ result' = [result EXCEPT ![g] = outcome]
  /\ MoveTo(g, "run_ended")
  /\ connected' = connected \ {address_of[g]}
  /\ WorkerUnchanged /\ UNCHANGED <<unseen, woken>>

RunLost(g) == stage[g] = "connected" /\ RunReturns(g, "lost")

RunClosed(g) == stage[g] = "connected" /\ orderly # "none" /\ RunReturns(g, "ok")

RunWithdrawn(g) ==
  /\ stage[g] = "withdrawing"
  /\ RunReturns(g, "ok") \/ RunReturns(g, "withdrawal_failed")

RunFailedWithdrawal(g) ==
  /\ stage[g] = "run_ended"
  /\ result[g] = "withdrawal_failed"
  /\ Exit(g, "err")
  /\ Silently

RunLeaves(g) ==
  /\ stage[g] = "run_ended"
  /\ result[g] = "ok" \/ (result[g] = "lost" /\ MustStop(g))
  /\ Exit(g, "ok")
  /\ Silently

RunReconnects(g) ==
  /\ stage[g] = "run_ended"
  /\ result[g] = "lost"
  /\ ~MustStop(g)
  /\ MoveTo(g, "delaying")
  /\ Silently /\ UNCHANGED result

DropBackoffReceiver(g) ==
  /\ woken' = [woken EXCEPT ![g] = FALSE]
  /\ WorkerUnchanged /\ UNCHANGED <<connected, unseen>>

\* wait_for_retry_delay subscribes: changes from now on wake it.
BackoffBegins(g) ==
  /\ stage[g] = "delaying"
  /\ MoveTo(g, "backoff")
  /\ Silently /\ UNCHANGED result

\* The shutdown branch, which subscribes and then looks.
BackoffShutdown(g) ==
  /\ stage[g] = "backoff"
  /\ shutdown
  /\ Exit(g, "ok")
  /\ DropBackoffReceiver(g)

\* A change of intent, or the delay itself, ends the wait.
BackoffEnds(g) ==
  /\ IF MustStop(g)
     THEN Exit(g, "ok")
     ELSE MoveTo(g, "checking") /\ UNCHANGED result
  /\ DropBackoffReceiver(g)

BackoffWoken(g) == stage[g] = "backoff" /\ woken[g] /\ BackoffEnds(g)

DelayElapses(g) == stage[g] = "backoff" /\ BackoffEnds(g)

\* The future is dropped with its receivers and the task completes.
WorkerReturns(g) ==
  /\ stage[g] = "exiting"
  /\ MoveTo(g, "finished")
  /\ Silently /\ UNCHANGED result

-----------------------------------------------------------------------------
WorkerStep(g) ==
  \/ WorkerStops(g) \/ WorkerDials(g)
  \/ EstablishingShutdown(g) \/ EstablishingRetired(g) \/ EstablishingReadopted(g)
  \/ EstablishConnected(g) \/ EstablishRetryable(g) \/ EstablishFatal(g)
  \/ RunWithdraws(g) \/ RunWithdrawn(g) \/ RunFailedWithdrawal(g) \/ RunLeaves(g) \/ RunReconnects(g)
  \/ BackoffBegins(g) \/ BackoffShutdown(g) \/ BackoffWoken(g) \/ DelayElapses(g)
  \/ WorkerReturns(g)

Completion ==
  \E g \in Workers : CompleteOk(g) \/ CompleteErr(g) \/ CompleteStale(g)

ControllerStep ==
  \/ ReceiveAssignment
  \/ ReplaceIntents
  \/ \E a \in Addresses : AddMissing(a) \/ AddNothing(a)
  \/ AssignmentApplied
  \/ ApplyChannelClosed
  \/ ShutdownRequested
  \/ Completion
  \/ DrainEnds

Next ==
  \/ \E addresses \in Assignments : SendAssignment(addresses)
  \/ SessionEnds
  \/ BeginGraceful \/ BeginFast \/ SendShutdown
  \/ ControllerStep
  \/ \E g \in Workers : WorkerStep(g) \/ RunLost(g) \/ RunClosed(g)

Spec == Init /\ [][Next]_vars

(***************************************************************************)
(* Fairness.  Controller and worker tasks are polled while they can move;  *)
(* delays elapse; begin() sends on both channels; and once a shutdown has  *)
(* started every connection's run ends, by its own deadline.  Nothing says *)
(* that a dial succeeds or that a connection ends before a shutdown.       *)
(***************************************************************************)
FairSpec ==
  /\ Spec
  /\ WF_vars(ControllerStep)
  /\ WF_vars(Completion)
  /\ WF_vars(SendShutdown)
  /\ \A g \in Workers : WF_vars(WorkerStep(g) \/ RunClosed(g))

-----------------------------------------------------------------------------
\* Properties.

\* A worker that is still alive owns the slot of its address, so no address
\* has two; and an occupied slot names a worker of that address whose
\* completion is still to come, so a stale completion cannot have cleared or
\* outlived it.  The shared worker count is the number of occupied slots (add,
\* replace_intent, next_completion).
OneWorkerPerAddress ==
  /\ \A g \in Workers : IsLive(g) => slots[address_of[g]] = g
  /\ \A a \in Addresses :
       slots[a] # NoWorker => address_of[slots[a]] = a /\ slots[a] \in running
  /\ shared_worker_count = Cardinality({a \in Addresses : slots[a] # NoWorker})

\* The convergence tracker counts an address as Connected exactly while a
\* worker holds a connection to it, across removals, re-adoptions and respawns
\* (mark_connected, mark_disconnected).
ConnectedTracked ==
  connected = {address_of[g] : g \in {w \in Workers : stage[w] \in {"connected", "withdrawing"}}}

(***************************************************************************)
(* Without duplicate dialing: every address has at most one worker, whose  *)
(* slot, count and connection the controller and the tracker account for.  *)
(***************************************************************************)
WorkersAccounted == TypeOK /\ OneWorkerPerAddress /\ ConnectedTracked

(***************************************************************************)
(* Between applies, a worker that is still alive maintains its address     *)
(* exactly if the address is assigned: whatever sequence of removals,      *)
(* re-additions and exits led here (replace_intent).                       *)
(***************************************************************************)
IntentFollowsAssignment ==
  controller = "select" =>
    \A g \in Workers : IsLive(g) => (intent[g] = "Maintain" <=> address_of[g] \in assigned)

(***************************************************************************)
(* Workers see the shutdown channel only once the mode is set, and an      *)
(* internal stop never cuts a graceful shutdown short: while the drain is  *)
(* graceful only BeginFast makes it fast (begin, request_shutdown).        *)
(***************************************************************************)
GracefulNotCutShort ==
  [][/\ shutdown' => orderly' # "none"
     /\ (orderly = "graceful" /\ orderly' # "graceful") => UNCHANGED <<slots, controller>>]_vars

(***************************************************************************)
(* A shutdown, from a signal or from a fatal worker, ends: every worker is *)
(* drained and the controller stops (request_shutdown,                     *)
(* drain_workers_preserving).  A behaviour that needs one worker more than *)
(* MaxWorkers stops short of it.                                           *)
(***************************************************************************)
OutOfWorkers == controller = "adding" /\ next_generation > MaxWorkers

ShutdownCompletes == (shutdown \/ first_error) ~> (controller = "stopped" \/ OutOfWorkers)

(***************************************************************************)
(* Workers of removed addresses that are not Connected all end, unless     *)
(* their address is added again (run_address_worker,                       *)
(* wait_for_retry_delay).                                                  *)
(***************************************************************************)
RetiredDialing ==
  {g \in Workers : /\ IsLive(g) /\ intent[g] = "Retire"
                   /\ stage[g] \notin {"connected", "withdrawing"}}

RemovedStopsDialing == RetiredDialing # {} ~> RetiredDialing = {}

(***************************************************************************)
(* What src/docs/managed.md says of assignments: added addresses start     *)
(* independent connect/reconnect loops.  Until a shutdown or a failed      *)
(* worker, an assigned address has a worker between applies.               *)
(***************************************************************************)
AssignedHasWorker ==
  (controller = "select" /\ orderly = "none") =>
    \A a \in assigned : slots[a] # NoWorker
=============================================================================
