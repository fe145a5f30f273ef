------------------------------ MODULE AddressWorker ------------------------------
(***************************************************************************)
(* One address worker of the Client (src/src/client/address_worker.rs):    *)
(* it dials a Server address, and while a primary Tunnel connection is     *)
(* live it follows the replacement hint of that connection with at most    *)
(* one candidate, which joins as a second connection and takes over.       *)
(* Around it: the event follower of each connection (tunnel/client.rs),    *)
(* the hints that Server runtimes advertise (tunnel/events.rs), the        *)
(* maintenance intent and the shutdown of the controller, and the network. *)
(*                                                                         *)
(* The select of ConnectedAddress::run is biased, but what becomes ready   *)
(* while its branches are polled waits for the next poll: a candidate can  *)
(* complete with any other event pending, and the model lets it.           *)
(***************************************************************************)
EXTENDS Integers

CONSTANTS
  Generations,       \* Server runtimes that the address may lead to; none is 0
  MaxChanges,        \* changes of advertised hints and of the intent, together
  MaxInterruptions   \* interruptions of the event stream, per connection

ASSUME GenerationsAssumption == 0 \notin Generations /\ Generations # {}
ASSUME BoundsAssumption == MaxChanges \in Nat /\ MaxInterruptions \in Nat

VARIABLES
  advertised, hints,                       \* the Servers
  intent, intents, shutdown,               \* the controller
  phase, outer, inner, result, failure,    \* the worker
  attempt, primary, joined, candidate,
  carrying,                                \* reported: connections by generation
  violated                                 \* history: a protocol failure happened

serverVars == <<advertised, hints>>
controlVars == <<intent, intents, shutdown>>
workerVars == <<phase, outer, inner, result, failure>>
tunnelVars == <<attempt, primary, joined, candidate>>
vars == <<serverVars, controlVars, workerVars, tunnelVars, carrying, violated>>

None == 0
NoConnection == [generation |-> None]
Idle == [kind |-> "idle", target |-> None, epoch |-> 0]
NoAttempt == [step |-> "none", generation |-> None]

\* ClientTunnel with its ReplacementHint, and Active: `known` is the count of
\* interruptions that the worker has acted on, `fresh` that its watch has changed.
Connected(g, hint) ==
  [generation |-> g, hint |-> hint, interruptions |-> 0, paused |-> FALSE, follower |-> "reading",
   known |-> 0, fresh |-> FALSE, live |-> TRUE, goaway |-> FALSE, end |-> "no"]

\* TunnelEventState::hinted_replacement of what runtime g advertises now.
HintOf(g) == IF advertised[g] = g THEN None ELSE advertised[g]

Init ==
  /\ advertised = [g \in Generations |-> None]
  /\ hints = 0
  /\ intent = "maintain" /\ intents = 0 /\ shutdown = FALSE
  /\ phase = "check" /\ outer = FALSE /\ inner = FALSE /\ result = "none" /\ failure = FALSE
  /\ attempt = NoAttempt /\ primary = NoConnection /\ joined = NoConnection
  /\ candidate = Idle
  /\ carrying = [g \in Generations |-> 0] /\ violated = FALSE

-----------------------------------------------------------------------------
\* The Servers and the controller.

\* ServerTunnelEvents::set_replacement_generation, which drops its own generation.
SetReplacement(g) ==
  /\ hints + intents < MaxChanges
  /\ \E replacement \in Generations \cup {None} :
       LET hint == IF replacement = g THEN None ELSE replacement IN
         /\ hint # advertised[g]
         /\ advertised' = [advertised EXCEPT ![g] = hint]
  /\ hints' = hints + 1
  /\ UNCHANGED <<controlVars, workerVars, tunnelVars, carrying, violated>>

SetIntent ==
  /\ hints + intents < MaxChanges /\ ~shutdown
  /\ intent' = IF intent = "maintain" THEN "retire" ELSE "maintain"
  /\ intents' = intents + 1
  /\ outer' = TRUE /\ inner' = TRUE
  /\ UNCHANGED <<serverVars, shutdown, phase, result, failure, tunnelVars, carrying, violated>>

BeginShutdown ==
  /\ ~shutdown
  /\ shutdown' = TRUE
  /\ UNCHANGED <<serverVars, intent, intents, workerVars, tunnelVars, carrying, violated>>

-----------------------------------------------------------------------------
(***************************************************************************)
(* EventFollower, for a connection c.  Each operator gives the connection  *)
(* after one step of its follower; `fresh` is set as the watch would.      *)
(***************************************************************************)
AcceptState(c) ==
  LET hint == HintOf(c.generation) IN
    [c EXCEPT !.hint = hint, !.paused = FALSE, !.follower = "reading",
              !.fresh = @ \/ c.hint # hint \/ c.paused]

\* The subscription ended, failed or fell silent: pause before knowing why.
Pause(c) == [c EXCEPT !.paused = TRUE, !.fresh = @ \/ ~c.paused, !.follower = "resubscribing"]

\* count_interruption, once per resubscription.
CountInterruption(c) ==
  IF c.follower = "interrupted" THEN c
  ELSE [c EXCEPT !.hint = None, !.interruptions = @ + 1, !.fresh = TRUE,
                 !.follower = "interrupted"]

\* GOAWAY refuses the request: the last valid hint stands, unless an
\* interruption has cleared it.
Forbidden(c) ==
  [c EXCEPT !.follower = "stopped",
            !.paused = @ /\ c.follower = "interrupted",
            !.fresh = @ \/ c.follower # "interrupted"]

FollowerSteps(c) ==
  (IF c.follower = "reading" /\ HintOf(c.generation) # c.hint THEN {AcceptState(c)} ELSE {})
  \cup (IF c.follower = "reading" /\ (c.goaway \/ c.interruptions < MaxInterruptions)
        THEN {Pause(c)} ELSE {})
  \cup (IF c.follower = "resubscribing" /\ ~c.goaway THEN {CountInterruption(c)} ELSE {})
  \cup (IF c.follower = "interrupted" /\ ~c.goaway THEN {AcceptState(c)} ELSE {})
  \cup (IF c.follower \in {"resubscribing", "interrupted"} /\ c.goaway
        THEN {Forbidden(c)} ELSE {})

Alive(c) == c # NoConnection /\ c.end = "no"

Follow ==
  /\ \/ Alive(primary) /\ primary' \in FollowerSteps(primary) /\ UNCHANGED joined
     \/ Alive(joined) /\ joined' \in FollowerSteps(joined) /\ UNCHANGED primary
  /\ UNCHANGED <<serverVars, controlVars, workerVars, attempt, candidate, carrying, violated>>

\* The Server of the connection stops taking requests, as when it drains.
Goaway ==
  /\ \/ /\ Alive(primary) /\ ~primary.goaway
        /\ primary' = [primary EXCEPT !.goaway = TRUE] /\ UNCHANGED joined
     \/ /\ Alive(joined) /\ ~joined.goaway
        /\ joined' = [joined EXCEPT !.goaway = TRUE] /\ UNCHANGED primary
  /\ UNCHANGED <<serverVars, controlVars, workerVars, attempt, candidate, carrying, violated>>

\* Client::run_with_shutdown returns.  Only a shutdown withdraws, and only a
\* withdrawal returns Ok or a protocol failure.
Ends == IF shutdown THEN {"ok", "error", "protocol"} ELSE {"error"}

ConnectionEnds ==
  /\ \E end \in Ends :
       /\ \/ /\ Alive(primary)
             /\ primary' = [primary EXCEPT !.end = end] /\ UNCHANGED joined
          \/ /\ Alive(joined)
             /\ joined' = [joined EXCEPT !.end = end] /\ UNCHANGED primary
       /\ violated' = (violated \/ end = "protocol")
  /\ UNCHANGED <<serverVars, controlVars, workerVars, attempt, candidate, carrying>>

-----------------------------------------------------------------------------
(***************************************************************************)
(* ClientTunnelAttempt::attempt and ClientTunnel::establish_internal: the  *)
(* name is resolved and the connection opened, to whichever runtime the    *)
(* address leads to; then the first snapshot is awaited and the session    *)
(* requested.  A candidate must have reached the generation that the hint  *)
(* names before it asks for a session.  No step leaves a connection        *)
(* behind: a failed or dropped attempt closes it.                          *)
(***************************************************************************)
StartAttempt == [step |-> "connecting", generation |-> None]

AttemptConnects ==
  /\ attempt.step = "connecting"
  /\ \E g \in Generations : attempt' = [step |-> "establishing", generation |-> g]
  /\ UNCHANGED <<serverVars, controlVars, workerVars, primary, joined, candidate, carrying, violated>>

AttemptEstablishes ==
  /\ attempt.step = "establishing"
  /\ candidate # Idle => attempt.generation = candidate.target
  /\ attempt' = [attempt EXCEPT !.step = "ready"]
  /\ UNCHANGED <<serverVars, controlVars, workerVars, primary, joined, candidate, carrying, violated>>

\* Retryable, with WrongGeneration as one reason; bad local material is fatal.
AttemptFails ==
  /\ attempt.step \in {"connecting", "establishing"}
  /\ \E step \in {"retryable"} \cup (IF attempt.step = "connecting" THEN {"fatal"} ELSE {}) :
       attempt' = [step |-> step, generation |-> None]
  /\ UNCHANGED <<serverVars, controlVars, workerVars, primary, joined, candidate, carrying, violated>>

-----------------------------------------------------------------------------
\* run_address_worker, around the Connected stretch.

Finish(r) == phase' = "done" /\ result' = r
Stopping == shutdown \/ intent = "retire"

CheckIntent ==
  /\ phase = "check"
  /\ IF Stopping THEN Finish("ok") /\ attempt' = NoAttempt
     ELSE phase' = "dialing" /\ attempt' = StartAttempt /\ UNCHANGED result
  /\ UNCHANGED <<serverVars, controlVars, outer, inner, failure, primary, joined, candidate,
                 carrying, violated>>

\* Shutdown or a change of the intent drops the attempt.
DialInterrupted ==
  /\ phase = "dialing" /\ (shutdown \/ outer)
  /\ attempt' = NoAttempt
  /\ outer' = FALSE
  /\ IF Stopping THEN Finish("ok") ELSE phase' = "check" /\ UNCHANGED result
  /\ UNCHANGED <<serverVars, controlVars, inner, failure, primary, joined, candidate, carrying,
                 violated>>

\* AssignmentConvergenceTracker::carrying_credit: one more connection of g.  The
\* report sorts the generations, so their order is left out.
Carry(g) == [carrying EXCEPT ![g] = @ + 1]

\* CarryingCredit::drop removes the entry of its own token, one of g's.
DropCredit(g) == [carrying EXCEPT ![g] = @ - 1]

Allowed == ~shutdown /\ intent = "maintain"

\* Candidate::Waiting; `epoch` is the interruption count behind its hint.
Waiting(target, epoch) == [kind |-> "waiting", target |-> target, epoch |-> epoch]

\* reconcile: the candidate follows the primary's hint; none starts beside a
\* joined connection.
Reconcile(c, p, j) ==
  LET hint == IF Allowed THEN p.hint ELSE None IN
    IF hint = None THEN Idle
    ELSE IF c.target = hint THEN c
    ELSE IF j # NoConnection THEN Idle
    ELSE Waiting(hint, p.interruptions)

DialConnected ==
  /\ phase = "dialing" /\ attempt.step = "ready"
  /\ attempt' = NoAttempt
  /\ IF intent = "retire"
     THEN Finish("ok") /\ UNCHANGED <<primary, candidate, carrying, inner>>
     ELSE LET p == Connected(attempt.generation, HintOf(attempt.generation)) IN
            /\ phase' = "connected" /\ UNCHANGED result
            /\ primary' = p
            /\ carrying' = Carry(p.generation)
            /\ inner' = FALSE
            /\ candidate' = Reconcile(Idle, p, NoConnection)
  /\ UNCHANGED <<serverVars, controlVars, outer, failure, joined, violated>>

DialFailed ==
  /\ phase = "dialing" /\ attempt.step \in {"retryable", "fatal"}
  /\ attempt' = NoAttempt
  /\ IF intent = "retire" THEN Finish("ok")
     ELSE IF attempt.step = "fatal" THEN Finish("error")
     ELSE phase' = "retry" /\ UNCHANGED result
  /\ inner' = FALSE
  /\ UNCHANGED <<serverVars, controlVars, outer, failure, primary, joined, candidate, carrying,
                 violated>>

\* wait_for_retry_delay: the delay passes, the intent changes or shutdown begins.
RetryDelay ==
  /\ phase = "retry"
  /\ IF Stopping THEN Finish("ok") ELSE phase' = "check" /\ UNCHANGED result
  /\ UNCHANGED <<serverVars, controlVars, outer, inner, failure, tunnelVars, carrying, violated>>

-----------------------------------------------------------------------------
\* ConnectedAddress::run.

\* Mutant: a protocol failure of a connection that is not the last is dropped.
KeepFailureLast(end) == end = "protocol"

\* keep_protocol_failure.
KeepFailure(end) == failure \/ end = "protocol"

\* The last connection ended: the ordinary reconnect runs, unless it must not.
PrimaryLost ==
  /\ phase = "connected" /\ primary.end # "no" /\ joined = NoConnection
  /\ primary' = NoConnection /\ candidate' = Idle /\ attempt' = NoAttempt
  /\ carrying' = DropCredit(primary.generation)
  /\ IF KeepFailure(primary.end) THEN Finish("error")
     ELSE IF Stopping \/ primary.end = "ok" THEN Finish("ok")
     ELSE phase' = "retry" /\ UNCHANGED result
  /\ failure' = FALSE /\ inner' = FALSE
  /\ UNCHANGED <<serverVars, controlVars, outer, joined, violated>>

\* A candidate that is dropped or replaced gives up its attempt.
Follows(c) == attempt' = IF c.kind = "warming" THEN attempt ELSE NoAttempt

HandOver ==
  /\ phase = "connected" /\ primary.end # "no" /\ joined # NoConnection
  /\ failure' = KeepFailure(primary.end)
  /\ carrying' = DropCredit(primary.generation)
  /\ primary' = joined /\ joined' = NoConnection
  /\ candidate' = Reconcile(candidate, joined, NoConnection)
  /\ Follows(candidate')
  /\ UNCHANGED <<serverVars, controlVars, phase, outer, inner, result, violated>>

\* Mutant: the standing hint is forgotten when the joined connection ends.
JoinedEndedForgotten ==
  /\ phase = "connected" /\ joined # NoConnection /\ joined.end # "no"
  /\ failure' = KeepFailure(joined.end)
  /\ carrying' = DropCredit(joined.generation)
  /\ joined' = NoConnection
  /\ UNCHANGED <<serverVars, controlVars, phase, outer, inner, result, attempt, primary, candidate,
                 violated>>

JoinedEnded ==
  /\ phase = "connected" /\ joined # NoConnection /\ joined.end # "no"
  /\ failure' = KeepFailure(joined.end)
  /\ carrying' = DropCredit(joined.generation)
  /\ joined' = NoConnection
  /\ candidate' = Reconcile(candidate, primary, NoConnection)
  /\ Follows(candidate')
  /\ UNCHANGED <<serverVars, controlVars, phase, outer, inner, result, primary, violated>>

\* The worker sees that shutdown began, or that the intent changed.
ControlObserved ==
  /\ phase = "connected"
  /\ \/ shutdown /\ candidate # Idle /\ UNCHANGED inner
     \/ inner /\ inner' = FALSE
  /\ candidate' = IF Stopping THEN Idle ELSE Reconcile(candidate, primary, joined)
  /\ Follows(candidate')
  /\ UNCHANGED <<serverVars, controlVars, phase, outer, result, failure, primary, joined, carrying,
                 violated>>

HintObserved ==
  /\ phase = "connected" /\ primary.live
  /\ primary.fresh
  /\ primary' = [primary EXCEPT !.fresh = FALSE, !.known = primary.interruptions]
  /\ LET kept == IF primary.known # primary.interruptions THEN Idle ELSE candidate
     IN  candidate' = Reconcile(kept, primary, joined)
  /\ attempt' = IF candidate'.kind = "warming" /\ primary.known = primary.interruptions
                THEN attempt ELSE NoAttempt
  /\ UNCHANGED <<serverVars, controlVars, workerVars, joined, carrying, violated>>

\* The follower is gone and with it the sender of the hint: the last one stands.
HintsClosed ==
  /\ phase = "connected" /\ primary.live
  /\ primary.follower = "stopped" /\ ~primary.fresh
  /\ primary' = [primary EXCEPT !.live = FALSE]
  /\ UNCHANGED <<serverVars, controlVars, workerVars, attempt, joined, candidate, carrying, violated>>

DelayElapsed ==
  /\ phase = "connected" /\ candidate.kind = "waiting"
  /\ candidate' = [candidate EXCEPT !.kind = "warming"]
  /\ attempt' = StartAttempt
  /\ UNCHANGED <<serverVars, controlVars, workerVars, primary, joined, carrying, violated>>

\* Mutant: an interruption that the worker has not yet seen does not count.
StillHintsAnyEpoch(target) == primary.hint = target /\ ~primary.paused

\* Active::still_hints.
StillHints(target) ==
  primary.hint = target /\ ~primary.paused /\ primary.interruptions = primary.known

\* settle: join, or drop the connection before it offers credit.
CandidateJoins ==
  /\ phase = "connected" /\ candidate.kind = "warming" /\ attempt.step = "ready"
  /\ Allowed /\ StillHints(candidate.target)
  /\ joined' = Connected(attempt.generation, HintOf(attempt.generation))
  /\ carrying' = Carry(attempt.generation)
  /\ candidate' = Idle /\ attempt' = NoAttempt
  /\ UNCHANGED <<serverVars, controlVars, workerVars, primary, violated>>

CandidateRefused ==
  /\ phase = "connected" /\ candidate.kind = "warming"
  /\ \/ attempt.step = "ready" /\ ~(Allowed /\ StillHints(candidate.target))
     \/ attempt.step \in {"retryable", "fatal"}
  /\ candidate' = IF attempt.step = "ready" /\ ~Allowed THEN Idle
                  ELSE [candidate EXCEPT !.kind = "waiting"]
  /\ attempt' = NoAttempt
  /\ UNCHANGED <<serverVars, controlVars, workerVars, primary, joined, carrying, violated>>

Worker ==
  \/ CheckIntent \/ DialInterrupted \/ DialConnected \/ DialFailed \/ RetryDelay
  \/ PrimaryLost \/ HandOver \/ JoinedEnded \/ ControlObserved \/ HintObserved \/ HintsClosed
  \/ DelayElapsed \/ CandidateJoins \/ CandidateRefused

Next ==
  \/ \E g \in Generations : SetReplacement(g)
  \/ SetIntent \/ BeginShutdown
  \/ Follow \/ Goaway \/ ConnectionEnds
  \/ AttemptConnects \/ AttemptEstablishes \/ AttemptFails
  \/ Worker

Spec == Init /\ [][Next]_vars

-----------------------------------------------------------------------------
\* Properties.

Hint == Generations \cup {None}

Connections ==
  [generation : Generations, hint : Hint, interruptions : 0..MaxInterruptions + 1,
   paused : BOOLEAN, follower : {"reading", "resubscribing", "interrupted", "stopped"},
   known : 0..MaxInterruptions + 1, fresh : BOOLEAN, live : BOOLEAN, goaway : BOOLEAN,
   end : {"no", "ok", "error", "protocol"}]

\* The state of one address worker keeps its shape; a connection exists only
\* while ConnectedAddress::run is running.
TypeOK ==
  /\ advertised \in [Generations -> Hint] /\ hints \in 0..MaxChanges
  /\ intent \in {"maintain", "retire"} /\ intents \in 0..MaxChanges /\ shutdown \in BOOLEAN
  /\ phase \in {"check", "dialing", "retry", "connected", "done"}
  /\ outer \in BOOLEAN /\ inner \in BOOLEAN /\ failure \in BOOLEAN /\ violated \in BOOLEAN
  /\ result \in {"none", "ok", "error"} /\ (result = "none" <=> phase # "done")
  /\ IF phase = "connected" THEN primary \in Connections ELSE primary = NoConnection
  /\ joined \in Connections \cup {NoConnection}
  /\ candidate # Idle => candidate.kind \in {"waiting", "warming"} /\ candidate.target \in Generations
  /\ attempt # NoAttempt => phase = "dialing" \/ candidate.kind = "warming"

\* Once the worker has acted on everything it was told, the candidate is the
\* one the standing hint asks for: no hint is left without an attempt and no
\* attempt without its hint (reconcile, after every kind of event).
CandidateFollowsHint ==
  /\ phase = "connected" /\ primary.end = "no" /\ ~primary.fresh /\ ~inner
  /\ joined = NoConnection \/ joined.end = "no"
  /\ shutdown => candidate = Idle
  => /\ Allowed /\ joined = NoConnection => candidate.target = primary.hint
     /\ candidate # Idle => candidate.target = primary.hint

\* At most two connections and candidates per address: "While a second
\* connection is active, no further candidate starts."
NoThirdConnection == joined # NoConnection => candidate = Idle

\* A withdrawal protocol failure of any connection fails the worker, also when
\* that connection was not the last to end.
ProtocolFailureReported == phase = "done" /\ violated => result = "error"

\* The Managed state document names exactly the connections that run and offer
\* credit, through handover, failed joins and loss.
CarryingMatchesActive ==
  carrying = [g \in Generations |-> (IF primary.generation = g THEN 1 ELSE 0)
                                  + (IF joined.generation = g THEN 1 ELSE 0)]

\* The hint that outlives its follower (GOAWAY) is not left paused: nothing
\* would unpause it, and no candidate could ever join on it.
StandingHintUsable ==
  \A c \in {primary, joined} \ {NoConnection} :
     c.follower = "stopped" /\ c.hint # None => ~c.paused

(***************************************************************************)
(* What every step of the worker keeps: two connections at most and the    *)
(* report of them, a usable hint, and the failure of a protocol.           *)
(***************************************************************************)
WorkerInvariant ==
  TypeOK /\ NoThirdConnection /\ CarryingMatchesActive /\ StandingHintUsable /\ ProtocolFailureReported

\* A candidate joins on the hint that asked for it: the primary still names
\* its generation, and no interruption of the subscription came in between,
\* not even one the worker has not seen yet (still_hints).
JoinOnCurrentHint ==
  [][joined = NoConnection /\ joined' # NoConnection =>
       /\ Allowed
       /\ joined'.generation = primary.hint
       /\ candidate.epoch = primary.interruptions
       /\ joined'.generation # primary.generation]_vars
===============================================================================
