------------------------ MODULE AddressWorkerProofs ------------------------
(***************************************************************************)
(* Theorems about AddressWorker for every set of Server runtimes and every *)
(* number of hint changes and interruptions.                               *)
(***************************************************************************)
EXTENDS AddressWorker, TLAPS

Candidates ==
  {Idle} \cup [kind : {"waiting", "warming"}, target : Generations, epoch : Nat]

Attempts ==
  {NoAttempt} \cup [step : {"connecting", "retryable", "fatal"}, generation : {None}]
              \cup [step : {"establishing", "ready"}, generation : Generations]

\* The types, by the part of the system that owns the variables.
ServerType == advertised \in [Generations -> Hint] /\ hints \in Nat

ControlType ==
  /\ intent \in {"maintain", "retire"} /\ intents \in Nat /\ shutdown \in BOOLEAN
  /\ hints + intents <= MaxChanges

PhaseType ==
  /\ phase \in {"check", "dialing", "retry", "connected", "done"}
  /\ outer \in BOOLEAN /\ inner \in BOOLEAN /\ failure \in BOOLEAN /\ violated \in BOOLEAN
  /\ result \in {"none", "ok", "error"} /\ (result = "none" <=> phase # "done")

TunnelType ==
  /\ primary \in Connections \cup {NoConnection}
  /\ joined \in Connections \cup {NoConnection}
  /\ primary # NoConnection <=> phase = "connected"
  /\ joined # NoConnection => phase = "connected"
  /\ candidate \in Candidates
  /\ candidate # Idle => phase = "connected"
  /\ attempt \in Attempts
  /\ attempt # NoAttempt => phase = "dialing" \/ candidate.kind = "warming"
  /\ carrying \in [Generations -> Int]

Types == ServerType /\ ControlType /\ PhaseType /\ TunnelType

(***************************************************************************)
(* What holds of a connection's hint: it never names the runtime that      *)
(* gives it, an interruption clears it, the worker lags behind the count   *)
(* of interruptions, and a hint that outlives its follower is usable.      *)
(***************************************************************************)
HintSound(c) ==
  /\ c.hint # c.generation
  /\ c.known <= c.interruptions
  /\ c.interruptions <= MaxInterruptions
  /\ c.follower = "resubscribing" /\ ~c.goaway => c.interruptions < MaxInterruptions
  /\ c.follower = "interrupted" => c.hint = None
  /\ c.follower = "stopped" /\ c.hint # None => ~c.paused

HintsSound ==
  /\ primary # NoConnection => HintSound(primary)
  /\ joined # NoConnection => HintSound(joined)

(***************************************************************************)
(* The candidate and its attempt: the attempt that is ready has reached    *)
(* the generation that the hint named, and when the worker has acted on    *)
(* every interruption the candidate stems from after the last one.         *)
(***************************************************************************)
CandidateInv ==
  /\ candidate # Idle /\ attempt.step = "ready" => attempt.generation = candidate.target
  /\ candidate # Idle /\ primary.known = primary.interruptions
       => candidate.epoch = primary.interruptions

(***************************************************************************)
(* The candidate and the hint, in the states where the watch of the hint   *)
(* has nothing new for the worker.                                         *)
(***************************************************************************)
FollowInv ==
  phase = "connected" /\ ~primary.fresh =>
    /\ candidate # Idle => candidate.target = primary.hint
    /\ ~inner /\ Allowed /\ joined = NoConnection => candidate.target = primary.hint

(***************************************************************************)
(* Where a protocol failure is until the worker returns it.                *)
(***************************************************************************)
FailureInv ==
  violated =>
    \/ phase = "done" /\ result = "error"
    \/ /\ phase = "connected"
       /\ \/ failure
          \/ primary.end = "protocol"
          \/ joined # NoConnection /\ joined.end = "protocol"

Inv ==
  /\ Types /\ HintsSound /\ NoThirdConnection /\ CarryingMatchesActive
  /\ CandidateInv /\ FollowInv /\ FailureInv

-----------------------------------------------------------------------------
\* A connection is not the absent one, and leads to a runtime.
LEMMA ConnectionExists ==
  ASSUME NEW c \in Connections
  PROVE  c # NoConnection /\ c.generation \in Generations /\ c.generation # None
BY GenerationsAssumption DEF Connections, NoConnection, None

\* The hint that a runtime gives never names the runtime itself.
LEMMA HintOfSound ==
  ASSUME ServerType, NEW g \in Generations
  PROVE  HintOf(g) \in Hint /\ HintOf(g) # g
BY GenerationsAssumption DEF ServerType, HintOf, Hint, None

\* A fresh connection is well formed and has seen no interruption.
LEMMA ConnectedSound ==
  ASSUME ServerType, NEW g \in Generations
  PROVE  LET c == Connected(g, HintOf(g))
         IN  /\ c \in Connections /\ HintSound(c)
             /\ c.generation = g /\ c.end = "no" /\ c.known = c.interruptions
<1>1. HintOf(g) \in Hint /\ HintOf(g) # g
  BY HintOfSound
<1>2. Connected(g, HintOf(g)) \in Connections
  BY <1>1, BoundsAssumption DEF Connected, Connections
<1> QED
  BY <1>1, <1>2, BoundsAssumption DEF Connected, HintSound

(***************************************************************************)
(* What one step of a connection may do to it: the runtime stays, a hint   *)
(* that changes is fresh, and an interruption that the worker has not seen *)
(* is not hidden from it.                                                  *)
(***************************************************************************)
Evolves(c, d) ==
  /\ c \in Connections /\ d \in Connections /\ HintSound(d)
  /\ d.generation = c.generation
  /\ ~d.fresh => ~c.fresh /\ d.hint = c.hint
  /\ d.known = d.interruptions => c.known = d.known /\ c.interruptions = d.interruptions
  /\ c.end = "protocol" => d.end = "protocol"

\* Every step of an event follower evolves its connection in that sense.
LEMMA FollowerEvolves ==
  ASSUME ServerType, NEW c \in Connections, HintSound(c), NEW d \in FollowerSteps(c)
  PROVE  Evolves(c, d)
<1> DEFINE hint == HintOf(c.generation)
<1>1. hint \in Hint /\ hint # c.generation
  BY HintOfSound, ConnectionExists
<1>2. None \in Hint /\ None # c.generation
  BY ConnectionExists DEF Hint
<1> HIDE DEF hint
<1>3. CASE d = AcceptState(c)
  BY <1>1, <1>3, BoundsAssumption DEF AcceptState, Evolves, HintSound, Connections, hint
<1>4. CASE d = Pause(c) /\ c.follower = "reading" /\ (c.goaway \/ c.interruptions < MaxInterruptions)
  BY <1>4, BoundsAssumption DEF Pause, Evolves, HintSound, Connections
<1>5. CASE d = CountInterruption(c) /\ c.follower = "resubscribing" /\ ~c.goaway
  <2>1. d = [c EXCEPT !.hint = None, !.interruptions = @ + 1, !.fresh = TRUE,
                      !.follower = "interrupted"]
    BY <1>5 DEF CountInterruption
  <2>2. /\ c.interruptions \in Nat /\ c.known \in Nat /\ c.known <= c.interruptions
        /\ c.interruptions + 1 \in 0..MaxInterruptions
        /\ c.interruptions + 1 \in 0..MaxInterruptions + 1
    BY <1>5, BoundsAssumption DEF Connections, HintSound
  <2>3. d \in Connections
    BY <1>2, <2>1, <2>2 DEF Connections
  <2>4. /\ d.hint = None /\ d.interruptions = c.interruptions + 1 /\ d.fresh
        /\ d.follower = "interrupted" /\ d.known = c.known /\ d.generation = c.generation
        /\ d.end = c.end
    BY <2>1 DEF Connections
  <2>5. HintSound(d)
    BY <1>2, <2>2, <2>4, BoundsAssumption DEF HintSound
  <2> QED
    BY <2>2, <2>3, <2>4, <2>5 DEF Evolves
<1>6. CASE d = Forbidden(c)
  BY <1>6, BoundsAssumption DEF Forbidden, Evolves, HintSound, Connections
<1> QED
  BY <1>3, <1>4, <1>5, <1>6 DEF FollowerSteps

(***************************************************************************)
(* reconcile: it keeps the candidate of the hint or starts another, only   *)
(* for the hint, and none beside a joined connection.                      *)
(***************************************************************************)
LEMMA ReconcileFacts ==
  ASSUME NEW c \in Candidates, NEW p \in Connections, NEW j
  PROVE  LET r == Reconcile(c, p, j)
         IN  /\ r \in Candidates
             /\ r # Idle => r.target = p.hint
             /\ Allowed /\ j = NoConnection => r.target = p.hint
             /\ r.kind = "warming" => r = c
             /\ r = Idle \/ r = c \/ (r.epoch = p.interruptions /\ r.kind = "waiting")
             /\ c = Idle /\ j # NoConnection => r = Idle
<1>1. p.hint \in Generations \cup {None} /\ p.interruptions \in Nat
  BY BoundsAssumption DEF Connections, Hint
<1> QED
  BY <1>1, GenerationsAssumption DEF Reconcile, Candidates, Idle, Waiting, None

-----------------------------------------------------------------------------
(***************************************************************************)
(* Steps of the connections: followers, GOAWAY, ends.  The worker has not  *)
(* moved, so only what relates it to a connection is at stake.             *)
(***************************************************************************)
LEMMA ConnectionsEvolve ==
  ASSUME Inv,
         primary' = primary \/ Evolves(primary, primary'),
         joined' = joined \/ Evolves(joined, joined'),
         UNCHANGED <<serverVars, controlVars, workerVars, attempt, candidate, carrying>>,
         violated' \in BOOLEAN,
         violated' => \/ violated
                      \/ primary' # NoConnection /\ primary'.end = "protocol"
                      \/ joined' # NoConnection /\ joined'.end = "protocol"
  PROVE  Inv'
<1> USE DEF Inv, serverVars, controlVars, workerVars
<1>1. /\ primary' \in Connections \cup {NoConnection}
      /\ primary' # NoConnection <=> primary # NoConnection
      /\ joined' \in Connections \cup {NoConnection}
      /\ joined' # NoConnection <=> joined # NoConnection
      /\ primary'.generation = primary.generation /\ joined'.generation = joined.generation
  BY ConnectionExists DEF Evolves, Types, TunnelType
<1>2. Types'
  BY <1>1 DEF Types, ServerType, ControlType, PhaseType, TunnelType
<1>3. HintsSound'
  BY <1>1 DEF HintsSound, Evolves
<1>4. NoThirdConnection'
  BY <1>1 DEF NoThirdConnection
<1>5. CarryingMatchesActive'
  BY <1>1 DEF CarryingMatchesActive
<1>6. CandidateInv'
  BY DEF CandidateInv, Evolves
<1>7. FollowInv'
  BY <1>1 DEF FollowInv, Evolves, Allowed
<1>8. FailureInv'
  BY <1>1 DEF FailureInv, Evolves, Types, TunnelType
<1> QED
  BY <1>2, <1>3, <1>4, <1>5, <1>6, <1>7, <1>8

\* Steps of the connections themselves, which the worker has not looked at
\* yet, keep the invariant.
LEMMA ConnectionStep ==
  ASSUME Inv, Follow \/ Goaway \/ ConnectionEnds \/ HintsClosed
  PROVE  Inv'
<1>1. /\ ServerType /\ violated \in BOOLEAN
      /\ \A c \in {primary, joined} : c # NoConnection => c \in Connections /\ HintSound(c)
      /\ phase = "connected" => primary \in Connections
  BY DEF Inv, Types, TunnelType, PhaseType, HintsSound
<1>2. CASE Follow
  <2>1. primary' = primary \/ Evolves(primary, primary')
    BY <1>1, <1>2, FollowerEvolves DEF Follow, Alive
  <2>2. joined' = joined \/ Evolves(joined, joined')
    BY <1>1, <1>2, FollowerEvolves DEF Follow, Alive
  <2> QED
    BY <1>1, <1>2, <2>1, <2>2, ConnectionsEvolve DEF Follow
<1>3. CASE Goaway
  <2>1. \A c \in Connections : HintSound(c) => Evolves(c, [c EXCEPT !.goaway = TRUE])
    BY ZenonT(30) DEF Connections, HintSound, Evolves
  <2> QED
    BY <1>1, <1>3, <2>1, ConnectionsEvolve DEF Goaway, Alive
<1>4. CASE ConnectionEnds
  <2>1. PICK end \in Ends :
          /\ \/ Alive(primary) /\ primary' = [primary EXCEPT !.end = end] /\ UNCHANGED joined
             \/ Alive(joined) /\ joined' = [joined EXCEPT !.end = end] /\ UNCHANGED primary
          /\ violated' = (violated \/ end = "protocol")
    BY <1>4 DEF ConnectionEnds
  <2>2. \A c \in Connections : HintSound(c) /\ c.end = "no" =>
          Evolves(c, [c EXCEPT !.end = end]) /\ [c EXCEPT !.end = end].end = end
    BY DEF Connections, HintSound, Evolves, Ends
  <2>3. /\ primary' = primary \/ Evolves(primary, primary')
        /\ joined' = joined \/ Evolves(joined, joined')
        /\ (Alive(primary) /\ primary'.end = end) \/ (Alive(joined) /\ joined'.end = end)
    BY <1>1, <2>1, <2>2 DEF Alive
  <2>4. \/ primary' # NoConnection /\ primary'.end = end
        \/ joined' # NoConnection /\ joined'.end = end
    BY <1>1, <2>1, <2>3, ConnectionExists DEF Alive, Evolves
  <2> QED
    BY <1>1, <1>4, <2>1, <2>3, <2>4, ConnectionsEvolve DEF ConnectionEnds
<1>5. CASE HintsClosed
  <2>1. ASSUME NEW c \in Connections, HintSound(c)
        PROVE  Evolves(c, [c EXCEPT !.live = FALSE])
    <3>1. [c EXCEPT !.live = FALSE] \in Connections
      BY DEF Connections
    <3> QED
      BY <2>1, <3>1 DEF Connections, HintSound, Evolves
  <2> QED
    BY <1>1, <1>5, <2>1, ConnectionsEvolve, ConnectionExists DEF HintsClosed
<1> QED
  BY <1>2, <1>3, <1>4, <1>5

(***************************************************************************)
(* The Servers and the controller: the worker finds out later.             *)
(***************************************************************************)
LEMMA EnvironmentStep ==
  ASSUME Inv, (\E g \in Generations : SetReplacement(g)) \/ SetIntent \/ BeginShutdown
  PROVE  Inv'
<1> USE BoundsAssumption DEF Inv, serverVars, controlVars, workerVars, tunnelVars
<1>1. ASSUME NEW g \in Generations, SetReplacement(g) PROVE Inv'
  <2> USE <1>1 DEF SetReplacement
  <2>1. Types'
    BY DEF Types, ServerType, ControlType, PhaseType, TunnelType, Candidates, Attempts, Idle,
       NoAttempt, None, Hint
  <2>2. HintsSound'
    BY DEF HintsSound
  <2>3. NoThirdConnection'
    BY DEF NoThirdConnection
  <2>4. CarryingMatchesActive'
    BY DEF CarryingMatchesActive
  <2>5. CandidateInv'
    BY DEF CandidateInv
  <2>6. FollowInv'
    BY DEF FollowInv, Allowed
  <2>7. FailureInv'
    BY DEF FailureInv
  <2> QED
    BY <2>1, <2>2, <2>3, <2>4, <2>5, <2>6, <2>7
<1>2. CASE SetIntent
  <2> USE <1>2 DEF SetIntent
  <2>1. Types'
    BY DEF Types, ServerType, ControlType, PhaseType, TunnelType, Candidates, Attempts, Idle,
       NoAttempt, None
  <2>2. HintsSound'
    BY DEF HintsSound
  <2>3. NoThirdConnection'
    BY DEF NoThirdConnection
  <2>4. CarryingMatchesActive'
    BY DEF CarryingMatchesActive
  <2>5. CandidateInv'
    BY DEF CandidateInv
  <2>6. FollowInv'
    BY DEF FollowInv, Allowed
  <2>7. FailureInv'
    BY DEF FailureInv
  <2> QED
    BY <2>1, <2>2, <2>3, <2>4, <2>5, <2>6, <2>7
<1>3. CASE BeginShutdown
  <2> USE <1>3 DEF BeginShutdown
  <2>1. Types'
    BY DEF Types, ServerType, ControlType, PhaseType, TunnelType, Candidates, Attempts, Idle,
       NoAttempt, None
  <2>2. HintsSound'
    BY DEF HintsSound
  <2>3. NoThirdConnection'
    BY DEF NoThirdConnection
  <2>4. CarryingMatchesActive'
    BY DEF CarryingMatchesActive
  <2>5. CandidateInv'
    BY DEF CandidateInv
  <2>6. FollowInv'
    BY DEF FollowInv, Allowed
  <2>7. FailureInv'
    BY DEF FailureInv
  <2> QED
    BY <2>1, <2>2, <2>3, <2>4, <2>5, <2>6, <2>7
<1> QED
  BY <1>1, <1>2, <1>3

(***************************************************************************)
(* An attempt: ready means that it has reached the candidate's target.     *)
(***************************************************************************)
LEMMA AttemptStep ==
  ASSUME Inv, AttemptConnects \/ AttemptEstablishes \/ AttemptFails
  PROVE  Inv'
<1> USE DEF Inv, serverVars, controlVars, workerVars
<1>1. CASE AttemptConnects
  <2> USE <1>1 DEF AttemptConnects
  <2>1. Types'
    BY DEF Types, ServerType, ControlType, PhaseType, TunnelType, Candidates, Attempts, Idle,
       NoAttempt, None
  <2>2. HintsSound'
    BY DEF HintsSound
  <2>3. NoThirdConnection'
    BY DEF NoThirdConnection
  <2>4. CarryingMatchesActive'
    BY DEF CarryingMatchesActive
  <2>5. CandidateInv'
    BY DEF CandidateInv
  <2>6. FollowInv'
    BY DEF FollowInv, Allowed
  <2>7. FailureInv'
    BY DEF FailureInv
  <2> QED
    BY <2>1, <2>2, <2>3, <2>4, <2>5, <2>6, <2>7
<1>2. CASE AttemptEstablishes
  <2> USE <1>2 DEF AttemptEstablishes
  <2>1. Types'
    BY DEF Types, ServerType, ControlType, PhaseType, TunnelType, Candidates, Attempts, Idle,
       NoAttempt, None
  <2>2. HintsSound'
    BY DEF HintsSound
  <2>3. NoThirdConnection'
    BY DEF NoThirdConnection
  <2>4. CarryingMatchesActive'
    BY DEF CarryingMatchesActive
  <2>5. CandidateInv'
    BY DEF CandidateInv, Types, TunnelType, Attempts, NoAttempt
  <2>6. FollowInv'
    BY DEF FollowInv, Allowed
  <2>7. FailureInv'
    BY DEF FailureInv
  <2> QED
    BY <2>1, <2>2, <2>3, <2>4, <2>5, <2>6, <2>7
<1>3. CASE AttemptFails
  <2> USE <1>3 DEF AttemptFails
  <2>1. Types'
    BY DEF Types, ServerType, ControlType, PhaseType, TunnelType, Candidates, Attempts, Idle,
       NoAttempt, None
  <2>2. HintsSound'
    BY DEF HintsSound
  <2>3. NoThirdConnection'
    BY DEF NoThirdConnection
  <2>4. CarryingMatchesActive'
    BY DEF CarryingMatchesActive
  <2>5. CandidateInv'
    BY DEF CandidateInv
  <2>6. FollowInv'
    BY DEF FollowInv, Allowed
  <2>7. FailureInv'
    BY DEF FailureInv
  <2> QED
    BY <2>1, <2>2, <2>3, <2>4, <2>5, <2>6, <2>7
<1> QED
  BY <1>1, <1>2, <1>3

(***************************************************************************)
(* run_address_worker around the Connected stretch.                        *)
(***************************************************************************)
LEMMA DialStep ==
  ASSUME Inv,
         CheckIntent \/ DialInterrupted \/ DialConnected \/ DialFailed \/ RetryDelay
  PROVE  Inv'
<1> USE DEF Inv, serverVars, controlVars, workerVars, tunnelVars, Finish
<1>1. CASE CheckIntent
  <2> USE <1>1 DEF CheckIntent
  <2>1. Types'
    BY DEF Types, ServerType, ControlType, PhaseType, TunnelType, Candidates, Attempts, Idle,
       NoAttempt, None, StartAttempt
  <2>2. HintsSound'
    BY DEF HintsSound
  <2>3. NoThirdConnection'
    BY DEF NoThirdConnection
  <2>4. CarryingMatchesActive'
    BY DEF CarryingMatchesActive
  <2>5. CandidateInv'
    BY DEF CandidateInv, Types, PhaseType, TunnelType
  <2>6. FollowInv'
    BY DEF FollowInv, Allowed, Types, PhaseType, TunnelType
  <2>7. FailureInv'
    BY DEF FailureInv, Types, PhaseType, TunnelType
  <2> QED
    BY <2>1, <2>2, <2>3, <2>4, <2>5, <2>6, <2>7
<1>2. CASE DialInterrupted
  <2> USE <1>2 DEF DialInterrupted
  <2>1. Types'
    BY DEF Types, ServerType, ControlType, PhaseType, TunnelType, Candidates, Attempts, Idle,
       NoAttempt, None, StartAttempt
  <2>2. HintsSound'
    BY DEF HintsSound
  <2>3. NoThirdConnection'
    BY DEF NoThirdConnection
  <2>4. CarryingMatchesActive'
    BY DEF CarryingMatchesActive
  <2>5. CandidateInv'
    BY DEF CandidateInv, Types, PhaseType, TunnelType
  <2>6. FollowInv'
    BY DEF FollowInv, Allowed, Types, PhaseType, TunnelType
  <2>7. FailureInv'
    BY DEF FailureInv, Types, PhaseType, TunnelType
  <2> QED
    BY <2>1, <2>2, <2>3, <2>4, <2>5, <2>6, <2>7
<1>3. CASE DialFailed
  <2> USE <1>3 DEF DialFailed
  <2>1. Types'
    BY DEF Types, ServerType, ControlType, PhaseType, TunnelType, Candidates, Attempts, Idle,
       NoAttempt, None, StartAttempt
  <2>2. HintsSound'
    BY DEF HintsSound
  <2>3. NoThirdConnection'
    BY DEF NoThirdConnection
  <2>4. CarryingMatchesActive'
    BY DEF CarryingMatchesActive
  <2>5. CandidateInv'
    BY DEF CandidateInv, Types, PhaseType, TunnelType
  <2>6. FollowInv'
    BY DEF FollowInv, Allowed, Types, PhaseType, TunnelType
  <2>7. FailureInv'
    BY DEF FailureInv, Types, PhaseType, TunnelType
  <2> QED
    BY <2>1, <2>2, <2>3, <2>4, <2>5, <2>6, <2>7
<1>4. CASE RetryDelay
  <2> USE <1>4 DEF RetryDelay
  <2>1. Types'
    BY DEF Types, ServerType, ControlType, PhaseType, TunnelType, Candidates, Attempts, Idle,
       NoAttempt, None, StartAttempt
  <2>2. HintsSound'
    BY DEF HintsSound
  <2>3. NoThirdConnection'
    BY DEF NoThirdConnection
  <2>4. CarryingMatchesActive'
    BY DEF CarryingMatchesActive
  <2>5. CandidateInv'
    BY DEF CandidateInv, Types, PhaseType, TunnelType
  <2>6. FollowInv'
    BY DEF FollowInv, Allowed, Types, PhaseType, TunnelType
  <2>7. FailureInv'
    BY DEF FailureInv, Types, PhaseType, TunnelType
  <2> QED
    BY <2>1, <2>2, <2>3, <2>4, <2>5, <2>6, <2>7
<1>5. CASE DialConnected /\ intent = "retire"
  <2> USE <1>5 DEF DialConnected
  <2>1. Types'
    BY DEF Types, ServerType, ControlType, PhaseType, TunnelType, Candidates, Attempts, Idle,
       NoAttempt, None, StartAttempt
  <2>2. HintsSound'
    BY DEF HintsSound
  <2>3. NoThirdConnection'
    BY DEF NoThirdConnection
  <2>4. CarryingMatchesActive'
    BY DEF CarryingMatchesActive
  <2>5. CandidateInv'
    BY DEF CandidateInv, Types, PhaseType, TunnelType
  <2>6. FollowInv'
    BY DEF FollowInv, Allowed, Types, PhaseType, TunnelType
  <2>7. FailureInv'
    BY DEF FailureInv, Types, PhaseType, TunnelType
  <2> QED
    BY <2>1, <2>2, <2>3, <2>4, <2>5, <2>6, <2>7
<1>6. CASE DialConnected /\ intent # "retire"
  <2> USE <1>6 DEF DialConnected
  <2> DEFINE g == attempt.generation
             p == Connected(g, HintOf(g))
  <2>a. /\ ServerType /\ g \in Generations /\ primary = NoConnection /\ joined = NoConnection
        /\ candidate = Idle /\ Idle \in Candidates /\ phase = "dialing"
    BY DEF Types, TunnelType, Attempts, NoAttempt, Candidates
  <2>b. /\ p \in Connections /\ HintSound(p) /\ p.generation = g /\ p.end = "no"
        /\ p.known = p.interruptions /\ p # NoConnection
    BY <2>a, ConnectedSound, ConnectionExists
  <2>c. /\ primary' = p /\ phase' = "connected" /\ joined' = joined /\ attempt' = NoAttempt
        /\ carrying' = Carry(p.generation) /\ candidate' = Reconcile(Idle, p, NoConnection)
        /\ inner' = FALSE
        /\ UNCHANGED <<serverVars, controlVars, outer, result, failure, violated>>
    OBVIOUS
  <2>d. /\ candidate' \in Candidates
        /\ candidate' # Idle => candidate'.target = p.hint /\ candidate'.epoch = p.interruptions
        /\ Allowed => candidate'.target = p.hint
    BY <2>a, <2>b, <2>c, ReconcileFacts
  <2> HIDE DEF DialConnected, p
  <2>1. Types'
    <3>1. carrying' \in [Generations -> Int]
      BY <2>a, <2>b, <2>c DEF Types, TunnelType, Carry
    <3>2. NoAttempt \in Attempts
      BY DEF Attempts
    <3> QED
      BY <2>a, <2>b, <2>c, <2>d, <3>1, <3>2 DEF Types, ServerType, ControlType, PhaseType, TunnelType
  <2>2. HintsSound'
    BY <2>a, <2>b, <2>c, <2>d DEF HintsSound
  <2>3. NoThirdConnection'
    BY <2>a, <2>b, <2>c, <2>d DEF NoThirdConnection
  <2>4. CarryingMatchesActive'
    BY <2>a, <2>b, <2>c, GenerationsAssumption DEF CarryingMatchesActive, Carry, NoConnection, None
  <2>5. CandidateInv'
    BY <2>a, <2>b, <2>c, <2>d DEF CandidateInv, NoAttempt
  <2>6. FollowInv'
    BY <2>a, <2>b, <2>c, <2>d DEF FollowInv, Allowed
  <2>7. FailureInv'
    BY <2>a, <2>b, <2>c, <2>d DEF FailureInv, Types, PhaseType, TunnelType
  <2> QED
    BY <2>1, <2>2, <2>3, <2>4, <2>5, <2>6, <2>7
<1> QED
  BY <1>1, <1>2, <1>3, <1>4, <1>5, <1>6

(***************************************************************************)
(* ConnectedAddress::run.                                                  *)
(***************************************************************************)
LEMMA ConnectedStep ==
  ASSUME Inv,
         \/ PrimaryLost \/ HandOver \/ JoinedEnded \/ ControlObserved \/ HintObserved
         \/ DelayElapsed \/ CandidateJoins \/ CandidateRefused
  PROVE  Inv'
<1> USE DEF Inv, serverVars, controlVars, workerVars, tunnelVars
<1>a. /\ phase = "connected" /\ primary \in Connections /\ candidate \in Candidates
      /\ joined \in Connections \cup {NoConnection} /\ attempt \in Attempts
      /\ NoAttempt \in Attempts /\ NoAttempt.step = "none"
      /\ Idle \in Candidates /\ Idle.kind = "idle" /\ Idle.target = None
      /\ primary # NoConnection /\ ServerType
      /\ carrying \in [Generations -> Int] /\ primary.generation \in Generations
  <2>1. phase = "connected"
    BY DEF PrimaryLost, HandOver, JoinedEnded, ControlObserved, HintObserved, DelayElapsed,
           CandidateJoins, CandidateRefused
  <2> QED
    BY <2>1, ConnectionExists DEF Types, TunnelType, Attempts, Candidates, NoAttempt, Idle
<1>1. CASE PrimaryLost
  <2> USE <1>1 DEF PrimaryLost, Finish
  <2>a. /\ phase' \in {"retry", "done"} /\ result' \in {"none", "ok", "error"}
        /\ (result' = "none" <=> phase' # "done") /\ failure' = FALSE
    BY <1>a DEF Types, PhaseType
  <2>b. carrying' = DropCredit(primary.generation) /\ carrying' \in [Generations -> Int]
    BY <1>a DEF DropCredit
  <2>1. Types'
    BY <1>a, <2>a, <2>b DEF Types, ServerType, ControlType, PhaseType, TunnelType
  <2>2. HintsSound'
    BY <1>a DEF HintsSound
  <2>3. NoThirdConnection'
    BY <1>a DEF NoThirdConnection
  <2>4. CarryingMatchesActive'
    <3>1. joined.generation = None /\ primary' = NoConnection /\ joined' = joined
      BY DEF NoConnection
    <3>2. \A h \in Generations : carrying'[h] = 0
      BY <1>a, <2>b, <3>1, GenerationsAssumption DEF CarryingMatchesActive, DropCredit, None
    <3>3. \A h \in Generations : primary'.generation # h /\ joined'.generation # h
      BY <3>1, GenerationsAssumption DEF NoConnection, None
    <3> QED
      BY <2>b, <3>2, <3>3 DEF CarryingMatchesActive
  <2>5. CandidateInv'
    BY <1>a DEF CandidateInv
  <2>6. FollowInv'
    BY <1>a DEF FollowInv, Allowed
  <2>7. FailureInv'
    BY <1>a DEF FailureInv, KeepFailure
  <2> QED
    BY <2>1, <2>2, <2>3, <2>4, <2>5, <2>6, <2>7
<1>2. CASE HandOver
  <2> USE <1>2 DEF HandOver
  <2>a. /\ joined \in Connections /\ joined # NoConnection /\ candidate = Idle
        /\ joined.generation \in Generations
    BY <1>a, ConnectionExists DEF NoThirdConnection
  <2>b. /\ candidate' \in Candidates /\ candidate'.kind # "warming"
        /\ candidate' # Idle => candidate'.target = joined.hint
                                /\ candidate'.epoch = joined.interruptions
        /\ Allowed => candidate'.target = joined.hint
    BY <1>a, <2>a, ReconcileFacts
  <2>c. attempt' = NoAttempt
    BY <2>b DEF Follows
  <2>d. carrying' = DropCredit(primary.generation) /\ joined' = NoConnection /\ primary' = joined
        /\ failure' = KeepFailure(primary.end)
        /\ UNCHANGED <<serverVars, controlVars, phase, outer, inner, result, violated>>
    OBVIOUS
  <2> HIDE DEF HandOver
  <2>1. Types'
    BY <1>a, <2>a, <2>b, <2>c, <2>d DEF Types, ServerType, ControlType, PhaseType, TunnelType,
       DropCredit, KeepFailure
  <2>2. HintsSound'
    BY <1>a, <2>a, <2>b, <2>c, <2>d DEF HintsSound
  <2>3. NoThirdConnection'
    BY <1>a, <2>a, <2>b, <2>c, <2>d DEF NoThirdConnection
  <2>4. CarryingMatchesActive'
    BY <1>a, <2>a, <2>d, GenerationsAssumption DEF CarryingMatchesActive, DropCredit, NoConnection, None
  <2>5. CandidateInv'
    BY <1>a, <2>a, <2>b, <2>c, <2>d DEF CandidateInv
  <2>6. FollowInv'
    BY <1>a, <2>a, <2>b, <2>c, <2>d DEF FollowInv, Allowed
  <2>7. FailureInv'
    BY <1>a, <2>a, <2>b, <2>c, <2>d DEF FailureInv, KeepFailure
  <2> QED
    BY <2>1, <2>2, <2>3, <2>4, <2>5, <2>6, <2>7
<1>3. CASE JoinedEnded
  <2> USE <1>3 DEF JoinedEnded
  <2>a. /\ joined \in Connections /\ joined # NoConnection /\ candidate = Idle
        /\ joined.generation \in Generations
    BY <1>a, ConnectionExists DEF NoThirdConnection
  <2>b. /\ candidate' \in Candidates /\ candidate'.kind # "warming"
        /\ candidate' # Idle => candidate'.target = primary.hint
                                /\ candidate'.epoch = primary.interruptions
        /\ Allowed => candidate'.target = primary.hint
    BY <1>a, <2>a, ReconcileFacts
  <2>c. attempt' = NoAttempt
    BY <2>b DEF Follows
  <2>d. carrying' = DropCredit(joined.generation) /\ joined' = NoConnection /\ primary' = primary
        /\ failure' = KeepFailure(joined.end)
        /\ UNCHANGED <<serverVars, controlVars, phase, outer, inner, result, violated>>
    OBVIOUS
  <2> HIDE DEF JoinedEnded
  <2>1. Types'
    BY <1>a, <2>a, <2>b, <2>c, <2>d DEF Types, ServerType, ControlType, PhaseType, TunnelType,
       DropCredit, KeepFailure
  <2>2. HintsSound'
    BY <1>a, <2>a, <2>b, <2>c, <2>d DEF HintsSound
  <2>3. NoThirdConnection'
    BY <1>a, <2>a, <2>b, <2>c, <2>d DEF NoThirdConnection
  <2>4. CarryingMatchesActive'
    BY <1>a, <2>a, <2>d, GenerationsAssumption DEF CarryingMatchesActive, DropCredit, NoConnection, None
  <2>5. CandidateInv'
    BY <1>a, <2>a, <2>b, <2>c, <2>d DEF CandidateInv
  <2>6. FollowInv'
    BY <1>a, <2>a, <2>b, <2>c, <2>d DEF FollowInv, Allowed
  <2>7. FailureInv'
    BY <1>a, <2>a, <2>b, <2>c, <2>d DEF FailureInv, KeepFailure
  <2> QED
    BY <2>1, <2>2, <2>3, <2>4, <2>5, <2>6, <2>7
<1>4. CASE ControlObserved
  <2> USE <1>4 DEF ControlObserved
  <2>a. /\ candidate' \in Candidates
        /\ candidate' # Idle => candidate'.target = primary.hint
        /\ ~Stopping /\ joined = NoConnection => candidate'.target = primary.hint
        /\ candidate'.kind = "warming" => candidate' = candidate
        /\ candidate' = Idle \/ candidate' = candidate \/ candidate'.epoch = primary.interruptions
        /\ joined # NoConnection => candidate' = Idle
    BY <1>a, ReconcileFacts DEF NoThirdConnection, Stopping, Allowed, Types, ControlType
  <2>b. attempt' = IF candidate'.kind = "warming" THEN attempt ELSE NoAttempt
    BY DEF Follows
  <2>c. /\ inner' \in BOOLEAN /\ (inner => inner' = FALSE \/ Stopping)
        /\ UNCHANGED <<serverVars, controlVars, phase, outer, result, failure, primary, joined,
                       carrying, violated>>
    BY DEF Types, PhaseType, Stopping
  <2> HIDE DEF ControlObserved
  <2>1. Types'
    <3>1. attempt' # NoAttempt => attempt # NoAttempt /\ candidate' = candidate
      BY <2>a, <2>b
    <3>2. PhaseType'
      BY <2>c DEF Types, PhaseType
    <3>3. TunnelType'
      BY <1>a, <2>a, <2>b, <2>c, <3>1 DEF Types, TunnelType
    <3> QED
      BY <1>a, <2>a, <2>b, <2>c, <3>1, <3>2, <3>3
         DEF Types, ServerType, ControlType
  <2>2. HintsSound'
    BY <1>a, <2>a, <2>b, <2>c DEF HintsSound
  <2>3. NoThirdConnection'
    BY <1>a, <2>a, <2>b, <2>c DEF NoThirdConnection
  <2>4. CarryingMatchesActive'
    BY <1>a, <2>a, <2>b, <2>c DEF CarryingMatchesActive
  <2>5. CandidateInv'
    BY <1>a, <2>a, <2>b, <2>c DEF CandidateInv
  <2>6. FollowInv'
    BY <1>a, <2>a, <2>b, <2>c DEF FollowInv, Allowed, Stopping
  <2>7. FailureInv'
    BY <1>a, <2>a, <2>b, <2>c DEF FailureInv
  <2> QED
    BY <2>1, <2>2, <2>3, <2>4, <2>5, <2>6, <2>7
<1>5. CASE HintObserved
  <2> USE <1>5 DEF HintObserved
  <2> DEFINE kept == IF primary.known # primary.interruptions THEN Idle ELSE candidate
  <2>a. kept \in Candidates /\ candidate' = Reconcile(kept, primary, joined)
        /\ (joined # NoConnection => kept = Idle)
    BY <1>a DEF NoThirdConnection
  <2>b. primary' \in Connections /\ HintSound(primary') /\ primary'.generation = primary.generation
        /\ primary'.hint = primary.hint /\ primary'.interruptions = primary.interruptions
        /\ primary'.known = primary.interruptions /\ primary'.end = primary.end
        /\ primary' # NoConnection
    <3>1. primary' = [primary EXCEPT !.fresh = FALSE, !.known = primary.interruptions]
      OBVIOUS
    <3>2. primary' \in Connections
      BY <1>a, <3>1 DEF Connections
    <3>3. HintSound(primary)
      BY <1>a DEF HintsSound
    <3>4. /\ primary'.generation = primary.generation /\ primary'.hint = primary.hint
          /\ primary'.interruptions = primary.interruptions /\ primary'.end = primary.end
          /\ primary'.known = primary.interruptions /\ primary'.follower = primary.follower
          /\ primary'.goaway = primary.goaway /\ primary'.paused = primary.paused
      BY <1>a, <3>1 DEF Connections
    <3>5. primary.interruptions \in Nat
      BY <1>a, BoundsAssumption DEF Connections
    <3> QED
      BY <3>2, <3>3, <3>4, <3>5, ConnectionExists DEF HintSound
  <2>c. /\ candidate' \in Candidates
        /\ candidate' # Idle => candidate'.target = primary.hint
        /\ Allowed /\ joined = NoConnection => candidate'.target = primary.hint
        /\ candidate'.kind = "warming" => candidate' = kept
        /\ candidate' = Idle \/ candidate' = kept \/ candidate'.epoch = primary.interruptions
        /\ joined # NoConnection => candidate' = Idle
    BY <1>a, <2>a, ReconcileFacts
  <2>d. /\ attempt' = IF candidate'.kind = "warming" /\ primary.known = primary.interruptions
                      THEN attempt ELSE NoAttempt
        /\ UNCHANGED <<serverVars, controlVars, workerVars, joined, carrying, violated>>
    OBVIOUS
  <2> HIDE DEF HintObserved
  <2>1. Types'
    BY <1>a, <2>a, <2>b, <2>c, <2>d DEF Types, ServerType, ControlType, PhaseType, TunnelType
  <2>2. HintsSound'
    BY <1>a, <2>a, <2>b, <2>c, <2>d DEF HintsSound
  <2>3. NoThirdConnection'
    BY <1>a, <2>a, <2>b, <2>c, <2>d DEF NoThirdConnection
  <2>4. CarryingMatchesActive'
    BY <1>a, <2>a, <2>b, <2>c, <2>d DEF CarryingMatchesActive
  <2>5. CandidateInv'
    BY <1>a, <2>a, <2>b, <2>c, <2>d DEF CandidateInv
  <2>6. FollowInv'
    BY <1>a, <2>a, <2>b, <2>c, <2>d DEF FollowInv, Allowed
  <2>7. FailureInv'
    BY <1>a, <2>a, <2>b, <2>c, <2>d DEF FailureInv
  <2> QED
    BY <2>1, <2>2, <2>3, <2>4, <2>5, <2>6, <2>7
<1>6. CASE DelayElapsed
  <2> USE <1>6 DEF DelayElapsed
  <2>1. Types'
    BY <1>a DEF Types, ServerType, ControlType, PhaseType, TunnelType, Candidates, Attempts, Idle,
       NoAttempt, StartAttempt, None
  <2>2. HintsSound'
    BY <1>a DEF HintsSound
  <2>3. NoThirdConnection'
    BY <1>a DEF NoThirdConnection, Candidates, Idle
  <2>4. CarryingMatchesActive'
    BY <1>a DEF CarryingMatchesActive
  <2>5. CandidateInv'
    BY <1>a DEF CandidateInv, StartAttempt, Candidates, Idle
  <2>6. FollowInv'
    BY <1>a DEF FollowInv, Allowed, Candidates, Idle
  <2>7. FailureInv'
    BY <1>a DEF FailureInv
  <2> QED
    BY <2>1, <2>2, <2>3, <2>4, <2>5, <2>6, <2>7
<1>7. CASE CandidateJoins
  <2> USE <1>7 DEF CandidateJoins
  <2> DEFINE g == attempt.generation
  <2>a. /\ g \in Generations /\ joined = NoConnection /\ candidate # Idle /\ g = candidate.target
    BY <1>a DEF NoThirdConnection, Attempts, CandidateInv, NoAttempt
  <2>b. /\ joined' \in Connections /\ HintSound(joined') /\ joined'.generation = g
        /\ joined'.end = "no" /\ joined' # NoConnection
    BY <1>a, <2>a, ConnectedSound, ConnectionExists
  <2>1. Types'
    BY <1>a, <2>a, <2>b DEF Types, ServerType, ControlType, PhaseType, TunnelType, Carry
  <2>2. HintsSound'
    BY <1>a, <2>a, <2>b DEF HintsSound
  <2>3. NoThirdConnection'
    BY <1>a, <2>a, <2>b DEF NoThirdConnection
  <2>4. CarryingMatchesActive'
    BY <1>a, <2>a, <2>b, GenerationsAssumption DEF CarryingMatchesActive, Carry, NoConnection, None
  <2>5. CandidateInv'
    BY <1>a, <2>a, <2>b DEF CandidateInv
  <2>6. FollowInv'
    BY <1>a, <2>a, <2>b DEF FollowInv, Allowed
  <2>7. FailureInv'
    BY <1>a, <2>a, <2>b DEF FailureInv
  <2> QED
    BY <2>1, <2>2, <2>3, <2>4, <2>5, <2>6, <2>7
<1>8. CASE CandidateRefused
  <2> USE <1>8 DEF CandidateRefused
  <2>1. Types'
    BY <1>a DEF Types, ServerType, ControlType, PhaseType, TunnelType, Candidates, Idle
  <2>2. HintsSound'
    BY <1>a DEF HintsSound
  <2>3. NoThirdConnection'
    BY <1>a DEF NoThirdConnection, Candidates, Idle
  <2>4. CarryingMatchesActive'
    BY <1>a DEF CarryingMatchesActive
  <2>5. CandidateInv'
    BY <1>a DEF CandidateInv, Candidates, Idle
  <2>6. FollowInv'
    BY <1>a DEF FollowInv, Allowed, Candidates, Idle
  <2>7. FailureInv'
    BY <1>a DEF FailureInv
  <2> QED
    BY <2>1, <2>2, <2>3, <2>4, <2>5, <2>6, <2>7
<1> QED
  BY <1>1, <1>2, <1>3, <1>4, <1>5, <1>6, <1>7, <1>8

-----------------------------------------------------------------------------
\* A worker starts with no connection, no candidate and nothing carried.
LEMMA InvInit == Init => Inv
<1> SUFFICES ASSUME Init PROVE Inv
  OBVIOUS
<1> USE DEF Init
<1>1. Types
  <2>1. ServerType
    BY DEF ServerType, Hint
  <2>4. hints + intents <= MaxChanges
    BY BoundsAssumption
  <2>5. ControlType
    BY <2>4 DEF ControlType
  <2>2. PhaseType
    BY DEF PhaseType
  <2>3. TunnelType
    BY DEF TunnelType, Candidates, Attempts
  <2> QED
    BY <2>1, <2>2, <2>3, <2>5 DEF Types
<1>2. HintsSound /\ NoThirdConnection /\ FollowInv /\ FailureInv
  BY DEF HintsSound, NoThirdConnection, FollowInv, FailureInv
<1>3. CarryingMatchesActive
  BY GenerationsAssumption DEF CarryingMatchesActive, NoConnection, None
<1>4. CandidateInv
  BY DEF CandidateInv
<1> QED
  BY <1>1, <1>2, <1>3, <1>4 DEF Inv

\* Every step keeps the invariant.
LEMMA InvStep == Inv /\ [Next]_vars => Inv'
<1> SUFFICES ASSUME Inv, [Next]_vars PROVE Inv'
  OBVIOUS
<1>1. CASE UNCHANGED vars
  <2> USE <1>1 DEF vars, serverVars, controlVars, workerVars, tunnelVars, Inv
  <2>1. Types' /\ HintsSound' /\ NoThirdConnection'
    BY DEF Types, ServerType, ControlType, PhaseType, TunnelType, HintsSound,
           NoThirdConnection
  <2>2. CarryingMatchesActive' /\ CandidateInv' /\ FollowInv' /\ FailureInv'
    BY DEF CarryingMatchesActive, CandidateInv, FollowInv, Allowed, FailureInv
  <2> QED
    BY <2>1, <2>2
<1> QED
  BY <1>1, EnvironmentStep, ConnectionStep, AttemptStep, DialStep, ConnectedStep
     DEF Next, Worker

\* The inductive invariant holds in every reachable state.
LEMMA InvAlways == Spec => []Inv
BY InvInit, InvStep, PTL DEF Spec

(***************************************************************************)
(* The address worker keeps at most two connections and starts no          *)
(* candidate beside the second, reports exactly the connections that carry *)
(* credit, leaves no standing hint paused, and returns every protocol      *)
(* failure of a withdrawal, whichever connection met it.                   *)
(***************************************************************************)
THEOREM WorkerSafe == Spec => []WorkerInvariant
<1>1. Inv => WorkerInvariant
  <2> SUFFICES ASSUME Inv PROVE WorkerInvariant
    OBVIOUS
  <2> USE DEF Inv
  <2>1. TypeOK
    <3>1. hints \in 0..MaxChanges /\ intents \in 0..MaxChanges
      BY BoundsAssumption DEF Types, ServerType, ControlType
    <3>2. candidate # Idle =>
            candidate.kind \in {"waiting", "warming"} /\ candidate.target \in Generations
      BY DEF Types, TunnelType, Candidates
    <3> QED
      BY <3>1, <3>2
         DEF TypeOK, Types, ServerType, ControlType, PhaseType, TunnelType
  <2>2. StandingHintUsable
    BY DEF StandingHintUsable, HintsSound, HintSound
  <2>3. ProtocolFailureReported
    BY DEF ProtocolFailureReported, FailureInv
  <2> QED
    BY <2>1, <2>2, <2>3 DEF WorkerInvariant
<1> QED
  BY <1>1, InvAlways, PTL

(***************************************************************************)
(* Once the worker has acted on what it was told, its candidate is the one *)
(* the primary's standing hint asks for (reconcile).                       *)
(***************************************************************************)
THEOREM CandidateFollows == Spec => []CandidateFollowsHint
<1>1. Inv => CandidateFollowsHint
  BY DEF Inv, FollowInv, CandidateFollowsHint
<1> QED
  BY <1>1, InvAlways, PTL

(***************************************************************************)
(* A candidate joins only on the hint that asked for it, with no           *)
(* interruption in between, and never on the runtime of the primary        *)
(* (settle, Active::still_hints).                                          *)
(***************************************************************************)
THEOREM JoinsOnHint == Spec => JoinOnCurrentHint
<1> DEFINE Joins == joined = NoConnection /\ joined' # NoConnection =>
             /\ Allowed
             /\ joined'.generation = primary.hint
             /\ candidate.epoch = primary.interruptions
             /\ joined'.generation # primary.generation
<1>1. Inv /\ [Next]_vars => [Joins]_vars
  <2> SUFFICES ASSUME Inv, Next, joined = NoConnection, joined' # NoConnection
               PROVE  /\ Allowed
                      /\ joined'.generation = primary.hint
                      /\ candidate.epoch = primary.interruptions
                      /\ joined'.generation # primary.generation
    OBVIOUS
  <2>1. CandidateJoins
    BY DEF Next, Worker, SetReplacement, SetIntent, BeginShutdown, Follow, Goaway, Alive,
           ConnectionEnds, AttemptConnects, AttemptEstablishes, AttemptFails, CheckIntent,
           DialInterrupted, DialConnected, DialFailed, RetryDelay, PrimaryLost, HandOver,
           JoinedEnded, ControlObserved, HintObserved, HintsClosed, DelayElapsed,
           CandidateRefused, tunnelVars
  <2>2. /\ candidate # Idle /\ phase = "connected" /\ primary # NoConnection
        /\ attempt.generation = candidate.target
    BY <2>1 DEF CandidateJoins, Inv, Types, TunnelType, CandidateInv, Idle
  <2>3. /\ primary.hint = candidate.target /\ primary.interruptions = primary.known
        /\ Allowed /\ joined' = Connected(attempt.generation, HintOf(attempt.generation))
    BY <2>1 DEF CandidateJoins, StillHints
  <2>4. joined'.generation = attempt.generation
    BY <2>3 DEF Connected
  <2>5. candidate.epoch = primary.interruptions /\ primary.hint # primary.generation
    BY <2>2, <2>3 DEF Inv, CandidateInv, HintsSound, HintSound
  <2> QED
    BY <2>2, <2>3, <2>4, <2>5
<1> QED
  BY <1>1, InvAlways, PTL DEF Spec, JoinOnCurrentHint
=============================================================================
