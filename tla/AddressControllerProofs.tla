---------------------- MODULE AddressControllerProofs ----------------------
(***************************************************************************)
(* Theorems about AddressController for every set of addresses, every      *)
(* sequence of assignments and every number of workers.                    *)
(***************************************************************************)
EXTENDS AddressController, FiniteSetTheorems, SequenceTheorems, TLAPS

\* The stages of a worker that holds a connection.
Holding == {"connected", "withdrawing"}

(***************************************************************************)
(* Generations: those below the next one have been spawned, a completion   *)
(* is awaited only of those, and every worker is spawned to maintain.      *)
(***************************************************************************)
GenerationInv ==
  /\ \A g \in Workers : Spawned(g) <=> g < next_generation
  /\ \A g \in running : Spawned(g)
  /\ \A g \in Workers : ~Spawned(g) => intent[g] = "Maintain"

(***************************************************************************)
(* The intent of the living workers, also while an assignment is applied.  *)
(***************************************************************************)
IntentInv ==
  /\ controller = "intents" => desired = assigned
  /\ controller = "adding" => desired \subseteq assigned
  /\ controller \in {"select", "adding"} =>
       \A g \in Workers : IsLive(g) => (intent[g] = "Maintain" <=> address_of[g] \in assigned)

\* The mode is set before the channel.
ShutdownInv == shutdown => orderly # "none"

Inv ==
  /\ TypeOK /\ OneWorkerPerAddress /\ ConnectedTracked
  /\ GenerationInv /\ IntentInv /\ ShutdownInv

-----------------------------------------------------------------------------
(***************************************************************************)
(* One address more or less in the set of occupied slots.                  *)
(***************************************************************************)
Occupied == {a \in Addresses : slots[a] # NoWorker}

\* How the number of occupied slots changes when addresses join or leave
\* them.
LEMMA OccupiedCount ==
  ASSUME NEW S \in SUBSET Addresses
  PROVE  /\ Cardinality(S) \in 0..Cardinality(Addresses)
         /\ \A a \in Addresses \ S : Cardinality(S \cup {a}) = Cardinality(S) + 1
         /\ \A a \in S : Cardinality(S \ {a}) = Cardinality(S) - 1
         /\ \A D \in SUBSET S : Cardinality(S \ D) = Cardinality(S) - Cardinality(D)
<1>1. IsFiniteSet(Addresses) /\ IsFiniteSet(S)
  BY AddressesAssumption, FS_Subset
<1>2. Cardinality(S) \in Nat /\ Cardinality(Addresses) \in Nat
      /\ Cardinality(S) <= Cardinality(Addresses)
  BY <1>1, FS_CardinalityType, FS_Subset
<1>3. \A a \in Addresses \ S : Cardinality(S \cup {a}) = Cardinality(S) + 1
  BY <1>1, FS_AddElement
<1>4. \A a \in S : Cardinality(S \ {a}) = Cardinality(S) - 1
  BY <1>1, FS_RemoveElement
<1>5. ASSUME NEW D \in SUBSET S PROVE Cardinality(S \ D) = Cardinality(S) - Cardinality(D)
  <2>1. S \cap D = D
    OBVIOUS
  <2> QED
    BY <1>1, <2>1, FS_Difference
<1> QED
  BY <1>2, <1>3, <1>4, <1>5

(***************************************************************************)
(* The session, the signals, and the steps of the controller that move no  *)
(* worker and no slot.                                                     *)
(***************************************************************************)
LEMMA EnvironmentStep ==
  ASSUME Inv,
         \/ \E addresses \in Assignments : SendAssignment(addresses)
         \/ SessionEnds \/ BeginGraceful \/ BeginFast \/ SendShutdown
  PROVE  Inv'
<1> USE BoundsAssumption DEF Inv, sharedVars, trackerVars, channelVars, slotVars, controllerVars,
            workerVars
<1>1. ASSUME NEW addresses \in Assignments, SendAssignment(addresses) PROVE Inv'
  <2> USE <1>1 DEF SendAssignment
  <2>a. apply_rx' \in Seq(SUBSET Addresses) /\ applies' \in 0..MaxApplies
    BY AssignmentsAssumption, AppendProperties DEF TypeOK
  <2>1. TypeOK'
    BY <2>a DEF TypeOK
  <2>2. OneWorkerPerAddress'
    BY DEF OneWorkerPerAddress, IsLive, Spawned
  <2>3. ConnectedTracked'
    BY DEF ConnectedTracked
  <2>4. GenerationInv'
    BY DEF GenerationInv, Spawned
  <2>5. IntentInv'
    BY DEF IntentInv, IsLive, Spawned
  <2>6. ShutdownInv'
    BY DEF ShutdownInv
  <2> QED
    BY <2>1, <2>2, <2>3, <2>4, <2>5, <2>6
<1>2. CASE SessionEnds
  <2> USE <1>2 DEF SessionEnds
  <2>1. TypeOK'
    BY DEF TypeOK
  <2>2. OneWorkerPerAddress'
    BY DEF OneWorkerPerAddress, IsLive, Spawned
  <2>3. ConnectedTracked'
    BY DEF ConnectedTracked
  <2>4. GenerationInv'
    BY DEF GenerationInv, Spawned
  <2>5. IntentInv'
    BY DEF IntentInv, IsLive, Spawned
  <2>6. ShutdownInv'
    BY DEF ShutdownInv
  <2> QED
    BY <2>1, <2>2, <2>3, <2>4, <2>5, <2>6
<1>3. CASE BeginGraceful
  <2> USE <1>3 DEF BeginGraceful
  <2>1. TypeOK'
    BY DEF TypeOK
  <2>2. OneWorkerPerAddress'
    BY DEF OneWorkerPerAddress, IsLive, Spawned
  <2>3. ConnectedTracked'
    BY DEF ConnectedTracked
  <2>4. GenerationInv'
    BY DEF GenerationInv, Spawned
  <2>5. IntentInv'
    BY DEF IntentInv, IsLive, Spawned
  <2>6. ShutdownInv'
    BY DEF ShutdownInv
  <2> QED
    BY <2>1, <2>2, <2>3, <2>4, <2>5, <2>6
<1>4. CASE BeginFast
  <2> USE <1>4 DEF BeginFast
  <2>1. TypeOK'
    BY DEF TypeOK
  <2>2. OneWorkerPerAddress'
    BY DEF OneWorkerPerAddress, IsLive, Spawned
  <2>3. ConnectedTracked'
    BY DEF ConnectedTracked
  <2>4. GenerationInv'
    BY DEF GenerationInv, Spawned
  <2>5. IntentInv'
    BY DEF IntentInv, IsLive, Spawned
  <2>6. ShutdownInv'
    BY DEF ShutdownInv
  <2> QED
    BY <2>1, <2>2, <2>3, <2>4, <2>5, <2>6
<1>5. CASE SendShutdown
  <2> USE <1>5 DEF SendShutdown
  <2>1. TypeOK'
    BY DEF TypeOK
  <2>2. OneWorkerPerAddress'
    BY DEF OneWorkerPerAddress, IsLive, Spawned
  <2>3. ConnectedTracked'
    BY DEF ConnectedTracked
  <2>4. GenerationInv'
    BY DEF GenerationInv, Spawned
  <2>5. IntentInv'
    BY DEF IntentInv, IsLive, Spawned
  <2>6. ShutdownInv'
    BY DEF ShutdownInv
  <2> QED
    BY <2>1, <2>2, <2>3, <2>4, <2>5, <2>6
<1> QED
  BY <1>1, <1>2, <1>3, <1>4, <1>5

\* Steps of the controller that start no worker, free no slot and change no
\* intent keep the invariant.
LEMMA ControllerQuietStep ==
  ASSUME Inv,
         \/ ReceiveAssignment \/ AssignmentApplied \/ ApplyChannelClosed
         \/ ShutdownRequested \/ DrainEnds
         \/ \E a \in Addresses : AddNothing(a)
         \/ \E g \in Workers : CompleteStale(g)
  PROVE  Inv'
<1> USE DEF Inv, sharedVars, trackerVars, channelVars, slotVars, controllerVars, workerVars
<1>1. CASE ReceiveAssignment
  <2> USE <1>1 DEF ReceiveAssignment
  <2>a. Head(apply_rx) \subseteq Addresses /\ apply_rx' \in Seq(SUBSET Addresses)
    BY HeadTailProperties DEF TypeOK
  <2>1. TypeOK'
    BY <2>a DEF TypeOK
  <2>2. OneWorkerPerAddress'
    BY DEF OneWorkerPerAddress, IsLive, Spawned
  <2>3. ConnectedTracked'
    BY DEF ConnectedTracked
  <2>4. GenerationInv'
    BY DEF GenerationInv, Spawned
  <2>5. IntentInv'
    BY DEF IntentInv, IsLive, Spawned
  <2>6. ShutdownInv'
    BY DEF ShutdownInv
  <2> QED
    BY <2>1, <2>2, <2>3, <2>4, <2>5, <2>6
<1>2. CASE AssignmentApplied
  <2> USE <1>2 DEF AssignmentApplied
  <2>1. TypeOK'
    BY DEF TypeOK
  <2>2. OneWorkerPerAddress'
    BY DEF OneWorkerPerAddress, IsLive, Spawned
  <2>3. ConnectedTracked'
    BY DEF ConnectedTracked
  <2>4. GenerationInv'
    BY DEF GenerationInv, Spawned
  <2>5. IntentInv'
    BY DEF IntentInv, IsLive, Spawned
  <2>6. ShutdownInv'
    BY DEF ShutdownInv
  <2> QED
    BY <2>1, <2>2, <2>3, <2>4, <2>5, <2>6
<1>3. CASE ApplyChannelClosed
  <2> USE <1>3 DEF ApplyChannelClosed, RequestShutdown
  <2>1. TypeOK'
    BY DEF TypeOK
  <2>2. OneWorkerPerAddress'
    BY DEF OneWorkerPerAddress, IsLive, Spawned
  <2>3. ConnectedTracked'
    BY DEF ConnectedTracked
  <2>4. GenerationInv'
    BY DEF GenerationInv, Spawned
  <2>5. IntentInv'
    BY DEF IntentInv, IsLive, Spawned
  <2>6. ShutdownInv'
    BY DEF ShutdownInv
  <2> QED
    BY <2>1, <2>2, <2>3, <2>4, <2>5, <2>6
<1>4. CASE ShutdownRequested
  <2> USE <1>4 DEF ShutdownRequested
  <2>1. TypeOK'
    BY DEF TypeOK
  <2>2. OneWorkerPerAddress'
    BY DEF OneWorkerPerAddress, IsLive, Spawned
  <2>3. ConnectedTracked'
    BY DEF ConnectedTracked
  <2>4. GenerationInv'
    BY DEF GenerationInv, Spawned
  <2>5. IntentInv'
    BY DEF IntentInv, IsLive, Spawned
  <2>6. ShutdownInv'
    BY DEF ShutdownInv
  <2> QED
    BY <2>1, <2>2, <2>3, <2>4, <2>5, <2>6
<1>5. CASE DrainEnds
  <2> USE <1>5 DEF DrainEnds
  <2>1. TypeOK'
    BY DEF TypeOK
  <2>2. OneWorkerPerAddress'
    BY DEF OneWorkerPerAddress, IsLive, Spawned
  <2>3. ConnectedTracked'
    BY DEF ConnectedTracked
  <2>4. GenerationInv'
    BY DEF GenerationInv, Spawned
  <2>5. IntentInv'
    BY DEF IntentInv, IsLive, Spawned
  <2>6. ShutdownInv'
    BY DEF ShutdownInv
  <2> QED
    BY <2>1, <2>2, <2>3, <2>4, <2>5, <2>6
<1>6. ASSUME NEW a \in Addresses, AddNothing(a) PROVE Inv'
  <2> USE <1>6 DEF AddNothing
  <2>1. TypeOK'
    BY DEF TypeOK
  <2>2. OneWorkerPerAddress'
    BY DEF OneWorkerPerAddress, IsLive, Spawned
  <2>3. ConnectedTracked'
    BY DEF ConnectedTracked
  <2>4. GenerationInv'
    BY DEF GenerationInv, Spawned
  <2>5. IntentInv'
    BY DEF IntentInv, IsLive, Spawned
  <2>6. ShutdownInv'
    BY DEF ShutdownInv
  <2> QED
    BY <2>1, <2>2, <2>3, <2>4, <2>5, <2>6
<1>7. ASSUME NEW g \in Workers, CompleteStale(g) PROVE Inv'
  <2> USE <1>7 DEF CompleteStale, Completes
  <2>1. TypeOK'
    BY DEF TypeOK
  <2>2. OneWorkerPerAddress'
    BY DEF OneWorkerPerAddress, IsLive, Spawned
  <2>3. ConnectedTracked'
    BY DEF ConnectedTracked
  <2>4. GenerationInv'
    BY DEF GenerationInv, Spawned
  <2>5. IntentInv'
    BY DEF IntentInv, IsLive, Spawned
  <2>6. ShutdownInv'
    BY DEF ShutdownInv
  <2> QED
    BY <2>1, <2>2, <2>3, <2>4, <2>5, <2>6
<1> QED
  BY <1>1, <1>2, <1>3, <1>4, <1>5, <1>6, <1>7

(***************************************************************************)
(* next_completion of the owner of a slot frees that slot and no other.    *)
(***************************************************************************)
LEMMA SlotFreed ==
  ASSUME Inv, NEW g \in Workers, Completes(g), slots[address_of[g]] = g, FreeSlot(g)
  PROVE  /\ slots' \in [Addresses -> Workers \cup {NoWorker}]
         /\ shared_worker_count' \in 0..Cardinality(Addresses)
         /\ shared_worker_count' = Cardinality(Occupied')
         /\ \A a \in Addresses : slots'[a] # NoWorker =>
              slots'[a] = slots[a] /\ slots[a] # g
         /\ \A w \in Workers : slots[address_of[w]] = w /\ w # g => slots'[address_of[w]] = w
<1> DEFINE b == address_of[g]
<1>1. /\ b \in Addresses /\ slots \in [Addresses -> Workers \cup {NoWorker}]
      /\ address_of \in [Workers -> Addresses] /\ g # NoWorker
      /\ shared_worker_count = Cardinality(Occupied)
  BY BoundsAssumption DEF Inv, TypeOK, OneWorkerPerAddress, Occupied, Workers, NoWorker
<1>2. slots' = [slots EXCEPT ![b] = NoWorker] /\ shared_worker_count' = shared_worker_count - 1
  BY DEF FreeSlot
<1>3. Occupied' = Occupied \ {b} /\ b \in Occupied /\ Occupied \subseteq Addresses
      /\ Occupied' \subseteq Addresses
  BY <1>1, <1>2 DEF Occupied
<1>4. Cardinality(Occupied') = shared_worker_count'
      /\ Cardinality(Occupied') \in 0..Cardinality(Addresses)
  BY <1>1, <1>2, <1>3, OccupiedCount
<1>5. \A a \in Addresses : slots[a] = g => a = b
  BY <1>1 DEF Inv, OneWorkerPerAddress
<1> QED
  BY <1>1, <1>2, <1>4, <1>5

\* The completion of the worker in a slot frees that slot only.
LEMMA CompletionStep ==
  ASSUME Inv, NEW g \in Workers, CompleteOk(g) \/ CompleteErr(g)
  PROVE  Inv'
<1> USE DEF Inv, sharedVars, trackerVars, channelVars, slotVars, controllerVars, workerVars
<1>1. /\ Completes(g) /\ slots[address_of[g]] = g /\ FreeSlot(g)
      /\ controller \in {"select", "draining"} /\ stage[g] = "finished"
      /\ running' = running \ {g} /\ running' \subseteq Workers
      /\ UNCHANGED <<trackerVars, channelVars, next_generation, desired, workerVars>>
      /\ controller' \in {"select", "draining"} /\ first_error' \in BOOLEAN
      /\ controller' = "select" => controller = "select"
  BY DEF CompleteOk, CompleteErr, Completes, TypeOK
<1>2. /\ slots' \in [Addresses -> Workers \cup {NoWorker}]
      /\ shared_worker_count' \in 0..Cardinality(Addresses)
      /\ shared_worker_count' = Cardinality(Occupied')
      /\ \A a \in Addresses : slots'[a] # NoWorker => slots'[a] = slots[a] /\ slots[a] # g
      /\ \A w \in Workers : slots[address_of[w]] = w /\ w # g => slots'[address_of[w]] = w
  BY <1>1, SlotFreed
<1>3. orderly' \in {"none", "graceful", "fast"} /\ shutdown' \in BOOLEAN /\ ShutdownInv'
  <2>1. UNCHANGED sharedVars \/ RequestShutdown
    BY DEF CompleteOk, CompleteErr
  <2>2. CASE UNCHANGED sharedVars
    BY <2>2 DEF TypeOK, ShutdownInv
  <2>3. CASE RequestShutdown
    BY <2>3 DEF RequestShutdown, TypeOK, ShutdownInv
  <2> QED
    BY <2>1, <2>2, <2>3
<1>4. TypeOK'
  BY <1>1, <1>2, <1>3 DEF TypeOK
<1>5. OneWorkerPerAddress'
  BY <1>1, <1>2 DEF OneWorkerPerAddress, IsLive, Spawned, Occupied
<1>6. ConnectedTracked'
  BY <1>1 DEF ConnectedTracked
<1>7. GenerationInv'
  BY <1>1 DEF GenerationInv, Spawned
<1>8. IntentInv'
  BY <1>1 DEF IntentInv, IsLive, Spawned
<1> QED
  BY <1>3, <1>4, <1>5, <1>6, <1>7, <1>8

(***************************************************************************)
(* replace_intent over the existing slots: afterwards every living worker  *)
(* has the intent that the new assignment asks for.                        *)
(***************************************************************************)
LEMMA ReplaceIntentsStep ==
  ASSUME Inv, ReplaceIntents
  PROVE  Inv'
<1> USE DEF Inv, ReplaceIntents, sharedVars, trackerVars, channelVars, slotVars, controllerVars,
            workerVars
<1> DEFINE forgotten == {a \in Addresses : Forgotten(a)}
<1>1. /\ slots' = [a \in Addresses |-> IF Forgotten(a) THEN NoWorker ELSE slots[a]]
      /\ slots \in [Addresses -> Workers \cup {NoWorker}]
      /\ \A a \in forgotten : slots[a] # NoWorker /\ ~IsLive(slots[a])
  BY DEF TypeOK, Forgotten
<1>2. /\ Occupied' = Occupied \ forgotten /\ forgotten \subseteq Occupied
      /\ Occupied \subseteq Addresses /\ Occupied' \subseteq Addresses
  BY <1>1 DEF Occupied
<1>3. shared_worker_count = Cardinality(Occupied)
  BY DEF OneWorkerPerAddress, Occupied
<1>4. /\ shared_worker_count' = Cardinality(Occupied')
      /\ Cardinality(Occupied') \in 0..Cardinality(Addresses)
  BY <1>2, <1>3, OccupiedCount
<1>5. /\ intent' \in [Workers -> {"Maintain", "Retire"}]
      /\ \A g \in Workers : intent'[g] = IF g \in Readopted THEN "Maintain"
                                         ELSE IF g \in Retired THEN "Retire" ELSE intent[g]
      /\ unseen' \in [Workers -> BOOLEAN] /\ woken' \in [Workers -> BOOLEAN]
  BY DEF TypeOK, Wake
<1>6. TypeOK'
  BY <1>1, <1>4, <1>5 DEF TypeOK
<1>7. OneWorkerPerAddress'
  <2>1. \A g \in Workers : IsLive(g) => slots'[address_of[g]] = g
    BY <1>1 DEF OneWorkerPerAddress, TypeOK
  <2>2. \A a \in Addresses : slots'[a] # NoWorker => slots'[a] = slots[a]
    BY <1>1
  <2> QED
    BY <1>4, <2>1, <2>2 DEF OneWorkerPerAddress, IsLive, Spawned, Occupied
<1>8. ConnectedTracked'
  BY DEF ConnectedTracked
<1>9. GenerationInv'
  BY <1>5 DEF GenerationInv, Spawned, Readopted, Retired, IsLive
<1>10. IntentInv'
  <2>1. ASSUME NEW g \in Workers, IsLive(g)
        PROVE  intent'[g] = "Maintain" <=> address_of[g] \in assigned
    <3>1. slots[address_of[g]] = g /\ desired = assigned
      BY <2>1 DEF OneWorkerPerAddress, IntentInv
    <3>2. intent[g] \in {"Maintain", "Retire"}
      BY DEF TypeOK
    <3> QED
      BY <1>5, <2>1, <3>1, <3>2 DEF Readopted, Retired
  <2> QED
    BY <2>1 DEF IntentInv, IsLive, Spawned
<1>11. ShutdownInv'
  BY DEF ShutdownInv
<1> QED
  BY <1>6, <1>7, <1>8, <1>9, <1>10, <1>11

(***************************************************************************)
(* spawn_worker: the new generation takes a slot that no living worker     *)
(* has.                                                                    *)
(***************************************************************************)
LEMMA AddMissingStep ==
  ASSUME Inv, NEW a \in Addresses, AddMissing(a)
  PROVE  Inv'
<1> USE DEF Inv, AddMissing, sharedVars, trackerVars, channelVars, slotVars, controllerVars,
            workerVars
<1> DEFINE n == next_generation
<1>1. /\ n \in Workers /\ n' \in 1..(MaxWorkers + 1) /\ n' = n + 1 /\ n # NoWorker
      /\ Workers \subseteq Nat
  BY BoundsAssumption DEF TypeOK, Workers, NoWorker
<1>2. /\ ~Spawned(n) /\ stage[n] = "unborn" /\ n \notin running /\ intent[n] = "Maintain"
      /\ \A b \in Addresses : slots[b] # n
  BY <1>1 DEF GenerationInv, Spawned, OneWorkerPerAddress
<1>3. \A g \in Workers : IsLive(g) => address_of[g] # a /\ g # n
  BY <1>2 DEF OneWorkerPerAddress, Missing, IsLive
<1>4. /\ slots' = [slots EXCEPT ![a] = n] /\ slots' \in [Addresses -> Workers \cup {NoWorker}]
      /\ address_of' = [address_of EXCEPT ![n] = a] /\ address_of' \in [Workers -> Addresses]
      /\ stage' = [stage EXCEPT ![n] = "checking"] /\ stage' \in [Workers -> Stages]
      /\ running' = running \cup {n} /\ running' \subseteq Workers
  BY <1>1 DEF TypeOK, Stages
<1>5. Occupied' = Occupied \cup {a} /\ Occupied \subseteq Addresses /\ Occupied' \subseteq Addresses
  BY <1>1, <1>4 DEF Occupied, TypeOK
<1>6. /\ shared_worker_count' = Cardinality(Occupied')
      /\ Cardinality(Occupied') \in 0..Cardinality(Addresses)
  <2>1. shared_worker_count = Cardinality(Occupied) /\ Cardinality(Occupied) \in Nat
    BY <1>5, OccupiedCount DEF OneWorkerPerAddress, Occupied
  <2>2. CASE slots[a] = NoWorker
    BY <1>5, <2>1, <2>2, OccupiedCount DEF Occupied
  <2>3. CASE slots[a] # NoWorker
    <3>1. Occupied' = Occupied
      BY <1>5, <2>3 DEF Occupied
    <3>2. shared_worker_count' = shared_worker_count
      BY <2>1, <2>3
    <3>3. Cardinality(Occupied) \in 0..Cardinality(Addresses)
      BY <1>5, OccupiedCount
    <3> QED
      BY <2>1, <3>1, <3>2, <3>3
  <2> QED
    BY <2>2, <2>3
<1>7. TypeOK'
  BY <1>1, <1>4, <1>6 DEF TypeOK
<1>8. OneWorkerPerAddress'
  <2>1. \A g \in Workers : IsLive(g)' => slots'[address_of'[g]] = g
    BY <1>3, <1>4 DEF OneWorkerPerAddress, IsLive, Spawned, TypeOK
  <2>2. \A b \in Addresses : slots'[b] # NoWorker =>
          address_of'[slots'[b]] = b /\ slots'[b] \in running'
    BY <1>1, <1>2, <1>4 DEF OneWorkerPerAddress, TypeOK
  <2> QED
    BY <1>6, <2>1, <2>2 DEF OneWorkerPerAddress, Occupied
<1>9. ConnectedTracked'
  <2>1. \A g \in Workers : stage'[g] \in Holding <=> stage[g] \in Holding
    BY <1>2, <1>4 DEF TypeOK, Holding
  <2>2. \A g \in Workers : stage[g] \in Holding => address_of'[g] = address_of[g]
    BY <1>2, <1>4 DEF TypeOK, Holding
  <2> QED
    BY <2>1, <2>2 DEF ConnectedTracked, Holding
<1>10. GenerationInv'
  BY <1>1, <1>2, <1>4 DEF GenerationInv, Spawned, TypeOK
<1>11. IntentInv'
  BY <1>2, <1>4 DEF IntentInv, IsLive, Spawned, Missing, TypeOK
<1>12. ShutdownInv'
  BY DEF ShutdownInv
<1> QED
  BY <1>7, <1>8, <1>9, <1>10, <1>11, <1>12

-----------------------------------------------------------------------------
(***************************************************************************)
(* A worker moves from one stage to another.  The tracker hears of it when *)
(* the worker gains or loses its connection, and no other worker of the    *)
(* address can be the one it stands for.                                   *)
(***************************************************************************)
Moves(g, s) ==
  /\ stage[g] \notin {"unborn", "finished"}
  /\ s \in Stages \ {"unborn"}
  /\ stage' = [stage EXCEPT ![g] = s]
  /\ result' \in [Workers -> {"none", "ok", "lost", "withdrawal_failed", "err"}]
  /\ unseen' \in [Workers -> BOOLEAN] /\ woken' \in [Workers -> BOOLEAN]
  /\ WorkerUnchanged
  /\ \/ s \in Holding /\ connected' = connected \cup {address_of[g]}
     \/ stage[g] \in Holding /\ s \notin Holding /\ connected' = connected \ {address_of[g]}
     \/ (stage[g] \in Holding <=> s \in Holding) /\ connected' = connected

\* A worker that moves between stages keeps the invariant.
LEMMA MovesKeepInv ==
  ASSUME Inv, NEW g \in Workers, NEW s, Moves(g, s)
  PROVE  Inv'
<1> USE DEF Inv, Moves, WorkerUnchanged, sharedVars, channelVars, slotVars, controllerVars
<1>1. /\ stage \in [Workers -> Stages] /\ address_of \in [Workers -> Addresses]
      /\ address_of[g] \in Addresses /\ IsLive(g) /\ g # NoWorker
      /\ stage' \in [Workers -> Stages]
      /\ \A w \in Workers : stage'[w] = IF w = g THEN s ELSE stage[w]
  BY BoundsAssumption DEF TypeOK, IsLive, Spawned, Workers, NoWorker
<1>2. \A w \in Workers : /\ IsLive(w)' => IsLive(w)
                         /\ Spawned(w)' <=> Spawned(w)
                         /\ stage[w] \in Holding => IsLive(w)
  BY <1>1, BoundsAssumption DEF IsLive, Spawned, Holding, Workers, NoWorker
<1>3. connected \subseteq Addresses /\ connected' \subseteq Addresses
  BY <1>1 DEF TypeOK
<1>4. TypeOK'
  BY <1>1, <1>3 DEF TypeOK
<1>5. OneWorkerPerAddress'
  BY <1>2 DEF OneWorkerPerAddress
<1>6. ConnectedTracked'
  <2>1. connected = {address_of[w] : w \in {v \in Workers : stage[v] \in Holding}}
    BY DEF ConnectedTracked, Holding
  <2>2. \A w \in Workers : IsLive(w) /\ address_of[w] = address_of[g] => w = g
    BY <1>1 DEF OneWorkerPerAddress
  <2>3. \A b : b \in connected' <=> \E w \in Workers : stage'[w] \in Holding /\ address_of[w] = b
    <3>1. CASE s \in Holding /\ connected' = connected \cup {address_of[g]}
      BY <1>1, <2>1, <3>1
    <3>2. CASE stage[g] \in Holding /\ s \notin Holding /\ connected' = connected \ {address_of[g]}
      BY <1>1, <1>2, <2>1, <2>2, <3>2
    <3>3. CASE (stage[g] \in Holding <=> s \in Holding) /\ connected' = connected
      BY <1>1, <2>1, <3>3
    <3> QED
      BY <3>1, <3>2, <3>3
  <2> QED
    BY <2>3 DEF ConnectedTracked, Holding
<1>7. GenerationInv'
  BY <1>2 DEF GenerationInv, TypeOK
<1>8. IntentInv'
  BY <1>2 DEF IntentInv
<1>9. ShutdownInv'
  BY DEF ShutdownInv
<1> QED
  BY <1>4, <1>5, <1>6, <1>7, <1>8, <1>9

\* Every step of a worker is such a move.
LEMMA WorkerMoves ==
  ASSUME Inv, NEW g \in Workers, WorkerStep(g) \/ RunLost(g) \/ RunClosed(g)
  PROVE  \E s : Moves(g, s)
<1> USE DEF Inv, TypeOK, Moves, Stages, Holding, MoveTo, Exit, Silently
<1>1. CASE WorkerStops(g) \/ WorkerDials(g)
  BY <1>1 DEF WorkerStops, WorkerDials
<1>2. CASE EstablishingShutdown(g) \/ EstablishingRetired(g) \/ EstablishingReadopted(g)
  <2>1. EstablishingShutdown(g) => Moves(g, "exiting")
    BY DEF EstablishingShutdown
  <2>2. EstablishingRetired(g) => Moves(g, "exiting")
    BY DEF EstablishingRetired
  <2>3. EstablishingReadopted(g) => Moves(g, "checking")
    BY DEF EstablishingReadopted
  <2> QED
    BY <1>2, <2>1, <2>2, <2>3
<1>3. CASE EstablishConnected(g)
  BY <1>3 DEF EstablishConnected
<1>4. CASE EstablishRetryable(g) \/ EstablishFatal(g)
  BY <1>4 DEF EstablishRetryable, EstablishFatal
<1>5. CASE RunWithdraws(g)
  BY <1>5 DEF RunWithdraws
<1>6. CASE RunWithdrawn(g) \/ RunLost(g) \/ RunClosed(g)
  BY <1>6 DEF RunWithdrawn, RunLost, RunClosed, RunReturns
<1>7. CASE RunFailedWithdrawal(g) \/ RunLeaves(g) \/ RunReconnects(g)
  BY <1>7 DEF RunFailedWithdrawal, RunLeaves, RunReconnects
<1>8. CASE BackoffBegins(g) \/ WorkerReturns(g)
  BY <1>8 DEF BackoffBegins, WorkerReturns
<1>9. CASE BackoffShutdown(g) \/ BackoffWoken(g) \/ DelayElapses(g)
  <2>1. stage[g] = "backoff" /\ DropBackoffReceiver(g)
    BY <1>9 DEF BackoffShutdown, BackoffWoken, DelayElapses, BackoffEnds
  <2>2. Exit(g, "ok") \/ (MoveTo(g, "checking") /\ UNCHANGED result)
    BY <1>9 DEF BackoffShutdown, BackoffWoken, DelayElapses, BackoffEnds
  <2>3. woken' \in [Workers -> BOOLEAN] /\ unseen' \in [Workers -> BOOLEAN] /\ connected' = connected
        /\ WorkerUnchanged
    BY <2>1 DEF DropBackoffReceiver
  <2>4. Exit(g, "ok") => Moves(g, "exiting")
    BY <2>1, <2>3
  <2>5. MoveTo(g, "checking") /\ UNCHANGED result => Moves(g, "checking")
    BY <2>1, <2>3
  <2> QED
    BY <2>2, <2>4, <2>5
<1> QED
  BY <1>1, <1>2, <1>3, <1>4, <1>5, <1>6, <1>7, <1>8, <1>9 DEF WorkerStep

-----------------------------------------------------------------------------
\* The controller starts with no slot, no worker and nothing assigned.
LEMMA InvInit == Init => Inv
<1> SUFFICES ASSUME Init PROVE Inv
  OBVIOUS
<1> USE DEF Init
<1>1. (CHOOSE a \in Addresses : TRUE) \in Addresses
  BY AddressesAssumption
<1>2. Occupied = {}
  BY DEF Occupied
<1>3. 0 \in 0..Cardinality(Addresses) /\ Cardinality(Occupied) = 0
  BY <1>2, FS_EmptySet, AddressesAssumption, FS_CardinalityType
<1>4. 0 \in 0..MaxApplies /\ 1 \in 1..(MaxWorkers + 1)
  BY BoundsAssumption
<1>5. apply_rx \in Seq(SUBSET Addresses)
  BY EmptySeq
<1>6. TypeOK
  BY <1>1, <1>3, <1>4, <1>5 DEF TypeOK, Stages
<1>7. OneWorkerPerAddress
  BY <1>3 DEF OneWorkerPerAddress, IsLive, Spawned, Occupied
<1>8. ConnectedTracked
  BY DEF ConnectedTracked
<1>9. GenerationInv
  BY BoundsAssumption DEF GenerationInv, Spawned, Workers
<1>10. IntentInv /\ ShutdownInv
  BY DEF IntentInv, IsLive, Spawned, ShutdownInv
<1> QED
  BY <1>6, <1>7, <1>8, <1>9, <1>10 DEF Inv

\* Every step keeps the invariant.
LEMMA InvStep == Inv /\ [Next]_vars => Inv'
<1> SUFFICES ASSUME Inv, [Next]_vars PROVE Inv'
  OBVIOUS
<1>1. CASE UNCHANGED vars
  <2> USE <1>1 DEF vars, sharedVars, trackerVars, channelVars, slotVars, controllerVars, workerVars,
                   Inv
  <2>1. TypeOK'
    BY DEF TypeOK
  <2>2. OneWorkerPerAddress' /\ ConnectedTracked' /\ GenerationInv'
    BY DEF OneWorkerPerAddress, ConnectedTracked, GenerationInv, IsLive, Spawned
  <2>3. IntentInv' /\ ShutdownInv'
    BY DEF IntentInv, ShutdownInv, IsLive, Spawned
  <2> QED
    BY <2>1, <2>2, <2>3
<1>2. CASE ControllerStep
  BY <1>2, ControllerQuietStep, CompletionStep, ReplaceIntentsStep, AddMissingStep
     DEF ControllerStep, Completion
<1>3. ASSUME NEW g \in Workers, WorkerStep(g) \/ RunLost(g) \/ RunClosed(g) PROVE Inv'
  BY <1>3, WorkerMoves, MovesKeepInv
<1> QED
  BY <1>1, <1>2, <1>3, EnvironmentStep DEF Next

\* The inductive invariant holds in every reachable state.
LEMMA InvAlways == Spec => []Inv
BY InvInit, InvStep, PTL DEF Spec

(***************************************************************************)
(* No address is ever dialed twice: a living worker owns the slot of its   *)
(* address, a stale completion clears nothing, and the shared worker count *)
(* and the convergence tracker count exactly what is there (add,           *)
(* replace_intent, next_completion, mark_connected, mark_disconnected).    *)
(***************************************************************************)
THEOREM ControllerAccounts == Spec => []WorkersAccounted
<1>1. Inv => WorkersAccounted
  BY DEF Inv, WorkersAccounted
<1> QED
  BY <1>1, InvAlways, PTL

(***************************************************************************)
(* Between applies every living worker has the intent that the assignment  *)
(* asks for, whatever removals, re-additions and exits came before         *)
(* (replace_intent).                                                       *)
(***************************************************************************)
THEOREM IntentsFollow == Spec => []IntentFollowsAssignment
<1>1. Inv => IntentFollowsAssignment
  BY DEF Inv, IntentInv, IntentFollowsAssignment
<1> QED
  BY <1>1, InvAlways, PTL

(***************************************************************************)
(* A graceful shutdown becomes fast only when the operator says so, and    *)
(* the workers never see the channel before the mode (begin,               *)
(* request_shutdown).                                                      *)
(***************************************************************************)
THEOREM GracefulKept == Spec => GracefulNotCutShort
<1> DEFINE Kept == /\ shutdown' => orderly' # "none"
                   /\ (orderly = "graceful" /\ orderly' # "graceful")
                        => UNCHANGED <<slots, controller>>
<1>1. Inv /\ Inv' /\ [Next]_vars => [Kept]_vars
  <2> SUFFICES ASSUME Inv, Inv', Next PROVE Kept
    OBVIOUS
  <2>1. shutdown' => orderly' # "none"
    BY DEF Inv, ShutdownInv
  <2>2. ASSUME orderly = "graceful", orderly' # "graceful"
        PROVE  UNCHANGED <<slots, controller>>
    <3>1. CASE ControllerStep
      BY <2>2, <3>1 DEF ControllerStep, ReceiveAssignment, ReplaceIntents, AddMissing, AddNothing,
             AssignmentApplied, ApplyChannelClosed, ShutdownRequested, Completion, CompleteOk,
             CompleteErr, CompleteStale, DrainEnds, RequestShutdown, sharedVars
    <3>2. ASSUME NEW g \in Workers, WorkerStep(g) \/ RunLost(g) \/ RunClosed(g)
          PROVE  UNCHANGED orderly
      BY <3>2, WorkerMoves DEF Moves, WorkerUnchanged, sharedVars
    <3>3. CASE BeginFast
      BY <3>3 DEF BeginFast, slotVars, controllerVars
    <3> QED
      BY <2>2, <3>1, <3>2, <3>3 DEF Next, SendAssignment, SessionEnds, BeginGraceful, SendShutdown,
             sharedVars
  <2> QED
    BY <2>1, <2>2
<1> QED
  BY <1>1, InvAlways, PTL DEF Spec, GracefulNotCutShort
=============================================================================
