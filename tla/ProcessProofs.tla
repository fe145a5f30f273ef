------------------------------ MODULE ProcessProofs ------------------------------
(***************************************************************************)
(* Theorems about Process, for every finite set of Visitors, every set of  *)
(* sources and every limit, configuration and bound on events; and about   *)
(* Provisioning before it, for every file, command line, disk and          *)
(* descriptor limit.                                                       *)
(***************************************************************************)
EXTENDS Process, Provisioning, FiniteSetTheorems, SequenceTheorems, WellFoundedInduction, TLAPS

Places == {"away", "backlog"} \cup Tasks

(***************************************************************************)
(* The intake: types, and the permits counted.                             *)
(***************************************************************************)
IntakeTypes ==
  /\ visitor \in [Visitors -> [at : Places, source : Sources]]
  /\ free \in [pending : Nat, opens : Nat, active : Nat]
  /\ sources \in [Sources -> Nat]

IntakeInv == IntakeTypes /\ IntakeAccounting

(***************************************************************************)
(* The modes of shutdown only take their three values, and the process     *)
(* knows what it heard.                                                    *)
(***************************************************************************)
ModeInv ==
  /\ process \in 0..2 /\ local \in 0..2
  /\ heard \in {"none", "ok", "error"}
  /\ handshakes \in Nat

(***************************************************************************)
(* Before the accept loop: nobody has connected, the sockets are reserved  *)
(* in their order, and a failed bind has released them.                    *)
(***************************************************************************)
Reserved == {{}, {"public"}, {"public", "tunnel"}, {"public", "tunnel", "probe"}}

BindInv ==
  stage = "bind" =>
    /\ \A v \in Visitors : visitor[v].at = "away"
    /\ handshakes = 0 /\ session = "off"
    /\ exit = "none" =>
         /\ sockets \in Reserved
         /\ probe # "none" => sockets = {"public", "tunnel", "probe"}
    /\ exit # "none" => exit = "error" /\ sockets = {} /\ probe \in {"none", "closed"}

(***************************************************************************)
(* From the loop on: the listeners stay until the probe is closed, the     *)
(* registry is sealed before the probe is, and the loop is only left under *)
(* a shutdown, which somebody asked for or an error forced.  The probe     *)
(* listens behind the gate.                                                *)
(***************************************************************************)
Behind == {"draining", "closing", "returned"}

StageInv ==
  /\ stage \in {"bind", "loop", "leaving", "unready", "unlisten"} \cup Behind
  /\ probe \in {"none", "reserved", "listening", "failed", "closed"}
  /\ stage \in {"loop", "leaving", "unready"} => {"public", "tunnel"} \subseteq sockets
  /\ stage \in {"unlisten"} \cup Behind => probe \in {"none", "closed"}
  /\ stage \in Behind =>
       /\ sockets = {} /\ handshakes = 0
       /\ \A v \in Visitors : visitor[v].at # "backlog"
  /\ stage \in {"unready", "unlisten"} \cup Behind => sealed
  /\ stage \in {"leaving", "unready", "unlisten"} \cup Behind => local # 0
  /\ stage \in {"bind", "loop"} /\ local # 0 => process # 0 \/ drain
  /\ probe = "listening" => ready

(***************************************************************************)
(* Visitor work that is still placed when the connections are about to be  *)
(* closed, and what is left when the accept loop's task returns.           *)
(***************************************************************************)
CutInv ==
  /\ stage = "closing" =>
       \/ \A v \in Visitors : visitor[v].at \notin {"opening", "active"}
       \/ local = 2 \/ expired \/ config.grace = "zero"
  /\ stage = "returned" => \A v \in Visitors : visitor[v].at \notin Tasks

ExitInv ==
  /\ exit # "none" => stage \in {"bind", "returned"} /\ session # "running"
  /\ exit = "ok" => stage = "returned" /\ ~terminal /\ acme # "ended" /\ session # "lost"

ServerInv == ModeInv /\ BindInv /\ StageInv /\ CutInv /\ ExitInv

(***************************************************************************)
(* The Client: what each stage of its coordinator has behind it.           *)
(***************************************************************************)
ClientInv ==
  /\ role = "server" => controller = "off" /\ result = "none"
  /\ ~managed => link = "off"
  /\ link = "signalled" => heard # "none"
  /\ branch = "signal" => heard # "none"
  /\ controller = "off" => branch = "none" /\ drive = "idle" /\ link = "off" /\ result # "ok"
  /\ branch # "none" => link # "running"
  /\ result # "none" =>
       \/ controller = "off"
       \/ controller \in {"ok", "error"} /\ branch # "none" /\ drive = "stopped"
  /\ result = "ok" => controller = "ok" /\ (branch = "signal" => heard = "ok")

Inv == IntakeInv /\ ServerInv /\ ClientInv

-----------------------------------------------------------------------------
(***************************************************************************)
(* One Visitor joins or leaves a set of Visitors.                          *)
(***************************************************************************)
LEMMA OneMore ==
  ASSUME NEW S \in SUBSET Visitors, NEW v \in Visitors \ S
  PROVE  /\ Cardinality(S) \in Nat
         /\ Cardinality(S \cup {v}) = Cardinality(S) + 1
BY IntakeAssumption, FS_Subset, FS_CardinalityType, FS_AddElement

\* One Visitor leaves a set of Visitors.
LEMMA OneLess ==
  ASSUME NEW S \in SUBSET Visitors, NEW v \in S
  PROVE  /\ Cardinality(S) \in Nat /\ Cardinality(S) >= 1
         /\ Cardinality(S \ {v}) = Cardinality(S) - 1
<1>1. IsFiniteSet(S) /\ IsFiniteSet(S \ {v})
  BY IntakeAssumption, FS_Subset
<1>2. Cardinality(S) \in Nat /\ Cardinality(S \ {v}) \in Nat
  BY <1>1, FS_CardinalityType
<1> QED
  BY <1>1, <1>2, FS_RemoveElement

\* A set of Visitors has a natural number of members.
LEMMA Counted ==
  ASSUME NEW S \in SUBSET Visitors
  PROVE  Cardinality(S) \in Nat
BY IntakeAssumption, FS_Subset, FS_CardinalityType

(***************************************************************************)
(* How the number of Visitors in a set of places moves with one Visitor,   *)
(* and how the number that a source is charged for does.                   *)
(***************************************************************************)
From(s) == {v \in At({"hello"}) : visitor[v].source = s}

\* The number of Visitors in some places follows the one that moves.
LEMMA PlaceCounts ==
  ASSUME IntakeTypes, NEW v \in Visitors, NEW to \in [at : Places, source : Sources],
         visitor' = [visitor EXCEPT ![v] = to], NEW places
  PROVE  /\ Cardinality(At(places)) \in Nat
         /\ visitor[v].at \in places /\ to.at \notin places =>
              /\ Cardinality(At(places)) >= 1
              /\ Cardinality(At(places)') = Cardinality(At(places)) - 1
         /\ visitor[v].at \notin places /\ to.at \in places =>
              Cardinality(At(places)') = Cardinality(At(places)) + 1
         /\ (visitor[v].at \in places <=> to.at \in places) =>
              Cardinality(At(places)') = Cardinality(At(places))
<1> USE DEF At, IntakeTypes
<1>1. Cardinality(At(places)) \in Nat
  BY Counted
<1>2. ASSUME visitor[v].at \in places, to.at \notin places
      PROVE  /\ Cardinality(At(places)) >= 1
             /\ Cardinality(At(places)') = Cardinality(At(places)) - 1
  <2>1. At(places)' = At(places) \ {v}
    BY <1>2
  <2> QED
    BY <1>2, <2>1, OneLess
<1>3. ASSUME visitor[v].at \notin places, to.at \in places
      PROVE  Cardinality(At(places)') = Cardinality(At(places)) + 1
  <2>1. At(places)' = At(places) \cup {v}
    BY <1>3
  <2> QED
    BY <1>3, <2>1, OneMore
<1>4. ASSUME visitor[v].at \in places <=> to.at \in places
      PROVE  Cardinality(At(places)') = Cardinality(At(places))
  <2>1. At(places)' = At(places)
    BY <1>4
  <2> QED
    BY <2>1
<1> QED
  BY <1>1, <1>2, <1>3, <1>4

\* So does the number of Visitors that a source is charged for.
LEMMA SourceCounts ==
  ASSUME IntakeTypes, NEW v \in Visitors, NEW to \in [at : Places, source : Sources],
         visitor' = [visitor EXCEPT ![v] = to], NEW s \in Sources
  PROVE  /\ Cardinality(From(s)) \in Nat
         /\ visitor[v].at = "hello" /\ visitor[v].source = s /\ to.at # "hello" =>
              /\ Cardinality(From(s)) >= 1
              /\ Cardinality(From(s)') = Cardinality(From(s)) - 1
         /\ visitor[v].at # "hello" /\ to.at = "hello" /\ to.source = s =>
              Cardinality(From(s)') = Cardinality(From(s)) + 1
         /\ /\ ~(visitor[v].at = "hello" /\ visitor[v].source = s)
            /\ ~(to.at = "hello" /\ to.source = s)
            => Cardinality(From(s)') = Cardinality(From(s))
<1> USE DEF At, From, IntakeTypes
<1>1. Cardinality(From(s)) \in Nat
  BY Counted
<1>2. ASSUME visitor[v].at = "hello", visitor[v].source = s, to.at # "hello"
      PROVE  /\ Cardinality(From(s)) >= 1
             /\ Cardinality(From(s)') = Cardinality(From(s)) - 1
  <2>1. From(s)' = From(s) \ {v}
    BY <1>2
  <2> QED
    BY <1>2, <2>1, OneLess
<1>3. ASSUME visitor[v].at # "hello", to.at = "hello", to.source = s
      PROVE  Cardinality(From(s)') = Cardinality(From(s)) + 1
  <2>1. From(s)' = From(s) \cup {v}
    BY <1>3
  <2> QED
    BY <1>3, <2>1, OneMore
<1>4. ASSUME ~(visitor[v].at = "hello" /\ visitor[v].source = s),
             ~(to.at = "hello" /\ to.source = s)
      PROVE  Cardinality(From(s)') = Cardinality(From(s))
  <2>1. From(s)' = From(s)
    BY <1>4
  <2> QED
    BY <2>1
<1> QED
  BY <1>1, <1>2, <1>3, <1>4

(***************************************************************************)
(* A Visitor that moves with its permits: each permit goes out or comes    *)
(* back exactly with the place that it covers.                             *)
(***************************************************************************)
Freed(places, was, is) ==
  (IF was.at \in places THEN 1 ELSE 0) - (IF is.at \in places THEN 1 ELSE 0)
Charge(r, s) == IF r.at = "hello" /\ r.source = s THEN 1 ELSE 0

\* A Visitor that moves together with the permits of the places it leaves and
\* enters keeps the accounts.
LEMMA MovesWithPermits ==
  ASSUME IntakeInv, NEW v \in Visitors, NEW to \in [at : Places, source : Sources],
         visitor' = [visitor EXCEPT ![v] = to],
         free' \in [pending : Nat, opens : Nat, active : Nat],
         sources' \in [Sources -> Int],
         free'.pending = free.pending + Freed({"header", "hello"}, visitor[v], to),
         free'.opens = free.opens + Freed({"opening"}, visitor[v], to),
         free'.active = free.active + Freed({"active"}, visitor[v], to),
         to.at = "hello" => visitor[v].at # "hello",
         \A s \in Sources :
           /\ sources'[s] = sources[s] - Charge(visitor[v], s) + Charge(to, s)
           /\ sources'[s] <= Limits["perSource"]
  PROVE  IntakeInv'
<1> USE DEF IntakeInv
<1>0. /\ free.pending \in Nat /\ free.opens \in Nat /\ free.active \in Nat
      /\ visitor[v] \in [at : Places, source : Sources]
      /\ Limits["pending"] \in Nat /\ Limits["opens"] \in Nat /\ Limits["active"] \in Nat
  BY IntakeAssumption DEF IntakeTypes
<1>1. free'.pending + Cardinality(At({"header", "hello"})') = Limits["pending"]
  <2>1. free.pending + Cardinality(At({"header", "hello"})) = Limits["pending"]
    BY DEF IntakeAccounting
  <2> DEFINE places == {"header", "hello"}
             is == visitor[v].at \in places
             goes == to.at \in places
  <2>2. /\ Cardinality(At(places)) \in Nat
        /\ is /\ ~goes => Cardinality(At(places)') = Cardinality(At(places)) - 1
        /\ ~is /\ goes => Cardinality(At(places)') = Cardinality(At(places)) + 1
        /\ (is <=> goes) => Cardinality(At(places)') = Cardinality(At(places))
    BY PlaceCounts
  <2>3. free'.pending = free.pending + (IF is THEN 1 ELSE 0) - (IF goes THEN 1 ELSE 0)
    BY <1>0 DEF Freed
  <2> HIDE DEF places, is, goes
  <2>4. /\ is /\ ~goes => free'.pending = free.pending + 1
        /\ ~is /\ goes => free'.pending = free.pending - 1
        /\ (is <=> goes) => free'.pending = free.pending
    BY <1>0, <2>3
  <2>5. free'.pending + Cardinality(At(places)') = Limits["pending"]
    BY <1>0, <2>1, <2>2, <2>4 DEF places
  <2> QED
    BY <2>5 DEF places
<1>2. free'.opens + Cardinality(At({"opening"})') = Limits["opens"]
  <2>1. free.opens + Cardinality(At({"opening"})) = Limits["opens"]
    BY DEF IntakeAccounting
  <2> DEFINE places == {"opening"}
             is == visitor[v].at \in places
             goes == to.at \in places
  <2>2. /\ Cardinality(At(places)) \in Nat
        /\ is /\ ~goes => Cardinality(At(places)') = Cardinality(At(places)) - 1
        /\ ~is /\ goes => Cardinality(At(places)') = Cardinality(At(places)) + 1
        /\ (is <=> goes) => Cardinality(At(places)') = Cardinality(At(places))
    BY PlaceCounts
  <2>3. free'.opens = free.opens + (IF is THEN 1 ELSE 0) - (IF goes THEN 1 ELSE 0)
    BY <1>0 DEF Freed
  <2> HIDE DEF places, is, goes
  <2>4. /\ is /\ ~goes => free'.opens = free.opens + 1
        /\ ~is /\ goes => free'.opens = free.opens - 1
        /\ (is <=> goes) => free'.opens = free.opens
    BY <1>0, <2>3
  <2>5. free'.opens + Cardinality(At(places)') = Limits["opens"]
    BY <1>0, <2>1, <2>2, <2>4 DEF places
  <2> QED
    BY <2>5 DEF places
<1>3. free'.active + Cardinality(At({"active"})') = Limits["active"]
  <2>1. free.active + Cardinality(At({"active"})) = Limits["active"]
    BY DEF IntakeAccounting
  <2> DEFINE places == {"active"}
             is == visitor[v].at \in places
             goes == to.at \in places
  <2>2. /\ Cardinality(At(places)) \in Nat
        /\ is /\ ~goes => Cardinality(At(places)') = Cardinality(At(places)) - 1
        /\ ~is /\ goes => Cardinality(At(places)') = Cardinality(At(places)) + 1
        /\ (is <=> goes) => Cardinality(At(places)') = Cardinality(At(places))
    BY PlaceCounts
  <2>3. free'.active = free.active + (IF is THEN 1 ELSE 0) - (IF goes THEN 1 ELSE 0)
    BY <1>0 DEF Freed
  <2> HIDE DEF places, is, goes
  <2>4. /\ is /\ ~goes => free'.active = free.active + 1
        /\ ~is /\ goes => free'.active = free.active - 1
        /\ (is <=> goes) => free'.active = free.active
    BY <1>0, <2>3
  <2>5. free'.active + Cardinality(At(places)') = Limits["active"]
    BY <1>0, <2>1, <2>2, <2>4 DEF places
  <2> QED
    BY <2>5 DEF places
<1>4. ASSUME NEW s \in Sources
      PROVE  sources'[s] = Cardinality(From(s)') /\ sources'[s] \in Nat
  <2>1. sources[s] = Cardinality(From(s)) /\ sources[s] \in Nat
    BY DEF IntakeAccounting, From, IntakeTypes
  <2>2. sources'[s] = sources[s] - Charge(visitor[v], s) + Charge(to, s)
    OBVIOUS
  <2>3. CASE visitor[v].at = "hello" /\ visitor[v].source = s
    <3>1. to.at # "hello"
      BY <2>3
    <3>2. sources'[s] = sources[s] - 1
      BY <2>1, <2>2, <2>3, <3>1 DEF Charge
    <3>3. Cardinality(From(s)) >= 1 /\ Cardinality(From(s)') = Cardinality(From(s)) - 1
      BY <2>3, <3>1, SourceCounts
    <3> QED
      BY <2>1, <3>2, <3>3
  <2>4. CASE ~(visitor[v].at = "hello" /\ visitor[v].source = s) /\ to.at = "hello" /\ to.source = s
    <3>1. visitor[v].at # "hello"
      BY <2>4
    <3>2. sources'[s] = sources[s] + 1
      BY <2>1, <2>2, <2>4, <3>1 DEF Charge
    <3>3. Cardinality(From(s)') = Cardinality(From(s)) + 1
      BY <2>4, <3>1, SourceCounts
    <3> QED
      BY <2>1, <3>2, <3>3
  <2>5. CASE ~(visitor[v].at = "hello" /\ visitor[v].source = s) /\ ~(to.at = "hello" /\ to.source = s)
    <3>1. sources'[s] = sources[s]
      BY <2>1, <2>2, <2>5 DEF Charge
    <3>2. Cardinality(From(s)') = Cardinality(From(s))
      BY <2>5, SourceCounts
    <3> QED
      BY <2>1, <3>1, <3>2
  <2> QED
    BY <2>3, <2>4, <2>5
<1>5. IntakeTypes'
  BY <1>4 DEF IntakeTypes
<1>6. IntakeAccounting'
  BY <1>1, <1>2, <1>3, <1>4 DEF IntakeAccounting, From
<1> QED
  BY <1>5, <1>6

\* A Visitor that is away, or has just come to a place, is well typed.
LEMMA AbsentTyped ==
  /\ Absent \in [at : Places, source : Sources]
  /\ \A place \in Places : /\ [Absent EXCEPT !.at = place] \in [at : Places, source : Sources]
                           /\ [Absent EXCEPT !.at = place].at = place
<1>1. Somewhere \in Sources
  BY IntakeAssumption DEF Somewhere
<1> QED
  BY <1>1 DEF Absent, Places

(***************************************************************************)
(* The drop of a VisitorAdmissionPermit, behind which the Visitor goes on  *)
(* without one.                                                            *)
(***************************************************************************)
LEMMA IntakeReturned ==
  ASSUME IntakeInv, NEW v \in Visitors, visitor[v].at \in {"header", "hello"},
         NEW place \in {"away", "routing", "challenge"}, Move(v, place), ReturnIntake(v)
  PROVE  IntakeInv'
<1> DEFINE to == [Absent EXCEPT !.at = place]
<1>1. to \in [at : Places, source : Sources] /\ to.at = place
  BY AbsentTyped DEF Places, Tasks
<1>2. /\ IntakeTypes /\ \A s \in Sources : sources[s] \in Nat /\ sources[s] <= Limits["perSource"]
      /\ Limits["perSource"] \in Nat
  BY IntakeAssumption DEF IntakeInv, IntakeTypes, IntakeAccounting
<1>3. visitor' = [visitor EXCEPT ![v] = to]
  BY DEF Move
<1> HIDE DEF to
<1>4. /\ free' \in [pending : Nat, opens : Nat, active : Nat]
      /\ free'.pending = free.pending + Freed({"header", "hello"}, visitor[v], to)
      /\ free'.opens = free.opens + Freed({"opening"}, visitor[v], to)
      /\ free'.active = free.active + Freed({"active"}, visitor[v], to)
  BY <1>1, <1>2 DEF ReturnIntake, IntakeTypes, Freed
<1>5. sources' \in [Sources -> Int]
  BY <1>2 DEF ReturnIntake, IntakeTypes
<1>6. ASSUME NEW s \in Sources
      PROVE  /\ sources'[s] = sources[s] - Charge(visitor[v], s) + Charge(to, s)
             /\ sources'[s] <= Limits["perSource"]
  BY <1>1, <1>2 DEF ReturnIntake, IntakeTypes, Charge
<1> QED
  BY <1>1, <1>3, <1>4, <1>5, <1>6, MovesWithPermits

(***************************************************************************)
(* Every other move leaves the sources alone.                              *)
(***************************************************************************)
LEMMA PermitMoved ==
  ASSUME IntakeInv, NEW v \in Visitors, visitor[v].at # "hello",
         NEW to \in [at : Places, source : Sources], to.at # "hello",
         visitor' = [visitor EXCEPT ![v] = to], UNCHANGED sources,
         free' \in [pending : Nat, opens : Nat, active : Nat],
         free'.pending = free.pending + Freed({"header", "hello"}, visitor[v], to),
         free'.opens = free.opens + Freed({"opening"}, visitor[v], to),
         free'.active = free.active + Freed({"active"}, visitor[v], to)
  PROVE  IntakeInv'
<1>1. sources \in [Sources -> Nat] /\ sources' \in [Sources -> Int] /\ Limits["perSource"] \in Nat
  BY IntakeAssumption DEF IntakeInv, IntakeTypes
<1>3. \A s \in Sources : sources[s] <= Limits["perSource"]
  BY DEF IntakeInv, IntakeAccounting
<1>2. \A s \in Sources : /\ sources'[s] = sources[s] - Charge(visitor[v], s) + Charge(to, s)
                         /\ sources'[s] <= Limits["perSource"]
  BY <1>1, <1>3 DEF Charge
<1> QED
  BY <1>1, <1>2, MovesWithPermits

\* The same for moves that change the permits of an open or of an active
\* stream only.
LEMMA MovedOn ==
  ASSUME IntakeInv, NEW v \in Visitors,
         NEW from \in {"backlog", "challenge", "routing", "opening", "active"}, visitor[v].at = from,
         NEW place \in {"away", "opening", "active"}, Move(v, place), UNCHANGED sources,
         free' \in [pending : Nat, opens : Nat, active : Nat],
         free'.pending = free.pending,
         free'.opens = free.opens + (IF from = "opening" THEN 1 ELSE 0)
                                  - (IF place = "opening" THEN 1 ELSE 0),
         free'.active = free.active + (IF from = "active" THEN 1 ELSE 0)
                                    - (IF place = "active" THEN 1 ELSE 0)
  PROVE  IntakeInv'
<1> DEFINE to == [Absent EXCEPT !.at = place]
<1>1. to \in [at : Places, source : Sources] /\ to.at = place
  BY AbsentTyped DEF Places, Tasks
<1>2. visitor' = [visitor EXCEPT ![v] = to]
  BY DEF Move
<1>3. free \in [pending : Nat, opens : Nat, active : Nat]
  BY DEF IntakeInv, IntakeTypes
<1> HIDE DEF to
<1>4. /\ free'.pending = free.pending + Freed({"header", "hello"}, visitor[v], to)
      /\ free'.opens = free.opens + Freed({"opening"}, visitor[v], to)
      /\ free'.active = free.active + Freed({"active"}, visitor[v], to)
  BY <1>1, <1>3 DEF Freed
<1> QED
  BY <1>1, <1>2, <1>4, PermitMoved

\* Every step of a Visitor keeps the accounts (VisitorIntake).
LEMMA IntakeKept ==
  ASSUME IntakeInv, NEW v \in Visitors,
         IntakeStep(v) \/ Connect(v) \/ (visitor[v].at = "backlog" /\ Accepted(v))
  PROVE  IntakeInv'
<1> DEFINE Record == [at : Places, source : Sources]
<1>0. /\ IntakeTypes /\ visitor[v] \in Record
      /\ visitor \in [Visitors -> Record]
      /\ free \in [pending : Nat, opens : Nat, active : Nat]
      /\ Limits["perSource"] \in Nat
  BY IntakeAssumption DEF IntakeInv, IntakeTypes
<1>1. CASE Connect(v)
  <2>1. PICK s \in Sources : visitor' = [visitor EXCEPT ![v] = [at |-> "backlog", source |-> s]]
    BY <1>1 DEF Connect
  <2>2. [at |-> "backlog", source |-> s] \in Record
    BY DEF Places
  <2>3. visitor[v].at = "away" /\ UNCHANGED free /\ UNCHANGED sources
    BY <1>1 DEF Connect, permitVars
  <2> DEFINE to == [at |-> "backlog", source |-> s]
  <2>4. /\ free'.pending = free.pending + Freed({"header", "hello"}, visitor[v], to)
        /\ free'.opens = free.opens + Freed({"opening"}, visitor[v], to)
        /\ free'.active = free.active + Freed({"active"}, visitor[v], to)
        /\ free' \in [pending : Nat, opens : Nat, active : Nat]
        /\ to.at # "hello" /\ visitor[v].at # "hello"
    BY <1>0, <2>3 DEF Freed
  <2> HIDE DEF to
  <2> QED
    BY <2>1, <2>2, <2>3, <2>4, PermitMoved DEF to
<1>2. CASE visitor[v].at = "backlog" /\ Accepted(v)
  <2>1. CASE free.pending = 0
    <3>1. Move(v, "away") /\ UNCHANGED free /\ UNCHANGED sources
      BY <1>2, <2>1 DEF Accepted, permitVars
    <3> QED
      BY <1>0, <1>2, <3>1, MovedOn
  <2>2. CASE free.pending # 0
    <3> DEFINE to == [at |-> "header", source |-> visitor[v].source]
    <3>1. /\ visitor' = [visitor EXCEPT ![v] = to]
          /\ free' = [free EXCEPT !.pending = @ - 1] /\ UNCHANGED sources
      BY <1>0, <1>2, <2>2 DEF Accepted, Acquire
    <3>2. to \in Record
      BY <1>0 DEF Places, Tasks
    <3>3. /\ free'.pending = free.pending + Freed({"header", "hello"}, visitor[v], to)
          /\ free'.opens = free.opens + Freed({"opening"}, visitor[v], to)
          /\ free'.active = free.active + Freed({"active"}, visitor[v], to)
          /\ free' \in [pending : Nat, opens : Nat, active : Nat]
          /\ to.at # "hello" /\ visitor[v].at # "hello"
      BY <1>0, <1>2, <2>2, <3>1 DEF Freed
    <3> HIDE DEF to
    <3> QED
      BY <3>1, <3>2, <3>3, PermitMoved
  <2> QED
    BY <2>1, <2>2
<1>3. CASE ReadHeader(v)
  <2>1. PICK s \in Claims(v) :
          IF sources[s] >= Limits["perSource"]
          THEN Move(v, "away") /\ ReturnIntake(v)
          ELSE /\ visitor' = [visitor EXCEPT ![v] = [at |-> "hello", source |-> s]]
               /\ sources' = [sources EXCEPT ![s] = @ + 1]
               /\ UNCHANGED free
    BY <1>3 DEF ReadHeader
  <2>2. s \in Sources /\ visitor[v].at = "header"
    BY <1>0, <1>3 DEF Claims, ReadHeader
  <2>3. CASE sources[s] >= Limits["perSource"]
    BY <2>1, <2>2, <2>3, IntakeReturned
  <2>4. CASE ~(sources[s] >= Limits["perSource"])
    <3> DEFINE to == [at |-> "hello", source |-> s]
    <3>1. /\ visitor' = [visitor EXCEPT ![v] = to] /\ UNCHANGED free
          /\ sources' = [sources EXCEPT ![s] = @ + 1]
      BY <2>1, <2>4
    <3>2. to \in Record
      BY <2>2 DEF Places, Tasks
    <3>7. sources \in [Sources -> Nat] /\ sources' \in [Sources -> Int]
      BY <2>2, <3>1 DEF IntakeInv, IntakeTypes
    <3>3. \A x \in Sources : sources[x] <= Limits["perSource"]
      BY DEF IntakeInv, IntakeAccounting
    <3>4. ASSUME NEW x \in Sources
          PROVE  /\ sources'[x] = sources[x] - Charge(visitor[v], x) + Charge(to, x)
                 /\ sources'[x] <= Limits["perSource"]
      BY <1>0, <2>2, <2>4, <3>1, <3>3, <3>7 DEF Charge
    <3>5. /\ free'.pending = free.pending + Freed({"header", "hello"}, visitor[v], to)
          /\ free'.opens = free.opens + Freed({"opening"}, visitor[v], to)
          /\ free'.active = free.active + Freed({"active"}, visitor[v], to)
      BY <1>0, <2>2, <3>1 DEF Freed
    <3>6. to.at = "hello" => visitor[v].at # "hello"
      BY <2>2
    <3> HIDE DEF to
    <3> QED
      BY <1>0, <3>1, <3>2, <3>3, <3>4, <3>5, <3>6, <3>7, MovesWithPermits, ZenonT(30)
  <2> QED
    BY <2>3, <2>4
<1>4. CASE ReadHello(v)
  <2>1. PICK next \in {"routing", "challenge", "away"} : Move(v, next)
    BY <1>4 DEF ReadHello
  <2>2. visitor[v].at \in {"header", "hello"} /\ ReturnIntake(v)
    BY <1>4 DEF ReadHello
  <2> QED
    BY <2>1, <2>2, IntakeReturned
<1>5. CASE IntakeFails(v) \/ IntakeShutdown(v)
  BY <1>5, IntakeReturned DEF IntakeFails, IntakeShutdown
<1>6. CASE ChallengeEnds(v)
  <2>1. /\ Move(v, "away")
        /\ UNCHANGED free /\ UNCHANGED sources /\ visitor[v].at = "challenge"
    BY <1>6 DEF ChallengeEnds, permitVars
  <2> QED
    BY <1>0, <2>1, MovedOn
<1>7. CASE Route(v)
  <2>1. UNCHANGED sources /\ visitor[v].at = "routing"
    BY <1>7 DEF Route
  <2>2. CASE Move(v, "away") /\ UNCHANGED free
    BY <1>0, <2>1, <2>2, MovedOn
  <2>3. CASE ~sealed /\ free.opens > 0 /\ Move(v, "opening") /\ Acquire("opens")
    <3>1. free' = [free EXCEPT !.opens = @ - 1]
      BY <2>3 DEF Acquire
    <3> QED
      BY <1>0, <2>1, <2>3, <3>1, MovedOn
  <2> QED
    BY <1>7, <2>2, <2>3 DEF Route
<1>8. CASE OpenEnds(v)
  <2>1. UNCHANGED sources /\ visitor[v].at = "opening"
    BY <1>8 DEF OpenEnds
  <2>2. CASE Move(v, "away") /\ free' = [free EXCEPT !.opens = @ + 1]
    BY <1>0, <2>1, <2>2, MovedOn
  <2>3. CASE /\ free.active > 0 /\ ~sealed
             /\ Move(v, "active")
             /\ free' = [free EXCEPT !.opens = @ + 1, !.active = @ - 1]
    <3>1. free' = [pending |-> free.pending, opens |-> free.opens + 1, active |-> free.active - 1]
      BY <1>0, <2>3
    <3>2. free.pending \in Nat /\ free.opens + 1 \in Nat /\ free.active - 1 \in Nat
      BY <1>0, <2>3
    <3>3. free' \in [pending : Nat, opens : Nat, active : Nat]
      BY <3>1, <3>2
    <3> QED
      BY <1>0, <2>1, <2>3, <3>1, <3>3, MovedOn
  <2> QED
    BY <1>8, <2>2, <2>3 DEF OpenEnds
<1>9. CASE ProxyEnds(v)
  <2>1. /\ Move(v, "away")
        /\ free' = [free EXCEPT !.active = @ + 1] /\ UNCHANGED sources /\ visitor[v].at = "active"
    BY <1>9 DEF ProxyEnds
  <2> QED
    BY <1>0, <2>1, MovedOn
<1> QED
  BY <1>1, <1>2, <1>3, <1>4, <1>5, <1>6, <1>7, <1>8, <1>9 DEF IntakeStep

(***************************************************************************)
(* The listeners' backlog holds no permit; visitor_intakes.abort_all       *)
(* brings every one back.                                                  *)
(***************************************************************************)
LEMMA BacklogDropped ==
  ASSUME IntakeInv, UNCHANGED free, UNCHANGED sources,
         visitor' = [v \in Visitors |-> IF visitor[v].at = "backlog" THEN Absent ELSE visitor[v]]
  PROVE  IntakeInv'
<1>1. IntakeTypes'
  BY AbsentTyped DEF IntakeInv, IntakeTypes
<1>2. ASSUME NEW places \in SUBSET Tasks
      PROVE  At(places)' = At(places)
  BY DEF At, Tasks, Absent
<1>3. ASSUME NEW s \in Sources
      PROVE  From(s)' = From(s)
  BY DEF From, At, Absent
<1>4. /\ At({"header", "hello"})' = At({"header", "hello"})
      /\ At({"opening"})' = At({"opening"}) /\ At({"active"})' = At({"active"})
  BY <1>2 DEF Tasks
<1> HIDE DEF At
<1>5. IntakeAccounting'
  BY <1>3, <1>4 DEF IntakeInv, IntakeAccounting, From
<1> QED
  BY <1>1, <1>5 DEF IntakeInv

\* Aborting all tasks returns every permit (JoinSet::abort_all).
LEMMA Aborted ==
  ASSUME IntakeInv, AbortAll
  PROVE  IntakeInv' /\ \A v \in Visitors : visitor'[v].at \notin Tasks
<1>1. \A v \in Visitors : visitor'[v].at \notin Tasks
  BY DEF AbortAll, Absent, Tasks
<1>2. IntakeTypes'
  BY AbsentTyped, IntakeAssumption DEF IntakeInv, IntakeTypes, AbortAll
<1>3. /\ At({"header", "hello"})' = {} /\ At({"opening"})' = {} /\ At({"active"})' = {}
      /\ \A s \in Sources : From(s)' = {}
  BY <1>1 DEF At, Tasks, From
<1>4. Cardinality({}) = 0
  BY FS_EmptySet
<1>5. /\ free'.pending = Limits["pending"] /\ free'.opens = Limits["opens"]
      /\ free'.active = Limits["active"] /\ \A s \in Sources : sources'[s] = 0
      /\ Limits["pending"] \in Nat /\ Limits["opens"] \in Nat /\ Limits["active"] \in Nat
      /\ Limits["perSource"] \in Nat
  BY IntakeAssumption DEF AbortAll
<1>7. /\ Cardinality(At({"header", "hello"})') = 0 /\ Cardinality(At({"opening"})') = 0
      /\ Cardinality(At({"active"})') = 0 /\ \A s \in Sources : Cardinality(From(s)') = 0
  BY <1>3, <1>4
<1>6. IntakeAccounting'
  BY <1>5, <1>7 DEF IntakeAccounting, From
<1> QED
  BY <1>1, <1>2, <1>6 DEF IntakeInv

\* A step that leaves Visitors and permits alone keeps the accounts.
LEMMA IntakeUnchanged ==
  ASSUME IntakeInv, UNCHANGED visitor, UNCHANGED free, UNCHANGED sources
  PROVE  IntakeInv'
BY DEF IntakeInv, IntakeTypes, IntakeAccounting, At

(***************************************************************************)
(* The sockets are reserved one after the other.                           *)
(***************************************************************************)
LEMMA NextReserved ==
  /\ sockets = {} => NextSocket = "public"
  /\ sockets = {"public"} => NextSocket = "tunnel"
  /\ sockets = {"public", "tunnel"} => NextSocket = "probe"
  /\ sockets = {"public", "tunnel", "probe"} => NextSocket = "endpoint"
<1>1. Cardinality({}) = 0 /\ IsFiniteSet({})
  BY FS_EmptySet
<1>2. Cardinality({"public"}) = 1 /\ IsFiniteSet({"public"})
  BY FS_Singleton
<1>3. Cardinality({"public", "tunnel"}) = 2 /\ IsFiniteSet({"public", "tunnel"})
  <2>1. {"public", "tunnel"} = {"public"} \cup {"tunnel"} /\ "tunnel" \notin {"public"}
    OBVIOUS
  <2>2. Cardinality({"public"} \cup {"tunnel"}) = 1 + 1 /\ IsFiniteSet({"public"} \cup {"tunnel"})
    BY <1>2, <2>1, FS_AddElement
  <2> QED
    BY <2>1, <2>2
<1>4. Cardinality({"public", "tunnel", "probe"}) = 3
  <2>1. /\ {"public", "tunnel", "probe"} = {"public", "tunnel"} \cup {"probe"}
        /\ "probe" \notin {"public", "tunnel"}
    OBVIOUS
  <2>2. Cardinality({"public", "tunnel"} \cup {"probe"}) = 2 + 1
    BY <1>3, <2>1, FS_AddElement
  <2> QED
    BY <2>1, <2>2
<1>5. ASSUME sockets = {} PROVE NextSocket = BindOrder[1]
  BY <1>1, <1>5 DEF NextSocket
<1>6. ASSUME sockets = {"public"} PROVE NextSocket = BindOrder[2]
  BY <1>2, <1>6 DEF NextSocket
<1>7. ASSUME sockets = {"public", "tunnel"} PROVE NextSocket = BindOrder[3]
  BY <1>3, <1>7 DEF NextSocket
<1>8. ASSUME sockets = {"public", "tunnel", "probe"} PROVE NextSocket = BindOrder[4]
  BY <1>4, <1>8 DEF NextSocket
<1> QED
  BY <1>5, <1>6, <1>7, <1>8 DEF BindOrder

\* The steps of Server::bind and Server::serve keep the Server's invariant.
LEMMA ServerProgramKept ==
  ASSUME IntakeInv, ServerInv, ServerProgram \/ Authorized \/ HandshakeEnds, UNCHANGED signalVars
  PROVE  ServerInv'
<1> USE DEF ServerInv, serverVars, serveVars, loopVars, besideVars, intakeVars, permitVars, signalVars, Unserved, Leave, Raise
<1>0. IntakeTypes
  BY DEF IntakeInv
<1>1. CASE Bind
  <2> USE <1>1 DEF Bind, ProbeBound, IsReady, Reserved, Behind
  <2>1. ModeInv'
    BY NextReserved DEF ModeInv
  <2>2. BindInv'
    BY NextReserved DEF BindInv
  <2>3. StageInv'
    BY NextReserved DEF StageInv, BindInv
  <2>4. CutInv'
    BY NextReserved DEF CutInv
  <2>5. ExitInv'
    BY NextReserved DEF ExitInv
  <2> QED
    BY <2>1, <2>2, <2>3, <2>4, <2>5
<1>2. CASE BindFails
  <2> USE <1>2 DEF BindFails, Behind
  <2>1. ModeInv'
    BY DEF ModeInv
  <2>2. BindInv'
    BY DEF BindInv
  <2>3. StageInv'
    BY DEF StageInv
  <2>4. CutInv'
    BY DEF CutInv
  <2>5. ExitInv'
    BY DEF ExitInv, BindInv
  <2> QED
    BY <2>1, <2>2, <2>3, <2>4, <2>5
<1>3. CASE ProbeListens
  <2> USE <1>3 DEF ProbeListens, IsReady, Behind
  <2>1. ModeInv'
    BY DEF ModeInv
  <2>2. BindInv'
    BY DEF BindInv
  <2>3. StageInv'
    BY DEF StageInv
  <2>4. CutInv'
    BY DEF CutInv
  <2>5. ExitInv'
    BY DEF ExitInv
  <2> QED
    BY <2>1, <2>2, <2>3, <2>4, <2>5
<1>4. CASE Follow
  <2> USE <1>4 DEF Follow, Behind
  <2>1. ModeInv'
    BY DEF ModeInv
  <2>2. BindInv'
    BY DEF BindInv
  <2>3. StageInv'
    BY DEF StageInv, ModeInv
  <2>4. CutInv'
    BY DEF CutInv, ModeInv
  <2>5. ExitInv'
    BY DEF ExitInv
  <2> QED
    BY <2>1, <2>2, <2>3, <2>4, <2>5
<1>5. CASE LoopFatal
  <2> USE <1>5 DEF LoopFatal, Behind
  <2>1. ModeInv'
    BY DEF ModeInv
  <2>2. BindInv'
    BY DEF BindInv
  <2>3. StageInv'
    BY DEF StageInv
  <2>4. CutInv'
    BY DEF CutInv
  <2>5. ExitInv'
    BY DEF ExitInv
  <2> QED
    BY <2>1, <2>2, <2>3, <2>4, <2>5
<1>6. CASE LoopShutdown
  <2> USE <1>6 DEF LoopShutdown, Behind
  <2>1. ModeInv'
    BY DEF ModeInv
  <2>2. BindInv'
    BY DEF BindInv
  <2>3. StageInv'
    BY DEF StageInv
  <2>4. CutInv'
    BY DEF CutInv
  <2>5. ExitInv'
    BY DEF ExitInv
  <2> QED
    BY <2>1, <2>2, <2>3, <2>4, <2>5
<1>7. CASE BackoffElapses
  <2> USE <1>7 DEF BackoffElapses, Behind
  <2>1. ModeInv'
    BY DEF ModeInv
  <2>2. BindInv'
    BY DEF BindInv
  <2>3. StageInv'
    BY DEF StageInv
  <2>4. CutInv'
    BY DEF CutInv
  <2>5. ExitInv'
    BY DEF ExitInv
  <2> QED
    BY <2>1, <2>2, <2>3, <2>4, <2>5
<1>8. CASE StopAccepting
  <2> USE <1>8 DEF StopAccepting, Behind
  <2>1. ModeInv'
    BY DEF ModeInv
  <2>2. BindInv'
    BY DEF BindInv
  <2>3. StageInv'
    BY DEF StageInv
  <2>4. CutInv'
    BY DEF CutInv
  <2>5. ExitInv'
    BY DEF ExitInv
  <2> QED
    BY <2>1, <2>2, <2>3, <2>4, <2>5
<1>9. CASE CloseProbe
  <2> USE <1>9 DEF CloseProbe, Behind
  <2>1. ModeInv'
    BY DEF ModeInv
  <2>2. BindInv'
    BY DEF BindInv
  <2>3. StageInv'
    BY DEF StageInv
  <2>4. CutInv'
    BY DEF CutInv
  <2>5. ExitInv'
    BY DEF ExitInv
  <2> QED
    BY <2>1, <2>2, <2>3, <2>4, <2>5
<1>10. CASE CloseListeners
  <2> USE <1>10 DEF CloseListeners, Absent, Behind, Tasks
  <2>1. ModeInv'
    BY DEF ModeInv
  <2>2. BindInv'
    BY DEF BindInv
  <2>3. StageInv'
    BY DEF StageInv
  <2>4. CutInv'
    BY DEF CutInv, StageInv, ModeInv
  <2>5. ExitInv'
    BY DEF ExitInv
  <2> QED
    BY <2>1, <2>2, <2>3, <2>4, <2>5
<1>11. CASE DrainCompletes
  <2> USE <1>11 DEF DrainCompletes, Behind, Quiescent, At
  <2>1. ModeInv'
    BY DEF ModeInv
  <2>2. BindInv'
    BY DEF BindInv
  <2>3. StageInv'
    BY DEF StageInv
  <2>4. CutInv'
    BY DEF CutInv
  <2>5. ExitInv'
    BY DEF ExitInv
  <2> QED
    BY <2>1, <2>2, <2>3, <2>4, <2>5
<1>12. CASE DrainExpires
  <2> USE <1>12 DEF DrainExpires, Behind
  <2>1. ModeInv'
    BY DEF ModeInv
  <2>2. BindInv'
    BY DEF BindInv
  <2>3. StageInv'
    BY DEF StageInv
  <2>4. CutInv'
    BY DEF CutInv
  <2>5. ExitInv'
    BY DEF ExitInv
  <2> QED
    BY <2>1, <2>2, <2>3, <2>4, <2>5
<1>13. CASE DrainEscalates
  <2> USE <1>13 DEF DrainEscalates, Behind
  <2>1. ModeInv'
    BY DEF ModeInv
  <2>2. BindInv'
    BY DEF BindInv
  <2>3. StageInv'
    BY DEF StageInv
  <2>4. CutInv'
    BY DEF CutInv
  <2>5. ExitInv'
    BY DEF ExitInv
  <2> QED
    BY <2>1, <2>2, <2>3, <2>4, <2>5
<1>14. CASE CloseAll
  <2> USE <1>14 DEF CloseAll, Behind
  <2>1. ModeInv'
    BY Aborted DEF ModeInv
  <2>2. BindInv'
    BY Aborted DEF BindInv
  <2>3. StageInv'
    BY Aborted DEF StageInv, AbortAll, Absent
  <2>4. CutInv'
    BY Aborted DEF CutInv
  <2>5. ExitInv'
    BY Aborted DEF ExitInv
  <2> QED
    BY <2>1, <2>2, <2>3, <2>4, <2>5
<1>15. CASE Exit
  <2> USE <1>15 DEF Exit, Behind, ExitResult, ServerResult
  <2>1. ModeInv'
    BY DEF ModeInv
  <2>2. BindInv'
    BY DEF BindInv
  <2>3. StageInv'
    BY DEF StageInv
  <2>4. CutInv'
    BY DEF CutInv
  <2>5. ExitInv'
    BY DEF ExitInv
  <2> QED
    BY <2>1, <2>2, <2>3, <2>4, <2>5
<1>16. CASE Authorized
  <2> USE <1>16 DEF Authorized, Behind
  <2>1. ModeInv'
    BY DEF ModeInv
  <2>2. BindInv'
    BY DEF BindInv
  <2>3. StageInv'
    BY DEF StageInv
  <2>4. CutInv'
    BY DEF CutInv
  <2>5. ExitInv'
    BY DEF ExitInv
  <2> QED
    BY <2>1, <2>2, <2>3, <2>4, <2>5
<1>17. CASE HandshakeEnds
  <2> USE <1>17 DEF HandshakeEnds, Behind
  <2>1. ModeInv'
    BY DEF ModeInv
  <2>2. BindInv'
    BY DEF BindInv
  <2>3. StageInv'
    BY DEF StageInv
  <2>4. CutInv'
    BY DEF CutInv
  <2>5. ExitInv'
    BY DEF ExitInv
  <2> QED
    BY <2>1, <2>2, <2>3, <2>4, <2>5
<1> QED
  BY <1>1, <1>2, <1>3, <1>4, <1>5, <1>6, <1>7, <1>8, <1>9, <1>10, <1>11, <1>12, <1>13, <1>14, <1>15,
     <1>16, <1>17 DEF ServerProgram

\* So do failures of the listener, the session and the certificate manager.
LEMMA EventKept ==
  ASSUME IntakeInv, ServerInv, Event \/ SessionStops
  PROVE  ServerInv'
<1> USE DEF ServerInv, serverVars, serveVars, loopVars, besideVars, intakeVars, permitVars, signalVars, Unserved, Leave, Raise
<1>0. IntakeTypes
  BY DEF IntakeInv
<1>1. CASE AcmeEnds
  <2> USE <1>1 DEF AcmeEnds, Behind
  <2>1. ModeInv'
    BY DEF ModeInv
  <2>2. BindInv'
    BY DEF BindInv
  <2>3. StageInv'
    BY DEF StageInv
  <2>4. CutInv'
    BY DEF CutInv
  <2>5. ExitInv'
    BY DEF ExitInv
  <2> QED
    BY <2>1, <2>2, <2>3, <2>4, <2>5
<1>2. CASE SessionLost
  <2> USE <1>2 DEF SessionLost, Behind, Stopped
  <2>1. ModeInv'
    BY DEF ModeInv
  <2>2. BindInv'
    BY DEF BindInv
  <2>3. StageInv'
    BY DEF StageInv
  <2>4. CutInv'
    BY DEF CutInv
  <2>5. ExitInv'
    BY DEF ExitInv
  <2> QED
    BY <2>1, <2>2, <2>3, <2>4, <2>5
<1>3. CASE SessionStops
  <2> USE <1>3 DEF SessionStops, Behind, Stopped
  <2>1. ModeInv'
    BY DEF ModeInv
  <2>2. BindInv'
    BY DEF BindInv
  <2>3. StageInv'
    BY DEF StageInv
  <2>4. CutInv'
    BY DEF CutInv
  <2>5. ExitInv'
    BY DEF ExitInv
  <2> QED
    BY <2>1, <2>2, <2>3, <2>4, <2>5
<1>4. CASE AcceptRetries /\ UNCHANGED signalVars
  <2> USE <1>4 DEF AcceptRetries, Behind
  <2>1. ModeInv'
    BY DEF ModeInv
  <2>2. BindInv'
    BY DEF BindInv
  <2>3. StageInv'
    BY DEF StageInv
  <2>4. CutInv'
    BY DEF CutInv
  <2>5. ExitInv'
    BY DEF ExitInv
  <2> QED
    BY <2>1, <2>2, <2>3, <2>4, <2>5
<1>5. CASE AcceptFails /\ UNCHANGED signalVars
  <2> USE <1>5 DEF AcceptFails, Behind
  <2>1. ModeInv'
    BY DEF ModeInv
  <2>2. BindInv'
    BY DEF BindInv
  <2>3. StageInv'
    BY DEF StageInv
  <2>4. CutInv'
    BY DEF CutInv
  <2>5. ExitInv'
    BY DEF ExitInv
  <2> QED
    BY <2>1, <2>2, <2>3, <2>4, <2>5
<1>6. CASE EndpointLost /\ UNCHANGED signalVars
  <2> USE <1>6 DEF EndpointLost, Behind
  <2>1. ModeInv'
    BY DEF ModeInv
  <2>2. BindInv'
    BY DEF BindInv
  <2>3. StageInv'
    BY DEF StageInv
  <2>4. CutInv'
    BY DEF CutInv
  <2>5. ExitInv'
    BY DEF ExitInv
  <2> QED
    BY <2>1, <2>2, <2>3, <2>4, <2>5
<1>7. CASE HandshakeBegins /\ UNCHANGED signalVars
  <2> USE <1>7 DEF HandshakeBegins, Behind
  <2>1. ModeInv'
    BY DEF ModeInv
  <2>2. BindInv'
    BY DEF BindInv
  <2>3. StageInv'
    BY DEF StageInv
  <2>4. CutInv'
    BY DEF CutInv
  <2>5. ExitInv'
    BY DEF ExitInv
  <2> QED
    BY <2>1, <2>2, <2>3, <2>4, <2>5
<1>8. CASE CertificateChanges /\ UNCHANGED signalVars
  <2> USE <1>8 DEF CertificateChanges, Behind
  <2>1. ModeInv'
    BY DEF ModeInv
  <2>2. BindInv'
    BY DEF BindInv
  <2>3. StageInv'
    BY DEF StageInv
  <2>4. CutInv'
    BY DEF CutInv
  <2>5. ExitInv'
    BY DEF ExitInv
  <2> QED
    BY <2>1, <2>2, <2>3, <2>4, <2>5
<1>9. CASE DrainRequested /\ UNCHANGED signalVars
  <2> USE <1>9 DEF DrainRequested, Behind
  <2>1. ModeInv'
    BY DEF ModeInv
  <2>2. BindInv'
    BY DEF BindInv
  <2>3. StageInv'
    BY DEF StageInv
  <2>4. CutInv'
    BY DEF CutInv
  <2>5. ExitInv'
    BY DEF ExitInv
  <2> QED
    BY <2>1, <2>2, <2>3, <2>4, <2>5
<1> QED
  BY <1>1, <1>2, <1>3, <1>4, <1>5, <1>6, <1>7, <1>8, <1>9 DEF Event

\* So do process signals.
LEMMA SignalKept ==
  ASSUME IntakeInv, ServerInv, FirstSignal \/ SecondSignal, UNCHANGED serverVars
  PROVE  ServerInv'
<1> USE DEF serverVars, serveVars, loopVars, besideVars, intakeVars, permitVars, signalVars, Unserved, Leave, Raise
<1>1. ModeInv'
  BY DEF ServerInv, ModeInv, FirstSignal, SecondSignal, SignalEvents, ShutdownMode
<1>2. process # 0 => process' # 0
  BY DEF ServerInv, ModeInv, FirstSignal, SecondSignal, SignalEvents, ShutdownMode
<1>3. BindInv' /\ StageInv' /\ CutInv' /\ ExitInv'
  BY <1>2 DEF ServerInv, BindInv, StageInv, CutInv, ExitInv, Behind
<1> QED
  BY <1>1, <1>3 DEF ServerInv

(***************************************************************************)
(* A Visitor moves: nothing is placed behind the seal, nobody joins the    *)
(* backlog of a closed listener, and what is away has no task.             *)
(***************************************************************************)
LEMMA VisitorMoves ==
  ASSUME IntakeInv, NEW v \in Visitors, IntakeStep(v)
  PROVE  /\ UNCHANGED <<proxied, sealed, local, expired>>
         /\ visitor[v].at \in Tasks
         /\ \A w \in Visitors : w # v => visitor'[w] = visitor[w]
         /\ visitor'[v].at # "backlog"
         /\ visitor'[v].at \in {"opening", "active"} =>
              ~sealed /\ visitor[v].at \in {"routing", "opening"}
<1>1. v \in Visitors /\ visitor \in [Visitors -> [at : Places, source : Sources]]
  BY DEF IntakeInv, IntakeTypes
<1> USE <1>1 DEF Move, Absent, Tasks, permitVars
<1>2. CASE ReadHeader(v)
  BY <1>2 DEF ReadHeader
<1>3. CASE ReadHello(v)
  BY <1>3 DEF ReadHello
<1>4. CASE IntakeFails(v)
  BY <1>4 DEF IntakeFails
<1>5. CASE IntakeShutdown(v)
  BY <1>5 DEF IntakeShutdown
<1>6. CASE ChallengeEnds(v)
  BY <1>6 DEF ChallengeEnds
<1>7. CASE Route(v)
  BY <1>7 DEF Route
<1>8. CASE OpenEnds(v)
  BY <1>8 DEF OpenEnds
<1>9. CASE ProxyEnds(v)
  BY <1>9 DEF ProxyEnds
<1> QED
  BY <1>2, <1>3, <1>4, <1>5, <1>6, <1>7, <1>8, <1>9 DEF IntakeStep

\* So do the steps of Visitors.
LEMMA VisitorKept ==
  ASSUME IntakeInv, ServerInv, NEW v \in Visitors, VisitorStep(v), UNCHANGED signalVars
  PROVE  ServerInv'
<1> USE DEF ServerInv, serverVars, serveVars, loopVars, besideVars, intakeVars, permitVars, signalVars, Unserved, Leave, Raise
<1>0. v \in Visitors /\ visitor \in [Visitors -> [at : Places, source : Sources]]
  BY DEF IntakeInv, IntakeTypes
<1>1. CASE AcceptVisitor(v)
  <2>1. /\ stage = "loop" /\ \A w \in Visitors : w # v => visitor'[w] = visitor[w]
        /\ UNCHANGED <<sealed, local, expired, config, serveVars, handshakes, besideVars, exit>>
    BY <1>0, <1>1 DEF AcceptVisitor, Accepted, Move
  <2> QED
    BY <2>1 DEF ModeInv, BindInv, StageInv, CutInv, ExitInv, Behind
<1>2. CASE IntakeStep(v) /\ UNCHANGED <<config, serveVars, loopVars, besideVars, exit>>
  <2> USE <1>2, VisitorMoves
  <2>1. ModeInv'
    BY DEF ModeInv
  <2>2. BindInv'
    BY DEF BindInv, VisitorStep
  <2>3. StageInv'
    BY DEF StageInv, Behind
  <2>4. CutInv'
    <3>1. stage = "closing" => sealed
      BY DEF StageInv, Behind
    <3>2. stage # "returned"
      BY DEF CutInv, StageInv
    <3> QED
      BY <3>1, <3>2 DEF CutInv
  <2>5. ExitInv'
    BY DEF ExitInv
  <2> QED
    BY <2>1, <2>2, <2>3, <2>4, <2>5
<1>3. CASE /\ "public" \in sockets /\ Connect(v)
           /\ UNCHANGED <<config, serveVars, loopVars, besideVars, exit>>
  <2>1. /\ \A w \in Visitors : w # v => visitor'[w] = visitor[w]
        /\ visitor'[v].at = "backlog" /\ stage # "bind" /\ stage \notin Behind
        /\ UNCHANGED <<sealed, local, expired>>
    BY <1>0, <1>3 DEF Connect, VisitorStep, StageInv
  <2> QED
    BY <1>3, <2>1 DEF ModeInv, BindInv, StageInv, CutInv, ExitInv, Behind
<1> QED
  BY <1>1, <1>2, <1>3 DEF VisitorStep

(***************************************************************************)
(* The Client's coordinator.                                               *)
(***************************************************************************)
LEMMA ClientKept ==
  ASSUME ClientInv, role = "client", UNCHANGED role, heard \in {"none", "ok", "error"}, ClientNext
  PROVE  ClientInv'
<1> USE DEF ClientInv, signalVars, clientVars
<1>1. CASE Prepare /\ UNCHANGED signalVars
  BY <1>1 DEF Prepare
<1>2. CASE ControllerEnds /\ UNCHANGED signalVars
  BY <1>2 DEF ControllerEnds
<1>3. CASE SessionHears /\ UNCHANGED signalVars
  BY <1>3 DEF SessionHears
<1>4. CASE SignalBranch /\ UNCHANGED signalVars
  BY <1>4 DEF SignalBranch
<1>5. CASE ControllerBranch /\ UNCHANGED signalVars
  BY <1>5 DEF ControllerBranch
<1>6. CASE Escalate /\ UNCHANGED signalVars
  BY <1>6 DEF Escalate
<1>7. CASE ClientExit /\ UNCHANGED signalVars
  BY <1>7 DEF ClientExit, ClientResult
<1>8. CASE result = "none" /\ controller # "off" /\ FirstSignal /\ UNCHANGED clientVars
  BY <1>8 DEF FirstSignal
<1> QED
  BY <1>1, <1>2, <1>3, <1>4, <1>5, <1>6, <1>7, <1>8 DEF ClientNext

\* No step of a Server process disturbs the accounts of the intake.
LEMMA ServerIntakeKept ==
  ASSUME IntakeInv, ServerNext
  PROVE  IntakeInv'
<1> USE DEF serverVars, serveVars, loopVars, besideVars, intakeVars, permitVars, signalVars
<1>1. CASE CloseListeners
  BY <1>1, BacklogDropped DEF CloseListeners
<1>2. CASE CloseAll
  BY <1>2, Aborted DEF CloseAll
<1>3. CASE ServerProgram /\ ~CloseListeners /\ ~CloseAll
  <2>1. UNCHANGED <<visitor, free, sources>>
    BY <1>3 DEF ServerProgram, Bind, BindFails, ProbeListens, Follow, LoopFatal, LoopShutdown,
       BackoffElapses, StopAccepting, CloseProbe, DrainCompletes, DrainExpires, DrainEscalates, Exit
  <2> QED
    BY <2>1, IntakeUnchanged
<1>4. CASE Authorized \/ HandshakeEnds
  BY <1>4, IntakeUnchanged DEF Authorized, HandshakeEnds
<1>5. CASE \E v \in Visitors : VisitorStep(v)
  <2>1. PICK v \in Visitors : VisitorStep(v)
    BY <1>5
  <2> QED
    BY <2>1, IntakeKept DEF VisitorStep, AcceptVisitor
<1>6. CASE UNCHANGED serverVars
  BY <1>6, IntakeUnchanged
<1>7. CASE SessionStops \/ Event
  <2>1. UNCHANGED <<visitor, free, sources>>
    BY <1>7 DEF SessionStops, Event, AcmeEnds, SessionLost, AcceptRetries, AcceptFails, EndpointLost,
       HandshakeBegins, CertificateChanges, DrainRequested
  <2> QED
    BY <2>1, IntakeUnchanged
<1> QED
  BY <1>1, <1>2, <1>3, <1>4, <1>5, <1>6, <1>7 DEF ServerNext

\* Every step of a Server process keeps the Server's invariant.
LEMMA ServerKept ==
  ASSUME IntakeInv, ServerInv, ServerNext
  PROVE  ServerInv'
BY ServerProgramKept, EventKept, SignalKept, VisitorKept DEF ServerNext

\* The Server's state is left alone by the steps of a Client but for the signals.
LEMMA ServerApart ==
  ASSUME ServerInv, UNCHANGED serverVars, UNCHANGED signalVars \/ FirstSignal
  PROVE  ServerInv'
<1> USE DEF serverVars, serveVars, loopVars, besideVars, intakeVars, permitVars, signalVars
<1>1. ModeInv'
  BY DEF ServerInv, ModeInv, FirstSignal, SignalEvents, ShutdownMode, Raise
<1>2. process # 0 => process' # 0
  BY DEF ServerInv, ModeInv, FirstSignal, SignalEvents, ShutdownMode, Raise
<1>3. BindInv' /\ StageInv' /\ CutInv' /\ ExitInv'
  BY <1>2 DEF ServerInv, BindInv, StageInv, CutInv, ExitInv, Behind
<1> QED
  BY <1>1, <1>3 DEF ServerInv

-----------------------------------------------------------------------------
\* A process starts with no socket, no Visitor and no result.
LEMMA Initially ==
  Init => Inv
<1> SUFFICES ASSUME Init PROVE Inv
  OBVIOUS
<1> USE DEF Init, ServerInit, SignalsInit, ClientInit, IntakeInit
<1>1. IntakeTypes
  BY AbsentTyped, IntakeAssumption DEF IntakeTypes
<1>2. \A v \in Visitors : visitor[v].at = "away"
  BY DEF Absent
<1>3. /\ At({"header", "hello"}) = {} /\ At({"opening"}) = {} /\ At({"active"}) = {}
      /\ \A s \in Sources : From(s) = {}
  BY <1>2 DEF At, From
<1>4. Cardinality({}) = 0
  BY FS_EmptySet
<1>5. /\ Cardinality(At({"header", "hello"})) = 0 /\ Cardinality(At({"opening"})) = 0
      /\ Cardinality(At({"active"})) = 0 /\ \A s \in Sources : Cardinality(From(s)) = 0
  BY <1>3, <1>4
<1>6. /\ free.pending = Limits["pending"] /\ free.opens = Limits["opens"]
      /\ free.active = Limits["active"] /\ \A s \in Sources : sources[s] = 0
      /\ Limits["pending"] \in Nat /\ Limits["opens"] \in Nat /\ Limits["active"] \in Nat
      /\ Limits["perSource"] \in Nat
  BY IntakeAssumption
<1>7. IntakeAccounting
  BY <1>5, <1>6 DEF IntakeAccounting, From
<1>8. ServerInv
  BY <1>2 DEF ServerInv, ModeInv, BindInv, StageInv, CutInv, ExitInv, Behind, Reserved
<1>9. ClientInv
  BY DEF ClientInv
<1> QED
  BY <1>1, <1>7, <1>8, <1>9 DEF Inv, IntakeInv

\* Every step of either role keeps the invariant.
LEMMA Step ==
  Inv /\ [Next]_vars => Inv'
<1> SUFFICES ASSUME Inv, [Next]_vars PROVE Inv'
  OBVIOUS
<1> USE DEF Inv
<1>1. CASE role = "server" /\ ServerNext /\ UNCHANGED <<role, clientVars>>
  <2>1. ClientInv'
    <3>1. heard # "none" => UNCHANGED heard
      BY <1>1 DEF ServerNext, FirstSignal, SecondSignal, SessionStops, Event, AcmeEnds, SessionLost,
                  signalVars
    <3> QED
      BY <1>1, <3>1 DEF ClientInv, clientVars
  <2> QED
    BY <1>1, <2>1, ServerIntakeKept, ServerKept
<1>2. CASE role = "client" /\ ClientNext /\ UNCHANGED <<role, serverVars>>
  <2>1. ClientInv'
    BY <1>2, ClientKept DEF ServerInv, ModeInv
  <2>2. IntakeInv'
    BY <1>2, IntakeUnchanged DEF serverVars, intakeVars
  <2>3. ServerInv'
    BY <1>2, ServerApart DEF ClientNext
  <2> QED
    BY <2>1, <2>2, <2>3
<1>3. CASE UNCHANGED vars
  <2>1. IntakeInv'
    BY <1>3, IntakeUnchanged DEF vars, serverVars, intakeVars
  <2>2. ServerInv'
    BY <1>3, ServerApart DEF vars
  <2>3. ClientInv'
    BY <1>3 DEF vars, clientVars, signalVars, ClientInv
  <2> QED
    BY <2>1, <2>2, <2>3
<1> QED
  BY <1>1, <1>2, <1>3 DEF Next

\* The inductive invariant holds in every reachable state.
LEMMA Invariant ==
  Spec => []Inv
BY Initially, Step, PTL DEF Spec

(***************************************************************************)
(* No permit of the Visitor intake is lost or returned twice, whichever    *)
(* way a Visitor leaves and whatever address a PROXY header claims, and no *)
(* source is charged above its limit (VisitorAdmissionPermit,              *)
(* accepted_task, intake_until, handle_parsed, abort_all).                 *)
(***************************************************************************)
THEOREM IntakeAccounts ==
  Spec => []IntakeAccounting
<1>1. Inv => IntakeAccounting
  BY DEF Inv, IntakeInv
<1> QED
  BY <1>1, Invariant, PTL

(***************************************************************************)
(* A Server that answers its readiness probe has applied an Authorization  *)
(* and holds its sockets (ReadinessGate::wait_until_ready,                 *)
(* bind_with_admission_limits_and_proxy, ReadinessProbe::close, serve).    *)
(***************************************************************************)
THEOREM ReadySafe ==
  Spec => []ReadyServerAccepts
<1>1. Inv => ReadyServerAccepts
  BY DEF Inv, ServerInv, BindInv, StageInv, ExitInv, Reserved, Behind, ReadyServerAccepts
<1> QED
  BY <1>1, Invariant, PTL

(***************************************************************************)
(* The exit status of both commands tells the truth, and nothing is left   *)
(* running behind it (coordinate_server_acme, coordinate_managed_server,   *)
(* finish_with_escalation).                                                *)
(***************************************************************************)
THEOREM ExitSafe ==
  Spec => ExitAccounts
<1>1. ASSUME Inv PROVE ExitTruthful
  <2>1. exit # "none" => At(Tasks) = {} /\ handshakes = 0 /\ session # "running"
    <3>1. exit # "none" => \A v \in Visitors : visitor[v].at \notin Tasks
      BY <1>1 DEF Inv, ServerInv, BindInv, CutInv, ExitInv, Tasks
    <3> QED
      BY <1>1, <3>1 DEF Inv, ServerInv, BindInv, StageInv, ExitInv, Behind, At
  <2>2. exit = "ok" => ~terminal /\ acme # "ended" /\ session # "lost"
    BY <1>1 DEF Inv, ServerInv, ExitInv
  <2>3. /\ result = "ok" => controller = "ok" /\ (branch = "signal" => heard = "ok")
        /\ result # "none" => controller # "running" /\ drive # "running" /\ link # "running"
    BY <1>1 DEF Inv, ClientInv
  <2> QED
    BY <2>1, <2>2, <2>3 DEF ExitTruthful
<1>2. ASSUME Inv, [Next]_vars PROVE [FatalIsAnError]_vars
  <2>1. SUFFICES ASSUME Next, stage = "loop", stage' # "loop", fatal, ~terminal'
                 PROVE  process # 0 \/ drain
    BY <1>2 DEF FatalIsAnError
  <2>2. ServerNext
    BY <2>1 DEF Next, serverVars, serveVars
  <2>3. LoopShutdown
    BY <2>1, <2>2 DEF ServerNext, ServerProgram, serverVars, serveVars, Bind, BindFails, ProbeListens, Follow, LoopFatal,
         BackoffElapses, StopAccepting, CloseProbe, CloseListeners, DrainCompletes, DrainExpires, DrainEscalates, CloseAll,
         Exit, Authorized, HandshakeEnds, VisitorStep, AcceptVisitor, SessionStops, Event, AcmeEnds, SessionLost,
         AcceptRetries, AcceptFails, EndpointLost, HandshakeBegins, CertificateChanges, DrainRequested
  <2> QED
    BY <1>2, <2>1, <2>3 DEF Inv, ServerInv, StageInv, LoopShutdown
<1>3. ASSUME ExitTruthful', [FatalIsAnError]_vars PROVE [ExitTruthful' /\ FatalIsAnError]_vars
  BY <1>3
<1> QED
  BY <1>1, <1>2, <1>3, Invariant, PTL DEF Spec, ExitAccounts

(***************************************************************************)
(* A graceful shutdown closes no connection under a placed Visitor before  *)
(* its window has passed, unless it was escalated or has no window (serve, *)
(* stop_accepting_new_work, wait_quiescent).                               *)
(***************************************************************************)
THEOREM GracefulSafe ==
  Spec => GracefulCutsNothing
<1>1. Inv /\ [Next]_vars =>
        [stage = "closing" /\ stage' = "returned" /\ ~Quiescent
           => local = 2 \/ expired \/ config.grace = "zero"]_vars
  BY DEF Inv, ServerInv, CutInv, Quiescent, At
<1> QED
  BY <1>1, Invariant, PTL DEF Spec, GracefulCutsNothing

-----------------------------------------------------------------------------
(***************************************************************************)
(* What happens before a process serves (Provisioning).  First the file    *)
(* descriptors it gives itself (FdCapacity).                               *)
(***************************************************************************)

(***************************************************************************)
(* Integer division rounds down (the shares of apply_server_limits).       *)
(***************************************************************************)
LEMMA DivisionBounds ==
  ASSUME NEW a \in Nat, NEW b \in Nat, b > 0
  PROVE  /\ a \div b \in Nat
         /\ (a \div b) * b <= a
         /\ a < ((a \div b) + 1) * b
OBVIOUS

(***************************************************************************)
(* A positive factor cancels.                                              *)
(***************************************************************************)
LEMMA ProductCancels ==
  ASSUME NEW a \in Nat, NEW b \in Nat, NEW t \in Nat, a * t <= b * t, t > 0
  PROVE  a <= b
OBVIOUS

(***************************************************************************)
(* Rounded-down shares of the available descriptors sum to at most those,  *)
(* and each is at most what was configured.                                *)
(***************************************************************************)
LEMMA SharesFit ==
  ASSUME NEW c1 \in Nat, NEW c2 \in Nat, NEW c3 \in Nat, NEW A \in Nat,
         NEW T \in Nat, T = c1 + c2 + c3, T > A,
         NEW s1 \in Nat, NEW s2 \in Nat, NEW s3 \in Nat,
         s1 * T <= c1 * A, s2 * T <= c2 * A, s3 * T <= c3 * A
  PROVE  s1 + s2 + s3 <= A /\ s1 <= c1 /\ s2 <= c2 /\ s3 <= c3
<1>1. c1 * A + c2 * A + c3 * A = A * T
  OBVIOUS
<1>2. (s1 + s2 + s3) * T = s1 * T + s2 * T + s3 * T
  OBVIOUS
<1>3. (s1 + s2 + s3) * T <= A * T
  BY <1>1, <1>2
<1>4. c1 * A <= c1 * T /\ c2 * A <= c2 * T /\ c3 * A <= c3 * T
  OBVIOUS
<1>5. s1 * T <= c1 * T /\ s2 * T <= c2 * T /\ s3 * T <= c3 * T
  BY <1>4
<1>6. s1 + s2 + s3 \in Nat /\ T > 0
  OBVIOUS
<1>7. s1 + s2 + s3 <= A
  BY <1>3, <1>6, ProductCancels
<1>8. s1 <= c1 /\ s2 <= c2 /\ s3 <= c3
  BY <1>5, <1>6, ProductCancels
<1> QED BY <1>7, <1>8

(***************************************************************************)
(* Giving the leftovers away, active streams first, uses up every          *)
(* descriptor and exceeds no configured capacity.                          *)
(***************************************************************************)
LEMMA LeftoversGiven ==
  ASSUME NEW c \in [Owners -> Nat], NEW s \in [Owners -> Nat], NEW A \in Nat,
         \A i \in Owners : s[i] <= c[i],
         Total(s) <= A, A < Total(c)
  PROVE  LET e == GiveLeftovers(c, s, A - Total(s))
         IN  /\ e \in [Owners -> Nat]
             /\ \A i \in Owners : s[i] <= e[i] /\ e[i] <= c[i]
             /\ Total(e) = A
<1> DEFINE r == A - Total(s)
           x3 == Lesser(r, c[3] - s[3])
           x1 == Lesser(r - x3, c[1] - s[1])
           x2 == Lesser(r - x3 - x1, c[2] - s[2])
           e == GiveLeftovers(c, s, r)
<1>1. /\ c[1] \in Nat /\ c[2] \in Nat /\ c[3] \in Nat
      /\ s[1] \in Nat /\ s[2] \in Nat /\ s[3] \in Nat
      /\ s[1] <= c[1] /\ s[2] <= c[2] /\ s[3] <= c[3]
  BY DEF Owners
<1>2. s[1] + s[2] + s[3] <= A /\ A < c[1] + c[2] + c[3] /\ r = A - (s[1] + s[2] + s[3])
  BY DEF Total, PendingVisitors, PendingStreamOpens, ActiveRoutedStreams
<1>3. r \in Nat
  BY <1>1, <1>2
<1>4. e = [s EXCEPT ![3] = s[3] + x3, ![1] = s[1] + x1, ![2] = s[2] + x2]
  BY DEF GiveLeftovers, PendingVisitors, PendingStreamOpens, ActiveRoutedStreams
<1> HIDE DEF r, e
<1>5. x3 \in Nat /\ x3 <= c[3] - s[3] /\ x3 <= r /\ (x3 = r \/ x3 = c[3] - s[3])
  BY <1>1, <1>3 DEF Lesser
<1> HIDE DEF x3
<1>6. x1 \in Nat /\ x1 <= c[1] - s[1] /\ x1 <= r - x3 /\ (x1 = r - x3 \/ x1 = c[1] - s[1])
  BY <1>1, <1>3, <1>5 DEF Lesser
<1> HIDE DEF x1
<1>7. x2 \in Nat /\ x2 <= c[2] - s[2] /\ x2 <= r - x3 - x1 /\ (x2 = r - x3 - x1 \/ x2 = c[2] - s[2])
  BY <1>1, <1>3, <1>5, <1>6 DEF Lesser
<1> HIDE DEF x2
<1>8. x1 + x2 + x3 = r
  BY <1>1, <1>2, <1>3, <1>5, <1>6, <1>7
<1>9. /\ e \in [Owners -> Nat]
      /\ e[1] = s[1] + x1 /\ e[2] = s[2] + x2 /\ e[3] = s[3] + x3
  BY <1>1, <1>4, <1>5, <1>6, <1>7 DEF Owners
<1>10. Total(e) = A
  <2>1. Total(e) = e[1] + e[2] + e[3]
    BY DEF Total, PendingVisitors, PendingStreamOpens, ActiveRoutedStreams
  <2> QED BY <1>1, <1>2, <1>5, <1>6, <1>7, <1>8, <1>9, <2>1
<1>11. \A i \in Owners : s[i] <= e[i] /\ e[i] <= c[i]
  BY <1>1, <1>5, <1>6, <1>7, <1>9 DEF Owners
<1> QED BY <1>9, <1>10, <1>11 DEF e, r

(***************************************************************************)
(* The Server's three capacities together take exactly what there is,      *)
(* never more than configured, and each loses less than one descriptor     *)
(* against its proportional share.                                         *)
(***************************************************************************)
LEMMA ServerCut ==
  ASSUME NEW c \in [Owners -> Nat], NEW limit \in Nat, NEW reserve \in Nat
  PROVE  LET A == SaturatingSub(limit, reserve)
             e == ServerCapacity(c, limit, reserve)
         IN  /\ e \in [Owners -> Nat]
             /\ Total(e) = Lesser(Total(c), A)
             /\ Total(c) > 0 =>
                  \A i \in Owners :
                    /\ e[i] <= c[i]
                    /\ (e[i] + 1) * Total(c) > c[i] * Total(e)
<1> DEFINE A == SaturatingSub(limit, reserve)
           T == Total(c)
           s == [i \in Owners |-> (c[i] * A) \div T]
           e == ServerCapacity(c, limit, reserve)
<1>1. A \in Nat
  BY DEF SaturatingSub
<1>2. c[1] \in Nat /\ c[2] \in Nat /\ c[3] \in Nat /\ T = c[1] + c[2] + c[3] /\ T \in Nat
  BY DEF Owners, Total, PendingVisitors, PendingStreamOpens, ActiveRoutedStreams
<1>3. e = IF T <= A THEN c ELSE GiveLeftovers(c, s, A - Total(s))
  BY DEF ServerCapacity
<1> HIDE DEF A, T, e
<1>4. CASE T <= A
  <2>1. e = c /\ Lesser(T, A) = T
    BY <1>1, <1>2, <1>3, <1>4 DEF Lesser
  <2>2. ASSUME T > 0, NEW i \in Owners PROVE c[i] <= c[i] /\ (c[i] + 1) * T > c[i] * T
    <3>1. c[i] \in Nat
      OBVIOUS
    <3>2. (c[i] + 1) * T = c[i] * T + T
      BY <1>2, <3>1
    <3> QED BY <1>2, <2>2, <3>1, <3>2
  <2> QED BY <2>1, <2>2 DEF A, T, e
<1>5. CASE ~(T <= A)
  <2>1. T > A /\ T > 0
    BY <1>1, <1>2, <1>5
  <2>2. ASSUME NEW i \in Owners
        PROVE  s[i] \in Nat /\ s[i] * T <= c[i] * A /\ c[i] * A < (s[i] + 1) * T
    <3>1. c[i] * A \in Nat /\ s[i] = (c[i] * A) \div T
      BY <1>1
    <3> HIDE DEF s
    <3> QED BY <1>2, <2>1, <3>1, DivisionBounds
  <2>3. s \in [Owners -> Nat]
    BY <2>2
  <2> HIDE DEF s
  <2>4. /\ s[1] \in Nat /\ s[2] \in Nat /\ s[3] \in Nat
        /\ s[1] * T <= c[1] * A /\ s[2] * T <= c[2] * A /\ s[3] * T <= c[3] * A
    BY <2>2 DEF Owners
  <2>5. s[1] + s[2] + s[3] <= A /\ s[1] <= c[1] /\ s[2] <= c[2] /\ s[3] <= c[3]
    <3> DEFINE c1 == c[1]  c2 == c[2]  c3 == c[3]
               s1 == s[1]  s2 == s[2]  s3 == s[3]
    <3>1. /\ c1 \in Nat /\ c2 \in Nat /\ c3 \in Nat /\ s1 \in Nat /\ s2 \in Nat /\ s3 \in Nat
          /\ A \in Nat /\ T \in Nat /\ T = c1 + c2 + c3 /\ T > A
          /\ s1 * T <= c1 * A /\ s2 * T <= c2 * A /\ s3 * T <= c3 * A
      BY <1>1, <1>2, <2>1, <2>4
    <3> HIDE DEF c1, c2, c3, s1, s2, s3
    <3>2. s1 + s2 + s3 <= A /\ s1 <= c1 /\ s2 <= c2 /\ s3 <= c3
      BY <3>1, SharesFit
    <3> QED BY <3>2 DEF c1, c2, c3, s1, s2, s3
  <2>6. Total(s) <= A /\ \A i \in Owners : s[i] <= c[i]
    BY <2>5 DEF Owners, Total, PendingVisitors, PendingStreamOpens, ActiveRoutedStreams
  <2>7. /\ e \in [Owners -> Nat]
        /\ \A i \in Owners : s[i] <= e[i] /\ e[i] <= c[i]
        /\ Total(e) = A
    BY <1>1, <1>3, <1>5, <2>1, <2>3, <2>6, LeftoversGiven DEF T
  <2>8. Lesser(T, A) = A
    BY <1>1, <1>2, <1>5 DEF Lesser
  <2>9. ASSUME NEW i \in Owners PROVE (e[i] + 1) * T > c[i] * A
    <3>1. /\ s[i] \in Nat /\ e[i] \in Nat /\ s[i] + 1 <= e[i] + 1 /\ c[i] * A \in Nat
          /\ c[i] * A < (s[i] + 1) * T
      BY <1>1, <2>2, <2>7
    <3>2. (s[i] + 1) * T <= (e[i] + 1) * T
      BY <1>2, <3>1
    <3> QED BY <1>2, <3>1, <3>2
  <2> QED BY <2>7, <2>8, <2>9 DEF A, T, e
<1> QED BY <1>4, <1>5

(***************************************************************************)
(* A process that sizes itself: the limit it read is its own soft limit,   *)
(* and nothing is derived before it was read.                              *)
(***************************************************************************)
Sized ==
  /\ sized \in Roles
  /\ limits \in [soft : Nat, hard : Nat] /\ limits.soft <= limits.hard
  /\ nofile \in {Unread, Unreadable, limits.soft}
  /\ nofile = Unread => effective = Unread
  /\ CapacityFitsLimit

(***************************************************************************)
(* The provisioning run takes the parts of startup one at a time: either   *)
(* this one is idle, or it is sized.                                       *)
(***************************************************************************)
SizingInv == FdIdle \/ Sized

(***************************************************************************)
(* Raising the soft limit, as far as the kernel lets it, and reading it.   *)
(***************************************************************************)
LEMMA RaiseKeepsSized ==
  ASSUME Sized, RaiseNofile
  PROVE  Sized'
<1>1. sized' = sized /\ effective' = Unread
  BY DEF RaiseNofile, Sized
<1>2. /\ limits' \in [soft : Nat, hard : Nat] /\ limits'.soft <= limits'.hard
      /\ nofile' \in {Unreadable, limits'.soft}
  <2>1. limits.soft \in Nat /\ limits.hard \in Nat
    BY DEF Sized
  <2>2. CASE nofile' \in {limits.soft, Unreadable} /\ UNCHANGED limits
    BY <2>2 DEF Sized
  <2>3. ASSUME NEW soft \in limits.soft..limits.hard,
               nofile' = soft, limits' = [limits EXCEPT !.soft = soft]
        PROVE  /\ limits' \in [soft : Nat, hard : Nat] /\ limits'.soft <= limits'.hard
               /\ nofile' \in {Unreadable, limits'.soft}
    BY <2>1, <2>3 DEF Sized
  <2> QED BY <2>2, <2>3 DEF RaiseNofile
<1>3. CapacityFitsLimit'
  BY <1>1 DEF CapacityFitsLimit
<1> QED BY <1>1, <1>2, <1>3 DEF Sized

(***************************************************************************)
(* Deriving the Client's capacity or the Server's three from the limit.    *)
(***************************************************************************)
LEMMA ApplyKeepsSized ==
  ASSUME Sized, Apply
  PROVE  Sized'
<1>1. UNCHANGED <<sized, limits, nofile>> /\ nofile # Unread /\ effective = Unread
  BY DEF Apply
<1>2. ASSUME nofile \notin {Unread, Unreadable} PROVE CapacityFitsLimit'
  <2> DEFINE n == limits.soft
             R == Reserve(sized)
             A == SaturatingSub(n, R)
  <2>1. nofile = n /\ n \in Nat
    BY <1>2 DEF Sized
  <2>2. CASE sized.kind = "client"
    <3>1. sized.configured \in Nat /\ sized.addresses \in Nat /\ FdReserve \in Nat /\ MaxSnapshotAddresses \in Nat
      <4>1. sized \in [kind : {"client"}, configured : Capacities,
                       managed : BOOLEAN, addresses : 0..MaxSnapshotAddresses]
        BY <2>2 DEF Sized, Roles
      <4>2. sized.configured \in Capacities /\ sized.addresses \in 0..MaxSnapshotAddresses
        BY <4>1
      <4>3. sized.configured \in Nat /\ FdReserve \in Nat /\ MaxSnapshotAddresses \in Nat
        BY <4>2, FdAssumption DEF FdAssumption
      <4> QED BY <4>2, <4>3
    <3>2. R = FdReserve + Addresses(sized) /\ Addresses(sized) \in Nat
      BY <2>2, <3>1 DEF Reserve, Addresses
    <3>3. effective' = Lesser(sized.configured, A)
      BY <1>2, <2>1, <2>2 DEF Apply, ClientCapacity
    <3>4. Granted' = effective' /\ Wanted' = sized.configured
      BY <1>1, <2>2 DEF Granted, Wanted
    <3> HIDE DEF n
    <3>5. A \in Nat /\ (A > 0 => A = n - R)
      BY <2>1, <3>1, <3>2 DEF SaturatingSub
    <3>6. ASSUME effective' > 0, NEW k \in 0..Addresses(sized)
          PROVE  effective' + FdReserve + k <= n
      <4>1. effective' <= A /\ effective' \in Nat
        BY <3>1, <3>3, <3>5 DEF Lesser
      <4>2. k \in Nat /\ k <= Addresses(sized)
        BY <3>2, <3>6
      <4> HIDE DEF A, R
      <4>3. A = n - R
        BY <3>5, <3>6, <4>1
      <4>4. effective' <= n - (FdReserve + Addresses(sized))
        BY <3>2, <4>1, <4>3
      <4>5. \A e, m, f, a, j \in Nat : e <= m - (f + a) /\ j <= a => e + f + j <= m
        OBVIOUS
      <4>6. n \in Nat /\ FdReserve \in Nat /\ Addresses(sized) \in Nat
        BY <2>1, <3>1, <3>2
      <4> QED BY <4>1, <4>2, <4>4, <4>5, <4>6, Zenon
    <3> QED BY <1>1, <2>2, <3>3, <3>4, <3>6 DEF CapacityFitsLimit, n
  <2>3. CASE sized.kind = "server"
    <3>1. sized.configured \in [Owners -> Nat] /\ R \in Nat /\ sized.kind # "client"
      BY <2>3, FdAssumption DEF Sized, Roles, FdAssumption, Reserve
    <3>2. effective' = ServerCapacity(sized.configured, n, R)
      BY <1>2, <2>1, <2>3 DEF Apply
    <3>3. Granted' = Total(effective') /\ Wanted' = Total(sized.configured)
      BY <1>1, <2>3 DEF Granted, Wanted, Total
    <3>4. /\ Total(effective') = Lesser(Total(sized.configured), A)
          /\ Total(sized.configured) > 0 =>
               \A i \in Owners :
                 /\ effective'[i] <= sized.configured[i]
                 /\ (effective'[i] + 1) * Total(sized.configured) >
                      sized.configured[i] * Total(effective')
      BY <2>1, <3>1, <3>2, ServerCut
    <3> QED BY <1>1, <2>3, <3>1, <3>3, <3>4 DEF CapacityFitsLimit
  <2> QED BY <2>2, <2>3 DEF Sized, Roles
<1>3. ASSUME nofile \in {Unread, Unreadable} PROVE CapacityFitsLimit'
  BY <1>1, <1>3 DEF CapacityFitsLimit
<1> QED BY <1>1, <1>2, <1>3 DEF Sized

(***************************************************************************)
(* Startup never grants more descriptors than the process has              *)
(* (fd_capacity.rs): for every limit, reserve and configured capacity, the *)
(* Client keeps the reserve and one descriptor for each of its addresses,  *)
(* and the Server grants exactly the lesser of what is configured and what *)
(* is left, each owner within one of its proportional share.               *)
(***************************************************************************)
THEOREM CapacityAlwaysFits == ProvisionSpec => []CapacityFitsLimit
<1>1. ProvisionInit => SizingInv
  <2>1. ASSUME FdInit PROVE Sized
    <3>1. limits \in [soft : Nat, hard : Nat] /\ limits.soft <= limits.hard
      BY <2>1, FdAssumption DEF FdInit, FdAssumption
    <3>2. CapacityFitsLimit
      BY <2>1 DEF FdInit, CapacityFitsLimit
    <3> QED BY <2>1, <3>1, <3>2 DEF FdInit, Sized
  <2> QED BY <2>1 DEF ProvisionInit, SizingInv
<1>2. SizingInv /\ [ProvisionNext]_provisionVars => SizingInv'
  <2> SUFFICES ASSUME SizingInv, [ProvisionNext]_provisionVars PROVE SizingInv'
    OBVIOUS
  <2>1. ASSUME UNCHANGED fdVars PROVE SizingInv'
    <3>1. UNCHANGED <<sized, limits, nofile, effective>>
      BY <2>1 DEF fdVars
    <3> QED BY <3>1 DEF SizingInv, Sized, FdIdle, CapacityFitsLimit, Granted, Wanted
  <2>2. ASSUME FdNext PROVE SizingInv'
    <3>1. CASE FdIdle
      BY <2>2, <3>1 DEF FdIdle, FdNext, RaiseNofile, Apply
    <3>2. CASE Sized /\ Apply
      BY <3>2, ApplyKeepsSized DEF SizingInv
    <3>3. CASE Sized /\ RaiseNofile
      BY <3>3, RaiseKeepsSized DEF SizingInv
    <3> QED BY <2>2, <3>1, <3>2, <3>3 DEF SizingInv, FdNext
  <2> QED BY <2>1, <2>2 DEF ProvisionNext, provisionVars
<1>3. SizingInv => CapacityFitsLimit
  BY DEF SizingInv, Sized, FdIdle, CapacityFitsLimit
<1> QED BY <1>1, <1>2, <1>3, PTL DEF ProvisionSpec

-----------------------------------------------------------------------------
\* Provisioning: configurations.

\* Induction over the entries of a list: a set of naturals that is not empty
\* has a least element, so a counterexample would have a least one.
LEMMA LeastNatural ==
  ASSUME NEW T, T \subseteq Nat, T # {}
  PROVE  \E x \in T : \A y \in T : ~(y < x)
<1>1. \E x \in T : \A y \in T : ~(<<y, x>> \in OpToRel(<, Nat))
  BY WFMin, NatLessThanWellFounded
<1> QED BY <1>1 DEF OpToRel

\* The partial concatenations of the lists of s: what FlattenSeq computes on
\* its way (Iterator::flatten, filter_map and flat_map of config/mod.rs).
Flattens(f, s, n) ==
  \A i \in 1..n : f[i] = IF i = 1 THEN s[i] ELSE f[i - 1] \o s[i]

\* The partial concatenations exist, up to every entry.
LEMMA FlattenExists ==
  ASSUME NEW V, NEW s \in Seq(Seq(V)), NEW n \in 0..Len(s)
  PROVE  \E f \in [1..n -> Seq(V)] : Flattens(f, s, n)
<1> DEFINE T == {k \in 0..Len(s) : ~ \E f \in [1..k -> Seq(V)] : Flattens(f, s, k)}
<1> SUFFICES ASSUME T # {} PROVE FALSE
  OBVIOUS
<1>1. Len(s) \in Nat /\ T \subseteq Nat
  OBVIOUS
<1>2. PICK k \in T : \A y \in T : ~(y < k)
  BY <1>1, LeastNatural
<1>3. k \in Nat /\ k <= Len(s) /\ ~ \E f \in [1..k -> Seq(V)] : Flattens(f, s, k)
  BY <1>1
<1>4. k # 0
  <2>1. 1..0 = {}
    OBVIOUS
  <2>2. [x \in {} |-> <<>>] \in [1..0 -> Seq(V)] /\ Flattens([x \in {} |-> <<>>], s, 0)
    BY <2>1 DEF Flattens
  <2> QED BY <1>3, <2>2
<1>5. k - 1 \in 0..Len(s) /\ k - 1 \notin T
  <2>1. k - 1 \in 0..Len(s) /\ k - 1 < k
    BY <1>1, <1>3, <1>4
  <2> QED BY <1>2, <2>1
<1>6. PICK f \in [1..(k - 1) -> Seq(V)] : Flattens(f, s, k - 1)
  BY <1>5
<1> DEFINE g == [i \in 1..k |-> IF i = k THEN IF k = 1 THEN s[k] ELSE f[k - 1] \o s[k] ELSE f[i]]
<1>7. s[k] \in Seq(V) /\ (k # 1 => f[k - 1] \in Seq(V))
  BY <1>1, <1>3, <1>4, <1>6
<1>8. g \in [1..k -> Seq(V)]
  BY <1>1, <1>3, <1>4, <1>6, <1>7
<1>9. Flattens(g, s, k)
  <2> SUFFICES ASSUME NEW i \in 1..k PROVE g[i] = IF i = 1 THEN s[i] ELSE g[i - 1] \o s[i]
    BY DEF Flattens
  <2>1. CASE i = k
    BY <1>3, <1>4, <2>1
  <2>2. CASE i # k
    <3>1. i \in 1..(k - 1)
      BY <1>3, <2>2
    <3>2. f[i] = IF i = 1 THEN s[i] ELSE f[i - 1] \o s[i]
      BY <1>6, <3>1 DEF Flattens
    <3>3. i # 1 => i - 1 \in 1..k /\ i - 1 # k
      BY <1>3, <3>1
    <3> QED BY <2>2, <3>1, <3>2, <3>3
  <2> QED BY <2>1, <2>2
<1> QED BY <1>3, <1>8, <1>9

\* FlattenSeq is the last partial concatenation.
LEMMA FlattenOf ==
  ASSUME NEW V, NEW s \in Seq(Seq(V)), Len(s) # 0
  PROVE  \E f \in [1..Len(s) -> Seq(V)] : Flattens(f, s, Len(s)) /\ FlattenSeq(s) = f[Len(s)]
<1> DEFINE n == Len(s)
           Body(f) == [i \in 1..n |-> IF i = 1 THEN s[i] ELSE f[i - 1] \o s[i]]
           F == CHOOSE f : f = Body(f)
<1>1. n \in Nat /\ n > 0
  OBVIOUS
<1>2. PICK h \in [1..n -> Seq(V)] : Flattens(h, s, n)
  <2>1. n \in 0..Len(s)
    BY <1>1
  <2> QED BY <2>1, FlattenExists
<1>3. h = Body(h)
  BY <1>2 DEF Flattens
<1>4. F = Body(F)
  BY <1>3
<1>5. FlattenSeq(s) = F[n]
  BY Zenon DEF FlattenSeq
<1> HIDE DEF F
<1>6. /\ F = [i \in 1..n |-> F[i]]
      /\ \A i \in 1..n : F[i] = IF i = 1 THEN s[i] ELSE F[i - 1] \o s[i]
  BY <1>4
<1>7. F = h
  <2> DEFINE T == {i \in 1..n : F[i] # h[i]}
  <2>1. ASSUME T # {} PROVE FALSE
    <3>1. T \subseteq Nat
      OBVIOUS
    <3>2. PICK k \in T : \A y \in T : ~(y < k)
      BY <2>1, <3>1, LeastNatural
    <3>3. k \in 1..n /\ F[k] # h[k]
      OBVIOUS
    <3>4. k # 1 => k - 1 \in 1..n /\ k - 1 \notin T
      BY <1>1, <3>2, <3>3
    <3>5. k # 1 => F[k - 1] = h[k - 1]
      BY <3>4
    <3> QED BY <1>2, <1>6, <3>3, <3>5 DEF Flattens
  <2>2. \A i \in 1..n : F[i] = h[i]
    BY <2>1
  <2>3. h = [i \in 1..n |-> h[i]]
    BY <1>2
  <2> QED BY <1>6, <2>2, <2>3
<1> QED BY <1>2, <1>5, <1>7

\* A prefix and the next entry make the next prefix.
LEMMA PrefixGrows ==
  ASSUME NEW V, NEW v \in Seq(V), NEW k \in 1..Len(v), k # 1
  PROVE  [i \in 1..(k - 1) |-> v[i]] \o <<v[k]>> = [i \in 1..k |-> v[i]]
<1> DEFINE p == [i \in 1..(k - 1) |-> v[i]]
           q == <<v[k]>>
           r == [i \in 1..k |-> v[i]]
<1>1. k \in Nat /\ k - 1 \in Nat /\ \A i \in 1..k : v[i] \in V
  OBVIOUS
<1>2. p \in Seq(V) /\ Len(p) = k - 1 /\ \A i \in 1..(k - 1) : p[i] = v[i]
  BY <1>1
<1>3. q \in Seq(V) /\ Len(q) = 1 /\ q[1] = v[k]
  BY <1>1
<1>4. r \in Seq(V) /\ Len(r) = k /\ \A i \in 1..k : r[i] = v[i]
  BY <1>1
<1> HIDE DEF p, q, r
<1>5. /\ p \o q \in Seq(V) /\ Len(p \o q) = Len(p) + Len(q)
      /\ \A i \in 1..(Len(p) + Len(q)) : (p \o q)[i] = IF i <= Len(p) THEN p[i] ELSE q[i - Len(p)]
  BY <1>2, <1>3, ConcatProperties, Zenon
<1>6. Len(p \o q) = k
  BY <1>1, <1>2, <1>3, <1>5
<1>7. ASSUME NEW i \in 1..k PROVE (p \o q)[i] = r[i]
  <2>1. i \in 1..(Len(p) + Len(q))
    BY <1>1, <1>2, <1>3
  <2>2. CASE i <= k - 1
    <3>1. i \in 1..(k - 1) /\ i <= Len(p)
      BY <1>1, <1>2, <2>2
    <3> QED BY <1>2, <1>4, <1>5, <2>1, <3>1
  <2>3. CASE ~(i <= k - 1)
    <3>1. i = k /\ ~(i <= Len(p)) /\ i - Len(p) = 1
      BY <1>1, <1>2, <2>3
    <3> QED BY <1>3, <1>4, <1>5, <2>1, <3>1
  <2> QED BY <2>2, <2>3
<1> QED BY <1>4, <1>5, <1>6, <1>7, SeqEqual, Zenon DEF p, q, r

\* filter_map drops nothing from a list whose entries were all built.
LEMMA KnownAll ==
  ASSUME NEW V, NEW v \in Seq(V), \A i \in DOMAIN v : v[i] # NULL
  PROVE  Known(v) = v
<1> DEFINE n == Len(v)
           s == [i \in DOMAIN v |-> IF v[i] = NULL THEN <<>> ELSE <<v[i]>>]
<1>1. n \in Nat /\ DOMAIN v = 1..n /\ \A i \in 1..n : v[i] \in V
  OBVIOUS
<1>2. s = [i \in 1..n |-> <<v[i]>>]
  BY <1>1
<1> HIDE DEF s
<1>3. s \in Seq(Seq(V)) /\ Len(s) = n
  <2>1. \A i \in 1..n : <<v[i]>> \in Seq(V)
    BY <1>1
  <2> QED BY <1>1, <1>2, <2>1
<1>4. CASE n = 0
  <2>1. Known(v) = s
    BY <1>3, <1>4, Zenon DEF Known, FlattenSeq, s
  <2>2. s = <<>> /\ v = <<>>
    BY <1>3, <1>4, EmptySeq
  <2> QED BY <2>1, <2>2
<1>5. CASE n # 0
  <2>1. PICK f \in [1..n -> Seq(V)] : Flattens(f, s, n) /\ FlattenSeq(s) = f[n]
    BY <1>3, <1>5, FlattenOf
  <2> DEFINE Pre(k) == [i \in 1..k |-> v[i]]
             T == {i \in 1..n : f[i] # Pre(i)}
  <2>2. ASSUME T # {} PROVE FALSE
    <3>1. T \subseteq Nat
      BY <1>1
    <3>2. PICK k \in T : \A y \in T : ~(y < k)
      BY <2>2, <3>1, LeastNatural
    <3>3. k \in 1..n /\ f[k] # Pre(k) /\ s[k] = <<v[k]>>
      BY <1>2
    <3>4. CASE k = 1
      <4>1. f[k] = <<v[1]>>
        BY <2>1, <3>3, <3>4 DEF Flattens
      <4>2. Pre(1) = <<v[1]>>
        <5>1. 1..1 = {1}
          OBVIOUS
        <5> QED BY <5>1
      <4> QED BY <3>3, <3>4, <4>1, <4>2
    <3>5. CASE k # 1
      <4>1. k - 1 \in 1..n /\ k - 1 < k
        BY <1>1, <3>3, <3>5
      <4>2. f[k - 1] = Pre(k - 1)
        BY <3>2, <4>1
      <4>3. f[k] = Pre(k - 1) \o <<v[k]>>
        BY <2>1, <3>3, <3>5, <4>2 DEF Flattens
      <4>4. Pre(k - 1) \o <<v[k]>> = Pre(k)
        BY <3>3, <3>5, PrefixGrows
      <4> QED BY <3>3, <4>3, <4>4
    <3> QED BY <3>4, <3>5
  <2>3. f[n] = Pre(n)
    <3>1. n \in 1..n
      BY <1>1, <1>5
    <3> HIDE DEF Pre, n
    <3> QED BY <2>2, <3>1
  <2>4. Pre(n) = v
    BY <1>1
  <2> QED BY <2>1, <2>3, <2>4 DEF Known, s
<1> QED BY <1>4, <1>5

\* Two sizes within their bounds that together meet the bounds, less what they
\* share.
LEMMA TightSum ==
  ASSUME NEW a \in Nat, NEW b \in Nat, NEW c \in Nat, NEW l \in Nat, NEW m \in Nat,
         a <= l, b <= m, a + b - c = l + m
  PROVE  a = l /\ b = m /\ c = 0
OBVIOUS

\* A list holds no more values than it is long.
LEMMA SetOfSequence ==
  ASSUME NEW V, NEW s \in Seq(V)
  PROVE  /\ IsFiniteSet(ToSet(s)) /\ Cardinality(ToSet(s)) \in Nat /\ Cardinality(ToSet(s)) <= Len(s)
         /\ ToSet(s) \subseteq V
<1> DEFINE n == Len(s)
<1>1. n \in Nat /\ DOMAIN s = 1..n /\ s \in [1..n -> V]
  OBVIOUS
<1>2. s \in Surjection(1..n, ToSet(s))
  BY <1>1 DEF Surjection, ToSet
<1>3. IsFiniteSet(1..n) /\ Cardinality(1..n) = n
  BY <1>1, FS_Interval
<1>4. IsFiniteSet(ToSet(s)) /\ Cardinality(ToSet(s)) <= n
  BY <1>2, <1>3, FS_Surjection
<1>5. ToSet(s) \subseteq V
  BY <1>1 DEF ToSet
<1> QED BY <1>4, <1>5, FS_CardinalityType

\* What a concatenation holds; and when it repeats nothing, neither part does
\* and they share nothing.
LEMMA SetOfConcat ==
  ASSUME NEW V, NEW s \in Seq(V), NEW t \in Seq(V)
  PROVE  /\ ToSet(s \o t) = ToSet(s) \cup ToSet(t)
         /\ Distinct(s \o t) => Distinct(s) /\ Distinct(t) /\ ToSet(s) \cap ToSet(t) = {}
<1>1. Len(s) \in Nat /\ Len(t) \in Nat /\ DOMAIN s = 1..Len(s) /\ DOMAIN t = 1..Len(t)
  OBVIOUS
<1>2. s \o t \in Seq(V) /\ Len(s \o t) = Len(s) + Len(t) /\ DOMAIN (s \o t) = 1..(Len(s) + Len(t))
      /\ \A i \in 1..(Len(s) + Len(t)) : (s \o t)[i] = IF i <= Len(s) THEN s[i] ELSE t[i - Len(s)]
  BY <1>1
<1>3. ToSet(s \o t) = ToSet(s) \cup ToSet(t)
  <2>1. ASSUME NEW x \in ToSet(s \o t) PROVE x \in ToSet(s) \cup ToSet(t)
    <3>1. PICK i \in 1..(Len(s) + Len(t)) : x = (s \o t)[i]
      BY <1>2, <2>1 DEF ToSet
    <3>2. CASE i <= Len(s)
      <4>1. i \in 1..Len(s) /\ x = s[i]
        BY <1>1, <1>2, <3>1, <3>2
      <4> QED BY <1>1, <4>1 DEF ToSet
    <3>3. CASE ~(i <= Len(s))
      <4>1. i - Len(s) \in 1..Len(t) /\ x = t[i - Len(s)]
        BY <1>1, <1>2, <3>1, <3>3
      <4> QED BY <1>1, <4>1 DEF ToSet
    <3> QED BY <3>2, <3>3
  <2>2. ASSUME NEW x \in ToSet(s) PROVE x \in ToSet(s \o t)
    <3>1. PICK i \in 1..Len(s) : x = s[i]
      BY <1>1, <2>2 DEF ToSet
    <3>2. i \in 1..(Len(s) + Len(t)) /\ x = (s \o t)[i]
      BY <1>1, <1>2, <3>1
    <3> QED BY <1>2, <3>2 DEF ToSet
  <2>3. ASSUME NEW x \in ToSet(t) PROVE x \in ToSet(s \o t)
    <3>1. PICK i \in 1..Len(t) : x = t[i]
      BY <1>1, <2>3 DEF ToSet
    <3>2. i + Len(s) \in 1..(Len(s) + Len(t)) /\ x = (s \o t)[i + Len(s)]
      BY <1>1, <1>2, <3>1
    <3> QED BY <1>2, <3>2 DEF ToSet
  <2> QED BY <2>1, <2>2, <2>3
<1>4. ASSUME Distinct(s \o t) PROVE Distinct(s) /\ Distinct(t) /\ ToSet(s) \cap ToSet(t) = {}
  <2> DEFINE a == Cardinality(ToSet(s))
             b == Cardinality(ToSet(t))
             c == Cardinality(ToSet(s) \cap ToSet(t))
  <2>1. a \in Nat /\ b \in Nat /\ a <= Len(s) /\ b <= Len(t) /\ IsFiniteSet(ToSet(s)) /\ IsFiniteSet(ToSet(t))
    BY SetOfSequence
  <2>2. Cardinality(ToSet(s \o t)) = a + b - c
    BY <1>3, <2>1, FS_Union
  <2>3. IsFiniteSet(ToSet(s) \cap ToSet(t)) /\ c \in Nat
    BY <2>1, FS_Intersection, FS_CardinalityType
  <2>4. a + b - c = Len(s) + Len(t)
    BY <1>2, <1>4, <2>2 DEF Distinct
  <2> HIDE DEF a, b, c
  <2>5. a = Len(s) /\ b = Len(t) /\ c = 0
    BY <1>1, <2>1, <2>3, <2>4, TightSum, Zenon
  <2> QED BY <2>3, <2>5, FS_EmptySet DEF Distinct, a, b, c
<1> QED BY <1>3, <1>4

\* When the concatenation of lists repeats nothing, no two of the lists share
\* a value: the check over all hostnames together (config/mod.rs) is one over
\* every pair of Services.
LEMMA FlattenApart ==
  ASSUME NEW V, NEW s \in Seq(Seq(V)), Distinct(FlattenSeq(s))
  PROVE  \A i, j \in 1..Len(s) : i # j => ToSet(s[i]) \cap ToSet(s[j]) = {}
<1> DEFINE n == Len(s)
<1>1. n \in Nat /\ \A i \in 1..n : s[i] \in Seq(V)
  OBVIOUS
<1>2. CASE n = 0
  BY <1>2
<1>3. CASE n # 0
  <2>1. PICK f \in [1..n -> Seq(V)] : Flattens(f, s, n) /\ FlattenSeq(s) = f[n]
    BY <1>1, <1>3, FlattenOf
  <2> DEFINE Apart(k) == \A i, j \in 1..k : i # j => ToSet(s[i]) \cap ToSet(s[j]) = {}
             Good(k) == /\ \A i \in 1..k : ToSet(s[i]) \subseteq ToSet(f[k])
                        /\ Distinct(f[k]) => Apart(k)
             T == {k \in 1..n : ~Good(k)}
  <2>2. ASSUME T # {} PROVE FALSE
    <3>1. T \subseteq Nat
      BY <1>1
    <3>2. PICK k \in T : \A y \in T : ~(y < k)
      BY <2>2, <3>1, LeastNatural
    <3>3. k \in 1..n /\ ~Good(k) /\ k \in Nat
      <4> HIDE DEF Good
      <4> QED BY <1>1
    <3>4. CASE k = 1
      <4>1. f[1] = s[1]
        BY <2>1, <3>3, <3>4 DEF Flattens
      <4>2. 1..1 = {1}
        OBVIOUS
      <4> QED BY <3>3, <3>4, <4>1, <4>2
    <3>5. CASE k # 1
      <4>1. k - 1 \in 1..n /\ k - 1 < k /\ 1..k = 1..(k - 1) \cup {k}
        BY <1>1, <3>3, <3>5
      <4>2. Good(k - 1)
        BY <3>2, <4>1
      <4>3. f[k] = f[k - 1] \o s[k] /\ f[k - 1] \in Seq(V) /\ s[k] \in Seq(V)
        BY <1>1, <2>1, <3>3, <3>5, <4>1 DEF Flattens
      <4>4. /\ ToSet(f[k]) = ToSet(f[k - 1]) \cup ToSet(s[k])
            /\ Distinct(f[k]) => Distinct(f[k - 1]) /\ ToSet(f[k - 1]) \cap ToSet(s[k]) = {}
        BY <4>3, SetOfConcat
      <4>5. \A i \in 1..k : ToSet(s[i]) \subseteq ToSet(f[k])
        BY <4>1, <4>2, <4>4
      <4>6. ASSUME Distinct(f[k]), NEW i \in 1..k, NEW j \in 1..k, i # j
            PROVE  ToSet(s[i]) \cap ToSet(s[j]) = {}
        <5>1. Apart(k - 1) /\ ToSet(f[k - 1]) \cap ToSet(s[k]) = {}
          BY <4>2, <4>4, <4>6
        <5>2. \A m \in 1..(k - 1) : ToSet(s[m]) \subseteq ToSet(f[k - 1])
          BY <4>2
        <5> QED BY <4>1, <4>6, <5>1, <5>2
      <4> QED BY <3>3, <4>5, <4>6
    <3> QED BY <3>4, <3>5
  <2>3. Good(n)
    <3>1. n \in 1..n
      BY <1>1, <1>3
    <3> HIDE DEF Good, n
    <3> QED BY <2>2, <3>1
  <2> QED BY <2>1, <2>3
<1> QED BY <1>2, <1>3

\* What is not the absent field.
LEMMA NullFacts ==
  /\ NULL \notin Strings /\ NULL \notin Nat /\ NULL \notin Spelled
  /\ NULL \notin Seq(Strings) /\ NULL \notin Seq(Spelled)
  /\ \A k \in {"manual", "acme"}, d \in Strings : [kind |-> k, dir |-> d] # NULL
  /\ \A a, t \in Strings : [address |-> a, trust |-> t] # NULL
  /\ \A h, j \in Seq(Strings) : [hostnames |-> h, identities |-> j] # NULL
  /\ \A h \in Opt(Seq(Strings)), t \in {"passthrough", "terminate"} : [hostnames |-> h, tls |-> t] # NULL
<1>1. /\ NULL \notin Strings /\ NULL \notin Nat /\ NULL \notin Spelled
      /\ NULL \notin Seq(Strings) /\ NULL \notin Seq(Spelled)
  BY NullAssumption DEF NullAssumption
<1>2. \A k \in {"manual", "acme"}, d \in Strings : [kind |-> k, dir |-> d] # NULL
  BY NullAssumption DEF NullAssumption
<1>3. \A a, t \in Strings : [address |-> a, trust |-> t] # NULL
  BY NullAssumption DEF NullAssumption
<1>4. \A h, j \in Seq(Strings) : [hostnames |-> h, identities |-> j] # NULL
  BY NullAssumption DEF NullAssumption
<1>5. \A h \in Opt(Seq(Strings)), t \in {"passthrough", "terminate"} : [hostnames |-> h, tls |-> t] # NULL
  BY NullAssumption DEF NullAssumption
<1> QED BY <1>1, <1>2, <1>3, <1>4, <1>5

\* A single address repeats nothing.
LEMMA SingleDistinct ==
  ASSUME NEW x
  PROVE  Distinct(<<x>>) /\ Len(<<x>>) = 1
<1>1. ToSet(<<x>>) = {x}
  BY DEF ToSet
<1>2. Cardinality({x}) = 1
  BY FS_Singleton
<1> QED BY <1>1, <1>2 DEF Distinct

\* A list without a refused text is parsed to itself.
LEMMA ParsedTexts ==
  ASSUME NEW texts \in Seq(Strings), "bad" \notin ToSet(texts)
  PROVE  Known(ParsedAll(texts)) = texts
<1>1. \A i \in DOMAIN texts : texts[i] \in Strings /\ texts[i] # "bad" /\ texts[i] # NULL
  BY NullFacts DEF ToSet
<1>2. ParsedAll(texts) = texts
  <2>1. \A i \in DOMAIN texts : Parsed(texts[i]) = texts[i]
    BY <1>1 DEF Parsed
  <2>2. texts = [i \in DOMAIN texts |-> texts[i]]
    OBVIOUS
  <2> QED BY <2>1, <2>2, Zenon DEF ParsedAll
<1> QED BY <1>1, <1>2, KnownAll

\* So is a single text.
LEMMA ParsedText ==
  ASSUME NEW text \in Strings, text # "bad"
  PROVE  Known(<<Parsed(text)>>) = <<text>>
<1>1. Parsed(text) = text
  BY DEF Parsed
<1>2. <<text>> \in Seq(Strings) /\ \A i \in DOMAIN <<text>> : <<text>>[i] # NULL
  BY NullFacts
<1> QED BY <1>1, <1>2, KnownAll

\* A list of hostnames without a refused one is parsed to as many names.
LEMMA ParsedNames ==
  ASSUME NEW texts \in Seq(Spelled), NULL \notin ToSet(ParsedHostnames(texts))
  PROVE  /\ Known(ParsedHostnames(texts)) = ParsedHostnames(texts)
         /\ ParsedHostnames(texts) \in Seq(Strings) /\ Len(ParsedHostnames(texts)) = Len(texts)
<1> DEFINE h == ParsedHostnames(texts)
<1>1. h = [i \in 1..Len(texts) |-> ParsedHostname(texts[i])] /\ Len(texts) \in Nat
  BY DEF ParsedHostnames
<1>2. ASSUME NEW i \in 1..Len(texts) PROVE ParsedHostname(texts[i]) \in Strings /\ h[i] = ParsedHostname(texts[i])
  <2>1. texts[i].name \in Strings
    <3>1. texts[i] \in Spelled
      OBVIOUS
    <3> QED BY <3>1 DEF Spelled
  <2>2. h[i] = ParsedHostname(texts[i]) /\ i \in DOMAIN h
    BY <1>1
  <2>3. h[i] # NULL
    BY <2>2 DEF ToSet
  <2> HIDE DEF h
  <2> QED BY <2>1, <2>2, <2>3 DEF ParsedHostname
<1> HIDE DEF h
<1>3. h \in Seq(Strings) /\ Len(h) = Len(texts) /\ DOMAIN h = 1..Len(texts)
  BY <1>1, <1>2
<1>4. \A i \in DOMAIN h : h[i] # NULL
  BY <1>2, <1>3, NullFacts
<1>5. Known(h) = h
  BY <1>3, <1>4, KnownAll
<1> QED BY <1>3, <1>5 DEF h

\* A Server Tunnel without a message is built, with hostnames and identities.
LEMMA TunnelBuilds ==
  ASSUME NEW t \in TunnelSection, TunnelFaults(t) = {}
  PROVE  /\ TunnelOf(t) = [hostnames |-> TunnelHostnames(t), identities |-> TunnelIdentities(t)]
         /\ TunnelOf(t) # NULL /\ TunnelOf(t).hostnames # <<>>
         /\ TunnelHostnames(t) \in Seq(Strings) /\ TunnelIdentities(t) \in Seq(Strings)
<1>1. /\ t.hostnames \in Opt(Seq(Spelled)) /\ t.identity \in Opt(Strings) /\ t.identities \in Opt(Seq(Strings))
  BY DEF TunnelSection
<1>2. /\ t.hostnames # NULL /\ HostnameFaults(t.hostnames, "tunnel.hostnames") = {}
      /\ (t.identity = NULL) # (t.identities = NULL)
      /\ ~(t.identities = NULL /\ t.identity = "bad")
      /\ t.identity # NULL \/ t.identities = NULL \/ ~(t.identities = <<>> \/ "bad" \in ToSet(t.identities))
  BY DEF TunnelFaults, Fault
<1>3. t.hostnames # <<>> /\ NULL \notin ToSet(ParsedHostnames(t.hostnames)) /\ t.hostnames \in Seq(Spelled)
  BY <1>1, <1>2 DEF HostnameFaults, Fault, Opt
<1>4. /\ TunnelHostnames(t) = ParsedHostnames(t.hostnames)
      /\ TunnelHostnames(t) \in Seq(Strings) /\ Len(TunnelHostnames(t)) = Len(t.hostnames)
  BY <1>2, <1>3, ParsedNames DEF TunnelHostnames
<1>5. TunnelHostnames(t) # <<>>
  BY <1>3, <1>4
<1>6. TunnelIdentities(t) \in Seq(Strings) /\ TunnelIdentities(t) # <<>>
  <2>1. CASE t.identities = NULL
    <3>1. t.identity \in Strings /\ t.identity # "bad" /\ t.identity # NULL
      BY <1>1, <1>2, <2>1 DEF Opt
    <3>2. TunnelIdentities(t) = <<t.identity>>
      BY <2>1, <3>1, ParsedText DEF TunnelIdentities
    <3> QED BY <3>1, <3>2
  <2>2. CASE t.identities # NULL
    <3>1. t.identities \in Seq(Strings) /\ t.identities # <<>> /\ "bad" \notin ToSet(t.identities) /\ t.identity = NULL
      BY <1>1, <1>2, <2>2 DEF Opt
    <3>2. TunnelIdentities(t) = t.identities
      BY <2>2, <3>1, ParsedTexts DEF TunnelIdentities
    <3> QED BY <3>1, <3>2
  <2> QED BY <2>1, <2>2
<1>7. TunnelOf(t) = [hostnames |-> TunnelHostnames(t), identities |-> TunnelIdentities(t)]
  BY <1>2, <1>3, <1>6 DEF TunnelOf
<1>8. TunnelOf(t) # NULL
  BY <1>4, <1>6, <1>7, NullFacts
<1> QED BY <1>4, <1>5, <1>6, <1>7, <1>8

\* A list of parts that were all built is kept whole.
LEMMA BuiltAll ==
  ASSUME NEW S, NEW v, NEW n \in Nat, v = [i \in 1..n |-> v[i]],
         \A i \in 1..n : v[i] \in S /\ v[i] # NULL
  PROVE  Known(v) = v /\ v \in Seq(S) /\ Len(v) = n /\ DOMAIN v = 1..n
<1>1. v \in [1..n -> S]
  OBVIOUS
<1>2. v \in Seq(S) /\ Len(v) = n /\ DOMAIN v = 1..n
  BY <1>1
<1> QED BY <1>2, KnownAll

\* Every way to give a trust leads to a text.
LEMMA TrustPrepared ==
  ASSUME NEW given, NEW file \in Opt(Strings), NEW default \in Strings
  PROVE  PreparedTrust(given, file, default) \in Strings
<1>1. OrElse(file, default) \in Strings
  BY DEF OrElse, Opt
<1>2. CASE given \in {NULL, "system"}
  <2>0. NULL # "ca-file"
    BY NullFacts, ConfigAssumption DEF ConfigAssumption
  <2>1. PreparedTrust(given, file, default) \in {"system", "unexpected"}
    BY <1>2, <2>0 DEF PreparedTrust
  <2> QED BY <2>1, ConfigAssumption DEF ConfigAssumption
<1>3. CASE given \notin {NULL, "system"} /\ given = "ca-file"
  BY <1>1, <1>3 DEF PreparedTrust
<1>4. CASE given \notin {NULL, "system"} /\ given # "ca-file"
  BY <1>4, ConfigAssumption DEF ConfigAssumption, PreparedTrust
<1> QED BY <1>2, <1>3, <1>4

\* What is prepared of [control] and the command line.
LEMMA ControlPrepared ==
  ASSUME NEW file \in Opt(ConfigFile), NEW cli \in CommandLine, NEW env \in Environment
  PROVE  /\ PreparedControl(file, cli, env).address \in Opt(Strings)
         /\ PreparedControl(file, cli, env).trust \in Strings
<1> DEFINE section == file # NULL /\ file.control # NULL
           c == PreparedControl(file, cli, env)
<1>1. DefaultPath(env, "default-control-ca") \in Strings
  BY ConfigAssumption DEF ConfigAssumption, DefaultPath
<1>2. cli.control \in Opt(Strings)
  BY DEF CommandLine
<1>3. CASE section
  <2>1. file.control \in ControlSection
    BY <1>3 DEF ConfigFile, Opt
  <2>2. file.control.address \in Opt(Strings) /\ file.control.trust \in Opt(Strings) /\ file.control.caFile \in Opt(Strings)
    BY <2>1 DEF ControlSection
  <2>3. c.address = OrElse(cli.control, file.control.address)
        /\ c.trust = PreparedTrust(file.control.trust, file.control.caFile, DefaultPath(env, "default-control-ca"))
    BY <1>3 DEF PreparedControl
  <2>4. c.address \in Opt(Strings)
    BY <1>2, <2>2, <2>3 DEF OrElse
  <2>5. c.trust \in Strings
    BY <1>1, <2>2, <2>3, TrustPrepared
  <2> QED BY <2>4, <2>5
<1>4. CASE ~section
  <2>1. c.address = cli.control /\ c.trust = "system"
    BY <1>4 DEF PreparedControl
  <2> HIDE DEF c
  <2> QED BY <1>2, <2>1, ConfigAssumption DEF ConfigAssumption, c
<1> QED BY <1>3, <1>4

\* Without a message the Control settings are there exactly in Managed mode.
LEMMA ControlBuilds ==
  ASSUME NEW p, NEW env \in Environment, p.control.address \in Opt(Strings), p.control.trust \in Strings,
         ControlFaults(p, env) = {}
  PROVE  Managed(p) <=> ControlOf(p, env) # NULL
<1>1. CASE ~Managed(p)
  BY <1>1 DEF ControlOf
<1>2. CASE Managed(p)
  <2>1. p.control.address # "bad" /\ TrustOf(p.control.trust, env) # NULL
    BY <1>2 DEF ControlFaults, TrustFaults, Fault
  <2>2. p.control.address \in Strings /\ TrustOf(p.control.trust, env) \in Strings
    BY <1>2, <2>1 DEF Managed, Opt, TrustOf, Existing
  <2>3. ControlOf(p, env) = [address |-> p.control.address, trust |-> TrustOf(p.control.trust, env)]
    BY <1>2, <2>1 DEF ControlOf
  <2> QED BY <1>2, <2>2, <2>3, NullFacts
<1> QED BY <1>1, <1>2

\* Without a message the bind addresses are ones that startup takes: a single
\* one and the default are not checked by validation, and need no check.
LEMMA BindsBuilt ==
  ASSUME NEW binds \in BindSection, ~BindConflict(binds),
         BindFaults(binds, "server.binds") = {}
  PROVE  BindsAllowed(BindAddresses(binds))
<1>1. binds.one \in Opt(Strings) /\ binds.many \in Opt(Seq(Strings))
  BY DEF BindSection
<1>2. \A x : BindsAllowed(<<x>>)
  <2>1. 1 \in 1..MaxBinds
    BY ConfigAssumption DEF ConfigAssumption
  <2> QED BY <2>1, SingleDistinct DEF BindsAllowed
<1>3. CASE binds.one # NULL
  <2>1. binds.one \in Strings /\ binds.one # "bad"
    BY <1>1, <1>3 DEF Opt, BindFaults, Fault
  <2>2. BindAddresses(binds) = <<binds.one>>
    BY <1>3, <2>1, ParsedText DEF BindAddresses
  <2> QED BY <1>2, <2>2
<1>4. CASE binds.one = NULL /\ binds.many # NULL
  BY <1>4 DEF BindFaults, Fault
<1>5. CASE binds.one = NULL /\ binds.many = NULL
  <2>1. BindAddresses(binds) = <<"default-bind">>
    BY <1>5 DEF BindAddresses
  <2> QED BY <1>2, <2>1
<1> QED BY <1>3, <1>4, <1>5

\* What validation relies on in a prepared Server configuration.
ServerPrepared(p) ==
  /\ p.control.address \in Opt(Strings) /\ p.control.trust \in Strings
  /\ p.hostname \in Opt(Spelled)
  /\ p.binds \in BindSection /\ ~BindConflict(p.binds)
  /\ p.networks \in Opt(Seq(Strings)) /\ p.tunnels \in Seq(TunnelSection)

\* The trusted networks are kept whole, and are there exactly with the PROXY
\* protocol.
LEMMA NetworksBuilt ==
  ASSUME NEW p, NEW env, ServerPrepared(p), ServerFaults(p, env) = {}
  PROVE  LET networks == ServerSettings(p, env).networks
         IN  /\ (p.proxy = "v2") = (networks # <<>>)
             /\ Len(networks) = Len(OrElse(p.networks, <<>>))
<1> DEFINE networks == IF p.networks = NULL THEN <<>> ELSE Known(ParsedAll(p.networks))
<1>1. ServerSettings(p, env).networks = networks
  BY DEF ServerSettings
<1>2. /\ ~(p.networks # NULL /\ "bad" \in ToSet(OrElse(p.networks, <<>>)))
      /\ ~(p.proxy = "v2" /\ networks = <<>>)
      /\ ~(p.proxy # "v2" /\ p.networks # NULL)
  BY DEF ServerFaults, Fault
<1>3. CASE p.networks = NULL
  BY <1>1, <1>2, <1>3 DEF OrElse
<1>4. CASE p.networks # NULL
  <2>1. p.networks \in Seq(Strings) /\ OrElse(p.networks, <<>>) = p.networks
    BY <1>4 DEF ServerPrepared, Opt, OrElse
  <2>2. networks = p.networks
    BY <1>2, <1>4, <2>1, ParsedTexts
  <2> HIDE DEF networks
  <2> QED BY <1>1, <1>2, <1>4, <2>1, <2>2
<1> QED BY <1>3, <1>4

\* The Tunnels are kept whole and pass build_authorization_maps: it sees the
\* identities and hostnames that validation compared.
LEMMA TunnelsBuilt ==
  ASSUME NEW tunnels \in Seq(TunnelSection), NEW hostname, hostname # NULL, TunnelsFaults(tunnels, hostname) = {}
  PROVE  LET built == Known([i \in DOMAIN tunnels |-> TunnelOf(tunnels[i])])
         IN  /\ Len(built) = Len(tunnels) /\ built # <<>>
             /\ \A i \in DOMAIN built : built[i].hostnames # <<>>
             /\ Distinct(AllOf(built, LAMBDA t : t.identities))
             /\ Distinct(AllOf(built, LAMBDA t : t.hostnames))
             /\ hostname \notin ToSet(AllOf(built, LAMBDA t : t.hostnames))
<1> DEFINE n == Len(tunnels)
           v == [i \in DOMAIN tunnels |-> TunnelOf(tunnels[i])]
           R == [hostnames : Seq(Strings), identities : Seq(Strings)]
<1>1. n \in Nat /\ DOMAIN tunnels = 1..n /\ \A i \in 1..n : tunnels[i] \in TunnelSection
  OBVIOUS
<1> DEFINE I == FlattenSeq([i \in DOMAIN tunnels |-> TunnelIdentities(tunnels[i])])
           H == FlattenSeq([i \in DOMAIN tunnels |-> TunnelHostnames(tunnels[i])])
<1>2. tunnels # <<>> /\ UNION {TunnelFaults(tunnels[i]) : i \in DOMAIN tunnels} = {}
      /\ Distinct(I) /\ Distinct(H) /\ hostname \notin ToSet(H)
  BY DEF TunnelsFaults, AllOf, Fault
<1> HIDE DEF I, H
<1>22. \A i \in 1..n : TunnelFaults(tunnels[i]) = {}
  BY <1>1, <1>2
<1>4. \A i \in 1..n : /\ v[i] = [hostnames |-> TunnelHostnames(tunnels[i]), identities |-> TunnelIdentities(tunnels[i])]
                      /\ v[i] # NULL /\ v[i].hostnames # <<>> /\ v[i] \in R
  <2> SUFFICES ASSUME NEW i \in 1..n
               PROVE  /\ v[i] = [hostnames |-> TunnelHostnames(tunnels[i]), identities |-> TunnelIdentities(tunnels[i])]
                      /\ v[i] # NULL /\ v[i].hostnames # <<>> /\ v[i] \in R
    OBVIOUS
  <2>1. v[i] = TunnelOf(tunnels[i])
    BY <1>1
  <2> HIDE DEF v
  <2>2. /\ v[i] = [hostnames |-> TunnelHostnames(tunnels[i]), identities |-> TunnelIdentities(tunnels[i])]
        /\ v[i] # NULL /\ v[i].hostnames # <<>>
        /\ TunnelHostnames(tunnels[i]) \in Seq(Strings) /\ TunnelIdentities(tunnels[i]) \in Seq(Strings)
    BY <1>1, <1>22, <2>1, TunnelBuilds
  <2> QED BY <2>2
<1>5. v = [i \in 1..n |-> v[i]]
  BY <1>1
<1>6. Known(v) = v /\ Len(v) = n /\ DOMAIN v = 1..n
  <2> HIDE DEF v, R
  <2>1. \A i \in 1..n : v[i] \in R /\ v[i] # NULL
    BY <1>4
  <2> HIDE DEF n
  <2> QED BY <1>1, <1>5, <2>1, BuiltAll, Zenon
<1> HIDE DEF v, R
<1>7. ASSUME NEW i \in 1..n
      PROVE  v[i].hostnames = TunnelHostnames(tunnels[i]) /\ v[i].identities = TunnelIdentities(tunnels[i])
  <2>1. v[i] = [hostnames |-> TunnelHostnames(tunnels[i]), identities |-> TunnelIdentities(tunnels[i])]
    BY <1>4
  <2> QED BY <2>1
<1>8. FlattenSeq([i \in DOMAIN v |-> v[i].identities]) = I /\ FlattenSeq([i \in DOMAIN v |-> v[i].hostnames]) = H
  <2>1. [i \in DOMAIN v |-> v[i].identities] = [i \in DOMAIN tunnels |-> TunnelIdentities(tunnels[i])]
    BY <1>1, <1>6, <1>7, Zenon
  <2>2. [i \in DOMAIN v |-> v[i].hostnames] = [i \in DOMAIN tunnels |-> TunnelHostnames(tunnels[i])]
    BY <1>1, <1>6, <1>7, Zenon
  <2> QED BY <2>1, <2>2, Zenon DEF I, H
<1>9. v # <<>>
  BY <1>1, <1>2, <1>6
<1>10. Distinct(AllOf(v, LAMBDA t : t.identities)) /\ Distinct(AllOf(v, LAMBDA t : t.hostnames))
       /\ hostname \notin ToSet(AllOf(v, LAMBDA t : t.hostnames))
  BY <1>2, <1>8, Zenon DEF AllOf
<1>11. \A i \in DOMAIN v : v[i].hostnames # <<>>
  BY <1>4, <1>6
<1> QED BY <1>6, <1>9, <1>10, <1>11, Zenon DEF v

\* What AcceptedIsWhole says of a Server.
WholeServer(s, p) ==
  /\ s.role = "server" /\ (s.managed <=> s.control # NULL)
  /\ IF s.managed THEN s.identity # NULL /\ s.tunnels = <<>>
     ELSE s.tunnels # <<>> /\ Len(s.tunnels) = Len(p.tunnels)
  /\ s.readiness = p.readiness
  /\ (p.proxy = "v2") = (s.networks # <<>>)
  /\ Len(s.networks) = Len(OrElse(p.networks, <<>>))
  /\ s.identity # NULL => s.certificate # [kind |-> "manual", dir |-> s.identity]

\* Preparation gives validation what it relies on.
LEMMA PreparingServer ==
  ASSUME NEW file \in ConfigFile, NEW cli \in CommandLine, NEW env \in Environment,
         file.server # NULL, ~BindConflict(file.server.binds)
  PROVE  ServerPrepared(PreparedServer(file, cli, env))
<1> DEFINE raw == file.server
           p == PreparedServer(file, cli, env)
<1>1. raw \in ServerSection
  BY DEF ConfigFile, Opt
<1>2. raw.hostname \in Opt(Spelled) /\ raw.binds \in BindSection
      /\ raw.networks \in Opt(Seq(Strings)) /\ raw.tunnels \in Seq(TunnelSection)
  BY <1>1 DEF ServerSection
<1>3. cli.hostname \in Opt(Spelled)
  BY DEF CommandLine
<1>4. p.hostname = OrElse(cli.hostname, raw.hostname) /\ p.binds = raw.binds /\ p.networks = raw.networks
      /\ p.tunnels = raw.tunnels /\ p.control = PreparedControl(file, cli, env)
  BY DEF PreparedServer
<1>5. p.control.address \in Opt(Strings) /\ p.control.trust \in Strings
  <2>1. file \in Opt(ConfigFile)
    BY DEF Opt
  <2> QED BY <1>4, <2>1, ControlPrepared
<1>6. p.hostname \in Opt(Spelled)
  BY <1>2, <1>3, <1>4 DEF OrElse
<1> HIDE DEF p, raw
<1> QED BY <1>2, <1>4, <1>5, <1>6 DEF ServerPrepared, p, raw

\* A duration without a message is there.
LEMMA DurationBuilt ==
  ASSUME NEW d, d # "bad"
  PROVE  (IF d = "bad" THEN NULL ELSE OrElse(d, "60s")) # NULL
<1>1. "60s" # NULL
  BY ConfigAssumption, NullFacts DEF ConfigAssumption
<1> QED BY <1>1 DEF OrElse

\* Without a message a Server certificate can be built, but for an empty email.
LEMMA ServerCertificateBuilt ==
  ASSUME NEW p, NEW env \in Environment, CertificateFaults(p, env) = {}, ServerCertificate(p, env) = NULL
  PROVE  p.acme # NULL /\ p.acme.email = "empty"
<1>1. env.disk \subseteq Strings /\ "default-acme" \in Strings
  BY ConfigAssumption DEF Environment, ConfigAssumption
<1>2. \A d \in Strings : [kind |-> "manual", dir |-> d] # NULL /\ [kind |-> "acme", dir |-> d] # NULL /\ d # NULL
  BY NullFacts
<1>3. p.acme # NULL
  <2> SUFFICES ASSUME p.acme = NULL PROVE FALSE
    OBVIOUS
  <2>1. p.manualDir \in env.disk \cap env.valid
    BY DEF CertificateFaults, Fault
  <2>2. ServerCertificate(p, env) = [kind |-> "manual", dir |-> p.manualDir]
    BY <2>1 DEF ServerCertificate
  <2>3. p.manualDir \in Strings
    BY <1>1, <2>1
  <2> QED BY <1>2, <2>2, <2>3
<1>4. p.certDir = NULL
  BY <1>3 DEF CertificateFaults, Fault
<1>5. AcmeFaults(p.acme, env, "server.acme") = {}
  BY <1>3, <1>4 DEF CertificateFaults
<1>6. AcmeOf(p.acme, env, "default-acme") = NULL
  BY <1>3, <1>4 DEF ServerCertificate
<1>7. /\ p.acme.email # NULL
      /\ p.acme.dir = NULL => env.home
      /\ p.acme.dir # NULL => p.acme.dir \in env.disk
  BY <1>5 DEF AcmeFaults, PathFaults, Fault
<1>8. p.acme.email = "empty"
  <2> DEFINE dir == IF p.acme.dir # NULL THEN Existing(env, p.acme.dir)
                    ELSE IF env.home THEN "default-acme" ELSE NULL
  <2>1. dir \in Strings
    BY <1>1, <1>7 DEF Existing
  <2>2. dir # NULL /\ [kind |-> "acme", dir |-> dir] # NULL
    BY <1>2, <2>1
  <2>3. AcmeOf(p.acme, env, "default-acme") =
          IF p.acme.email \in {NULL, "empty"} \/ dir = NULL THEN NULL ELSE [kind |-> "acme", dir |-> dir]
    BY DEF AcmeOf
  <2> HIDE DEF dir
  <2> QED BY <1>6, <1>7, <2>2, <2>3
<1> QED BY <1>3, <1>8

\* What building a Server configuration without a message may find missing.
LEMMA ServerBuilds ==
  ASSUME NEW p, NEW env \in Environment, ServerFaults(p, env) = {},
         NULL \in ServerUnwraps(ServerSettings(p, env))
  PROVE  p.acme # NULL /\ p.acme.email = "empty"
<1> DEFINE s == ServerSettings(p, env)
           hostname == IF p.hostname = NULL THEN NULL ELSE ParsedHostname(p.hostname)
           duration == IF p.duration = "bad" THEN NULL ELSE OrElse(p.duration, "60s")
<1>1. s.hostname = hostname /\ s.certificate = ServerCertificate(p, env) /\ s.duration = duration
  BY DEF ServerSettings
<1>2. hostname # NULL /\ p.duration # "bad" /\ CertificateFaults(p, env) = {}
  BY DEF ServerFaults, Fault
<1>3. duration # NULL
  BY <1>2, DurationBuilt
<1>4. NULL \in {s.hostname, s.certificate, s.duration}
  BY DEF ServerUnwraps
<1> HIDE DEF s, hostname, duration
<1>5. ServerCertificate(p, env) = NULL
  BY <1>1, <1>2, <1>3, <1>4
<1> QED BY <1>2, <1>5, ServerCertificateBuilt

\* A Server configuration without a message is whole and startup takes it.
LEMMA ServerSound ==
  ASSUME NEW p, NEW env \in Environment, ServerPrepared(p), ServerFaults(p, env) = {}
  PROVE  StartupAccepts(ServerSettings(p, env), env) /\ WholeServer(ServerSettings(p, env), p)
<1> DEFINE s == ServerSettings(p, env)
           hostname == IF p.hostname = NULL THEN NULL ELSE ParsedHostname(p.hostname)
<1>1. /\ s.role = "server" /\ s.managed = Managed(p) /\ s.hostname = hostname
      /\ s.certificate = ServerCertificate(p, env) /\ s.binds = BindAddresses(p.binds)
      /\ s.control = ControlOf(p, env) /\ s.identity = ServerIdentity(p, env)
      /\ s.readiness = Parsed(p.readiness)
      /\ s.tunnels = IF Managed(p) THEN <<>> ELSE Known([i \in DOMAIN p.tunnels |-> TunnelOf(p.tunnels[i])])
  BY DEF ServerSettings
<1>2. /\ ControlFaults(p, env) = {} /\ hostname # NULL /\ BindFaults(p.binds, "server.binds") = {}
      /\ p.readiness # "bad"
      /\ ~Managed(p) => TunnelsFaults(p.tunnels, hostname) = {}
      /\ IdentityFaults(p, env) = {}
  BY DEF ServerFaults, Fault
<1>3. (p.proxy = "v2") = (s.networks # <<>>) /\ Len(s.networks) = Len(OrElse(p.networks, <<>>))
  BY NetworksBuilt, Zenon
<1> HIDE DEF s, hostname
<1>4. s.managed <=> s.control # NULL
  BY <1>1, <1>2, ControlBuilds DEF ServerPrepared
<1>5. BindsAllowed(s.binds)
  BY <1>1, <1>2, BindsBuilt DEF ServerPrepared
<1>6. ASSUME ~Managed(p)
      PROVE  AuthorizationBuilds(s) /\ s.tunnels # <<>> /\ Len(s.tunnels) = Len(p.tunnels)
  <2> DEFINE built == Known([i \in DOMAIN p.tunnels |-> TunnelOf(p.tunnels[i])])
  <2>1. s.tunnels = built
    BY <1>1, <1>6
  <2>2. /\ Len(built) = Len(p.tunnels) /\ built # <<>>
        /\ \A i \in DOMAIN built : built[i].hostnames # <<>>
        /\ Distinct(AllOf(built, LAMBDA t : t.identities))
        /\ Distinct(AllOf(built, LAMBDA t : t.hostnames))
        /\ hostname \notin ToSet(AllOf(built, LAMBDA t : t.hostnames))
    <3>1. p.tunnels \in Seq(TunnelSection)
      BY DEF ServerPrepared
    <3> QED BY <1>2, <1>6, <3>1, TunnelsBuilt, Zenon
  <2> HIDE DEF built
  <2>3. AuthorizationBuilds(s)
    BY <1>1, <2>1, <2>2, Zenon DEF AuthorizationBuilds
  <2> QED BY <2>1, <2>2, <2>3, Zenon
<1>7. StartupAccepts(s, env)
  BY <1>1, <1>5, <1>6 DEF StartupAccepts
<1>8. IF s.managed THEN s.identity # NULL /\ s.tunnels = <<>>
      ELSE s.tunnels # <<>> /\ Len(s.tunnels) = Len(p.tunnels)
  <2>1. Managed(p) => ServerIdentity(p, env) # NULL
    BY <1>2 DEF IdentityFaults, Fault
  <2> QED BY <1>1, <1>6, <2>1
<1>9. ASSUME s.identity # NULL PROVE s.certificate # [kind |-> "manual", dir |-> s.identity]
  <2>1. Managed(p) /\ p.identityDir \in env.disk /\ s.identity = p.identityDir
    BY <1>1, <1>9 DEF ServerIdentity
  <2>2. p.identityDir \in Strings
    BY <2>1 DEF Environment
  <2>3. [kind |-> "manual", dir |-> p.identityDir] # NULL
    BY <2>2, NullFacts
  <2>4. ~(/\ p.identityDir \in env.disk
          /\ ServerCertificate(p, env) # NULL
          /\ ServerCertificate(p, env) = [kind |-> "manual", dir |-> p.identityDir])
    BY <1>2, <2>1 DEF IdentityFaults, Fault
  <2> QED BY <1>1, <2>1, <2>3, <2>4
<1>10. s.readiness = p.readiness
  BY <1>1, <1>2 DEF Parsed
<1> QED BY <1>1, <1>3, <1>4, <1>7, <1>8, <1>9, <1>10 DEF WholeServer, s

\* A Service without a message is built as it was written, and one that
\* terminates TLS has hostnames.
LEMMA ServiceBuilds ==
  ASSUME NEW v \in ServiceSection, ServiceFaults(v) = {}
  PROVE  LET b == ServiceOf(v)
         IN  /\ b # NULL /\ b \in [hostnames : Opt(Seq(Strings)), tls : {"passthrough", "terminate"}]
             /\ (b.hostnames = NULL) = (v.hostnames = NULL) /\ b.hostnames # <<>>
             /\ OrElse(b.hostnames, <<>>) = ServiceHostnames(v)
             /\ (b.tls = "terminate") = (v.tls = "terminate")
             /\ b.tls = "terminate" => b.hostnames # NULL
<1> DEFINE b == ServiceOf(v)
           h == IF v.hostnames = NULL THEN NULL ELSE ServiceHostnames(v)
           t == OrElse(v.tls, "passthrough")
<1>1. v.hostnames \in Opt(Seq(Spelled))
  BY DEF ServiceSection
<1>2. /\ v.hostnames = NULL => v.tls # "terminate"
      /\ v.hostnames # NULL => HostnameFaults(v.hostnames, "service.hostnames") = {}
      /\ v.backend \notin {NULL, "bad"} /\ v.tls \in {NULL, "passthrough", "terminate"} /\ v.proxy \in {NULL, "v2"}
  BY DEF ServiceFaults, Fault
<1>3. ASSUME v.hostnames # NULL
      PROVE  /\ HostnameFaults(v.hostnames, "any") = {}
             /\ ServiceHostnames(v) \in Seq(Strings) /\ ServiceHostnames(v) # <<>>
  <2>1. v.hostnames # <<>> /\ NULL \notin ToSet(ParsedHostnames(v.hostnames)) /\ v.hostnames \in Seq(Spelled)
    BY <1>1, <1>2, <1>3 DEF HostnameFaults, Fault, Opt
  <2>2. HostnameFaults(v.hostnames, "any") = {}
    BY <2>1 DEF HostnameFaults, Fault
  <2>3. /\ ServiceHostnames(v) \in Seq(Strings) /\ Len(ServiceHostnames(v)) = Len(v.hostnames)
    BY <1>3, <2>1, ParsedNames DEF ServiceHostnames
  <2> QED BY <2>1, <2>2, <2>3
<1>4. b = [hostnames |-> h, tls |-> t]
  BY <1>2, <1>3 DEF ServiceOf
<1>5. NULL # "passthrough" /\ NULL # "terminate" /\ NULL \notin Seq(Strings) /\ <<>> \in Seq(Strings)
  BY NullFacts, ConfigAssumption DEF ConfigAssumption
<1>6. t \in {"passthrough", "terminate"} /\ (t = "terminate") = (v.tls = "terminate")
  BY <1>2, <1>5 DEF OrElse
<1>7. h \in Opt(Seq(Strings)) /\ (h = NULL) = (v.hostnames = NULL) /\ h # <<>>
  BY <1>3, <1>5 DEF Opt
<1>8. OrElse(h, <<>>) = ServiceHostnames(v)
  <2>1. CASE v.hostnames = NULL
    BY <2>1 DEF OrElse, ServiceHostnames
  <2>2. CASE v.hostnames # NULL
    BY <1>7, <2>2 DEF OrElse
  <2> QED BY <2>1, <2>2
<1>9. h = NULL => t # "terminate"
  BY <1>2, <1>6, <1>7
<1> HIDE DEF b, h, t
<1>10. b \in [hostnames : Opt(Seq(Strings)), tls : {"passthrough", "terminate"}] /\ b # NULL
       /\ b.hostnames = h /\ b.tls = t
  <2>1. [hostnames |-> h, tls |-> t] # NULL
    BY <1>6, <1>7, NullFacts, Zenon
  <2> QED BY <1>4, <1>6, <1>7, <2>1
<1> QED BY <1>6, <1>7, <1>8, <1>9, <1>10, Zenon DEF b

\* The Services are kept whole and pass validate_services, a hostname is one
\* Service's, and there are terminating hostnames exactly when a Service of
\* the file terminates.
LEMMA ServicesBuilt ==
  ASSUME NEW services \in Seq(ServiceSection), ServicesFaults(services) = {}
  PROVE  LET built == Known([i \in DOMAIN services |-> ServiceOf(services[i])])
         IN  /\ Len(built) = Len(services) /\ ServicesValid(built)
             /\ \A i \in DOMAIN built :
                  \A h \in ToSet(OrElse(built[i].hostnames, <<>>)) : Selects(built, h) = {i}
             /\ (TerminatingHostnames(built) # {}) = Terminates(services)
<1> DEFINE n == Len(services)
           v == [i \in DOMAIN services |-> ServiceOf(services[i])]
           R == [hostnames : Opt(Seq(Strings)), tls : {"passthrough", "terminate"}]
           H == [i \in DOMAIN services |-> ServiceHostnames(services[i])]
           Names(i) == OrElse(v[i].hostnames, <<>>)
<1>1. n \in Nat /\ DOMAIN services = 1..n /\ \A i \in 1..n : services[i] \in ServiceSection
  OBVIOUS
<1>2. services # <<>> /\ UNION {ServiceFaults(services[i]) : i \in DOMAIN services} = {}
      /\ ~(Len(services) > 1 /\ \E i \in DOMAIN services : services[i].hostnames = NULL)
      /\ Distinct(FlattenSeq(H))
  BY DEF ServicesFaults, AllOf, Fault
<1>3. \A i \in 1..n : ServiceFaults(services[i]) = {}
  BY <1>1, <1>2
<1>4. v = [i \in 1..n |-> v[i]] /\ \A i \in 1..n : v[i] = ServiceOf(services[i])
  BY <1>1
<1> HIDE DEF v
<1>5. ASSUME NEW i \in 1..n
      PROVE  /\ v[i] # NULL /\ v[i] \in R
             /\ (v[i].hostnames = NULL) = (services[i].hostnames = NULL) /\ v[i].hostnames # <<>>
             /\ Names(i) = ServiceHostnames(services[i])
             /\ (v[i].tls = "terminate") = (services[i].tls = "terminate")
             /\ v[i].tls = "terminate" => v[i].hostnames # NULL
  <2>1. services[i] \in ServiceSection /\ ServiceFaults(services[i]) = {} /\ v[i] = ServiceOf(services[i])
    BY <1>1, <1>3, <1>4
  <2> DEFINE s == services[i]
             b == ServiceOf(s)
  <2>2. /\ b # NULL /\ b \in R
        /\ (b.hostnames = NULL) = (s.hostnames = NULL) /\ b.hostnames # <<>>
        /\ OrElse(b.hostnames, <<>>) = ServiceHostnames(s)
        /\ (b.tls = "terminate") = (s.tls = "terminate")
        /\ b.tls = "terminate" => b.hostnames # NULL
    BY <2>1, ServiceBuilds
  <2> HIDE DEF b, R
  <2> QED BY <2>1, <2>2, Zenon DEF b
<1>6. Known(v) = v /\ Len(v) = n /\ DOMAIN v = 1..n
  <2> HIDE DEF R, n
  <2>1. \A i \in 1..n : v[i] \in R /\ v[i] # NULL
    BY <1>5
  <2> QED BY <1>1, <1>4, <2>1, BuiltAll, Zenon
<1>7. n # 0 /\ v # <<>>
  BY <1>1, <1>2, <1>6
<1>8. ASSUME NEW i \in 1..n
      PROVE  Names(i) \in Seq(Strings) /\ (v[i].hostnames # NULL => Names(i) = v[i].hostnames)
             /\ (v[i].hostnames = NULL => Names(i) = <<>>)
  <2>1. v[i].hostnames \in Opt(Seq(Strings))
    BY <1>5
  <2> QED BY <2>1 DEF OrElse, Opt
<1>9. [i \in DOMAIN v |-> Names(i)] = H
  BY <1>1, <1>5, <1>6, Zenon
<1>10. H \in Seq(Seq(Strings)) /\ Len(H) = n /\ \A i \in 1..n : H[i] = Names(i)
  <2> HIDE DEF Names
  <2>1. H = [i \in 1..n |-> Names(i)]
    BY <1>6, <1>9
  <2> HIDE DEF H
  <2> QED BY <1>1, <1>8, <2>1
<1>11. \A i, j \in 1..n : i # j => ToSet(Names(i)) \cap ToSet(Names(j)) = {}
  <2> HIDE DEF H, Names
  <2>1. \A i, j \in 1..Len(H) : i # j => ToSet(H[i]) \cap ToSet(H[j]) = {}
    BY <1>2, <1>10, FlattenApart
  <2> QED BY <1>10, <2>1
<1>12. ServicesValid(v)
  <2>1. \A i \in DOMAIN v : IF v[i].hostnames = NULL THEN Len(v) = 1 ELSE v[i].hostnames # <<>>
    BY <1>1, <1>2, <1>5, <1>6, <1>7
  <2>2. Distinct(AllOf(v, LAMBDA x : OrElse(x.hostnames, <<>>)))
    BY <1>2, <1>9, Zenon DEF AllOf
  <2> QED BY <1>7, <2>1, <2>2, Zenon DEF ServicesValid
<1>13. ASSUME NEW i \in DOMAIN v, NEW h \in ToSet(Names(i)) PROVE Selects(v, h) = {i}
  <2>1. i \in 1..n
    BY <1>6
  <2>2. v[i].hostnames # NULL
    <3>1. ToSet(<<>>) = {}
      BY DEF ToSet
    <3> QED BY <1>8, <1>13, <2>1, <3>1
  <2>3. ~(Len(v) = 1 /\ v[1].hostnames = NULL)
    BY <1>6, <2>1, <2>2
  <2>4. Selects(v, h) = {j \in 1..n : h \in ToSet(Names(j))}
    BY <1>6, <2>3 DEF Selects
  <2> HIDE DEF Names
  <2>5. \A j \in 1..n : h \in ToSet(Names(j)) <=> j = i
    BY <1>11, <1>13, <2>1
  <2> QED BY <2>1, <2>4, <2>5
<1>14. (TerminatingHostnames(v) # {}) = Terminates(services)
  <2>1. TerminatingHostnames(v) = UNION {ToSet(Names(i)) : i \in {j \in 1..n : v[j].tls = "terminate"}}
    BY <1>6 DEF TerminatingHostnames
  <2>2. Terminates(services) <=> \E j \in 1..n : v[j].tls = "terminate"
    BY <1>1, <1>5 DEF Terminates
  <2>3. ASSUME NEW j \in 1..n, v[j].tls = "terminate" PROVE ToSet(Names(j)) # {}
    <3>1. Names(j) # <<>> /\ Names(j) \in Seq(Strings)
      BY <1>5, <1>8, <2>3
    <3> HIDE DEF Names
    <3>2. 1 \in DOMAIN Names(j)
      BY <3>1
    <3> QED BY <3>2 DEF ToSet
  <2> HIDE DEF Names
  <2>4. TerminatingHostnames(v) # {} <=> \E j \in 1..n : v[j].tls = "terminate"
    BY <2>1, <2>3
  <2> QED BY <2>2, <2>4 DEF Terminates
<1> QED BY <1>6, <1>12, <1>13, <1>14, Zenon DEF v

\* The Server addresses as they were written.
AddressTexts(p) == (IF p.address = NULL THEN <<>> ELSE <<p.address>>) \o OrElse(p.addresses, <<>>)

\* What validation relies on in a prepared Client configuration: a default
\* certificate directory is there only for a Service that terminates, and the
\* command line's addresses took the place of the file's.
ClientPrepared(p, cli) ==
  /\ p.control.address \in Opt(Strings) /\ p.control.trust \in Strings
  /\ p.address \in Opt(Spelled) /\ p.addresses \in Opt(Seq(Spelled))
  /\ p.services \in Seq(ServiceSection)
  /\ ~p.publicGiven /\ p.acme = NULL /\ ~Terminates(p.services) => p.publicDir = NULL
  /\ cli.addresses # <<>> /\ ~p.unknown => ~Managed(p) /\ AddressTexts(p) = cli.addresses

\* What AcceptedIsWhole says of a Client.
WholeClient(s, p, cli) ==
  /\ s.role = "client" /\ (s.managed <=> s.control # NULL)
  /\ Len(s.services) = Len(p.services)
  /\ \A i \in DOMAIN s.services :
       \A h \in ToSet(OrElse(s.services[i].hostnames, <<>>)) : Selects(s.services, h) = {i}
  /\ (TerminatingHostnames(s.services) # {}) = (s.certificate # NULL)
  /\ IF s.managed THEN s.addresses = <<>>
     ELSE Len(s.addresses) \in 1..MaxServerAddresses
  /\ cli.addresses # <<>> => s.addresses = ParsedHostnames(cli.addresses)

\* What RefusedForALeaf says of a Client.
LeafMissing(s, env) ==
  /\ s.role = "client" /\ s.certificate # NULL /\ s.certificate.kind = "manual"
  /\ \E h \in TerminatingHostnames(s.services) : <<s.certificate.dir, h>> \notin env.leaves

\* With one of the two fields given, the addresses are that field's.
LEMMA TextsOf ==
  ASSUME NEW p, p.address \in Opt(Spelled), p.addresses \in Opt(Seq(Spelled))
  PROVE  /\ AddressTexts(p) \in Seq(Spelled)
         /\ p.address # NULL /\ p.addresses = NULL => AddressTexts(p) = <<p.address>> /\ Len(AddressTexts(p)) = 1
         /\ p.address = NULL /\ p.addresses # NULL => AddressTexts(p) = p.addresses
<1> DEFINE a == IF p.address = NULL THEN <<>> ELSE <<p.address>>
           b == OrElse(p.addresses, <<>>)
<1>1. a \in Seq(Spelled) /\ b \in Seq(Spelled)
  BY DEF Opt, OrElse
<1>2. p.addresses # NULL => b = p.addresses
  BY DEF OrElse
<1>3. p.addresses = NULL => b = <<>>
  BY DEF OrElse
<1>4. p.address = NULL => a = <<>>
  OBVIOUS
<1>5. p.address # NULL => a = <<p.address>> /\ Len(a) = 1
  OBVIOUS
<1>6. a \o b \in Seq(Spelled) /\ a \o <<>> = a /\ <<>> \o b = b
  <2> HIDE DEF a, b
  <2> QED BY <1>1, ConcatProperties, ConcatEmptySeq
<1>7. AddressTexts(p) = a \o b
  BY Zenon DEF AddressTexts
<1> HIDE DEF a, b
<1> QED BY <1>2, <1>3, <1>4, <1>5, <1>6, <1>7, Zenon

\* Without a message a Static Client has as many addresses as were written,
\* and not too many; a Managed one has none.
LEMMA AddressesBuilt ==
  ASSUME NEW p, NEW cli, ClientPrepared(p, cli), AddressFaults(p) = {}
  PROVE  /\ IF Managed(p) THEN ClientAddresses(p) = <<>> ELSE Len(ClientAddresses(p)) \in 1..MaxServerAddresses
         /\ ~Managed(p) => ClientAddresses(p) = ParsedHostnames(AddressTexts(p))
<1> DEFINE texts == AddressTexts(p)
<1>1. /\ NULL \notin ToSet(ParsedHostnames(texts))
      /\ ~Managed(p) =>
           /\ (p.address = NULL) # (p.addresses = NULL)
           /\ ~(p.addresses # NULL /\ Len(OrElse(p.addresses, <<>>)) \notin 1..MaxServerAddresses)
  BY DEF AddressFaults, Fault, AddressTexts
<1>2. texts \in Seq(Spelled)
  BY TextsOf DEF ClientPrepared
<1>3. Known(ParsedHostnames(texts)) = ParsedHostnames(texts) /\ Len(ParsedHostnames(texts)) = Len(texts)
  BY <1>1, <1>2, ParsedNames
<1>4. ASSUME ~Managed(p)
      PROVE  ClientAddresses(p) = ParsedHostnames(texts) /\ Len(texts) \in 1..MaxServerAddresses
  <2>1. ClientAddresses(p) = Known(ParsedHostnames(texts))
    BY <1>4 DEF ClientAddresses, AddressTexts
  <2>2. 1 \in 1..MaxServerAddresses
    BY ConfigAssumption DEF ConfigAssumption
  <2>3. CASE p.addresses = NULL
    BY <1>1, <1>3, <1>4, <2>1, <2>2, <2>3, TextsOf DEF ClientPrepared
  <2>4. CASE p.addresses # NULL
    <3>1. texts = p.addresses /\ OrElse(p.addresses, <<>>) = p.addresses
      BY <1>1, <1>4, <2>4, TextsOf DEF ClientPrepared, OrElse
    <3> HIDE DEF texts
    <3> QED BY <1>1, <1>3, <1>4, <2>1, <2>4, <3>1
  <2> QED BY <2>3, <2>4
<1>5. Managed(p) => ClientAddresses(p) = <<>>
  BY DEF ClientAddresses
<1> QED BY <1>3, <1>4, <1>5

\* Without a message there is a certificate exactly when a Service terminates.
LEMMA CertificateBuilt ==
  ASSUME NEW p, NEW cli, NEW env \in Environment, ClientPrepared(p, cli), PublicFaults(p, env) = {}
  PROVE  Terminates(p.services) <=> PublicCertificate(p, env) # NULL
<1> DEFINE T == Terminates(p.services)
           C == PublicCertificate(p, env)
<1>1. /\ p.acme = NULL => PathFaults(env, p.publicDir, "client.public-cert-dir") = {}
      /\ ~(T /\ C = NULL /\ ~(p.publicDir # NULL /\ p.acme = NULL))
      /\ ~((p.publicGiven \/ p.acme # NULL) /\ ~T)
  BY DEF PublicFaults, Fault
<1>2. p.acme = NULL /\ p.publicDir # NULL => p.publicDir \in env.disk
  BY <1>1 DEF PathFaults, Fault
<1>3. p.acme = NULL => C = IF p.publicDir \in env.disk THEN [kind |-> "manual", dir |-> p.publicDir] ELSE NULL
  BY DEF PublicCertificate
<1>4. env.disk \subseteq Strings
  BY DEF Environment
<1>5. p.publicDir \in env.disk => [kind |-> "manual", dir |-> p.publicDir] # NULL
  BY <1>4, NullFacts
<1>6. NULL \notin env.disk
  BY <1>4, NullFacts
<1>7. ~p.publicGiven /\ p.acme = NULL /\ ~T => p.publicDir = NULL
  BY DEF ClientPrepared
<1> HIDE DEF T, C
<1> QED BY <1>1, <1>2, <1>3, <1>5, <1>6, <1>7 DEF T, C

\* A Client's certificate is a manual or an ACME one.
LEMMA CertificateKinds ==
  ASSUME NEW p, NEW env, PublicCertificate(p, env) # NULL
  PROVE  PublicCertificate(p, env).kind \in {"manual", "acme"}
<1>1. AcmeOf(p.acme, env, "default-acme") # NULL => AcmeOf(p.acme, env, "default-acme").kind = "acme"
  BY DEF AcmeOf
<1> QED BY <1>1 DEF PublicCertificate

\* Nothing a Client configuration without a message is built from is missing.
LEMMA ClientBuilds ==
  ASSUME NEW p, NEW env \in Environment, ClientFaults(p, env) = {}
  PROVE  NULL \notin ClientUnwraps(ClientSettings(p, env))
<1> DEFINE s == ClientSettings(p, env)
           duration == IF p.duration = "bad" THEN NULL ELSE OrElse(p.duration, "60s")
<1>1. s.duration = duration /\ s.trust = TrustOf(p.trust, env) /\ s.identity = Existing(env, p.identityDir)
  BY DEF ClientSettings
<1>2. p.duration # "bad" /\ TrustOf(p.trust, env) # NULL /\ p.identityDir \in env.disk
  BY DEF ClientFaults, Fault, TrustFaults, ClientIdentityFaults
<1>3. duration # NULL
  BY <1>2, DurationBuilt
<1>4. Existing(env, p.identityDir) # NULL
  BY <1>2, NullFacts DEF Existing, Environment
<1> HIDE DEF s, duration
<1>5. NULL \notin {s.duration, s.trust, s.identity}
  BY <1>1, <1>2, <1>3, <1>4
<1> QED BY <1>5 DEF ClientUnwraps, s

\* A Client configuration without a message is whole, and only a leaf that is
\* not there keeps startup from taking it.
LEMMA ClientSound ==
  ASSUME NEW p, NEW cli, NEW env \in Environment, ClientPrepared(p, cli), ClientFaults(p, env) = {}
  PROVE  /\ WholeClient(ClientSettings(p, env), p, cli)
         /\ ~StartupAccepts(ClientSettings(p, env), env) => LeafMissing(ClientSettings(p, env), env)
<1> DEFINE s == ClientSettings(p, env)
           built == Known([i \in DOMAIN p.services |-> ServiceOf(p.services[i])])
<1>1. /\ s.role = "client" /\ s.managed = Managed(p) /\ s.addresses = ClientAddresses(p)
      /\ s.certificate = PublicCertificate(p, env) /\ s.control = ControlOf(p, env) /\ s.services = built
  BY DEF ClientSettings
<1>2. /\ UnknownFaults(p) = {} /\ ControlFaults(p, env) = {} /\ AddressFaults(p) = {}
      /\ PublicFaults(p, env) = {} /\ ServicesFaults(p.services) = {}
  BY DEF ClientFaults
<1> HIDE DEF s
<1>3. s.managed <=> s.control # NULL
  BY <1>1, <1>2, ControlBuilds DEF ClientPrepared
<1>4. /\ Len(built) = Len(p.services) /\ ServicesValid(built)
      /\ \A i \in DOMAIN built :
           \A h \in ToSet(OrElse(built[i].hostnames, <<>>)) : Selects(built, h) = {i}
      /\ (TerminatingHostnames(built) # {}) = Terminates(p.services)
  <2>1. p.services \in Seq(ServiceSection)
    BY DEF ClientPrepared
  <2> QED BY <1>2, <2>1, ServicesBuilt, Zenon
<1> HIDE DEF built
<1>5. (TerminatingHostnames(s.services) # {}) = (s.certificate # NULL)
  <2>1. Terminates(p.services) <=> s.certificate # NULL
    BY <1>1, <1>2, CertificateBuilt
  <2> QED BY <1>1, <1>4, <2>1
<1>6. /\ IF s.managed THEN s.addresses = <<>> ELSE Len(s.addresses) \in 1..MaxServerAddresses
      /\ cli.addresses # <<>> => s.addresses = ParsedHostnames(cli.addresses)
  <2>1. /\ IF Managed(p) THEN ClientAddresses(p) = <<>> ELSE Len(ClientAddresses(p)) \in 1..MaxServerAddresses
        /\ ~Managed(p) => ClientAddresses(p) = ParsedHostnames(AddressTexts(p))
    BY <1>2, AddressesBuilt
  <2>2. cli.addresses # <<>> => ~Managed(p) /\ AddressTexts(p) = cli.addresses
    BY <1>2 DEF ClientPrepared, UnknownFaults, Fault
  <2> QED BY <1>1, <2>1, <2>2
<1>7. s.certificate # NULL => s.certificate.kind \in {"manual", "acme"}
  BY <1>1, CertificateKinds
<1>8. ~TerminationLoads(s, env) => LeafMissing(s, env)
  BY <1>1, <1>5, <1>7 DEF TerminationLoads, LeafMissing
<1>9. ServicesValid(s.services)
  BY <1>1, <1>4
<1>10. ~StartupAccepts(s, env) => LeafMissing(s, env)
  BY <1>1, <1>8, <1>9 DEF StartupAccepts
<1>11. WholeClient(s, p, cli)
  BY <1>1, <1>3, <1>4, <1>5, <1>6, Zenon DEF WholeClient
<1> QED BY <1>10, <1>11 DEF s

\* The [client] section, or the empty one in its place.
LEMMA RawClient ==
  ASSUME NEW file \in Opt(ConfigFile)
  PROVE  (IF CliOnly(file) THEN EmptyClient ELSE file.client) \in ClientSection
<1>1. CASE CliOnly(file)
  <2>1. \A v : NULL \in Opt(v)
    BY DEF Opt
  <2>2. EmptyClient \in ClientSection
    BY <2>1 DEF EmptyClient, ClientSection
  <2> QED BY <1>1, <2>2
<1>2. CASE ~CliOnly(file)
  BY <1>2 DEF CliOnly, ConfigFile, Opt
<1> QED BY <1>1, <1>2

\* The command line's addresses take the place of the file's.
LEMMA Overriding ==
  ASSUME NEW raw \in ClientSection, NEW cli \in CommandLine
  PROVE  LET o == OverriddenAddresses(raw, cli)
         IN  /\ o.one \in Opt(Spelled) /\ o.many \in Opt(Seq(Spelled))
             /\ cli.addresses # <<>> =>
                  \/ o.one # NULL /\ o.many = NULL /\ cli.addresses = <<o.one>>
                  \/ o.one = NULL /\ o.many # NULL /\ cli.addresses = o.many
<1> DEFINE o == OverriddenAddresses(raw, cli)
           a == cli.addresses
<1>1. a \in Seq(Spelled) /\ Len(a) \in Nat
  BY DEF CommandLine
<1>2. raw.address \in Opt(Spelled) /\ raw.addresses \in Opt(Seq(Spelled))
  BY DEF ClientSection
<1>3. NULL \notin Spelled /\ NULL \notin Seq(Spelled)
  BY NullFacts
<1>4. CASE Len(a) = 0
  <2>1. o = [one |-> raw.address, many |-> raw.addresses]
    BY <1>4 DEF OverriddenAddresses
  <2>2. a = <<>>
    BY <1>1, <1>4
  <2> QED BY <1>2, <2>1, <2>2
<1>5. CASE Len(a) = 1
  <2>1. o = [one |-> a[1], many |-> NULL]
    BY <1>5 DEF OverriddenAddresses
  <2>2. a[1] \in Spelled /\ a = <<a[1]>>
    BY <1>1, <1>5
  <2>3. o.one = a[1] /\ o.many = NULL
    BY <2>1
  <2> HIDE DEF a, o
  <2> QED BY <1>3, <2>2, <2>3 DEF Opt, a, o
<1>6. CASE Len(a) \notin {0, 1}
  <2>1. o = [one |-> NULL, many |-> a]
    BY <1>6 DEF OverriddenAddresses
  <2> QED BY <1>1, <1>3, <2>1 DEF Opt
<1> QED BY <1>4, <1>5, <1>6

\* Preparation gives validation what it relies on.
LEMMA PreparingClient ==
  ASSUME NEW file \in Opt(ConfigFile), NEW cli \in CommandLine, NEW env \in Environment
  PROVE  ClientPrepared(PreparedClient(file, cli, env), cli)
<1> DEFINE p == PreparedClient(file, cli, env)
           raw == IF CliOnly(file) THEN EmptyClient ELSE file.client
           control == PreparedControl(file, cli, env)
           byControl == control.address # NULL
           overridden == IF byControl THEN [one |-> raw.address, many |-> raw.addresses]
                         ELSE OverriddenAddresses(raw, cli)
           services == IF cli.backend # NULL /\ raw.services = <<>> THEN <<CliService(cli)>> ELSE raw.services
<1>1. /\ p.address = overridden.one /\ p.addresses = overridden.many /\ p.services = services
      /\ p.publicGiven = (raw.publicDir # NULL) /\ p.acme = raw.acme /\ p.control = control
      /\ p.publicDir = OrElse(raw.publicDir, IF raw.acme = NULL /\ \E i \in DOMAIN services : services[i].tls = "terminate"
                                             THEN DefaultPath(env, "default-public") ELSE NULL)
      /\ byControl /\ cli.addresses # <<>> => p.unknown
  BY DEF PreparedClient
<1>2. raw \in ClientSection
  BY RawClient, Zenon
<1> HIDE DEF p, raw, control
<1>3. control.address \in Opt(Strings) /\ control.trust \in Strings
  BY ControlPrepared DEF control
<1>4. /\ raw.address \in Opt(Spelled) /\ raw.addresses \in Opt(Seq(Spelled)) /\ raw.services \in Seq(ServiceSection)
  BY <1>2 DEF ClientSection
<1>5. services \in Seq(ServiceSection)
  <2>1. cli.backend \in Opt(Strings)
    BY DEF CommandLine
  <2>2. CliService(cli) \in ServiceSection
    BY <2>1 DEF CliService, ServiceSection, Opt
  <2> QED BY <1>4, <2>2
<1>6. LET o == OverriddenAddresses(raw, cli)
      IN  /\ o.one \in Opt(Spelled) /\ o.many \in Opt(Seq(Spelled))
          /\ cli.addresses # <<>> =>
               \/ o.one # NULL /\ o.many = NULL /\ cli.addresses = <<o.one>>
               \/ o.one = NULL /\ o.many # NULL /\ cli.addresses = o.many
  BY <1>2, Overriding, Zenon
<1>7. overridden.one \in Opt(Spelled) /\ overridden.many \in Opt(Seq(Spelled))
  BY <1>4, <1>6
<1>8. Managed(p) = byControl
  BY <1>1 DEF Managed
<1>9. ASSUME cli.addresses # <<>>, ~p.unknown PROVE ~Managed(p) /\ AddressTexts(p) = cli.addresses
  <2>1. ~byControl
    BY <1>1, <1>9
  <2>2. \/ p.address # NULL /\ p.addresses = NULL /\ cli.addresses = <<p.address>>
        \/ p.address = NULL /\ p.addresses # NULL /\ cli.addresses = p.addresses
    BY <1>1, <1>6, <1>9, <2>1
  <2>3. p.address \in Opt(Spelled) /\ p.addresses \in Opt(Seq(Spelled))
    BY <1>1, <1>7
  <2>4. AddressTexts(p) = cli.addresses
    BY <2>2, <2>3, TextsOf
  <2> QED BY <1>8, <2>1, <2>4
<1> HIDE DEF services, overridden
<1>10. ~p.publicGiven /\ p.acme = NULL /\ ~Terminates(p.services) => p.publicDir = NULL
  BY <1>1 DEF Terminates, OrElse
<1> QED BY <1>1, <1>3, <1>5, <1>7, <1>9, <1>10 DEF ClientPrepared, p

\* The inductive invariant of a resolution: what is prepared is what
\* validation relies on, what is accepted was built from it without a message,
\* and startup's verdict is StartupAccepts.
Resolved ==
  LET server == input.role = "server"
      faults == IF server THEN ServerFaults(prepared, input.env) ELSE ClientFaults(prepared, input.env)
      built  == IF server THEN ServerSettings(prepared, input.env) ELSE ClientSettings(prepared, input.env)
  IN  /\ input \in Input
      /\ resolution \in {"raw", "prepared", "rejected", "panicked", "accepted", "refused", "started"}
      /\ resolution \in {"prepared", "accepted", "refused", "started"} =>
           IF server THEN ServerPrepared(prepared) ELSE ClientPrepared(prepared, input.cli)
      /\ resolution \in {"accepted", "refused", "started"} => settings = built /\ faults = {}
      /\ resolution = "started" => StartupAccepts(settings, input.env)
      /\ resolution = "refused" => ~StartupAccepts(settings, input.env)
      /\ PanicsForAnEmail

\* Either a configuration is resolved or the process does something else.
ResolutionInv == ConfigIdle \/ Resolved

\* What is accepted is whole, and only a missing leaf keeps startup from it.
LEMMA AcceptedSound ==
  ASSUME Resolved, resolution \in {"accepted", "refused", "started"}
  PROVE  /\ IF input.role = "server" THEN WholeServer(settings, prepared)
            ELSE WholeClient(settings, prepared, input.cli)
         /\ ~StartupAccepts(settings, input.env) => LeafMissing(settings, input.env)
<1>1. input.env \in Environment
  BY DEF Resolved, Input
<1>2. CASE input.role = "server"
  <2>1. settings = ServerSettings(prepared, input.env) /\ ServerFaults(prepared, input.env) = {} /\ ServerPrepared(prepared)
    BY <1>2 DEF Resolved
  <2> QED BY <1>1, <1>2, <2>1, ServerSound
<1>3. CASE input.role # "server"
  <2>1. settings = ClientSettings(prepared, input.env) /\ ClientFaults(prepared, input.env) = {}
        /\ ClientPrepared(prepared, input.cli)
    BY <1>3 DEF Resolved
  <2> QED BY <1>1, <1>3, <2>1, ClientSound
<1> QED BY <1>2, <1>3

\* Every step of a resolution keeps the invariant.
LEMMA ResolutionStep ==
  ASSUME ResolutionInv, ConfigNext
  PROVE  ResolutionInv'
<1>1. CASE ConfigIdle
  BY <1>1 DEF ConfigIdle, ConfigNext, PrepareConfig, Validate, Start
<1>2. CASE Resolved /\ PrepareConfig
  <2>1. input \in Input /\ input' = input /\ settings' = settings
    BY <1>2 DEF Resolved, PrepareConfig
  <2>2. CASE Refused
    BY <1>2, <2>1, <2>2 DEF PrepareConfig, Resolved, ResolutionInv, PanicsForAnEmail
  <2>3. CASE ~Refused
    <3>1. resolution' = "prepared" /\ input.file \in Opt(ConfigFile) /\ input.cli \in CommandLine
          /\ input.env \in Environment /\ input.role \in {"server", "client"}
      BY <1>2, <2>1, <2>3 DEF PrepareConfig, Input
    <3>2. CASE input.role = "server"
      <4>1. prepared' = PreparedServer(input.file, input.cli, input.env)
        BY <1>2, <2>3, <3>2 DEF PrepareConfig
      <4>2. input.file # NULL /\ input.file.server # NULL /\ ~BindConflict(input.file.server.binds)
        BY <2>3, <3>2 DEF Refused
      <4>3. input.file \in ConfigFile
        BY <3>1, <4>2 DEF Opt
      <4>4. ServerPrepared(prepared')
        BY <3>1, <4>1, <4>2, <4>3, PreparingServer
      <4> QED BY <2>1, <3>1, <3>2, <4>4 DEF Resolved, ResolutionInv, ServerPrepared, PanicsForAnEmail
    <3>3. CASE input.role # "server"
      <4>1. prepared' = PreparedClient(input.file, input.cli, input.env)
        BY <1>2, <2>3, <3>3 DEF PrepareConfig
      <4>2. ClientPrepared(prepared', input.cli)
        BY <3>1, <4>1, PreparingClient
      <4> QED BY <2>1, <3>1, <3>3, <4>2 DEF Resolved, ResolutionInv, PanicsForAnEmail
    <3> QED BY <3>2, <3>3
  <2> QED BY <2>2, <2>3
<1>3. CASE Resolved /\ Validate
  <2>1. PanicsForAnEmail'
    <3> SUFFICES ASSUME resolution' = "panicked"
                 PROVE  input.role = "server" /\ prepared.acme # NULL /\ prepared.acme.email = "empty"
      BY <1>3 DEF PanicsForAnEmail, Validate
    <3>1. input.env \in Environment
      BY <1>3 DEF Resolved, Input
    <3>2. CASE input.role = "server"
      <4>1. ServerFaults(prepared, input.env) = {} /\ NULL \in ServerUnwraps(ServerSettings(prepared, input.env))
        BY <1>3, <3>2 DEF Validate
      <4> QED BY <3>1, <3>2, <4>1, ServerBuilds
    <3>3. CASE input.role # "server"
      <4>1. ClientFaults(prepared, input.env) = {} /\ NULL \in ClientUnwraps(ClientSettings(prepared, input.env))
        BY <1>3, <3>3 DEF Validate
      <4> QED BY <3>1, <4>1, ClientBuilds
    <3> QED BY <3>2, <3>3
  <2> QED BY <1>3, <2>1 DEF Validate, Resolved, ResolutionInv
<1>4. CASE Resolved /\ Start
  <2>1. resolution = "accepted" /\ UNCHANGED <<input, prepared, settings>>
    BY <1>4 DEF Start
  <2>2. resolution' = IF StartupAccepts(settings, input.env) THEN "started" ELSE "refused"
    BY <1>4 DEF Start
  <2>3. StartupAccepts(settings, input.env)' = StartupAccepts(settings, input.env)
    BY <2>1
  <2>4. PanicsForAnEmail'
    BY <2>2 DEF PanicsForAnEmail
  <2> QED BY <1>4, <2>1, <2>2, <2>3, <2>4 DEF Resolved, ResolutionInv
<1> QED BY <1>1, <1>2, <1>3, <1>4 DEF ConfigNext, ResolutionInv

(***************************************************************************)
(* A configuration that validation accepts is served as it was written,    *)
(* for every file, command line and disk: startup refuses it only for the  *)
(* leaf of a terminating hostname that is not there, a Client that starts  *)
(* can terminate for each such hostname, and building the configuration    *)
(* panics only for an empty ACME email.  The Visitors it lets in fit the   *)
(* descriptors of the process (config/mod.rs, startup.rs, fd_capacity.rs). *)
(***************************************************************************)
THEOREM StartupIsSound == ProvisionSpec => []StartupSound
<1>1. ProvisionInit => ResolutionInv
  <2>1. ASSUME ConfigInit PROVE Resolved
    <3>1. input \in Input
      BY <2>1, ConfigAssumption DEF ConfigInit, ConfigAssumption
    <3> QED BY <2>1, <3>1 DEF ConfigInit, Resolved, PanicsForAnEmail
  <2> QED BY <2>1 DEF ProvisionInit, ResolutionInv
<1>2. ResolutionInv /\ [ProvisionNext]_provisionVars => ResolutionInv'
  <2> SUFFICES ASSUME ResolutionInv, [ProvisionNext]_provisionVars PROVE ResolutionInv'
    OBVIOUS
  <2>1. ASSUME UNCHANGED configVars PROVE ResolutionInv'
    <3>1. UNCHANGED <<input, resolution, prepared, settings>>
      BY <2>1 DEF configVars
    <3> QED BY <3>1 DEF ResolutionInv, Resolved, ConfigIdle, PanicsForAnEmail
  <2>2. ConfigNext => ResolutionInv'
    BY ResolutionStep
  <2> QED BY <2>1, <2>2 DEF ProvisionNext, provisionVars
<1>3. ResolutionInv => AcceptedServes
  <2>1. ASSUME ConfigIdle PROVE AcceptedServes
    BY <2>1 DEF ConfigIdle, AcceptedServes, AcceptedStarts, AcceptedIsWhole, RefusedForALeaf,
                StartedTerminates, PanicsForAnEmail
  <2>2. ASSUME Resolved PROVE AcceptedServes
    <3>1. AcceptedStarts
      <4>1. RefusedForALeaf
        BY <2>2, AcceptedSound DEF Resolved, RefusedForALeaf, LeafMissing
      <4>2. StartedTerminates
        <5> SUFFICES ASSUME resolution = "started", settings.role = "client",
                            NEW h \in TerminatingHostnames(settings.services)
                     PROVE  /\ settings.certificate # NULL
                            /\ settings.certificate.kind = "acme" \/ <<settings.certificate.dir, h>> \in input.env.leaves
          BY DEF StartedTerminates
        <5>1. TerminationLoads(settings, input.env)
          BY <2>2 DEF Resolved, StartupAccepts
        <5>2. settings.certificate # NULL
          <6>1. input.role # "server"
            BY <2>2, AcceptedSound DEF WholeServer
          <6> QED BY <2>2, <6>1, AcceptedSound DEF WholeClient
        <5> QED BY <5>1, <5>2 DEF TerminationLoads
      <4>3. PanicsForAnEmail
        BY <2>2 DEF Resolved
      <4> QED BY <4>1, <4>2, <4>3 DEF AcceptedStarts
    <3>2. ASSUME resolution \in {"accepted", "started"} PROVE AcceptedIsWhole
      <4>1. input.role \in {"server", "client"}
        BY <2>2 DEF Resolved, Input
      <4>2. CASE input.role = "server"
        BY <2>2, <3>2, <4>2, AcceptedSound DEF AcceptedIsWhole, WholeServer
      <4>3. CASE input.role # "server"
        BY <2>2, <3>2, <4>3, AcceptedSound DEF AcceptedIsWhole, WholeClient
      <4> QED BY <4>2, <4>3
    <3>3. resolution \notin {"accepted", "started"} => AcceptedIsWhole
      BY DEF AcceptedIsWhole
    <3> QED BY <3>1, <3>2, <3>3 DEF AcceptedServes
  <2> QED BY <2>1, <2>2 DEF ResolutionInv
<1>4. ProvisionSpec => []AcceptedServes
  BY <1>1, <1>2, <1>3, PTL DEF ProvisionSpec
<1> QED BY <1>4, CapacityAlwaysFits, PTL DEF StartupSound

(***************************************************************************)
(* Credentials.  What the material commands write is followed to its end:  *)
(* After is the directory once a command's remaining writes are done.  The *)
(* invariant says that this directory is usable from the moment a sound    *)
(* command begins, and that no other process spoils it.                    *)
(***************************************************************************)
\* What a file may hold
Contents == [key : Nat, issuer : Nat]
\* One write of a command
Writes == [file : Files[kind], content : Contents, new : BOOLEAN]
Todo(c) == ToSet(running[c].todo)
Doing(c) == Head(running[c].todo)
\* What the files F, now as g, will hold once the writes T are done
After(F, g, T) ==
  [f \in F |-> IF \E w \in T : w.file = f THEN (CHOOSE w \in T : w.file = f).content ELSE g[f]]
\* No file is written twice with different contents.
Consistent(T) == \A u, w \in T : u.file = w.file => u.content = w.content
\* Credentials' tests of the files, of any content g of the directory
Sane(g, f) == g[f] # NoFile /\ g[f] # Empty
MatchesIn(g, a, b) == Sane(g, a) /\ Sane(g, b) /\ g[a].key = g[b].key
WholeIn(g) == MatchesIn(g, File("ca"), File("ca-key"))
UsableIn(g, h) ==
  CASE kind = "identity" -> MatchesIn(g, File("crt"), File("key")) /\ MatchesIn(g, File("id"), File("key"))
    [] kind = "server"   -> /\ MatchesIn(g, File("crt"), File("key")) /\ WholeIn(g)
                            /\ g[File("crt")].issuer = g[File("ca")].key
    [] kind = "public"   -> /\ MatchesIn(g, <<"crt", h>>, <<"key", h>>) /\ WholeIn(g)
                            /\ g[<<"crt", h>>].issuer = g[File("ca")].key
\* The hostnames whose material a command writes
Concerned(op, T, h) == kind # "public" \/ op = "rotate" \/ \E w \in T : w.file[2] = h
\* Once its writes are done, what it writes is usable.
WillDo(op, T, g) == \A h \in Hostnames : Concerned(op, T, h) => UsableIn(After(Files[kind], g, T), h)
\* Types of the material variables
MaterialTypes ==
  /\ kind \in {"identity", "server", "public"} /\ keys \in Nat
  /\ files \in [Files[kind] -> {NoFile} \cup Contents]
  /\ running \in [Commands -> [op : {"none", "init", "renew", "rotate"}, todo : Seq(Writes), opened : BOOLEAN,
                               sound : BOOLEAN, end : {"none", "ok", "failed", "killed"}]]
\* A command that runs has not ended, writes new files exactly when it is an
\* init, has created the file it fills, and will leave usable material.
CommandInv(c) ==
  /\ Busy(c) => running[c].end = "none"
  /\ \A w \in Todo(c) : w.new = (running[c].op = "init")
  /\ Consistent(Todo(c))
  /\ running[c].opened => Busy(c) /\ Doing(c).file[1] # "dir" /\ files[Doing(c).file] = Empty
  /\ Busy(c) /\ running[c].sound => WillDo(running[c].op, Todo(c), files)
\* Two commands run at once only when both are inits, and never fill one file.
KeepApart(c, d) ==
  Busy(c) /\ Busy(d) =>
    /\ running[c].op = "init" /\ running[d].op = "init"
    /\ running[c].opened /\ running[d].opened => Doing(c).file # Doing(d).file
Material ==
  MaterialTypes /\ (\A c \in Commands : CommandInv(c)) /\ \A c, d \in Commands : c # d => KeepApart(c, d)

\* What a command has left: its next write, and the rest of its list.
LEMMA TodoParts ==
  ASSUME NEW V, NEW s \in Seq(V), s # <<>>
  PROVE  /\ Head(s) \in V /\ Tail(s) \in Seq(V) /\ Len(s) \in Nat \ {0}
         /\ ToSet(s) = {Head(s)} \cup ToSet(Tail(s))
         /\ Len(s) = 1 => ToSet(s) = {Head(s)}
<1>1. /\ Head(s) \in V /\ Tail(s) \in Seq(V) /\ Len(Tail(s)) = Len(s) - 1
      /\ \A i \in 1..Len(Tail(s)) : Tail(s)[i] = s[i + 1]
  BY HeadTailProperties
<1>2. Len(s) \in Nat \ {0} /\ DOMAIN s = 1..Len(s) /\ Head(s) = s[1]
  BY EmptySeq
<1>3. DOMAIN Tail(s) = 1..(Len(s) - 1)
  BY <1>1, <1>2, LenProperties
<1>4. ASSUME NEW x \in ToSet(s) PROVE x = Head(s) \/ x \in ToSet(Tail(s))
  <2>1. PICK i \in 1..Len(s) : x = s[i]
    BY <1>2, <1>4 DEF ToSet
  <2>2. CASE i = 1
    BY <1>2, <2>1, <2>2
  <2>3. CASE i # 1
    <3>1. i - 1 \in 1..(Len(s) - 1) /\ (i - 1) + 1 = i
      BY <1>2, <2>3
    <3>2. Tail(s)[i - 1] = s[i]
      BY <1>1, <3>1
    <3> QED BY <1>3, <2>1, <3>1, <3>2 DEF ToSet
  <2> QED BY <2>2, <2>3
<1>5. Head(s) \in ToSet(s)
  BY <1>2 DEF ToSet
<1>6. ASSUME NEW x \in ToSet(Tail(s)) PROVE x \in ToSet(s)
  <2>1. PICK i \in 1..(Len(s) - 1) : x = Tail(s)[i]
    BY <1>3, <1>6 DEF ToSet
  <2>2. i + 1 \in 1..Len(s) /\ x = s[i + 1]
    BY <1>1, <1>2, <2>1
  <2> QED BY <1>2, <2>2 DEF ToSet
<1>7. ASSUME Len(s) = 1 PROVE ToSet(Tail(s)) = {}
  <2>1. DOMAIN Tail(s) = {}
    BY <1>3, <1>7
  <2> QED BY <2>1 DEF ToSet
<1>8. ToSet(s) = {Head(s)} \cup ToSet(Tail(s))
  BY <1>4, <1>5, <1>6
<1> QED BY <1>1, <1>2, <1>7, <1>8

\* A file still to be written will hold what is written to it.
LEMMA AfterPending ==
  ASSUME NEW F, NEW g, NEW T, Consistent(T), NEW w \in T, w.file \in F
  PROVE  After(F, g, T)[w.file] = w.content
<1> DEFINE u == CHOOSE x \in T : x.file = w.file
<1>1. u \in T /\ u.file = w.file
  OBVIOUS
<1>2. u.content = w.content
  BY <1>1 DEF Consistent
<1> HIDE DEF u
<1> QED BY <1>2 DEF After, u

\* A file no longer to be written will hold what it holds.
LEMMA AfterSettled ==
  ASSUME NEW F, NEW g, NEW T, NEW f \in F, \A w \in T : w.file # f
  PROVE  After(F, g, T)[f] = g[f]
BY DEF After

\* Writing the next file (cert_file_ops.rs) changes nothing about what the files will hold in the end.
LEMMA AfterWrite ==
  ASSUME NEW F, NEW g, NEW g2, NEW T, NEW T2 \in SUBSET T, NEW w \in T,
         \A u \in T : u = w \/ u \in T2, Consistent(T), w.file \in F,
         g2[w.file] = w.content, \A f \in F : f # w.file => g2[f] = g[f]
  PROVE  After(F, g2, T2) = After(F, g, T)
<1>1. Consistent(T2)
  BY DEF Consistent
<1>2. ASSUME NEW f \in F PROVE After(F, g2, T2)[f] = After(F, g, T)[f]
  <2>1. CASE \E u \in T2 : u.file = f
    <3>1. PICK u \in T2 : u.file = f
      BY <2>1
    <3>2. After(F, g2, T2)[f] = u.content
      BY <1>1, <3>1, AfterPending
    <3>3. After(F, g, T)[f] = u.content
      BY <3>1, AfterPending
    <3> QED BY <3>2, <3>3
  <2>2. CASE (\A u \in T2 : u.file # f) /\ w.file = f
    <3>1. After(F, g2, T2)[f] = g2[f]
      BY <2>2, AfterSettled
    <3>2. After(F, g, T)[f] = w.content
      BY <2>2, AfterPending
    <3> QED BY <2>2, <3>1, <3>2
  <2>3. CASE (\A u \in T2 : u.file # f) /\ w.file # f
    <3>1. After(F, g2, T2)[f] = g2[f]
      BY <2>3, AfterSettled
    <3>2. After(F, g, T)[f] = g[f]
      BY <2>3, AfterSettled
    <3> QED BY <2>3, <3>1, <3>2
  <2> QED BY <2>1, <2>2, <2>3
<1>3. After(F, g2, T2) = [f \in F |-> After(F, g2, T2)[f]] /\ After(F, g, T) = [f \in F |-> After(F, g, T)[f]]
  BY DEF After
<1> QED BY <1>2, <1>3, Zenon

\* Nor does creating it empty.
LEMMA AfterOpen ==
  ASSUME NEW F, NEW g, NEW T, NEW w \in T, NEW x
  PROVE  After(F, [g EXCEPT ![w.file] = x], T) = After(F, g, T)
<1>1. \A f \in F : (\E u \in T : u.file = f) \/ [g EXCEPT ![w.file] = x][f] = g[f]
  OBVIOUS
<1> QED BY <1>1 DEF After

\* Another process's write shows in the end only where this command has
\* nothing left to write.
LEMMA AfterBeside ==
  ASSUME NEW F, NEW g, NEW g2, NEW T, NEW f, \A e \in F : e # f => g2[e] = g[e]
  PROVE  \A e \in F : After(F, g2, T)[e] = After(F, g, T)[e] \/ (e = f /\ After(F, g, T)[e] = g[f])
<1>1. ASSUME NEW e \in F
      PROVE  After(F, g2, T)[e] = After(F, g, T)[e] \/ (e = f /\ After(F, g, T)[e] = g[f])
  <2>1. CASE \E w \in T : w.file = e
    <3>1. After(F, g2, T)[e] = After(F, g, T)[e]
      BY <2>1 DEF After
    <3> QED BY <3>1
  <2>2. CASE \A w \in T : w.file # e
    <3>1. After(F, g, T)[e] = g[e]
      BY <2>2, AfterSettled
    <3>2. After(F, g2, T)[e] = g2[e]
      BY <2>2, AfterSettled
    <3>3. g2[e] = g[e] \/ e = f
      OBVIOUS
    <3> QED BY <3>1, <3>2, <3>3, Zenon
  <2> QED BY <2>1, <2>2
<1> QED BY <1>1

\* The files of each directory.
LEMMA FilesOf ==
  /\ \A part \in {"key", "crt", "id"} : File(part) \in Files["identity"]
  /\ \A part \in {"key", "crt", "ca", "ca-key", "hostname", "dir"} : File(part) \in Files["server"]
  /\ \A part \in {"ca", "ca-key"} : File(part) \in Files["public"]
  /\ \A part \in {"crt", "key", "dir"}, h \in Hostnames : <<part, h>> \in Files["public"]
  /\ \A part : File(part)[1] = part /\ File(part)[2] = ""
BY DEF Files, File

\* Material stays usable while every file that parses is left as it is.
LEMMA UsableKeeps ==
  ASSUME kind \in {"identity", "server", "public"}, NEW h \in Hostnames, NEW g, NEW g2, UsableIn(g, h),
         \A f \in Files[kind] : f[1] # "dir" /\ Sane(g, f) => g2[f] = g[f]
  PROVE  UsableIn(g2, h)
<1>1. CASE kind = "identity"
  <2>1. Sane(g, File("crt")) /\ Sane(g, File("key")) /\ Sane(g, File("id"))
    BY <1>1 DEF UsableIn, MatchesIn
  <2>2. g2[File("crt")] = g[File("crt")] /\ g2[File("key")] = g[File("key")] /\ g2[File("id")] = g[File("id")]
    BY <1>1, <2>1, FilesOf
  <2> QED BY <1>1, <2>2 DEF UsableIn, MatchesIn, Sane
<1>2. CASE kind = "server"
  <2>1. Sane(g, File("crt")) /\ Sane(g, File("key")) /\ Sane(g, File("ca")) /\ Sane(g, File("ca-key"))
    BY <1>2 DEF UsableIn, MatchesIn, WholeIn
  <2>2. g2[File("crt")] = g[File("crt")] /\ g2[File("key")] = g[File("key")] /\ g2[File("ca")] = g[File("ca")]
        /\ g2[File("ca-key")] = g[File("ca-key")]
    BY <1>2, <2>1, FilesOf
  <2> QED BY <1>2, <2>2 DEF UsableIn, MatchesIn, WholeIn, Sane
<1>3. CASE kind = "public"
  <2>1. Sane(g, <<"crt", h>>) /\ Sane(g, <<"key", h>>) /\ Sane(g, File("ca")) /\ Sane(g, File("ca-key"))
    BY <1>3 DEF UsableIn, MatchesIn, WholeIn
  <2>2. g2[<<"crt", h>>] = g[<<"crt", h>>] /\ g2[<<"key", h>>] = g[<<"key", h>>] /\ g2[File("ca")] = g[File("ca")]
        /\ g2[File("ca-key")] = g[File("ca-key")]
    BY <1>3, <2>1, FilesOf
  <2> QED BY <1>3, <2>2 DEF UsableIn, MatchesIn, WholeIn, Sane
<1> QED BY <1>1, <1>2, <1>3

\* The promise of a command, in the next state.
LEMMA WillDoNext ==
  ASSUME kind' = kind, NEW c
  PROVE  WillDo(running[c].op, Todo(c), files)' <=> WillDo(running'[c].op, ToSet(running'[c].todo), files')
BY DEF WillDo, Concerned, UsableIn, MatchesIn, WholeIn, Sane, Todo

\* What the invariant says of one command.
LEMMA CommandFacts ==
  ASSUME Material, NEW c \in Commands
  PROVE  /\ running[c].todo \in Seq(Writes) /\ running[c].opened \in BOOLEAN /\ running[c].sound \in BOOLEAN
         /\ Todo(c) \subseteq Writes /\ DOMAIN files = Files[kind] /\ CommandInv(c)
         /\ kind \in {"identity", "server", "public"} /\ running[c].op \in {"none", "init", "renew", "rotate"}
<1>1. running[c].todo \in Seq(Writes) /\ running[c].opened \in BOOLEAN /\ running[c].sound \in BOOLEAN
      /\ running[c].op \in {"none", "init", "renew", "rotate"}
  BY DEF Material, MaterialTypes
<1>2. Todo(c) \subseteq Writes
  BY <1>1, SetOfSequence DEF Todo
<1> QED BY <1>1, <1>2 DEF Material, MaterialTypes

\* A command is not disturbed by another one that writes a directory or a
\* file that did not parse (open_new_file_with_mode creates only what is not there).
LEMMA BesideKeeps ==
  ASSUME Material, NEW c \in Commands, kind' = kind, running'[c] = running[c],
         \/ files' = files
         \/ \E f \in Files[kind] : \E x \in Contents :
              /\ files' = [files EXCEPT ![f] = x] /\ (f[1] = "dir" \/ ~Sane(files, f))
              /\ running[c].opened => f # Doing(c).file
  PROVE  CommandInv(c)'
<1>1. CommandInv(c) /\ DOMAIN files = Files[kind] /\ kind \in {"identity", "server", "public"}
  BY CommandFacts
<1>2. Busy(c)' = Busy(c) /\ Todo(c)' = Todo(c) /\ Doing(c)' = Doing(c)
  BY DEF Busy, Todo, Doing
<1>3. ASSUME Busy(c), running[c].sound
      PROVE  WillDo(running'[c].op, ToSet(running'[c].todo), files')
  <2>1. WillDo(running[c].op, Todo(c), files)
    BY <1>1, <1>3 DEF CommandInv
  <2>2. CASE files' = files
    BY <2>1, <2>2 DEF Todo
  <2>3. CASE files' # files
    <3>1. PICK f \in Files[kind], x \in Contents : files' = [files EXCEPT ![f] = x] /\ (f[1] = "dir" \/ ~Sane(files, f))
      BY <2>3
    <3> DEFINE F == Files[kind]
               A == After(F, files, Todo(c))
               B == After(F, files', Todo(c))
    <3>2. ASSUME NEW e \in F, e[1] # "dir", Sane(A, e) PROVE B[e] = A[e]
      <4>1. B[e] = A[e] \/ (e = f /\ A[e] = files[f])
        <5>1. \A d \in F : d # f => files'[d] = files[d]
          BY <1>1, <3>1
        <5>2. ASSUME NEW g2, \A d \in F : d # f => g2[d] = files[d]
              PROVE  After(F, g2, Todo(c))[e] = A[e] \/ (e = f /\ A[e] = files[f])
          <6> HIDE DEF F
          <6> QED BY <5>2, AfterBeside
        <5> QED BY <5>1, <5>2
      <4> HIDE DEF A, B
      <4> QED BY <3>1, <3>2, <4>1 DEF Sane
    <3> HIDE DEF A, B
    <3>3. ASSUME NEW h \in Hostnames, UsableIn(A, h) PROVE UsableIn(B, h)
      BY <1>1, <3>2, <3>3, UsableKeeps
    <3> QED BY <2>1, <3>3 DEF WillDo, Todo, A, B
  <2> QED BY <2>2, <2>3
<1>4. ASSUME running[c].opened PROVE files'[Doing(c).file] = Empty
  <2>1. Busy(c) /\ files[Doing(c).file] = Empty /\ running[c].todo \in Seq(Writes)
    BY <1>1, <1>4, CommandFacts DEF CommandInv
  <2>2. Doing(c).file \in Files[kind]
    <3>1. Doing(c) \in Writes
      BY <2>1, TodoParts DEF Busy, Doing
    <3> QED BY <3>1 DEF Writes
  <2>3. CASE files' = files
    BY <2>1, <2>3
  <2>4. CASE files' # files
    <3>1. PICK f \in Files[kind], x \in Contents : files' = [files EXCEPT ![f] = x] /\ f # Doing(c).file
      BY <1>4, <2>4
    <3> QED BY <1>1, <2>1, <2>2, <3>1
  <2> QED BY <2>3, <2>4
<1>5. Busy(c)' /\ running'[c].sound => WillDo(running[c].op, Todo(c), files)'
  BY <1>2, <1>3, WillDoNext
<1> QED BY <1>1, <1>2, <1>4, <1>5 DEF CommandInv

\* A command that ends, however it ends, disturbs nobody.
LEMMA EndKeeps ==
  ASSUME Material, NEW c \in Commands, kind' = kind, keys' = keys, files' = files,
         NEW r \in [op : {"none", "init", "renew", "rotate"}, todo : {<<>>}, opened : {FALSE},
                    sound : BOOLEAN, end : {"none", "ok", "failed", "killed"}],
         running' = [running EXCEPT ![c] = r]
  PROVE  Material'
<1>1. MaterialTypes'
  <2>1. Writes' = Writes
    BY DEF Writes
  <2>2. <<>> \in Seq(Writes)
    OBVIOUS
  <2>3. r \in [op : {"none", "init", "renew", "rotate"}, todo : Seq(Writes), opened : BOOLEAN,
               sound : BOOLEAN, end : {"none", "ok", "failed", "killed"}]
    BY <2>2
  <2> QED BY <2>1, <2>3 DEF Material, MaterialTypes
<1>2. running'[c] = r /\ \A d \in Commands : d # c => running'[d] = running[d]
  BY DEF Material, MaterialTypes
<1>3. ToSet(<<>>) = {}
  BY DEF ToSet
<1>4. ~Busy(c)' /\ Todo(c)' = {} /\ ~running'[c].opened
  BY <1>2, <1>3 DEF Busy, Todo
<1>5. CommandInv(c)'
  BY <1>4 DEF CommandInv, Consistent
<1>6. \A d \in Commands : d # c => CommandInv(d)'
  BY <1>2, BesideKeeps
<1>7. ASSUME NEW a \in Commands, NEW b \in Commands, a # b PROVE KeepApart(a, b)'
  <2>1. CASE a = c \/ b = c
    BY <1>4, <2>1 DEF KeepApart
  <2>2. CASE a # c /\ b # c
    <3>1. KeepApart(a, b) /\ running'[a] = running[a] /\ running'[b] = running[b]
      BY <1>2, <1>7, <2>2 DEF Material
    <3> QED BY <3>1 DEF KeepApart, Busy, Doing
  <2> QED BY <2>1, <2>2
<1> QED BY <1>1, <1>5, <1>6, <1>7 DEF Material

\* A command that ends at its first look.
LEMMA AnswerKeeps ==
  ASSUME Material, NEW c \in Commands, NEW op \in {"init", "renew", "rotate"}, NEW end \in {"ok", "failed"},
         Answer(c, op, end)
  PROVE  Material'
<1> DEFINE r == [op |-> op, todo |-> <<>>, opened |-> FALSE, sound |-> FALSE, end |-> end]
<1>1. running' = [running EXCEPT ![c] = r] /\ UNCHANGED <<kind, files, keys>>
  BY DEF Answer
<1>2. r \in [op : {"none", "init", "renew", "rotate"}, todo : {<<>>}, opened : {FALSE},
             sound : BOOLEAN, end : {"none", "ok", "failed", "killed"}]
  OBVIOUS
<1> HIDE DEF r
<1> QED BY <1>1, <1>2, EndKeeps

\* A command that fails at a write, or is killed.
LEMMA EndedKeeps ==
  ASSUME Material, NEW c \in Commands, NEW end \in {"ok", "failed", "killed"},
         UNCHANGED <<kind, keys, files>>, running' = Ended(c, end)
  PROVE  Material'
<1> DEFINE r == [running[c] EXCEPT !.todo = <<>>, !.opened = FALSE, !.end = end]
<1>1. running' = [running EXCEPT ![c] = r]
  BY DEF Ended, Material, MaterialTypes
<1>2. r \in [op : {"none", "init", "renew", "rotate"}, todo : {<<>>}, opened : {FALSE},
             sound : BOOLEAN, end : {"none", "ok", "failed", "killed"}]
  BY DEF Material, MaterialTypes
<1> HIDE DEF r
<1> QED BY <1>1, <1>2, EndKeeps

\* A command that begins to write with a list that leads to usable material.
LEMMA BeginKeeps ==
  ASSUME Material, NEW c \in Commands, NEW op \in {"init", "renew", "rotate"}, NEW todo \in Seq(Writes),
         NEW spent \in Nat, NEW sound \in BOOLEAN, Begin(c, op, todo, spent, sound), Idle(c, kind, op),
         \A w \in ToSet(todo) : w.new = (op = "init"), Consistent(ToSet(todo)),
         sound => WillDo(op, ToSet(todo), files)
  PROVE  Material'
<1> DEFINE r == [op |-> op, todo |-> todo, opened |-> FALSE, sound |-> sound, end |-> "none"]
<1>1. running' = [running EXCEPT ![c] = r] /\ keys' = keys + spent /\ UNCHANGED <<kind, files>>
  BY DEF Begin
<1>2. r \in [op : {"none", "init", "renew", "rotate"}, todo : Seq(Writes), opened : BOOLEAN,
             sound : BOOLEAN, end : {"none", "ok", "failed", "killed"}]
  OBVIOUS
<1>3. r.op = op /\ r.todo = todo /\ ~r.opened /\ r.sound = sound /\ r.end = "none"
  OBVIOUS
<1> HIDE DEF r
<1>4. MaterialTypes'
  <2>1. Writes' = Writes
    BY <1>1 DEF Writes
  <2> QED BY <1>1, <1>2, <2>1 DEF Material, MaterialTypes
<1>5. running'[c] = r /\ \A d \in Commands : d # c => running'[d] = running[d]
  BY <1>1 DEF Material, MaterialTypes
<1>6. CommandInv(c)'
  <2>1. Todo(c)' = ToSet(todo)
    BY <1>3, <1>5 DEF Todo
  <2>2. sound => WillDo(running[c].op, Todo(c), files)'
    BY <1>1, <1>3, <1>5, WillDoNext
  <2> QED BY <1>3, <1>5, <2>1, <2>2 DEF CommandInv, Consistent
<1>7. \A d \in Commands : d # c => CommandInv(d)'
  BY <1>1, <1>5, BesideKeeps
<1>8. \A d \in Commands : Busy(d) => op = "init" /\ running[d].op = "init"
  BY DEF Idle
<1>9. ASSUME NEW a \in Commands, NEW b \in Commands, a # b PROVE KeepApart(a, b)'
  <2>1. CASE a # c /\ b # c
    <3>1. KeepApart(a, b) /\ running'[a] = running[a] /\ running'[b] = running[b]
      BY <1>5, <1>9, <2>1 DEF Material
    <3> QED BY <3>1 DEF KeepApart, Busy, Doing
  <2>2. CASE a = c
    <3>1. running'[b] = running[b]
      BY <1>5, <1>9, <2>2
    <3> QED BY <1>3, <1>5, <1>8, <2>2, <3>1 DEF KeepApart, Busy
  <2>3. CASE b = c
    <3>1. running'[a] = running[a]
      BY <1>5, <1>9, <2>3
    <3> QED BY <1>3, <1>5, <1>8, <2>3, <3>1 DEF KeepApart, Busy
  <2> QED BY <2>1, <2>2, <2>3
<1> QED BY <1>4, <1>6, <1>7, <1>9 DEF Material

Records == [op : {"none", "init", "renew", "rotate"}, todo : Seq(Writes), opened : BOOLEAN,
            sound : BOOLEAN, end : {"none", "ok", "failed", "killed"}]
\* A write to f does not disturb d: f does not parse yet, and is not the file
\* d is filling.
Spares(f, d) == /\ f[1] = "dir" \/ ~Sane(files, f)
                /\ running[d].opened => f # Doing(d).file

\* A process that runs nothing keeps its part of the invariant.
LEMMA IdleKeeps ==
  ASSUME Material, NEW d \in Commands, ~Busy(d), running'[d] = running[d], kind' = kind
  PROVE  CommandInv(d)'
<1>1. CommandInv(d) /\ ~running[d].opened
  BY CommandFacts DEF CommandInv
<1>2. ~Busy(d)' /\ Todo(d)' = Todo(d)
  BY DEF Busy, Todo
<1> QED BY <1>1, <1>2 DEF CommandInv, Consistent

\* One file changes, and the record of the command that changed it.
LEMMA PutKeeps ==
  ASSUME Material, NEW c \in Commands, kind' = kind, keys' \in Nat,
         NEW f \in Files[kind], NEW x \in Contents, files' = [files EXCEPT ![f] = x],
         NEW r \in Records, running' = [running EXCEPT ![c] = r],
         r.op = running[c].op, Busy(c), CommandInv(c)',
         \A d \in Commands : d # c /\ Busy(d) => Spares(f, d),
         r.opened => Head(r.todo).file = f
  PROVE  Material'
<1>1. MaterialTypes'
  <2>1. Writes' = Writes
    BY DEF Writes
  <2> QED BY <2>1 DEF Material, MaterialTypes, Records
<1>2. running'[c] = r /\ \A d \in Commands : d # c => running'[d] = running[d]
  BY DEF Material, MaterialTypes
<1>3. ASSUME NEW d \in Commands, d # c PROVE CommandInv(d)'
  <2>1. CASE ~Busy(d)
    BY <1>2, <1>3, <2>1, IdleKeeps
  <2>2. CASE Busy(d)
    <3>1. running'[d] = running[d] /\ Spares(f, d)
      BY <1>2, <1>3, <2>2
    <3>2. /\ files' = [files EXCEPT ![f] = x] /\ (f[1] = "dir" \/ ~Sane(files, f))
          /\ running[d].opened => f # Doing(d).file
      BY <3>1 DEF Spares
    <3> QED BY <3>1, <3>2, BesideKeeps
  <2> QED BY <2>1, <2>2
<1>4. ASSUME NEW d \in Commands, d # c PROVE KeepApart(c, d)' /\ KeepApart(d, c)'
  <2>1. running'[d] = running[d] /\ (Busy(d) => Spares(f, d)) /\ KeepApart(c, d)
    BY <1>2, <1>4 DEF Material
  <2>2. Busy(d)' = Busy(d) /\ Doing(d)' = Doing(d) /\ Doing(c)' = Head(r.todo)
    BY <1>2, <2>1 DEF Busy, Doing
  <2>3. Busy(d) => running[c].op = "init" /\ running[d].op = "init"
    BY <2>1 DEF KeepApart
  <2> QED BY <1>2, <2>1, <2>2, <2>3 DEF KeepApart, Spares
<1>5. ASSUME NEW a \in Commands, NEW b \in Commands, a # b, a # c, b # c PROVE KeepApart(a, b)'
  <2>1. KeepApart(a, b) /\ running'[a] = running[a] /\ running'[b] = running[b]
    BY <1>2, <1>5 DEF Material
  <2> QED BY <2>1 DEF KeepApart, Busy, Doing
<1>6. \A a, b \in Commands : a # b => KeepApart(a, b)'
  BY <1>4, <1>5
<1> QED BY <1>1, <1>3, <1>6 DEF Material

\* The next write of a busy command.
LEMMA DoingFacts ==
  ASSUME Material, NEW c \in Commands, Busy(c)
  PROVE  /\ Doing(c) \in Writes /\ Doing(c) \in Todo(c) /\ Doing(c).file \in Files[kind] /\ Doing(c).content \in Contents
         /\ Todo(c) = {Doing(c)} \cup ToSet(Tail(running[c].todo)) /\ Consistent(Todo(c))
         /\ Tail(running[c].todo) \in Seq(Writes) /\ running[c] \in Records
         /\ Len(running[c].todo) \in Nat \ {0}
         /\ Len(running[c].todo) = 1 => Todo(c) = {Doing(c)}
         /\ Len(running[c].todo) > 1 => Tail(running[c].todo) # <<>>
<1>1. running[c].todo \in Seq(Writes) /\ running[c].todo # <<>> /\ Consistent(Todo(c))
  BY CommandFacts DEF Busy, CommandInv
<1>2. /\ Doing(c) \in Writes /\ Todo(c) = {Doing(c)} \cup ToSet(Tail(running[c].todo))
      /\ Tail(running[c].todo) \in Seq(Writes) /\ Len(running[c].todo) \in Nat \ {0}
      /\ Len(running[c].todo) = 1 => Todo(c) = {Doing(c)}
  BY <1>1, TodoParts DEF Todo, Doing
<1>3. Len(running[c].todo) > 1 => Tail(running[c].todo) # <<>>
  <2>1. Len(Tail(running[c].todo)) = Len(running[c].todo) - 1
    BY <1>1, HeadTailProperties
  <2>2. Len(<<>>) = 0
    OBVIOUS
  <2>3. \A n \in Nat : n > 1 => n - 1 # 0
    OBVIOUS
  <2> QED BY <1>2, <2>1, <2>2, <2>3
<1>4. Doing(c).file \in Files[kind] /\ Doing(c).content \in Contents
  BY <1>2 DEF Writes
<1>5. running[c] \in Records
  BY DEF Material, MaterialTypes, Records
<1> QED BY <1>1, <1>2, <1>3, <1>4, <1>5

\* A file is filled, or replaced, and the command goes on to its next write.
LEMMA FillKeeps ==
  ASSUME Material, NEW c \in Commands, Busy(c), kind' = kind, keys' = keys,
         files' = [files EXCEPT ![Doing(c).file] = Doing(c).content], running' = Advanced(c),
         \A d \in Commands : d # c /\ Busy(d) => Spares(Doing(c).file, d)
  PROVE  Material'
<1> DEFINE f == Doing(c).file
           rest == Tail(running[c].todo)
<1>1. /\ Doing(c) \in Writes /\ Doing(c) \in Todo(c) /\ f \in Files[kind] /\ Doing(c).content \in Contents
      /\ Todo(c) = {Doing(c)} \cup ToSet(rest) /\ Consistent(Todo(c)) /\ rest \in Seq(Writes)
      /\ running[c] \in Records /\ Len(running[c].todo) \in Nat \ {0}
      /\ Len(running[c].todo) > 1 => rest # <<>>
  BY DoingFacts
<1>2. CommandInv(c) /\ DOMAIN files = Files[kind] /\ running \in [Commands -> Records]
  BY CommandFacts DEF Material, MaterialTypes, Records
<1>3. CASE Len(running[c].todo) > 1
  <2> DEFINE r == [running[c] EXCEPT !.todo = rest, !.opened = FALSE]
  <2>1. running' = [running EXCEPT ![c] = r]
    BY <1>2, <1>3 DEF Advanced
  <2>2. r \in Records /\ r.op = running[c].op /\ ~r.opened /\ r.todo = rest /\ r.end = running[c].end
        /\ r.sound = running[c].sound
    BY <1>1 DEF Records
  <2> HIDE DEF r
  <2>3. running'[c] = r
    BY <1>2, <2>1
  <2>4. Busy(c)' /\ Todo(c)' = ToSet(rest)
    BY <1>1, <1>3, <2>2, <2>3 DEF Busy, Todo
  <2>5. ToSet(rest) \subseteq Todo(c)
    BY <1>1
  <2>6. ASSUME running[c].sound PROVE WillDo(running[c].op, Todo(c), files)'
    <3>1. WillDo(running[c].op, Todo(c), files)
      BY <1>2, <2>6 DEF CommandInv
    <3>2. After(Files[kind], files', ToSet(rest)) = After(Files[kind], files, Todo(c))
      <4> HIDE DEF rest, f
      <4>1. /\ Doing(c).file \in Files[kind] /\ files'[Doing(c).file] = Doing(c).content
            /\ \A e \in Files[kind] : e # Doing(c).file => files'[e] = files[e]
        BY <1>1, <1>2 DEF f
      <4>2. ASSUME NEW g2, g2[Doing(c).file] = Doing(c).content,
                   \A e \in Files[kind] : e # Doing(c).file => g2[e] = files[e]
            PROVE  After(Files[kind], g2, ToSet(rest)) = After(Files[kind], files, Todo(c))
        <5>1. /\ Doing(c) \in Todo(c) /\ ToSet(rest) \in SUBSET Todo(c) /\ \A u \in Todo(c) : u = Doing(c) \/ u \in ToSet(rest)
              /\ Consistent(Todo(c)) /\ Doing(c).file \in Files[kind]
          BY <1>1, <4>1
        <5> QED BY <4>2, <5>1, AfterWrite
      <4> QED BY <4>1, <4>2
    <3>3. \A h \in Hostnames : Concerned(running[c].op, ToSet(rest), h) => Concerned(running[c].op, Todo(c), h)
      BY <2>5 DEF Concerned
    <3>4. WillDo(running[c].op, ToSet(rest), files')
      BY <3>1, <3>2, <3>3 DEF WillDo
    <3>5. WillDo(running'[c].op, ToSet(running'[c].todo), files')
      BY <2>2, <2>3, <3>4
    <3> QED BY <3>5, WillDoNext
  <2>7. CommandInv(c)'
    BY <1>2, <2>2, <2>3, <2>4, <2>5, <2>6 DEF CommandInv, Consistent
  <2> HIDE DEF f, rest
  <2>8. files' = [files EXCEPT ![f] = Doing(c).content]
    BY DEF f
  <2>9. \A d \in Commands : d # c /\ Busy(d) => Spares(f, d)
    BY DEF f
  <2>10. keys' \in Nat
    BY DEF Material, MaterialTypes
  <2> QED BY <1>1, <2>1, <2>2, <2>7, <2>8, <2>9, <2>10, PutKeeps
<1>4. CASE Len(running[c].todo) = 1
  <2> DEFINE r == [running[c] EXCEPT !.todo = <<>>, !.opened = FALSE, !.end = "ok"]
  <2>1. running' = [running EXCEPT ![c] = r]
    <3>1. ~(Len(running[c].todo) > 1)
      BY <1>4
    <3>2. running' = Ended(c, "ok")
      BY <3>1 DEF Advanced
    <3> QED BY <1>2, <3>2 DEF Ended
  <2>2. r \in Records /\ r.op = running[c].op /\ ~r.opened /\ r.todo = <<>>
    <3>1. <<>> \in Seq(Writes)
      OBVIOUS
    <3> QED BY <1>1, <3>1 DEF Records
  <2> HIDE DEF r
  <2>3. running'[c] = r
    BY <1>2, <2>1
  <2>4. ~Busy(c)' /\ Todo(c)' = {}
    BY <2>2, <2>3 DEF Busy, Todo, ToSet
  <2>5. CommandInv(c)'
    BY <2>2, <2>3, <2>4 DEF CommandInv, Consistent
  <2> HIDE DEF f, rest
  <2>8. files' = [files EXCEPT ![f] = Doing(c).content]
    BY DEF f
  <2>9. \A d \in Commands : d # c /\ Busy(d) => Spares(f, d)
    BY DEF f
  <2>10. keys' \in Nat
    BY DEF Material, MaterialTypes
  <2> QED BY <1>1, <2>1, <2>2, <2>5, <2>8, <2>9, <2>10, PutKeeps
<1>5. Len(running[c].todo) > 1 \/ Len(running[c].todo) = 1
  <2>1. \A n \in Nat \ {0} : n > 1 \/ n = 1
    OBVIOUS
  <2> QED BY <1>1, <2>1
<1> QED BY <1>3, <1>4, <1>5

\* A new file is created and still empty.
LEMMA CreateKeeps ==
  ASSUME Material, NEW c \in Commands, Busy(c), kind' = kind, keys' = keys, Doing(c).file[1] # "dir",
         files' = [files EXCEPT ![Doing(c).file] = Empty], running' = [running EXCEPT ![c].opened = TRUE],
         \A d \in Commands : d # c /\ Busy(d) => Spares(Doing(c).file, d)
  PROVE  Material'
<1> DEFINE f == Doing(c).file
           r == [running[c] EXCEPT !.opened = TRUE]
<1>1. Doing(c) \in Todo(c) /\ f \in Files[kind] /\ running[c] \in Records
  BY DoingFacts
<1>2. CommandInv(c) /\ DOMAIN files = Files[kind] /\ running \in [Commands -> Records]
  BY CommandFacts DEF Material, MaterialTypes, Records
<1>3. running' = [running EXCEPT ![c] = r]
  BY <1>2
<1>4. r \in Records /\ r.op = running[c].op /\ r.opened /\ r.todo = running[c].todo /\ r.end = running[c].end
      /\ r.sound = running[c].sound
  BY <1>1 DEF Records
<1> HIDE DEF r
<1>5. running'[c] = r /\ files'[f] = Empty
  BY <1>1, <1>2, <1>3
<1>6. Busy(c)' /\ Todo(c)' = Todo(c) /\ Doing(c)' = Doing(c)
  BY <1>4, <1>5 DEF Busy, Todo, Doing
<1>7. ASSUME running[c].sound PROVE WillDo(running[c].op, Todo(c), files)'
  <2>1. WillDo(running[c].op, Todo(c), files)
    BY <1>2, <1>7 DEF CommandInv
  <2>2. After(Files[kind], files', Todo(c)) = After(Files[kind], files, Todo(c))
    BY <1>1, AfterOpen
  <2>3. WillDo(running[c].op, Todo(c), files')
    BY <2>1, <2>2 DEF WillDo
  <2>4. WillDo(running'[c].op, ToSet(running'[c].todo), files')
    BY <1>4, <1>5, <2>3 DEF Todo
  <2> QED BY <2>4, WillDoNext
<1>8. CommandInv(c)'
  BY <1>2, <1>4, <1>5, <1>6, <1>7 DEF CommandInv
<1>9. Empty \in Contents /\ Head(r.todo).file = f
  BY <1>4 DEF Empty, Contents, Doing
<1> HIDE DEF f
<1>10. files' = [files EXCEPT ![f] = Empty] /\ \A d \in Commands : d # c /\ Busy(d) => Spares(f, d)
  BY DEF f
<1>11. keys' \in Nat
  BY DEF Material, MaterialTypes
<1> QED BY <1>1, <1>3, <1>4, <1>8, <1>9, <1>10, <1>11, PutKeeps

\* Every step of a command keeps the invariant: a fresh file is written over
\* nothing or over what the command itself created, and a file is replaced by
\* a command that runs alone.
LEMMA WriteKeeps ==
  ASSUME Material, NEW c \in Commands, WriteStep(c)
  PROVE  Material'
<1> DEFINE f == Doing(c).file
<1>1. Busy(c) /\ kind' = kind /\ keys' = keys
  BY DEF WriteStep
<1>2. Doing(c) \in Todo(c) /\ f \in Files[kind] /\ Doing(c).new = (running[c].op = "init") /\ CommandInv(c)
  BY <1>1, DoingFacts, CommandFacts DEF CommandInv
<1>3. ASSUME NEW d \in Commands, d # c, Busy(d)
      PROVE  /\ running[c].op = "init" /\ KeepApart(c, d)
             /\ running[d].opened => Doing(d).file[1] # "dir" /\ files[Doing(d).file] = Empty
  <2>1. KeepApart(c, d) /\ CommandInv(d)
    BY <1>3, CommandFacts DEF Material
  <2> QED BY <1>1, <1>3, <2>1 DEF KeepApart, CommandInv
<1>4. Empty # NoFile
  <2>1. Empty \in [key : Nat, issuer : Nat]
    BY DEF Empty
  <2> QED BY <2>1, MaterialAssumption
<1>5. CASE f[1] = "dir" /\ files' = [files EXCEPT ![f] = Doing(c).content] /\ running' = Advanced(c)
  <2>1. \A d \in Commands : d # c /\ Busy(d) => Spares(f, d)
    BY <1>3, <1>5 DEF Spares
  <2> QED BY <1>1, <1>5, <2>1, FillKeeps
<1>6. CASE /\ f[1] # "dir" /\ ~Exists(f) /\ files' = [files EXCEPT ![f] = Empty]
           /\ running' = [running EXCEPT ![c].opened = TRUE]
  <2>1. \A d \in Commands : d # c /\ Busy(d) => Spares(f, d)
    BY <1>3, <1>4, <1>6 DEF Spares, Sane, Exists
  <2> QED BY <1>1, <1>6, <2>1, CreateKeeps
<1>7. CASE running[c].opened /\ files' = [files EXCEPT ![f] = Doing(c).content] /\ running' = Advanced(c)
  <2>1. files[f] = Empty
    BY <1>2, <1>7 DEF CommandInv
  <2>2. \A d \in Commands : d # c /\ Busy(d) => Spares(f, d)
    BY <1>1, <1>3, <1>7, <2>1 DEF Spares, Sane, KeepApart
  <2> QED BY <1>1, <1>7, <2>2, FillKeeps
<1>8. CASE ~Doing(c).new /\ files' = [files EXCEPT ![f] = Doing(c).content] /\ running' = Advanced(c)
  <2>1. \A d \in Commands : d # c /\ Busy(d) => Spares(f, d)
    BY <1>2, <1>3, <1>8
  <2> QED BY <1>1, <1>8, <2>1, FillKeeps
<1>9. CASE running' = Ended(c, "failed") /\ UNCHANGED files
  BY <1>1, <1>9, EndedKeeps
<1> QED BY <1>5, <1>6, <1>7, <1>8, <1>9 DEF WriteStep, CanCreate, Doing

\* The writes of pairs of a file and its content
Plan(P, flag) == {[file |-> p[1], content |-> p[2], new |-> flag] : p \in P}
Pairs == Files[kind] \X Contents
\* The directory G is the present one with P carried out.
Planned(G, P) == /\ \A p \in P : G[p[1]] = p[2]
                 /\ \A f \in Files[kind] : (\A p \in P : p[1] # f) => G[f] = files[f]
Functional(P) == \A p, q \in P : p[1] = q[1] => p[2] = q[2]

\* The concatenation of lists is a list.
LEMMA FlattenType ==
  ASSUME NEW V, NEW s \in Seq(Seq(V))
  PROVE  FlattenSeq(s) \in Seq(V)
<1>1. CASE Len(s) = 0
  <2>1. s = <<>> /\ FlattenSeq(s) = s
    BY <1>1, EmptySeq DEF FlattenSeq
  <2>2. <<>> \in Seq(V)
    OBVIOUS
  <2> QED BY <2>1, <2>2
<1>2. CASE Len(s) # 0
  <2>1. PICK f \in [1..Len(s) -> Seq(V)] : FlattenSeq(s) = f[Len(s)]
    BY <1>2, FlattenOf
  <2>2. Len(s) \in 1..Len(s)
    BY <1>2
  <2>3. f[Len(s)] \in Seq(V)
    BY <2>2, Zenon
  <2> QED BY <2>1, <2>3, Zenon
<1> QED BY <1>1, <1>2

\* It has the members of all of them.
LEMMA FlattenUnion ==
  ASSUME NEW V, NEW s \in Seq(Seq(V))
  PROVE  ToSet(FlattenSeq(s)) = UNION {ToSet(s[i]) : i \in 1..Len(s)}
<1> DEFINE n == Len(s)
           U == UNION {ToSet(s[i]) : i \in 1..Len(s)}
<1>1. n \in Nat /\ \A i \in 1..n : s[i] \in Seq(V)
  OBVIOUS
<1>2. ASSUME n = 0 PROVE ToSet(FlattenSeq(s)) = U
  <2>1. s = <<>> /\ FlattenSeq(s) = s
    BY <1>2, EmptySeq DEF FlattenSeq
  <2>2. ToSet(s) = {} /\ {ToSet(s[i]) : i \in 1..Len(s)} = {}
    BY <1>2, <2>1 DEF ToSet
  <2> HIDE DEF n
  <2> QED BY <2>1, <2>2
<1>3. ASSUME n # 0 PROVE ToSet(FlattenSeq(s)) = U
  <2>1. PICK f \in [1..n -> Seq(V)] : Flattens(f, s, n) /\ FlattenSeq(s) = f[n]
    BY <1>1, <1>3, FlattenOf
  <2> DEFINE Good(k) == ToSet(f[k]) = UNION {ToSet(s[i]) : i \in 1..k}
             T == {k \in 1..n : ~Good(k)}
  <2>2. ASSUME T # {} PROVE FALSE
    <3>1. T \subseteq Nat
      BY <1>1
    <3>2. PICK k \in T : \A y \in T : ~(y < k)
      BY <2>2, <3>1, LeastNatural
    <3>3. k \in 1..n /\ ~Good(k) /\ k \in Nat
      <4> HIDE DEF Good
      <4> QED BY <1>1
    <3>4. CASE k = 1
      <4>1. f[1] = s[1]
        BY <2>1, <3>3, <3>4 DEF Flattens
      <4>2. 1..1 = {1}
        OBVIOUS
      <4> QED BY <3>3, <3>4, <4>1, <4>2
    <3>5. CASE k # 1
      <4>1. k - 1 \in 1..n /\ k - 1 < k /\ 1..k = 1..(k - 1) \cup {k}
        BY <1>1, <3>3, <3>5
      <4>2. Good(k - 1)
        BY <3>2, <4>1
      <4>3. f[k] = f[k - 1] \o s[k] /\ f[k - 1] \in Seq(V) /\ s[k] \in Seq(V)
        BY <1>1, <2>1, <3>3, <3>5, <4>1 DEF Flattens
      <4>4. ToSet(f[k]) = ToSet(f[k - 1]) \cup ToSet(s[k])
        BY <4>3, SetOfConcat
      <4>5. Good(k)
        BY <4>1, <4>2, <4>4
      <4> QED BY <3>3, <4>5
    <3> QED BY <3>4, <3>5
  <2>3. Good(n)
    <3>1. n \in 1..n
      BY <1>1, <1>3
    <3> HIDE DEF Good, n
    <3> QED BY <2>2, <3>1
  <2> QED BY <2>1, <2>3
<1> HIDE DEF U, n
<1>4. ToSet(FlattenSeq(s)) = U
  BY <1>2, <1>3
<1> QED BY <1>4 DEF U

\* The members of a list written out.
LEMMA TupleSets ==
  /\ \A a : ToSet(<<a>>) = {a}
  /\ \A a, b : ToSet(<<a, b>>) = {a, b}
  /\ \A a, b, c : ToSet(<<a, b, c>>) = {a, b, c}
  /\ \A a, b, c, d, e : ToSet(<<a, b, c, d, e>>) = {a, b, c, d, e}
<1>1. 1..1 = {1} /\ 1..2 = {1, 2} /\ 1..3 = {1, 2, 3} /\ 1..5 = {1, 2, 3, 4, 5}
  OBVIOUS
<1>2. \A a : ToSet(<<a>>) = {a}
  BY <1>1 DEF ToSet
<1>3. \A a, b : ToSet(<<a, b>>) = {a, b}
  BY <1>1 DEF ToSet
<1>4. \A a, b, c : ToSet(<<a, b, c>>) = {a, b, c}
  BY <1>1 DEF ToSet
<1>5. \A a, b, c, d, e : ToSet(<<a, b, c, d, e>>) = {a, b, c, d, e}
  BY <1>1 DEF ToSet
<1> QED BY <1>2, <1>3, <1>4, <1>5

\* The writes of a list of files and contents.
LEMMA ListPlan ==
  ASSUME NEW list \in Seq(Pairs)
  PROVE  /\ News(list) \in Seq(Writes) /\ ToSet(News(list)) = Plan(ToSet(list), TRUE)
         /\ Replaces(list) \in Seq(Writes) /\ ToSet(Replaces(list)) = Plan(ToSet(list), FALSE)
<1> DEFINE W(flag) == [i \in DOMAIN list |-> [file |-> list[i][1], content |-> list[i][2], new |-> flag]]
<1>1. DOMAIN list = 1..Len(list) /\ Len(list) \in Nat
  OBVIOUS
<1>2. ASSUME NEW flag \in BOOLEAN PROVE W(flag) \in Seq(Writes) /\ ToSet(W(flag)) = Plan(ToSet(list), flag)
  <2>1. \A i \in 1..Len(list) : [file |-> list[i][1], content |-> list[i][2], new |-> flag] \in Writes
    <3>1. \A i \in 1..Len(list) : list[i] \in Pairs
      OBVIOUS
    <3>2. \A p \in Pairs : [file |-> p[1], content |-> p[2], new |-> flag] \in Writes
      BY DEF Pairs, Writes
    <3> QED BY <3>1, <3>2
  <2>2. W(flag) \in [1..Len(list) -> Writes]
    BY <1>1, <2>1
  <2>3. W(flag) \in Seq(Writes)
    BY <1>1, <2>2, SeqDef
  <2> QED BY <1>1, <2>3 DEF ToSet, Plan
<1>3. News(list) = W(TRUE) /\ Replaces(list) = W(FALSE)
  BY DEF News, Replaces, Fresh, Replace
<1> HIDE DEF W
<1> QED BY <1>2, <1>3

\* Where a plan is carried out, its files hold its contents and the others
\* what they held.
LEMMA PlanAfter ==
  ASSUME NEW P \in SUBSET Pairs, NEW flag, Functional(P)
  PROVE  Planned(After(Files[kind], files, Plan(P, flag)), P) /\ Consistent(Plan(P, flag))
<1> DEFINE T == Plan(P, flag)
<1>1. \A w \in T : \E p \in P : w = [file |-> p[1], content |-> p[2], new |-> flag]
  BY DEF Plan
<1>2. ASSUME NEW p \in P PROVE \E w \in T : w.file = p[1] /\ w.content = p[2]
  <2> DEFINE u == [file |-> p[1], content |-> p[2], new |-> flag]
  <2>1. u \in T /\ u.file = p[1] /\ u.content = p[2]
    BY DEF Plan
  <2> HIDE DEF u, T
  <2> QED BY <2>1
<1>3. \A w \in T : \E p \in P : w.file = p[1] /\ w.content = p[2]
  BY <1>1
<1>4. \A p \in P : p[1] \in Files[kind]
  BY DEF Pairs
<1> HIDE DEF T
<1>5. Consistent(T)
  BY <1>3 DEF Consistent, Functional
<1>6. ASSUME NEW p \in P PROVE After(Files[kind], files, T)[p[1]] = p[2]
  <2>1. PICK w \in T : w.file = p[1] /\ w.content = p[2]
    BY <1>2
  <2> QED BY <1>4, <1>5, <2>1, AfterPending
<1>7. ASSUME NEW f \in Files[kind], \A p \in P : p[1] # f PROVE After(Files[kind], files, T)[f] = files[f]
  <2>1. \A w \in T : w.file # f
    BY <1>3, <1>7
  <2> QED BY <2>1, AfterSettled
<1>8. Planned(After(Files[kind], files, T), P)
  BY <1>6, <1>7 DEF Planned
<1> QED BY <1>5, <1>8 DEF T

\* A command that begins with a plan that leads to usable material.
LEMMA PlanKeeps ==
  ASSUME Material, NEW c \in Commands, NEW op \in {"init", "renew", "rotate"}, NEW todo \in Seq(Writes),
         NEW P \in SUBSET Pairs, ToSet(todo) = Plan(P, op = "init"), Functional(P),
         NEW spent \in Nat, NEW sound \in BOOLEAN, Begin(c, op, todo, spent, sound), Idle(c, kind, op),
         \A G : Planned(G, P) /\ sound =>
           \A h \in Hostnames : (kind # "public" \/ op = "rotate" \/ \E p \in P : p[1][2] = h) => UsableIn(G, h)
  PROVE  Material'
<1> DEFINE T == Plan(P, op = "init")
<1>1. \A w \in T : w.new = (op = "init") /\ \E p \in P : w.file = p[1]
  BY DEF Plan
<1>2. Planned(After(Files[kind], files, T), P) /\ Consistent(T)
  BY PlanAfter
<1> HIDE DEF T
<1>3. ToSet(todo) = T
  BY DEF T
<1>4. \A h \in Hostnames : Concerned(op, T, h) => kind # "public" \/ op = "rotate" \/ \E p \in P : p[1][2] = h
  BY <1>1 DEF Concerned
<1>5. sound => WillDo(op, T, files)
  BY <1>2, <1>4 DEF WillDo
<1>6. /\ \A w \in ToSet(todo) : w.new = (op = "init")
      /\ Consistent(ToSet(todo)) /\ (sound => WillDo(op, ToSet(todo), files))
  BY <1>1, <1>2, <1>3, <1>5
<1> QED BY <1>6, BeginKeeps

\* What is written to a file parses.
LEMMA ContentFacts ==
  ASSUME NEW k \in Nat, NEW n \in Nat
  PROVE  /\ Key(k) \in Contents /\ Leaf(k, n) \in Contents
         /\ Key(k).key = k /\ Leaf(k, n).key = k /\ Leaf(k, n).issuer = n
         /\ k # 0 => Key(k) # Empty /\ Leaf(k, n) # Empty
         /\ Key(k) # NoFile /\ Leaf(k, n) # NoFile
<1>1. Key(k) \in Contents /\ Leaf(k, n) \in Contents
  BY DEF Key, Leaf, Contents
<1>2. Key(k).key = k /\ Leaf(k, n).key = k /\ Leaf(k, n).issuer = n /\ Empty.key = 0
  BY DEF Key, Leaf, Empty
<1>3. NoFile \notin Contents
  BY MaterialAssumption DEF Contents
<1> QED BY <1>1, <1>2, <1>3

\* Files are told apart by their part.
LEMMA FileNames ==
  /\ \A a, b : File(a) = File(b) => a = b
  /\ \A a, b, h : h # "" => File(a) # <<b, h>>
BY DEF File

\* The three files of a new identity make an identity that loads
\* (rotate_client_identity, load_client_identity_material).
LEMMA IdentityPlan ==
  ASSUME kind = "identity", NEW k \in Nat \ {0}
  PROVE  /\ IdentityFiles(k) \in Seq(Pairs) /\ DOMAIN IdentityFiles(k) = 1..3
         /\ Functional(ToSet(IdentityFiles(k)))
         /\ \A G : Planned(G, ToSet(IdentityFiles(k))) => \A h \in Hostnames : UsableIn(G, h)
<1> DEFINE P == {<<File("key"), Key(k)>>, <<File("crt"), Leaf(k, k)>>, <<File("id"), Key(k)>>}
<1>1. /\ Key(k) \in Contents /\ Leaf(k, k) \in Contents
      /\ Key(k).key = k /\ Leaf(k, k).key = k
      /\ Key(k) # Empty /\ Leaf(k, k) # Empty /\ Key(k) # NoFile /\ Leaf(k, k) # NoFile
  BY ContentFacts
<1>2. ToSet(IdentityFiles(k)) = P /\ DOMAIN IdentityFiles(k) = 1..3
  BY TupleSets DEF IdentityFiles
<1>3. P \subseteq Pairs
  <2>1. File("key") \in Files[kind] /\ File("crt") \in Files[kind] /\ File("id") \in Files[kind]
    BY FilesOf
  <2> QED BY <1>1, <2>1 DEF Pairs
<1>4. IdentityFiles(k) \in Seq(Pairs)
  BY <1>3 DEF IdentityFiles
<1>5. Functional(P)
  <2>1. File("key") # File("crt") /\ File("key") # File("id") /\ File("crt") # File("id")
    BY FileNames
  <2> QED BY <2>1 DEF Functional
<1>6. ASSUME NEW G, Planned(G, P), NEW h \in Hostnames PROVE UsableIn(G, h)
  <2>1. G[File("key")] = Key(k) /\ G[File("crt")] = Leaf(k, k) /\ G[File("id")] = Key(k)
    BY <1>6 DEF Planned
  <2> QED BY <1>1, <2>1 DEF UsableIn, MatchesIn, Sane
<1> QED BY <1>2, <1>4, <1>5, <1>6

\* The five files of a new CA and its leaf make material that loads and can
\* be renewed, with the directory to be created or not.
LEMMA ServerPlan ==
  ASSUME kind = "server", NEW k \in Nat \ {0}, NEW D \in SUBSET {<<File("dir"), Key(1)>>}
  PROVE  /\ ServerFiles(k) \in Seq(Pairs) /\ DOMAIN ServerFiles(k) = 1..5
         /\ Functional(D \cup ToSet(ServerFiles(k)))
         /\ \A G : Planned(G, D \cup ToSet(ServerFiles(k))) => \A h \in Hostnames : UsableIn(G, h)
<1> DEFINE P == {<<File("crt"), Leaf(k + 1, k)>>, <<File("key"), Key(k + 1)>>, <<File("ca"), Key(k)>>,
                 <<File("ca-key"), Key(k)>>, <<File("hostname"), Key(1)>>}
<1>1. /\ Key(k) \in Contents /\ Leaf(k + 1, k) \in Contents /\ Key(k + 1) \in Contents /\ Key(1) \in Contents
      /\ Key(k).key = k /\ Leaf(k + 1, k).key = k + 1 /\ Leaf(k + 1, k).issuer = k /\ Key(k + 1).key = k + 1
      /\ Key(k) # Empty /\ Leaf(k + 1, k) # Empty /\ Key(k) # NoFile /\ Leaf(k + 1, k) # NoFile
      /\ Key(k + 1) # Empty /\ Key(k + 1) # NoFile
  <2>1. k + 1 \in Nat /\ k + 1 # 0 /\ 1 \in Nat
    OBVIOUS
  <2> QED BY <2>1, ContentFacts
<1>2. ToSet(ServerFiles(k)) = P /\ DOMAIN ServerFiles(k) = 1..5
  BY TupleSets DEF ServerFiles
<1>3. P \subseteq Pairs
  <2>1. \A part \in {"key", "crt", "ca", "ca-key", "hostname", "dir"} : File(part) \in Files[kind]
    BY FilesOf
  <2> QED BY <1>1, <2>1 DEF Pairs
<1>4. ServerFiles(k) \in Seq(Pairs)
  BY <1>3 DEF ServerFiles
<1>5. Functional(D \cup P)
  <2> DEFINE part == [dir |-> Key(1), crt |-> Leaf(k + 1, k), key |-> Key(k + 1), ca |-> Key(k),
                      hostname |-> Key(1)]
             Of(a) == IF a = "ca-key" THEN Key(k) ELSE part[a]
  <2>1. \A p \in D \cup P : \E a : p[1] = File(a) /\ p[2] = Of(a)
    <3>1. \A p \in D : p[1] = File("dir") /\ p[2] = Of("dir")
      OBVIOUS
    <3>2. \A p \in P : \E a : p[1] = File(a) /\ p[2] = Of(a)
      OBVIOUS
    <3> QED BY <3>1, <3>2
  <2> HIDE DEF Of, P
  <2>2. ASSUME NEW p \in D \cup P, NEW q \in D \cup P, p[1] = q[1] PROVE p[2] = q[2]
    <3>1. PICK a : p[1] = File(a) /\ p[2] = Of(a)
      BY <2>1
    <3>2. PICK b : q[1] = File(b) /\ q[2] = Of(b)
      BY <2>1
    <3>3. a = b
      BY <2>2, <3>1, <3>2, FileNames
    <3> QED BY <3>1, <3>2, <3>3
  <2> QED BY <2>2 DEF Functional
<1>6. ASSUME NEW G, Planned(G, D \cup P), NEW h \in Hostnames PROVE UsableIn(G, h)
  <2>1. G[File("key")] = Key(k + 1) /\ G[File("crt")] = Leaf(k + 1, k) /\ G[File("ca")] = Key(k) /\ G[File("ca-key")] = Key(k)
    <3>1. \A p \in P : G[p[1]] = p[2]
      BY <1>6 DEF Planned
    <3> QED BY <3>1
  <2> QED BY <1>1, <2>1 DEF UsableIn, MatchesIn, WholeIn, Sane
<1> QED BY <1>2, <1>4, <1>5, <1>6

\* client identity init and rotate.
LEMMA IdentityKeeps ==
  ASSUME Material, NEW c \in Commands, IdentityInit(c) \/ IdentityRotate(c)
  PROVE  Material'
<1> DEFINE list == IdentityFiles(keys + 1)
           P == ToSet(list)
<1>1. kind = "identity" /\ keys + 1 \in Nat \ {0} /\ 1 \in Nat
  <2>1. kind = "identity" /\ keys \in Nat
    BY DEF Material, MaterialTypes, IdentityInit, IdentityRotate, Idle
  <2> QED BY <2>1
<1>2. /\ list \in Seq(Pairs) /\ DOMAIN list = 1..3 /\ Functional(P)
      /\ \A G : Planned(G, P) => \A h \in Hostnames : UsableIn(G, h)
  BY <1>1, IdentityPlan
<1>3. P \in SUBSET Pairs
  BY <1>2, SetOfSequence
<1>4. /\ News(list) \in Seq(Writes) /\ ToSet(News(list)) = Plan(P, TRUE)
      /\ Replaces(list) \in Seq(Writes) /\ ToSet(Replaces(list)) = Plan(P, FALSE)
  BY <1>2, ListPlan
<1>5. CASE Idle(c, kind, "init") /\ Begin(c, "init", News(list), 1, TRUE)
  <2>1. ("init" = "init") = TRUE
    OBVIOUS
  <2> HIDE DEF list, P
  <2> QED BY <1>1, <1>2, <1>3, <1>4, <1>5, <2>1, PlanKeeps
<1>6. CASE Idle(c, kind, "rotate") /\ Begin(c, "rotate", Replaces(list), 1, TRUE)
  <2>1. ("rotate" = "init") = FALSE
    OBVIOUS
  <2> HIDE DEF list, P
  <2> QED BY <1>1, <1>2, <1>3, <1>4, <1>6, <2>1, PlanKeeps
<1>7. CASE \E op \in {"init", "rotate"}, end \in {"ok", "failed"} : Answer(c, op, end)
  BY <1>7, AnswerKeeps
<1>8. /\ News(list) = [i \in 1..3 |-> Fresh(list[i][1], list[i][2])]
      /\ Replaces(list) = [i \in 1..3 |-> Replace(list[i][1], list[i][2])]
  BY <1>2 DEF News, Replaces
<1>9. CASE IdentityInit(c)
  BY <1>1, <1>5, <1>7, <1>8, <1>9 DEF IdentityInit
<1>10. CASE IdentityRotate(c)
  BY <1>1, <1>6, <1>7, <1>8, <1>10 DEF IdentityRotate
<1> QED BY <1>9, <1>10

\* A list of new files, after their directory.
LEMMA DirPlan ==
  ASSUME NEW list \in Seq(Pairs), NEW f \in Files[kind]
  PROVE  /\ <<Fresh(f, Key(1))>> \o News(list) \in Seq(Writes)
         /\ ToSet(<<Fresh(f, Key(1))>> \o News(list)) = Plan({<<f, Key(1)>>} \cup ToSet(list), TRUE)
<1>1. News(list) \in Seq(Writes) /\ ToSet(News(list)) = Plan(ToSet(list), TRUE)
  BY ListPlan
<1>2. Key(1) \in Contents
  BY ContentFacts
<1>3. Fresh(f, Key(1)) \in Writes
  BY <1>2 DEF Fresh, Writes
<1>4. <<Fresh(f, Key(1))>> \in Seq(Writes) /\ ToSet(<<Fresh(f, Key(1))>>) = {Fresh(f, Key(1))}
  BY <1>3, TupleSets
<1>5. /\ <<Fresh(f, Key(1))>> \o News(list) \in Seq(Writes)
      /\ ToSet(<<Fresh(f, Key(1))>> \o News(list)) = {Fresh(f, Key(1))} \cup Plan(ToSet(list), TRUE)
  <2>1. ASSUME NEW s \in Seq(Writes), NEW t \in Seq(Writes)
        PROVE  s \o t \in Seq(Writes) /\ ToSet(s \o t) = ToSet(s) \cup ToSet(t)
    BY SetOfConcat
  <2> QED BY <1>1, <1>4, <2>1
<1>6. Plan({<<f, Key(1)>>} \cup ToSet(list), TRUE) = {Fresh(f, Key(1))} \cup Plan(ToSet(list), TRUE)
  <2>1. Plan({<<f, Key(1)>>} \cup ToSet(list), TRUE) = Plan({<<f, Key(1)>>}, TRUE) \cup Plan(ToSet(list), TRUE)
    BY DEF Plan
  <2>2. \A x, y : Plan({<<x, y>>}, TRUE) = {Fresh(x, y)}
    BY DEF Plan, Fresh
  <2> QED BY <2>1, <2>2
<1> QED BY <1>5, <1>6

\* What two files written, maybe after a directory, make of the others
TwoWritten(list, D, f1, x, f2, y, f3) ==
  /\ list \in Seq(Pairs) /\ DOMAIN list = 1..2
  /\ Functional(D \cup ToSet(list)) /\ D \cup ToSet(list) \in SUBSET Pairs
  /\ \A p \in D \cup ToSet(list) : p[1] \in {f1, f2, f3}
  /\ \A G : Planned(G, D \cup ToSet(list)) =>
       G[f1] = x /\ G[f2] = y /\ \A f \in Files[kind] \ {f1, f2, f3} : G[f] = files[f]
FileList(f, x, g, y) == <<<<f, x>>, <<g, y>>>>

\* A leaf and its key written into two files.
LEMMA TwoFiles ==
  ASSUME NEW f1 \in Files[kind], NEW f2 \in Files[kind], NEW f3 \in Files[kind], f1 # f2, f1 # f3, f2 # f3,
         NEW x \in Contents, NEW y \in Contents,
         NEW D \in SUBSET Pairs, Functional(D), \A p \in D : p[1] = f3
  PROVE  TwoWritten(FileList(f1, x, f2, y), D, f1, x, f2, y, f3)
<1> DEFINE list == FileList(f1, x, f2, y)
           P == {<<f1, x>>, <<f2, y>>}
<1>1. ToSet(list) = P /\ DOMAIN list = 1..2
  BY TupleSets DEF FileList
<1>2. <<f1, x>> \in Pairs /\ <<f2, y>> \in Pairs
  BY DEF Pairs
<1>3. list \in Seq(Pairs)
  BY <1>2 DEF FileList
<1>4. D \cup P \in SUBSET Pairs
  BY <1>2
<1>5. Functional(D \cup P)
  BY DEF Functional
<1>6. \A p \in D \cup P : p[1] \in {f1, f2, f3}
  OBVIOUS
<1>7. ASSUME NEW G, Planned(G, D \cup P)
      PROVE  G[f1] = x /\ G[f2] = y /\ \A f \in Files[kind] \ {f1, f2, f3} : G[f] = files[f]
  <2>1. \A p \in P : G[p[1]] = p[2]
    BY <1>7 DEF Planned
  <2>2. \A f \in Files[kind] \ {f1, f2, f3} : \A p \in D \cup P : p[1] # f
    BY <1>6
  <2>3. \A f \in Files[kind] \ {f1, f2, f3} : G[f] = files[f]
    <3> HIDE DEF P
    <3> QED BY <1>7, <2>2 DEF Planned
  <2> QED BY <2>1, <2>3
<1> HIDE DEF P
<1>8. TwoWritten(list, D, f1, x, f2, y, f3)
  <2> HIDE DEF list
  <2> QED BY <1>1, <1>3, <1>4, <1>5, <1>6, <1>7 DEF TwoWritten
<1> QED BY <1>8

\* What a leaf written beside a whole CA is good for
LeafWritten(list, D, h, n) ==
  /\ list \in Seq(Pairs) /\ DOMAIN list = 1..2
  /\ Functional(D \cup ToSet(list)) /\ D \cup ToSet(list) \in SUBSET Pairs
  /\ \A p \in D \cup ToSet(list) : p[1][2] = h
  /\ \A G : Planned(G, D \cup ToSet(list)) /\ AuthorityWhole /\ n = files[File("ca-key")].key =>
       \A e \in Hostnames : kind # "public" \/ e = h => UsableIn(G, e)
\* A leaf issued by a whole CA is usable beside it.
LEMMA LeafPlan ==
  ASSUME Material, NEW h, (kind = "server" /\ h = "") \/ (kind = "public" /\ h \in Hostnames),
         NEW k \in Nat \ {0}, NEW n \in Nat, 
         NEW D \in SUBSET Pairs, Functional(D), \A p \in D : p[1] = <<"dir", h>>
  PROVE  LeafWritten(LeafFiles(h, k, n), D, h, n)
<1> DEFINE list == LeafFiles(h, k, n)
           f1 == <<"crt", h>>
           f2 == <<"key", h>>
           f3 == <<"dir", h>>
<1>1. /\ Key(k) \in Contents /\ Leaf(k, n) \in Contents /\ Key(1) \in Contents
      /\ Key(k).key = k /\ Leaf(k, n).key = k /\ Leaf(k, n).issuer = n
      /\ Key(k) # Empty /\ Leaf(k, n) # Empty /\ Key(k) # NoFile /\ Leaf(k, n) # NoFile
  BY ContentFacts
<1>2. list = FileList(f1, Leaf(k, n), f2, Key(k)) /\ \A p \in D : p[1] = f3
  BY DEF LeafFiles, FileList
<1>3. /\ f1 \in Files[kind] /\ f2 \in Files[kind] /\ f3 \in Files[kind]
      /\ File("ca") \in Files[kind] /\ File("ca-key") \in Files[kind]
  <2>1. CASE kind = "server" /\ h = ""
    <3>1. File("crt") = f1 /\ File("key") = f2 /\ File("dir") = f3
      BY <2>1 DEF File
    <3> QED BY <2>1, <3>1, FilesOf
  <2>2. CASE kind = "public" /\ h \in Hostnames
    BY <2>2, FilesOf
  <2> QED BY <2>1, <2>2
<1>4. f1 # f2 /\ f1 # f3 /\ f2 # f3 /\ \A f \in {f1, f2, f3} : f # File("ca") /\ f # File("ca-key") /\ f[2] = h
  <2>1. f1 # f2 /\ f1 # f3 /\ f2 # f3 /\ f1[2] = h /\ f2[2] = h /\ f3[2] = h
    OBVIOUS
  <2>2. /\ f1 # File("ca") /\ f2 # File("ca") /\ f3 # File("ca")
        /\ f1 # File("ca-key") /\ f2 # File("ca-key") /\ f3 # File("ca-key")
    BY DEF File
  <2> HIDE DEF f1, f2, f3
  <2> QED BY <2>1, <2>2
<1>5. /\ kind = "server" => File("crt") = f1 /\ File("key") = f2
      /\ kind = "public" => h \in Hostnames
  BY MaterialAssumption DEF File
<1>6. kind = "public" => f1 = <<"crt", h>> /\ f2 = <<"key", h>>
  OBVIOUS
<1>7. kind \in {"server", "public"}
  OBVIOUS
<1> HIDE DEF f1, f2, f3, list
<1>8. /\ list \in Seq(Pairs) /\ DOMAIN list = 1..2
      /\ Functional(D \cup ToSet(list)) /\ D \cup ToSet(list) \in SUBSET Pairs
      /\ \A p \in D \cup ToSet(list) : p[1] \in {f1, f2, f3}
      /\ \A G : Planned(G, D \cup ToSet(list)) =>
           G[f1] = Leaf(k, n) /\ G[f2] = Key(k) /\ \A f \in Files[kind] \ {f1, f2, f3} : G[f] = files[f]
  <2>1. /\ Leaf(k, n) \in Contents /\ Key(k) \in Contents /\ Key(1) \in Contents
        /\ f1 \in Files[kind] /\ f2 \in Files[kind] /\ f3 \in Files[kind] /\ f1 # f2 /\ f1 # f3 /\ f2 # f3
    BY <1>1, <1>3, <1>4
  <2>2. TwoWritten(list, D, f1, Leaf(k, n), f2, Key(k), f3)
    BY <1>2, <2>1, TwoFiles
  <2> QED BY <2>2 DEF TwoWritten
<1>9. ASSUME NEW G, Planned(G, D \cup ToSet(list)), AuthorityWhole, n = files[File("ca-key")].key,
             NEW e \in Hostnames, kind # "public" \/ e = h
      PROVE  UsableIn(G, e)
  <2>1. G[f1] = Leaf(k, n) /\ G[f2] = Key(k)
    BY <1>8, <1>9
  <2>2. G[File("ca")] = files[File("ca")] /\ G[File("ca-key")] = files[File("ca-key")]
    <3>1. File("ca") \in Files[kind] \ {f1, f2, f3} /\ File("ca-key") \in Files[kind] \ {f1, f2, f3}
      BY <1>3, <1>4
    <3> QED BY <1>8, <1>9, <3>1
  <2>3. /\ files[File("ca")] # NoFile /\ files[File("ca")] # Empty
        /\ files[File("ca-key")] # NoFile /\ files[File("ca-key")] # Empty
        /\ files[File("ca")].key = files[File("ca-key")].key
    BY <1>9 DEF AuthorityWhole, Parses, Exists
  <2>4. CASE kind = "server"
    BY <1>1, <1>5, <1>9, <2>1, <2>2, <2>3, <2>4 DEF UsableIn, MatchesIn, WholeIn, Sane
  <2>5. CASE kind = "public"
    <3>1. e = h
      BY <1>9, <2>5
    <3>2. G[<<"crt", e>>] = Leaf(k, n) /\ G[<<"key", e>>] = Key(k)
      BY <1>6, <2>1, <2>5, <3>1
    <3> QED BY <1>1, <1>9, <2>2, <2>3, <2>5, <3>2 DEF UsableIn, MatchesIn, WholeIn, Sane
  <2> QED BY <1>7, <2>4, <2>5
<1>10. \A p \in D \cup ToSet(list) : p[1][2] = h
  BY <1>4, <1>8
<1>11. LeafWritten(list, D, h, n)
  BY <1>8, <1>9, <1>10 DEF LeafWritten
<1> QED BY <1>11 DEF list

\* server cert init and rotate-ca.
LEMMA ServerKeeps ==
  ASSUME Material, NEW c \in Commands, ServerCertInit(c) \/ ServerCertRotate(c)
  PROVE  Material'
<1> DEFINE list == ServerFiles(keys + 1)
           D == {<<File("dir"), Key(1)>>}
           P == ToSet(list)
<1>1. kind = "server" /\ keys + 1 \in Nat \ {0} /\ 2 \in Nat /\ File("dir") \in Files[kind]
  <2>1. kind = "server" /\ keys \in Nat
    BY DEF Material, MaterialTypes, ServerCertInit, ServerCertRotate, Idle
  <2>2. File("dir") \in Files[kind]
    BY <2>1, FilesOf
  <2> QED BY <2>1, <2>2
<1>2. /\ list \in Seq(Pairs) /\ DOMAIN list = 1..5 /\ Functional(P) /\ Functional(D \cup P)
      /\ \A G : Planned(G, P) => \A h \in Hostnames : UsableIn(G, h)
      /\ \A G : Planned(G, D \cup P) => \A h \in Hostnames : UsableIn(G, h)
  <2>1. D \in SUBSET D /\ {} \in SUBSET D /\ {} \cup P = P
    OBVIOUS
  <2> HIDE DEF P
  <2>2. ASSUME NEW E \in SUBSET D
        PROVE  /\ list \in Seq(Pairs) /\ DOMAIN list = 1..5 /\ Functional(E \cup P)
               /\ \A G : Planned(G, E \cup P) => \A h \in Hostnames : UsableIn(G, h)
    BY <1>1, ServerPlan DEF P
  <2>3. Functional(D \cup P) /\ \A G : Planned(G, D \cup P) => \A h \in Hostnames : UsableIn(G, h)
    BY <2>1, <2>2
  <2>4. Functional({} \cup P) /\ \A G : Planned(G, {} \cup P) => \A h \in Hostnames : UsableIn(G, h)
    BY <2>1, <2>2
  <2> QED BY <2>1, <2>2, <2>3, <2>4
<1>3. P \in SUBSET Pairs /\ D \cup P \in SUBSET Pairs
  <2>1. P \in SUBSET Pairs
    BY <1>2, SetOfSequence
  <2>2. Key(1) \in Contents
    BY ContentFacts
  <2> QED BY <1>1, <2>1, <2>2 DEF Pairs
<1>4. /\ <<Fresh(File("dir"), Key(1))>> \o News(list) \in Seq(Writes)
      /\ ToSet(<<Fresh(File("dir"), Key(1))>> \o News(list)) = Plan(D \cup P, TRUE)
      /\ Replaces(list) \in Seq(Writes) /\ ToSet(Replaces(list)) = Plan(P, FALSE)
  BY <1>1, <1>2, ListPlan, DirPlan
<1>5. CASE Idle(c, kind, "init") /\ Begin(c, "init", <<Fresh(File("dir"), Key(1))>> \o News(list), 2, TRUE)
  <2>1. ("init" = "init") = TRUE
    OBVIOUS
  <2> HIDE DEF list, P, D
  <2> QED BY <1>1, <1>2, <1>3, <1>4, <1>5, <2>1, PlanKeeps
<1>6. CASE Idle(c, kind, "rotate") /\ Begin(c, "rotate", Replaces(list), 2, TRUE)
  <2>1. ("rotate" = "init") = FALSE
    OBVIOUS
  <2> HIDE DEF list, P
  <2> QED BY <1>1, <1>2, <1>3, <1>4, <1>6, <2>1, PlanKeeps
<1>7. CASE \E end \in {"ok", "failed"} : Answer(c, "init", end)
  BY <1>7, AnswerKeeps
<1>8. /\ News(list) = [i \in 1..5 |-> Fresh(list[i][1], list[i][2])]
      /\ Replaces(list) = [i \in 1..5 |-> Replace(list[i][1], list[i][2])]
  BY <1>2 DEF News, Replaces
<1>9. CASE ServerCertInit(c)
  <2> HIDE DEF P, D
  <2>1. /\ Idle(c, kind, "init")
        /\ \/ \E end \in {"ok", "failed"} : Answer(c, "init", end)
           \/ Begin(c, "init", <<Fresh(File("dir"), Key(1))>> \o [i \in 1..5 |-> Fresh(list[i][1], list[i][2])], 2, TRUE)
    BY <1>1, <1>9 DEF ServerCertInit
  <2> HIDE DEF list
  <2> QED BY <1>5, <1>7, <1>8, <2>1
<1>10. CASE ServerCertRotate(c)
  BY <1>1, <1>6, <1>8, <1>10 DEF ServerCertRotate
<1> QED BY <1>9, <1>10

\* server cert renew.
LEMMA ServerRenewKeeps ==
  ASSUME Material, NEW c \in Commands, ServerCertRenew(c)
  PROVE  Material'
<1> DEFINE n == IF Parses(File("hostname")) THEN files[File("ca-key")].key ELSE 0
           list == LeafFiles("", keys + 1, n)
           P == ToSet(list)
           sound == AuthorityWhole /\ Parses(File("hostname"))
<1>1. kind = "server" /\ keys + 1 \in Nat \ {0} /\ 1 \in Nat /\ Idle(c, kind, "renew")
  <2>1. kind = "server" /\ keys \in Nat /\ Idle(c, kind, "renew")
    BY DEF Material, MaterialTypes, ServerCertRenew, Idle
  <2> QED BY <2>1
<1>2. CASE Answer(c, "renew", "failed")
  BY <1>2, AnswerKeeps
<1>3. CASE Parses(File("ca-key")) /\ Begin(c, "renew", Replaces(list), 1, sound)
  <2>1. n \in Nat
    <3>1. files[File("ca-key")] \in Contents
      <4>1. File("ca-key") \in Files[kind]
        BY <1>1, FilesOf
      <4> QED BY <1>3, <4>1 DEF Material, MaterialTypes, Parses, Exists
    <3> QED BY <3>1 DEF Contents
  <2>2. LeafWritten(list, {}, "", n)
    <3> HIDE DEF n
    <3>1. {} \in SUBSET Pairs /\ Functional({}) /\ \A p \in {} : p[1] = <<"dir", "">>
      BY DEF Functional
    <3> QED BY <1>1, <2>1, <3>1, LeafPlan
  <2>3. {} \cup P = P /\ (sound => AuthorityWhole /\ n = files[File("ca-key")].key) /\ sound \in BOOLEAN
    BY DEF AuthorityWhole, Parses
  <2>4. Replaces(list) \in Seq(Writes) /\ ToSet(Replaces(list)) = Plan(P, FALSE) /\ ("renew" = "init") = FALSE
    BY <2>2, ListPlan DEF LeafWritten
  <2> HIDE DEF n, list, sound
  <2>5. \A G : Planned(G, P) /\ sound => \A h \in Hostnames : UsableIn(G, h)
    BY <1>1, <2>2, <2>3 DEF LeafWritten
  <2>6. P \in SUBSET Pairs /\ Functional(P)
    BY <2>2, <2>3 DEF LeafWritten
  <2> HIDE DEF P
  <2> QED BY <1>1, <1>3, <2>3, <2>4, <2>5, <2>6, PlanKeeps
<1>4. <<Replace(File("crt"), Leaf(keys + 1, n)), Replace(File("key"), Key(keys + 1))>> = Replaces(list)
  <2>1. \A f, x, g, y : Replaces(<<<<f, x>>, <<g, y>>>>) = <<Replace(f, x), Replace(g, y)>>
    BY DEF Replaces
  <2>2. list = <<<<File("crt"), Leaf(keys + 1, n)>>, <<File("key"), Key(keys + 1)>>>>
    BY DEF LeafFiles, File
  <2> HIDE DEF n, list
  <2> QED BY <2>1, <2>2
<1> QED BY <1>1, <1>2, <1>3, <1>4 DEF ServerCertRenew

\* A plan with a new CA, number k, and leaves of it numbered m
Authority(P, k) ==
  /\ \E p \in P : p[1] = File("ca") /\ p[2] = Key(k)
  /\ \E p \in P : p[1] = File("ca-key") /\ p[2] = Key(k)
Leaves(P, S, m, k) ==
  \A h \in S : /\ \E p \in P : p[1] = <<"crt", h>> /\ p[2] = Leaf(m[h], k)
               /\ \E p \in P : p[1] = <<"key", h>> /\ p[2] = Key(m[h])
OfAuthority(p, k) == (p[1] = File("ca") \/ p[1] = File("ca-key")) /\ p[2] = Key(k)
OfLeaf(p, h, n, k) ==
  \/ p[1] = <<"crt", h>> /\ p[2] = Leaf(n, k)
  \/ p[1] = <<"key", h>> /\ p[2] = Key(n)
  \/ p[1] = <<"dir", h>> /\ p[2] = Key(1)
PublicWritten(P, S, m, k) ==
  /\ P \in SUBSET Pairs /\ Authority(P, k) /\ Leaves(P, S, m, k)
  /\ \A p \in P : OfAuthority(p, k) \/ \E h \in S : OfLeaf(p, h, m[h], k)

\* The files of a leaf are not the CA's, and name their hostname.
LEMMA LeafNames ==
  ASSUME NEW p, NEW h \in Hostnames, NEW n, NEW k, OfLeaf(p, h, n, k)
  PROVE  p[1] # File("ca") /\ p[1] # File("ca-key") /\ p[1][2] = h
<1>1. PICK a \in {"crt", "key", "dir"} : p[1] = <<a, h>>
  BY DEF OfLeaf
<1>2. <<a, h>>[2] = h /\ <<a, h>>[1] = a
  OBVIOUS
<1>3. a # "ca" /\ a # "ca-key" /\ File("ca")[1] = "ca" /\ File("ca-key")[1] = "ca-key"
  BY FilesOf
<1> QED BY <1>1, <1>2, <1>3

\* Each file of a leaf has one content.
LEMMA LeafContents ==
  ASSUME NEW p, NEW q, NEW h, NEW n, NEW k, OfLeaf(p, h, n, k), OfLeaf(q, h, n, k), p[1] = q[1]
  PROVE  p[2] = q[2]
<1>1. <<"crt", h>> # <<"key", h>> /\ <<"crt", h>> # <<"dir", h>> /\ <<"key", h>> # <<"dir", h>>
  OBVIOUS
<1> QED BY <1>1 DEF OfLeaf

\* No file of a new CA and its leaves is written twice with different contents.
LEMMA PublicFunctional ==
  ASSUME NEW P, NEW S \in SUBSET Hostnames, NEW m, NEW k, PublicWritten(P, S, m, k)
  PROVE  Functional(P) /\ \A p \in P : \A h \in Hostnames : p[1][2] = h => h \in S
<1>1. ASSUME NEW p \in P, NEW q \in P, p[1] = q[1] PROVE p[2] = q[2]
  <2>1. CASE OfAuthority(p, k)
    <3>1. OfAuthority(q, k)
      BY <1>1, <2>1, LeafNames DEF PublicWritten, OfAuthority
    <3> QED BY <2>1, <3>1 DEF OfAuthority
  <2>2. CASE OfAuthority(q, k)
    <3>1. OfAuthority(p, k)
      BY <1>1, <2>2, LeafNames DEF PublicWritten, OfAuthority
    <3> QED BY <2>2, <3>1 DEF OfAuthority
  <2>3. CASE ~OfAuthority(p, k) /\ ~OfAuthority(q, k)
    <3>1. PICK g \in S : OfLeaf(p, g, m[g], k)
      BY <2>3 DEF PublicWritten
    <3>2. PICK h \in S : OfLeaf(q, h, m[h], k)
      BY <2>3 DEF PublicWritten
    <3>3. g = h
      BY <1>1, <3>1, <3>2, LeafNames
    <3> QED BY <1>1, <3>1, <3>2, <3>3, LeafContents
  <2> QED BY <2>1, <2>2, <2>3
<1>2. ASSUME NEW p \in P, NEW h \in Hostnames, p[1][2] = h PROVE h \in S
  <2>1. ~OfAuthority(p, k)
    <3>1. ASSUME OfAuthority(p, k) PROVE p[1][2] = ""
      BY <3>1, FilesOf DEF OfAuthority
    <3>2. h # ""
      BY MaterialAssumption
    <3> QED BY <1>2, <3>1, <3>2
  <2>2. PICK g \in S : OfLeaf(p, g, m[g], k)
    BY <2>1 DEF PublicWritten
  <2> QED BY <1>2, <2>2, LeafNames
<1> QED BY <1>1, <1>2 DEF Functional

\* A new CA and its leaves chain.
LEMMA PublicUsable ==
  ASSUME kind = "public", NEW S \in SUBSET Hostnames, NEW m, \A h \in S : m[h] \in Nat \ {0}, NEW k \in Nat \ {0},
         NEW P, PublicWritten(P, S, m, k), NEW G, Planned(G, P), NEW h \in S
  PROVE  UsableIn(G, h)
<1>1. G[File("ca")] = Key(k) /\ G[File("ca-key")] = Key(k)
  BY DEF PublicWritten, Authority, Planned
<1>2. G[<<"crt", h>>] = Leaf(m[h], k) /\ G[<<"key", h>>] = Key(m[h])
  BY DEF PublicWritten, Leaves, Planned
<1>3. /\ Key(k).key = k /\ Key(k) # Empty /\ Key(k) # NoFile
      /\ Leaf(m[h], k).key = m[h] /\ Leaf(m[h], k).issuer = k /\ Key(m[h]).key = m[h]
      /\ Leaf(m[h], k) # Empty /\ Leaf(m[h], k) # NoFile /\ Key(m[h]) # Empty /\ Key(m[h]) # NoFile
  BY ContentFacts
<1> QED BY <1>1, <1>2, <1>3 DEF UsableIn, MatchesIn, WholeIn, Sane

\* What a plan with a new CA promises.
LEMMA PublicSound ==
  ASSUME kind = "public", NEW S \in SUBSET Hostnames, NEW m, \A h \in S : m[h] \in Nat \ {0}, NEW k \in Nat \ {0},
         NEW P, PublicWritten(P, S, m, k)
  PROVE  /\ Functional(P) /\ P \in SUBSET Pairs
         /\ \A G : Planned(G, P) =>
              \A h \in Hostnames : (h \in S \/ \E p \in P : p[1][2] = h) => UsableIn(G, h)
<1>1. Functional(P) /\ (\A p \in P : \A h \in Hostnames : p[1][2] = h => h \in S) /\ P \in SUBSET Pairs
  BY PublicFunctional DEF PublicWritten
<1>2. ASSUME NEW G, Planned(G, P), NEW h \in Hostnames, h \in S \/ \E p \in P : p[1][2] = h
      PROVE  UsableIn(G, h)
  <2>1. h \in S
    BY <1>1, <1>2
  <2> QED BY <1>2, <2>1, PublicUsable
<1> QED BY <1>1, <1>2

\* The files of a new CA.
LEMMA AuthorityPairs ==
  ASSUME kind = "public", NEW k \in Nat
  PROVE  /\ AuthorityFiles(k) \in Seq(Pairs) /\ Authority(ToSet(AuthorityFiles(k)), k)
         /\ \A p \in ToSet(AuthorityFiles(k)) : OfAuthority(p, k)
<1>1. ToSet(AuthorityFiles(k)) = {<<File("ca"), Key(k)>>, <<File("ca-key"), Key(k)>>}
  BY TupleSets DEF AuthorityFiles
<1>2. <<File("ca"), Key(k)>> \in Pairs /\ <<File("ca-key"), Key(k)>> \in Pairs
  <2>1. File("ca") \in Files[kind] /\ File("ca-key") \in Files[kind] /\ Key(k) \in Contents
    BY FilesOf, ContentFacts
  <2> QED BY <2>1 DEF Pairs
<1>3. AuthorityFiles(k) \in Seq(Pairs)
  BY <1>2 DEF AuthorityFiles
<1>4. <<File("ca"), Key(k)>>[1] = File("ca") /\ <<File("ca"), Key(k)>>[2] = Key(k)
      /\ <<File("ca-key"), Key(k)>>[1] = File("ca-key") /\ <<File("ca-key"), Key(k)>>[2] = Key(k)
  OBVIOUS
<1> QED BY <1>1, <1>3, <1>4 DEF Authority, OfAuthority

\* The files of one leaf
LeafList(list, h, n, k) ==
  /\ list \in Seq(Pairs) /\ \A p \in ToSet(list) : OfLeaf(p, h, n, k)
  /\ \E p \in ToSet(list) : p[1] = <<"crt", h>> /\ p[2] = Leaf(n, k)
  /\ \E p \in ToSet(list) : p[1] = <<"key", h>> /\ p[2] = Key(n)
\* The files of one leaf of it.
LEMMA LeafPairs ==
  ASSUME kind = "public", NEW h \in Hostnames, NEW n \in Nat, NEW k \in Nat
  PROVE  LeafList(LeafFiles(h, n, k), h, n, k)
<1> DEFINE f1 == <<"crt", h>>
           f2 == <<"key", h>>
<1>1. ToSet(LeafFiles(h, n, k)) = {<<f1, Leaf(n, k)>>, <<f2, Key(n)>>}
  BY TupleSets DEF LeafFiles
<1>2. f1 \in Files[kind] /\ f2 \in Files[kind] /\ Leaf(n, k) \in Contents /\ Key(n) \in Contents
  BY FilesOf, ContentFacts
<1>3. LeafFiles(h, n, k) = FileList(f1, Leaf(n, k), f2, Key(n))
  BY DEF LeafFiles, FileList
<1>4. \A p : p[1] = f1 /\ p[2] = Leaf(n, k) => OfLeaf(p, h, n, k)
  BY DEF OfLeaf
<1>5. \A p : p[1] = f2 /\ p[2] = Key(n) => OfLeaf(p, h, n, k)
  BY DEF OfLeaf
<1> HIDE DEF f1, f2
<1>6. <<f1, Leaf(n, k)>> \in Pairs /\ <<f2, Key(n)>> \in Pairs
  BY <1>2 DEF Pairs
<1>7. FileList(f1, Leaf(n, k), f2, Key(n)) \in Seq(Pairs)
  BY <1>6 DEF FileList
<1>8. \A p \in ToSet(LeafFiles(h, n, k)) : OfLeaf(p, h, n, k)
  BY <1>1, <1>4, <1>5
<1>9. /\ \E p \in ToSet(LeafFiles(h, n, k)) : p[1] = f1 /\ p[2] = Leaf(n, k)
      /\ \E p \in ToSet(LeafFiles(h, n, k)) : p[1] = f2 /\ p[2] = Key(n)
  BY <1>1
<1> QED BY <1>3, <1>7, <1>8, <1>9 DEF f1, f2, LeafList

\* client public-cert init begins: it has its directory to make.
LEMMA PublicInitKeeps ==
  ASSUME Material, NEW c \in Commands, NEW h \in Hostnames, PublicInit(c, h)
  PROVE  Material'
<1> DEFINE d == <<"dir", h>>
           P == {<<d, Key(1)>>}
           todo == <<Fresh(d, Key(1))>>
<1>1. kind = "public" /\ Idle(c, kind, "init") /\ d \in Files[kind] /\ Key(1) \in Contents
  <2>1. kind = "public" /\ Idle(c, kind, "init")
    BY DEF PublicInit, Idle
  <2> QED BY <2>1, FilesOf, ContentFacts
<1>2. CASE \E end \in {"ok", "failed"} : Answer(c, "init", end)
  BY <1>2, AnswerKeeps
<1>3. CASE Begin(c, "init", todo, 0, FALSE)
  <2> HIDE DEF d
  <2>1. Fresh(d, Key(1)) \in Writes
    BY <1>1 DEF Fresh, Writes
  <2>2. todo \in Seq(Writes) /\ ToSet(todo) = {Fresh(d, Key(1))}
    BY <2>1, TupleSets
  <2>3. \A x, y : Plan({<<x, y>>}, TRUE) = {Fresh(x, y)}
    BY DEF Plan, Fresh
  <2>4. P \in SUBSET Pairs /\ Functional(P) /\ ToSet(todo) = Plan(P, "init" = "init")
    <3>1. P \in SUBSET Pairs
      BY <1>1 DEF Pairs
    <3>2. Functional(P)
      BY DEF Functional
    <3>3. ToSet(todo) = Plan(P, TRUE)
      BY <2>2, <2>3
    <3>4. ("init" = "init") = TRUE
      OBVIOUS
    <3> HIDE DEF P, todo
    <3> QED BY <3>1, <3>2, <3>3, <3>4
  <2> HIDE DEF P, todo
  <2>5. \A G : Planned(G, P) /\ FALSE =>
          \A e \in Hostnames : (kind # "public" \/ "init" = "rotate" \/ \E p \in P : p[1][2] = e) => UsableIn(G, e)
    OBVIOUS
  <2> QED BY <1>1, <1>3, <2>2, <2>4, <2>5, PlanKeeps
<1>4. (\E end \in {"ok", "failed"} : Answer(c, "init", end)) \/ Begin(c, "init", todo, 0, FALSE)
  BY DEF PublicInit
<1> QED BY <1>2, <1>3, <1>4

\* An init that has made its directory goes on with a plan that leads to
\* usable material.
LEMMA ProceedKeeps ==
  ASSUME Material, NEW c \in Commands, Busy(c), running[c].op = "init", kind = "public", NEW h \in Hostnames,
         ~running[c].opened, kind' = kind, keys' \in Nat, files' = [files EXCEPT ![<<"dir", h>>] = Key(1)],
         NEW list \in Seq(Pairs), list # <<>>, NEW sound \in BOOLEAN, running' = Proceeds(c, News(list), sound),
         Functional({<<<<"dir", h>>, Key(1)>>} \cup ToSet(list)),
         \A p \in ToSet(list) : p[1] # <<"dir", h>>,
         \A G : Planned(G, {<<<<"dir", h>>, Key(1)>>} \cup ToSet(list)) /\ sound =>
           \A e \in Hostnames : (\E p \in ToSet(list) : p[1][2] = e) => UsableIn(G, e)
  PROVE  Material'
<1> DEFINE d == <<"dir", h>>
           w == Fresh(d, Key(1))
           todo == News(list)
           P == {<<d, Key(1)>>} \cup ToSet(list)
           T == Plan(P, TRUE)
<1>1. d \in Files[kind] /\ d[1] = "dir" /\ Key(1) \in Contents /\ DOMAIN files = Files[kind]
  BY FilesOf, ContentFacts, CommandFacts
<1>2. todo \in Seq(Writes) /\ ToSet(todo) = Plan(ToSet(list), TRUE) /\ todo # <<>>
  <2>1. todo \in Seq(Writes) /\ ToSet(todo) = Plan(ToSet(list), TRUE)
    BY ListPlan
  <2>2. DOMAIN list # {} /\ DOMAIN todo = DOMAIN list
    <3>1. DOMAIN list = 1..Len(list) /\ Len(list) \in Nat \ {0}
      BY EmptySeq
    <3> QED BY <3>1 DEF News
  <2>3. DOMAIN <<>> = {}
    OBVIOUS
  <2> HIDE DEF todo
  <2> QED BY <2>1, <2>2, <2>3
<1>3. P \in SUBSET Pairs
  <2>1. ToSet(list) \in SUBSET Pairs
    BY SetOfSequence
  <2>2. <<d, Key(1)>> \in Pairs
    <3> HIDE DEF d
    <3> QED BY <1>1 DEF Pairs
  <2> QED BY <2>1, <2>2
<1>4. Planned(After(Files[kind], files, T), P) /\ Consistent(T)
  <2>1. Functional(P)
    OBVIOUS
  <2> HIDE DEF P
  <2> QED BY <1>3, <2>1, PlanAfter
<1>5. w \in T /\ ToSet(todo) \in SUBSET T /\ (\A u \in T : u = w \/ u \in ToSet(todo)) /\ w.file = d /\ w.content = Key(1)
  <2>1. T = Plan({<<d, Key(1)>>}, TRUE) \cup Plan(ToSet(list), TRUE)
    BY DEF Plan
  <2>2. \A x, y : Plan({<<x, y>>}, TRUE) = {Fresh(x, y)}
    BY DEF Plan, Fresh
  <2>3. T = {w} \cup ToSet(todo)
    <3> HIDE DEF todo, T
    <3> QED BY <1>2, <2>1, <2>2
  <2>4. w.file = d /\ w.content = Key(1)
    BY DEF Fresh
  <2> HIDE DEF w, T, todo
  <2> QED BY <2>3, <2>4
<1>6. \A u \in ToSet(todo) : u.new /\ \E p \in ToSet(list) : u.file = p[1]
  <2> HIDE DEF todo
  <2> QED BY <1>2 DEF Plan
<1>7. After(Files[kind], files', ToSet(todo)) = After(Files[kind], files, T)
  <2>1. files'[d] = Key(1) /\ \A f \in Files[kind] : f # d => files'[f] = files[f]
    BY <1>1
  <2>2. ASSUME NEW g2, g2[d] = Key(1), \A f \in Files[kind] : f # d => g2[f] = files[f]
        PROVE  After(Files[kind], g2, ToSet(todo)) = After(Files[kind], files, T)
    <3> HIDE DEF w, T, todo, d
    <3> QED BY <1>1, <1>4, <1>5, <2>2, AfterWrite
  <2> QED BY <2>1, <2>2
<1> DEFINE r == [running[c] EXCEPT !.todo = todo, !.sound = sound]
<1>8. running' = [running EXCEPT ![c] = r] /\ running[c] \in Records /\ running \in [Commands -> Records]
  BY DEF Proceeds, Material, MaterialTypes, Records
<1>9. r \in Records /\ r.op = "init" /\ ~r.opened /\ r.todo = todo /\ r.sound = sound /\ r.end = running[c].end
  BY <1>2, <1>8 DEF Records
<1> HIDE DEF r
<1>10. running'[c] = r
  BY <1>8
<1>11. ASSUME sound PROVE WillDo(running[c].op, Todo(c), files)'
  <2>1. ASSUME NEW e \in Hostnames, Concerned("init", ToSet(todo), e)
        PROVE  UsableIn(After(Files[kind], files, T), e)
    <3>1. \E u \in ToSet(todo) : u.file[2] = e
      BY <2>1 DEF Concerned
    <3>2. \E p \in ToSet(list) : p[1][2] = e
      BY <1>6, <3>1
    <3> HIDE DEF T
    <3> QED BY <1>4, <1>11, <3>2
  <2>2. WillDo("init", ToSet(todo), files')
    <3> HIDE DEF T, todo
    <3> QED BY <1>7, <2>1 DEF WillDo
  <2>3. WillDo(running'[c].op, ToSet(running'[c].todo), files')
    BY <1>9, <1>10, <2>2
  <2> QED BY <2>3, WillDoNext
<1>12. CommandInv(c)'
  <2>1. Busy(c)' /\ Todo(c)' = ToSet(todo) /\ running[c].end = "none"
    BY <1>2, <1>9, <1>10, CommandFacts DEF Busy, Todo, CommandInv
  <2>2. Consistent(ToSet(todo))
    <3> HIDE DEF T, todo
    <3> QED BY <1>4, <1>5 DEF Consistent
  <2> QED BY <1>6, <1>9, <1>10, <1>11, <2>1, <2>2 DEF CommandInv, Consistent
<1>13. ASSUME NEW e \in Commands, e # c, Busy(e) PROVE Spares(d, e)
  <2>1. running[e].opened => Doing(e).file[1] # "dir"
    BY CommandFacts DEF CommandInv
  <2> QED BY <1>1, <2>1 DEF Spares
<1> HIDE DEF d
<1>14. files' = [files EXCEPT ![d] = Key(1)]
  BY DEF d
<1> QED BY <1>1, <1>8, <1>9, <1>12, <1>13, <1>14, PutKeeps

\* client public-cert init looks for the CA's key and goes on with a CA of its
\* own or with the one in state/.
LEMMA PublicPlanKeeps ==
  ASSUME Material, NEW c \in Commands, PublicPlan(c)
  PROVE  Material'
<1> DEFINE h == Head(running[c].todo).file[2]
           k == keys + 1
           d == <<"dir", h>>
           D == {<<d, Key(1)>>}
           whole == AuthorityFiles(k) \o LeafFiles(h, k + 1, k)
           n == files[File("ca-key")].key
           leaf == LeafFiles(h, k, n)
<1>1. kind = "public" /\ Busy(c) /\ running[c].op = "init" /\ kind' = kind /\ Doing(c).file[1] = "dir" /\ keys \in Nat
  BY DEF PublicPlan, Doing, Material, MaterialTypes
<1>2. k \in Nat \ {0} /\ k + 1 \in Nat \ {0} /\ keys + 2 = k + 1 /\ keys + 2 \in Nat
  BY <1>1
<1>3. h \in Hostnames /\ Doing(c).file = d
  <2>1. Doing(c).file \in Files["public"]
    BY <1>1, DoingFacts
  <2>2. ASSUME NEW f \in Files["public"], f[1] = "dir" PROVE f[2] \in Hostnames /\ f = <<"dir", f[2]>>
    <3>1. f \in {File("ca"), File("ca-key")} \/ f \in {"crt", "key", "dir"} \X Hostnames
      BY DEF Files
    <3>2. File("ca")[1] = "ca" /\ File("ca-key")[1] = "ca-key"
      BY DEF File
    <3>3. f \notin {File("ca"), File("ca-key")}
      BY <2>2, <3>2
    <3> QED BY <2>2, <3>1, <3>3
  <2> QED BY <1>1, <2>1, <2>2 DEF Doing
<1>4. ~running[c].opened
  BY <1>1, CommandFacts DEF CommandInv
<1>5. d \in Files[kind] /\ File("ca-key") \in Files[kind] /\ Key(1) \in Contents /\ d[2] = h
  BY <1>1, <1>3, FilesOf, ContentFacts
<1> HIDE DEF h
<1>6. CASE running' = Ended(c, "failed") /\ keys' = keys
  <2> DEFINE r == [running[c] EXCEPT !.todo = <<>>, !.opened = FALSE, !.end = "failed"]
  <2>1. running' = [running EXCEPT ![c] = r] /\ running \in [Commands -> Records] /\ running[c] \in Records
    BY <1>6 DEF Ended, Material, MaterialTypes, Records
  <2>2. r \in Records /\ r.op = running[c].op /\ ~r.opened /\ r.todo = <<>>
    <3>1. <<>> \in Seq(Writes)
      OBVIOUS
    <3> QED BY <2>1, <3>1 DEF Records
  <2> HIDE DEF r
  <2>3. running'[c] = r
    BY <2>1
  <2>4. CommandInv(c)'
    <3>1. ~Busy(c)' /\ Todo(c)' = {}
      BY <2>2, <2>3 DEF Busy, Todo, ToSet
    <3> QED BY <2>2, <2>3, <3>1 DEF CommandInv, Consistent
  <2>5. \A e \in Commands : e # c /\ Busy(e) => Spares(d, e)
    <3>1. \A e \in Commands : running[e].opened => Doing(e).file[1] # "dir"
      BY CommandFacts DEF CommandInv
    <3> QED BY <3>1 DEF Spares
  <2>6. files' = [files EXCEPT ![d] = Key(1)] /\ keys' \in Nat
    BY <1>1, <1>6 DEF PublicPlan, h
  <2> HIDE DEF d
  <2> QED BY <1>1, <1>5, <2>1, <2>2, <2>4, <2>5, <2>6, PutKeeps
<1>7. CASE running' = Proceeds(c, News(whole), TRUE) /\ keys' = keys + 2
  <2> HIDE DEF k, d
  <2> DEFINE A == ToSet(AuthorityFiles(k))
             L == ToSet(LeafFiles(h, k + 1, k))
             P == D \cup ToSet(whole)
             m == [x \in {h} |-> k + 1]
             S == {h}
  <2>1. /\ AuthorityFiles(k) \in Seq(Pairs) /\ Authority(A, k) /\ \A p \in A : OfAuthority(p, k)
    BY <1>1, <1>2, AuthorityPairs
  <2>2. /\ LeafFiles(h, k + 1, k) \in Seq(Pairs) /\ \A p \in L : OfLeaf(p, h, k + 1, k)
        /\ \E p \in L : p[1] = <<"crt", h>> /\ p[2] = Leaf(k + 1, k)
        /\ \E p \in L : p[1] = <<"key", h>> /\ p[2] = Key(k + 1)
    BY <1>1, <1>2, <1>3, LeafPairs DEF LeafList
  <2>3. whole \in Seq(Pairs) /\ ToSet(whole) = A \cup L
    BY <2>1, <2>2, SetOfConcat
  <2>4. OfLeaf(<<d, Key(1)>>, h, k + 1, k) /\ <<d, Key(1)>> \in Pairs
    <3>1. <<d, Key(1)>>[1] = d /\ <<d, Key(1)>>[2] = Key(1) /\ d = <<"dir", h>>
      BY DEF d
    <3>2. OfLeaf(<<d, Key(1)>>, h, k + 1, k)
      BY <3>1 DEF OfLeaf
    <3> QED BY <1>5, <3>2 DEF Pairs
  <2>5. m[h] = k + 1 /\ \A e \in {h} : m[e] \in Nat \ {0}
    BY <1>2
  <2>6. whole # <<>> /\ \A p \in ToSet(whole) : p[1] # d
    <3>1. \A p \in ToSet(whole) : p[1][1] # "dir"
      <4>1. ToSet(AuthorityFiles(k)) = {<<File("ca"), Key(k)>>, <<File("ca-key"), Key(k)>>}
        BY TupleSets DEF AuthorityFiles
      <4>2. ToSet(LeafFiles(h, k + 1, k)) = {<<<<"crt", h>>, Leaf(k + 1, k)>>, <<<<"key", h>>, Key(k + 1)>>}
        BY TupleSets DEF LeafFiles
      <4>3. \A p \in ToSet(AuthorityFiles(k)) : p[1][1] # "dir"
        <5>1. \A x, y : File("ca")[1] = "ca" /\ File("ca-key")[1] = "ca-key" /\ <<x, y>>[1] = x
          BY DEF File
        <5> QED BY <4>1, <5>1
      <4>4. \A p \in ToSet(LeafFiles(h, k + 1, k)) : p[1][1] # "dir"
        BY <4>2
      <4> HIDE DEF whole
      <4> QED BY <2>3, <4>3, <4>4
    <3>2. d[1] = "dir"
      BY DEF d
    <3>3. A # {}
      BY <2>1 DEF Authority
    <3>4. ToSet(<<>>) = {}
      BY DEF ToSet
    <3> QED BY <2>3, <3>1, <3>2, <3>3, <3>4
  <2> HIDE DEF A, L, m, whole
  <2>7. PublicWritten(P, {h}, m, k)
    <3>1. P \in SUBSET Pairs
      <4>1. ToSet(whole) \in SUBSET Pairs
        BY <2>3, SetOfSequence
      <4> QED BY <2>4, <4>1
    <3>2. A \subseteq P /\ L \subseteq P
      BY <2>3
    <3>3. Authority(P, k)
      <4> HIDE DEF P
      <4> QED BY <2>1, <3>2 DEF Authority
    <3>4. Leaves(P, {h}, m, k)
      <4> HIDE DEF P
      <4> QED BY <2>2, <2>5, <3>2 DEF Leaves
    <3>5. \A p \in P : OfAuthority(p, k) \/ OfLeaf(p, h, m[h], k)
      BY <2>1, <2>2, <2>3, <2>4, <2>5
    <3> HIDE DEF P
    <3> QED BY <3>1, <3>3, <3>4, <3>5 DEF PublicWritten
  <2>8. ToSet(whole) \subseteq P
    OBVIOUS
  <2> HIDE DEF P
  <2>9. S \in SUBSET Hostnames /\ PublicWritten(P, S, m, k) /\ \A e \in S : m[e] \in Nat \ {0}
    BY <1>3, <2>5, <2>7
  <2> HIDE DEF S
  <2>10. kind = "public" /\ k \in Nat \ {0}
    BY <1>1, <1>2
  <2>11. /\ Functional(P)
         /\ \A G : Planned(G, P) =>
              \A e \in Hostnames : (e \in S \/ \E p \in P : p[1][2] = e) => UsableIn(G, e)
    <3>1. S \in SUBSET Hostnames
      BY <2>9
    <3>2. \A e \in S : m[e] \in Nat \ {0}
      BY <2>9
    <3>3. PublicWritten(P, S, m, k)
      BY <2>9
    <3>4. kind = "public"
      BY <2>10
    <3>5. k \in Nat \ {0}
      BY <2>10
    <3> QED BY <3>1, <3>2, <3>3, <3>4, <3>5, PublicSound
  <2>12. \A G : Planned(G, P) /\ TRUE => \A e \in Hostnames : (\E p \in ToSet(whole) : p[1][2] = e) => UsableIn(G, e)
    BY <2>8, <2>11
  <2>13. files' = [files EXCEPT ![d] = Key(1)] /\ keys' \in Nat /\ TRUE \in BOOLEAN
    BY <1>2, <1>7 DEF PublicPlan, h, d
  <2>14. P = {<<<<"dir", h>>, Key(1)>>} \cup ToSet(whole) /\ d = <<"dir", h>>
    BY DEF P, d
  <2> QED BY <1>1, <1>3, <1>4, <1>7, <2>3, <2>6, <2>11, <2>12, <2>13, <2>14, ProceedKeeps
<1>8. CASE Parses(File("ca-key")) /\ running' = Proceeds(c, News(leaf), AuthorityWhole) /\ keys' = keys + 1
  <2>1. n \in Nat
    <3>1. files[File("ca-key")] \in Contents
      BY <1>5, <1>8 DEF Material, MaterialTypes, Parses, Exists
    <3> QED BY <3>1 DEF Contents
  <2> HIDE DEF k, n
  <2> DEFINE P == D \cup ToSet(leaf)
  <2>2. D \in SUBSET Pairs /\ Functional(D) /\ \A p \in D : p[1] = d
    <3> HIDE DEF d
    <3> QED BY <1>5 DEF Pairs, Functional
  <2>3. LeafWritten(leaf, D, h, n)
    <3> HIDE DEF D
    <3> QED BY <1>1, <1>2, <1>3, <2>1, <2>2, LeafPlan
  <2>4. /\ leaf \in Seq(Pairs) /\ Functional(P) /\ (\A p \in P : p[1][2] = h) /\ DOMAIN leaf = 1..2
        /\ \A G : Planned(G, P) /\ AuthorityWhole /\ n = files[File("ca-key")].key =>
             \A e \in Hostnames : kind # "public" \/ e = h => UsableIn(G, e)
    BY <2>3 DEF LeafWritten
  <2>5. leaf # <<>> /\ \A p \in ToSet(leaf) : p[1] # d
    <3>1. ToSet(leaf) = {<<<<"crt", h>>, Leaf(k, n)>>, <<<<"key", h>>, Key(k)>>}
      BY TupleSets DEF LeafFiles
    <3>2. \A p \in ToSet(leaf) : p[1][1] # "dir"
      BY <3>1
    <3>3. d[1] = "dir"
      OBVIOUS
    <3>4. ToSet(<<>>) = {}
      BY DEF ToSet
    <3> HIDE DEF leaf, d
    <3>5. ToSet(leaf) # {}
      BY <3>1
    <3> QED BY <3>2, <3>3, <3>4, <3>5
  <2>6. n = files[File("ca-key")].key
    BY DEF n
  <2>7. P = {<<<<"dir", h>>, Key(1)>>} \cup ToSet(leaf) /\ d = <<"dir", h>> /\ ToSet(leaf) \subseteq P
    OBVIOUS
  <2> HIDE DEF P, leaf, d
  <2>8. \A G : Planned(G, P) /\ AuthorityWhole =>
          \A e \in Hostnames : (\E p \in ToSet(leaf) : p[1][2] = e) => UsableIn(G, e)
    BY <2>4, <2>6, <2>7
  <2>9. files' = [files EXCEPT ![d] = Key(1)] /\ keys' \in Nat /\ AuthorityWhole \in BOOLEAN
    BY <1>1, <1>8 DEF PublicPlan, h, d, AuthorityWhole, Parses
  <2>10. CASE AuthorityWhole
    <3>1. running' = Proceeds(c, News(leaf), TRUE) /\ TRUE \in BOOLEAN
      <4>1. AuthorityWhole = TRUE
        BY <2>9, <2>10
      <4> QED BY <1>8, <4>1
    <3>2. \A G : Planned(G, P) /\ TRUE => \A e \in Hostnames : (\E p \in ToSet(leaf) : p[1][2] = e) => UsableIn(G, e)
      BY <2>8, <2>10
    <3> QED BY <1>1, <1>3, <1>4, <2>4, <2>5, <2>7, <2>9, <3>1, <3>2, ProceedKeeps
  <2>11. CASE ~AuthorityWhole
    <3>1. running' = Proceeds(c, News(leaf), FALSE) /\ FALSE \in BOOLEAN
      <4>1. AuthorityWhole = FALSE
        BY <2>9, <2>11
      <4> QED BY <1>8, <4>1
    <3>2. \A G : Planned(G, P) /\ FALSE => \A e \in Hostnames : (\E p \in ToSet(leaf) : p[1][2] = e) => UsableIn(G, e)
      OBVIOUS
    <3> QED BY <1>1, <1>3, <1>4, <2>4, <2>5, <2>7, <2>9, <3>1, <3>2, ProceedKeeps
  <2> QED BY <2>10, <2>11
<1>9. \/ running' = Ended(c, "failed") /\ keys' = keys
      \/ running' = Proceeds(c, News(AuthorityFiles(keys + 1) \o LeafFiles(h, keys + 2, keys + 1)), TRUE) /\ keys' = keys + 2
      \/ Parses(File("ca-key")) /\ running' = Proceeds(c, News(leaf), AuthorityWhole) /\ keys' = keys + 1
  BY DEF PublicPlan, h
<1> QED BY <1>2, <1>6, <1>7, <1>8, <1>9

\* client public-cert renew.
LEMMA PublicRenewKeeps ==
  ASSUME Material, NEW c \in Commands, NEW h \in Hostnames, PublicRenew(c, h)
  PROVE  Material'
<1> DEFINE k == keys + 1
           n == files[File("ca-key")].key
           leaf == LeafFiles(h, k, n)
<1>1. kind = "public" /\ k \in Nat \ {0} /\ Idle(c, kind, "renew")
  <2>1. kind = "public" /\ keys \in Nat /\ Idle(c, kind, "renew")
    BY DEF Material, MaterialTypes, PublicRenew, Idle
  <2> QED BY <2>1
<1>2. CASE Answer(c, "renew", "failed")
  BY <1>2, AnswerKeeps
<1>3. CASE Parses(File("ca-key")) /\ Begin(c, "renew", Replaces(leaf), 1, AuthorityWhole)
  <2>1. n \in Nat
    <3>1. files[File("ca-key")] \in Contents
      <4>1. File("ca-key") \in Files[kind]
        BY <1>1, FilesOf
      <4> QED BY <1>3, <4>1 DEF Material, MaterialTypes, Parses, Exists
    <3> QED BY <3>1 DEF Contents
  <2> HIDE DEF k, n
  <2> DEFINE P == ToSet(leaf)
  <2>2. {} \in SUBSET Pairs /\ Functional({}) /\ (\A p \in {} : p[1] = <<"dir", h>>) /\ {} \cup P = P
    BY DEF Functional
  <2>3. LeafWritten(leaf, {}, h, n)
    BY <1>1, <2>1, <2>2, LeafPlan
  <2>4. /\ leaf \in Seq(Pairs) /\ Functional(P) /\ P \in SUBSET Pairs /\ (\A p \in P : p[1][2] = h)
        /\ \A G : Planned(G, P) /\ AuthorityWhole /\ n = files[File("ca-key")].key =>
             \A e \in Hostnames : kind # "public" \/ e = h => UsableIn(G, e)
    BY <2>2, <2>3 DEF LeafWritten
  <2>5. Replaces(leaf) \in Seq(Writes) /\ ToSet(Replaces(leaf)) = Plan(P, FALSE)
    BY <2>4, ListPlan
  <2>6. n = files[File("ca-key")].key
    BY DEF n
  <2> HIDE DEF P, leaf
  <2>7. \A G : Planned(G, P) /\ AuthorityWhole =>
          \A e \in Hostnames : (kind # "public" \/ "renew" = "rotate" \/ \E p \in P : p[1][2] = e) => UsableIn(G, e)
    BY <1>1, <2>4, <2>6
  <2>8. ("renew" = "init") = FALSE /\ AuthorityWhole \in BOOLEAN /\ 1 \in Nat
    BY DEF AuthorityWhole, Parses
  <2> QED BY <1>1, <1>3, <2>4, <2>5, <2>7, <2>8, PlanKeeps
<1> QED BY <1>2, <1>3 DEF PublicRenew

\* client public-cert rotate-ca: every hostname is written once, with a key of
\* its own.
LEMMA PublicRotateKeeps ==
  ASSUME Material, NEW c \in Commands, PublicRotate(c)
  PROVE  Material'
<1> DEFINE k == keys + 1
           N == Cardinality(Hostnames)
<1>1. kind = "public" /\ k \in Nat \ {0} /\ Idle(c, kind, "rotate") /\ N \in Nat /\ 1 + N \in Nat
  <2>1. kind = "public" /\ keys \in Nat /\ Idle(c, kind, "rotate")
    BY DEF Material, MaterialTypes, PublicRotate, Idle
  <2>2. N \in Nat
    BY MaterialAssumption, FS_CardinalityType
  <2> QED BY <2>1, <2>2
<1>2. PICK order \in {s \in [1..N -> Hostnames] : ToSet(s) = Hostnames} :
        Begin(c, "rotate", Replaces(AuthorityFiles(keys + 1)
                             \o FlattenSeq([i \in DOMAIN order |-> LeafFiles(order[i], keys + 1 + i, keys + 1)])),
              1 + Cardinality(Hostnames), TRUE)
  BY DEF PublicRotate
<1> DEFINE s == [i \in 1..N |-> LeafFiles(order[i], k + i, k)]
           flat == FlattenSeq(s)
           list == AuthorityFiles(k) \o flat
           P == ToSet(list)
           A == ToSet(AuthorityFiles(k))
           m == [h \in Hostnames |-> k + CHOOSE i \in 1..N : order[i] = h]
<1>3. order \in [1..N -> Hostnames] /\ ToSet(order) = Hostnames /\ DOMAIN order = 1..N
  OBVIOUS
<1>4. Begin(c, "rotate", Replaces(list), 1 + N, TRUE)
  BY <1>2, <1>3
<1>5. \A i, j \in 1..N : order[i] = order[j] => i = j
  <2>1. IsFiniteSet(1..N) /\ Cardinality(1..N) = N
    BY <1>1, FS_Interval
  <2>2. order \in Surjection(1..N, Hostnames)
    BY <1>3 DEF Surjection, ToSet
  <2>3. order \in Injection(1..N, Hostnames)
    BY <2>1, <2>2, FS_SurjSameCardinalityImpliesInj
  <2> QED BY <1>3, <2>3 DEF Injection, IsInjective
<1>6. \A i \in 1..N : order[i] \in Hostnames /\ m[order[i]] = k + i /\ k + i \in Nat \ {0}
  BY <1>1, <1>3, <1>5
<1>7. \A h \in Hostnames : m[h] \in Nat \ {0} /\ \E i \in 1..N : h = order[i]
  <2>1. ASSUME NEW h \in Hostnames PROVE \E i \in 1..N : h = order[i]
    BY <1>3 DEF ToSet
  <2> HIDE DEF m
  <2> QED BY <1>6, <2>1
<1> HIDE DEF k, N, m
<1>8. ASSUME NEW i \in 1..N
      PROVE  LeafList(s[i], order[i], m[order[i]], k)
  <2>1. s[i] = LeafFiles(order[i], m[order[i]], k)
    BY <1>6
  <2>2. order[i] \in Hostnames /\ m[order[i]] \in Nat /\ k \in Nat
    BY <1>1, <1>6
  <2> HIDE DEF s
  <2> QED BY <1>1, <2>1, <2>2, LeafPairs
<1>9. s \in Seq(Seq(Pairs)) /\ Len(s) = N
  <2>1. s \in [1..N -> Seq(Pairs)]
    BY <1>8 DEF LeafList
  <2> QED BY <1>1, <2>1, SeqDef
<1> HIDE DEF s
<1>10. flat \in Seq(Pairs) /\ ToSet(flat) = UNION {ToSet(s[i]) : i \in 1..N}
  BY <1>9, FlattenType, FlattenUnion
<1>11. AuthorityFiles(k) \in Seq(Pairs) /\ Authority(A, k) /\ \A p \in A : OfAuthority(p, k)
  BY <1>1, AuthorityPairs
<1> HIDE DEF flat, A
<1>12. list \in Seq(Pairs) /\ P = A \cup ToSet(flat)
  BY <1>10, <1>11, SetOfConcat DEF A
<1> HIDE DEF list
<1>13. Replaces(list) \in Seq(Writes) /\ ToSet(Replaces(list)) = Plan(P, FALSE) /\ P \in SUBSET Pairs
  BY <1>12, ListPlan, SetOfSequence
<1> HIDE DEF P
<1>14. A \subseteq P /\ \A i \in 1..N : ToSet(s[i]) \subseteq P
  BY <1>10, <1>12
<1>15. Authority(P, k)
  BY <1>11, <1>14 DEF Authority
<1>16. Leaves(P, Hostnames, m, k)
  <2>1. ASSUME NEW i \in 1..N
        PROVE  /\ \E p \in P : p[1] = <<"crt", order[i]>> /\ p[2] = Leaf(m[order[i]], k)
               /\ \E p \in P : p[1] = <<"key", order[i]>> /\ p[2] = Key(m[order[i]])
    BY <1>8, <1>14 DEF LeafList
  <2>2. ASSUME NEW h \in Hostnames
        PROVE  /\ \E p \in P : p[1] = <<"crt", h>> /\ p[2] = Leaf(m[h], k)
               /\ \E p \in P : p[1] = <<"key", h>> /\ p[2] = Key(m[h])
    <3>1. PICK i \in 1..N : h = order[i]
      BY <1>7
    <3> QED BY <2>1, <3>1
  <2> QED BY <2>2 DEF Leaves
<1>17. ASSUME NEW p \in P PROVE OfAuthority(p, k) \/ \E h \in Hostnames : OfLeaf(p, h, m[h], k)
  <2>1. CASE p \in A
    BY <1>11, <2>1
  <2>2. CASE p \in ToSet(flat)
    <3>1. PICK i \in 1..N : p \in ToSet(s[i])
      BY <1>10, <2>2
    <3>2. OfLeaf(p, order[i], m[order[i]], k) /\ order[i] \in Hostnames
      BY <1>6, <1>8, <3>1 DEF LeafList
    <3> QED BY <3>2
  <2> QED BY <1>12, <2>1, <2>2
<1>18. PublicWritten(P, Hostnames, m, k)
  BY <1>13, <1>15, <1>16, <1>17 DEF PublicWritten
<1>19. ("rotate" = "init") = FALSE /\ Hostnames \in SUBSET Hostnames /\ \A h \in Hostnames : m[h] \in Nat \ {0}
  BY <1>7
<1>20. /\ Functional(P) /\ P \in SUBSET Pairs
       /\ \A G : Planned(G, P) =>
            \A h \in Hostnames : (h \in Hostnames \/ \E p \in P : p[1][2] = h) => UsableIn(G, h)
  BY <1>1, <1>18, <1>19, PublicSound
<1>21. \A G : Planned(G, P) /\ TRUE => \A h \in Hostnames : UsableIn(G, h)
  BY <1>20
<1> QED BY <1>1, <1>4, <1>13, <1>19, <1>20, <1>21, PlanKeeps

\* The behaviours of Provisioning without a material command
Unconcerned == kind = "none" /\ \A c \in Commands : ~Busy(c)
MaterialInv == Unconcerned \/ Material

\* An empty directory, and nobody running.
LEMMA MaterialStarts == MaterialInit => Material
<1> SUFFICES ASSUME MaterialInit PROVE Material
  OBVIOUS
<1>1. kind \in {"identity", "server", "public"} /\ keys \in Nat
  BY DEF MaterialInit, Files
<1>2. files \in [Files[kind] -> {NoFile} \cup Contents]
  BY DEF MaterialInit
<1>3. <<>> \in Seq(Writes) /\ ToSet(<<>>) = {}
  BY DEF ToSet
<1>4. MaterialTypes
  BY <1>1, <1>2, <1>3 DEF MaterialTypes, MaterialInit
<1>5. \A c \in Commands : ~Busy(c) /\ Todo(c) = {} /\ ~running[c].opened
  BY <1>3 DEF MaterialInit, Busy, Todo
<1>6. \A c \in Commands : CommandInv(c)
  BY <1>5 DEF CommandInv, Consistent
<1>7. \A c, d \in Commands : KeepApart(c, d)
  BY <1>5 DEF KeepApart
<1> QED BY <1>4, <1>6, <1>7 DEF Material

\* Every action of Credentials keeps the invariant.
LEMMA MaterialSteps ==
  ASSUME Material, MaterialNext
  PROVE  Material'
<1>1. PICK c \in Commands :
        \/ IdentityInit(c) \/ IdentityRotate(c)
        \/ ServerCertInit(c) \/ ServerCertRenew(c) \/ ServerCertRotate(c)
        \/ \E h \in Hostnames : PublicInit(c, h) \/ PublicRenew(c, h)
        \/ PublicRotate(c)
        \/ PublicPlan(c) \/ WriteStep(c) \/ Crash(c)
  BY DEF MaterialNext
<1>2. CASE Crash(c)
  BY <1>2, EndedKeeps DEF Crash
<1> QED BY <1>1, <1>2, IdentityKeeps, ServerKeeps, ServerRenewKeeps, PublicInitKeeps, PublicRenewKeeps, PublicRotateKeeps,
           PublicPlanKeeps, WriteKeeps

\* So does a step of something else.
LEMMA MaterialStutters ==
  ASSUME Material, UNCHANGED materialVars
  PROVE  Material'
<1>1. kind' = kind /\ files' = files /\ running' = running /\ keys' = keys
  BY DEF materialVars
<1>2. MaterialTypes'
  BY <1>1 DEF Material, MaterialTypes, Writes
<1>3. \A c \in Commands : CommandInv(c)'
  BY <1>1, BesideKeeps
<1>4. \A c, d \in Commands : c # d => KeepApart(c, d)'
  BY <1>1 DEF Material, KeepApart, Busy, Doing
<1> QED BY <1>2, <1>3, <1>4 DEF Material

\* Only its own step ends a command, and only its last write ends it well.
LEMMA OwnStep ==
  ASSUME Material, MaterialNext, NEW c \in Commands, Busy(c), running'[c].end = "ok"
  PROVE  /\ Len(running[c].todo) = 1 /\ kind' = kind
         /\ files' = [files EXCEPT ![Doing(c).file] = Doing(c).content]
<1>1. running[c].end = "none" /\ running \in [Commands -> Records]
  BY CommandFacts DEF CommandInv, Material, MaterialTypes, Records
<1>2. PICK d \in Commands :
        \/ IdentityInit(d) \/ IdentityRotate(d)
        \/ ServerCertInit(d) \/ ServerCertRenew(d) \/ ServerCertRotate(d)
        \/ \E h \in Hostnames : PublicInit(d, h) \/ PublicRenew(d, h)
        \/ PublicRotate(d)
        \/ PublicPlan(d) \/ WriteStep(d) \/ Crash(d)
  BY DEF MaterialNext
<1>3. PublicPlan(d) \/ WriteStep(d) \/ Crash(d) \/ (~Busy(d) /\ \E r : running' = [running EXCEPT ![d] = r])
  BY <1>2 DEF IdentityInit, IdentityRotate, ServerCertInit, ServerCertRenew, ServerCertRotate, PublicInit, PublicRenew,
              PublicRotate, Idle, Begin, Answer
<1>4. \E r : running' = [running EXCEPT ![d] = r]
  <2>1. CASE WriteStep(d)
    <3>1. \/ running' = Advanced(d) \/ running' = Ended(d, "failed")
          \/ running' = [running EXCEPT ![d].opened = TRUE]
      BY <2>1 DEF WriteStep
    <3>2. running' = Advanced(d) => running' = Ended(d, "ok")
            \/ running' = [running EXCEPT ![d].todo = Tail(running[d].todo), ![d].opened = FALSE]
      BY DEF Advanced
    <3>3. ASSUME NEW end, running' = Ended(d, end) PROVE \E r : running' = [running EXCEPT ![d] = r]
      <4>1. running' = [running EXCEPT ![d] = [running[d] EXCEPT !.todo = <<>>, !.opened = FALSE, !.end = end]]
        BY <1>1, <3>3 DEF Ended
      <4> QED BY <4>1
    <3>4. ASSUME running' = [running EXCEPT ![d].todo = Tail(running[d].todo), ![d].opened = FALSE]
          PROVE  \E r : running' = [running EXCEPT ![d] = r]
      <4>1. running' = [running EXCEPT ![d] = [running[d] EXCEPT !.todo = Tail(running[d].todo), !.opened = FALSE]]
        BY <1>1, <3>4
      <4> QED BY <4>1
    <3>5. ASSUME running' = [running EXCEPT ![d].opened = TRUE] PROVE \E r : running' = [running EXCEPT ![d] = r]
      <4>1. running' = [running EXCEPT ![d] = [running[d] EXCEPT !.opened = TRUE]]
        BY <1>1, <3>5
      <4> QED BY <4>1
    <3> QED BY <3>1, <3>2, <3>3, <3>4, <3>5
  <2>2. CASE Crash(d)
    <3>1. running' = [running EXCEPT ![d] = [running[d] EXCEPT !.todo = <<>>, !.opened = FALSE, !.end = "killed"]]
      BY <1>1, <2>2 DEF Crash, Ended
    <3> QED BY <3>1
  <2>3. CASE PublicPlan(d)
    <3>1. ASSUME NEW todo, NEW sound, running' = Proceeds(d, todo, sound) PROVE \E r : running' = [running EXCEPT ![d] = r]
      <4>1. running' = [running EXCEPT ![d] = [running[d] EXCEPT !.todo = todo, !.sound = sound]]
        BY <1>1, <3>1 DEF Proceeds
      <4> QED BY <4>1
    <3>2. running' = Ended(d, "failed") => \E r : running' = [running EXCEPT ![d] = r]
      <4>1. running' = Ended(d, "failed") =>
              running' = [running EXCEPT ![d] = [running[d] EXCEPT !.todo = <<>>, !.opened = FALSE, !.end = "failed"]]
        BY <1>1 DEF Ended
      <4> QED BY <4>1
    <3> QED BY <2>3, <3>1, <3>2 DEF PublicPlan
  <2> QED BY <1>3, <2>1, <2>2, <2>3
<1>5. d = c
  <2>1. PICK r : running' = [running EXCEPT ![d] = r]
    BY <1>4
  <2>2. ASSUME d # c PROVE running'[c] = running[c]
    BY <1>1, <2>1, <2>2
  <2> QED BY <1>1, <2>2
<1>6. ~Crash(c) /\ ~PublicPlan(c)
  <2>1. ~Crash(c)
    BY <1>1 DEF Crash, Ended, Records
  <2>2. \A todo, sound : running' # Proceeds(c, todo, sound)
    BY <1>1 DEF Proceeds, Records
  <2>3. running' # Ended(c, "failed")
    BY <1>1 DEF Ended, Records
  <2> QED BY <2>1, <2>2, <2>3 DEF PublicPlan
<1>7. WriteStep(c)
  BY <1>3, <1>5, <1>6
<1>8. running' # Ended(c, "failed")
  BY <1>1 DEF Ended, Records
<1>9. running' # [running EXCEPT ![c].opened = TRUE]
  BY <1>1 DEF Records
<1>10. running' = Advanced(c) /\ files' = [files EXCEPT ![Doing(c).file] = Doing(c).content] /\ kind' = kind
  BY <1>7, <1>8, <1>9 DEF WriteStep, Doing
<1>11. ~(Len(running[c].todo) > 1)
  <2>1. ASSUME Len(running[c].todo) > 1 PROVE FALSE
    <3>1. running' = [running EXCEPT ![c].todo = Tail(running[c].todo), ![c].opened = FALSE]
      BY <1>10, <2>1 DEF Advanced
    <3> QED BY <1>1, <3>1
  <2> QED BY <2>1
<1>12. Len(running[c].todo) \in Nat \ {0}
  BY DoingFacts
<1>13. \A n \in Nat \ {0} : n > 1 \/ n = 1
  OBVIOUS
<1> QED BY <1>10, <1>11, <1>12, <1>13

\* What the files hold makes the material usable in the next state.
LEMMA UsableNext ==
  ASSUME kind' = kind, kind \in {"identity", "server", "public"}, NEW h
  PROVE  UsableIn(files', h) => Usable(h)'
<1>1. CASE kind = "identity"
  BY <1>1 DEF UsableIn, Usable, IdentityLoads, Matches, Parses, Exists, MatchesIn, Sane
<1>2. CASE kind = "server"
  BY <1>2 DEF UsableIn, Usable, ServerLoads, AuthorityWhole, Matches, Parses, Exists, MatchesIn, WholeIn, Sane
<1>3. CASE kind = "public"
  BY <1>3 DEF UsableIn, Usable, Chains, PublicLoads, AuthorityWhole, Matches, Parses, Exists, MatchesIn, WholeIn, Sane
<1> QED BY <1>1, <1>2, <1>3

\* The last write leaves what the invariant promised.
LEMMA StepSucceeds ==
  ASSUME Material, MaterialNext, NEW c \in Commands
  PROVE  WrittenIsUsable(c)
<1> SUFFICES ASSUME Busy(c), running[c].sound, running'[c].end = "ok"
             PROVE  IF running[c].op = "rotate" \/ kind # "public" THEN \A h \in Hostnames : Usable(h)'
                    ELSE \A h \in Hostnames \cap {Head(running[c].todo).file[2]} : Usable(h)'
  BY DEF WrittenIsUsable
<1>1. /\ Len(running[c].todo) = 1 /\ kind' = kind
      /\ files' = [files EXCEPT ![Doing(c).file] = Doing(c).content]
  BY OwnStep
<1>2. /\ Todo(c) = {Doing(c)} /\ Consistent(Todo(c)) /\ Doing(c) \in Todo(c)
      /\ Doing(c).file \in Files[kind] /\ DOMAIN files = Files[kind] /\ kind \in {"identity", "server", "public"}
  BY <1>1, DoingFacts, CommandFacts
<1>3. WillDo(running[c].op, Todo(c), files)
  BY CommandFacts DEF CommandInv
<1>4. After(Files[kind], files', {}) = After(Files[kind], files, Todo(c))
  <2>1. files'[Doing(c).file] = Doing(c).content /\ \A f \in Files[kind] : f # Doing(c).file => files'[f] = files[f]
    BY <1>1, <1>2
  <2>2. ASSUME NEW g2, g2[Doing(c).file] = Doing(c).content, \A f \in Files[kind] : f # Doing(c).file => g2[f] = files[f]
        PROVE  After(Files[kind], g2, {}) = After(Files[kind], files, Todo(c))
    <3>1. {} \in SUBSET Todo(c) /\ \A u \in Todo(c) : u = Doing(c) \/ u \in {}
      BY <1>2
    <3>2. ASSUME NEW T2, T2 \in SUBSET Todo(c), \A u \in Todo(c) : u = Doing(c) \/ u \in T2
          PROVE  After(Files[kind], g2, T2) = After(Files[kind], files, Todo(c))
      BY <1>2, <2>2, <3>2, AfterWrite
    <3> QED BY <3>1, <3>2
  <2> QED BY <2>1, <2>2
<1>5. After(Files[kind], files', {}) = files'
  BY <1>1, <1>2 DEF After
<1>6. ASSUME NEW h \in Hostnames, Concerned(running[c].op, Todo(c), h) PROVE Usable(h)'
  <2>1. UsableIn(After(Files[kind], files, Todo(c)), h)
    BY <1>3, <1>6 DEF WillDo
  <2>2. UsableIn(files', h)
    BY <1>4, <1>5, <2>1
  <2> QED BY <1>1, <1>2, <2>2, UsableNext
<1>7. \A h \in Hostnames : running[c].op = "rotate" \/ kind # "public" => Concerned(running[c].op, Todo(c), h)
  BY DEF Concerned
<1>8. \A h \in Hostnames : h = Head(running[c].todo).file[2] => Concerned(running[c].op, Todo(c), h)
  BY <1>2 DEF Concerned, Doing
<1> QED BY <1>6, <1>7, <1>8

\* The invariant is inductive in the specification of Provisioning.
LEMMA MaterialInduction ==
  /\ ProvisionInit => MaterialInv
  /\ MaterialInv /\ [ProvisionNext]_provisionVars =>
       MaterialInv' /\ (UNCHANGED materialVars \/ \A c \in Commands : WrittenIsUsable(c))
<1>1. ASSUME ProvisionInit PROVE MaterialInv
  <2>1. CASE MaterialInit
    BY <2>1, MaterialStarts DEF MaterialInv
  <2>2. CASE MaterialIdle
    BY <2>2 DEF MaterialInv, Unconcerned, MaterialIdle, Busy
  <2> QED BY <1>1, <2>1, <2>2 DEF ProvisionInit
<1>2. ASSUME MaterialInv, [ProvisionNext]_provisionVars
      PROVE  MaterialInv' /\ (UNCHANGED materialVars \/ \A c \in Commands : WrittenIsUsable(c))
  <2>1. MaterialNext \/ UNCHANGED materialVars
    BY <1>2 DEF ProvisionNext, provisionVars
  <2>2. CASE Material /\ MaterialNext
    BY <2>2, MaterialSteps, StepSucceeds DEF MaterialInv
  <2>3. CASE Material /\ UNCHANGED materialVars
    BY <2>3, MaterialStutters DEF MaterialInv
  <2>4. CASE Unconcerned /\ UNCHANGED materialVars
    BY <2>4 DEF MaterialInv, Unconcerned, Busy, materialVars
  <2>5. ~(Unconcerned /\ MaterialNext)
    BY DEF Unconcerned, MaterialNext, IdentityInit, IdentityRotate, ServerCertInit, ServerCertRenew, ServerCertRotate,
           PublicInit, PublicRenew, PublicRotate, Idle, PublicPlan, WriteStep, Crash
  <2> QED BY <1>2, <2>1, <2>2, <2>3, <2>4, <2>5 DEF MaterialInv
<1> QED BY <1>1, <1>2

(***************************************************************************)
(* A material command that has written its files and reports success       *)
(* leaves usable material, whatever commands were killed before it and     *)
(* whichever inits run beside it: a rotation always, a renewal or an init  *)
(* under a CA that is there if that CA was whole (identity.rs,             *)
(* server_cert.rs, client_public_cert.rs, cert_file_ops.rs).  It says      *)
(* nothing of an init that writes nothing, VouchedUsable's subject.        *)
(***************************************************************************)
THEOREM WrittenLeavesUsable == ProvisionSpec => WrittenUsable
<1>1. ProvisionInit => MaterialInv
  BY MaterialInduction
<1>2. MaterialInv /\ [ProvisionNext]_provisionVars =>
        MaterialInv' /\ (UNCHANGED materialVars \/ \A c \in Commands : WrittenIsUsable(c))
  BY MaterialInduction
<1>3. MaterialInv /\ MaterialInv' /\ [ProvisionNext]_provisionVars =>
        [\A c \in Commands : WrittenIsUsable(c)]_materialVars
  BY <1>2
<1> QED BY <1>1, <1>2, <1>3, PTL DEF ProvisionSpec, WrittenUsable
================================================================================
