----------------------- MODULE TunnelConnectionProofs -----------------------
(***************************************************************************)
(* Theorems about TunnelConnection for every set of Visitors and every     *)
(* budget of permits.                                                      *)
(***************************************************************************)
EXTENDS TunnelConnection, TunnelStream, FiniteSetTheorems, SequenceTheorems, TLAPS

Count(f, stages) == Cardinality({v \in Visitors : f[v] \in stages})

One(b) == IF b THEN 1 ELSE 0

Working == {"opening", "opened", "passed", "placed"}
Holding == {"handling", "finished"}
Leasing == {"handling", "finished", "dropping", "leaving"}
Served == {"accepted", "registered", "committed", "answering"}
Waiting == {"registered", "committed", "answering"}

(***************************************************************************)
(* Permits, in terms of Count (PermitAccounting); a connection that does   *)
(* not offer credit yet acquires none.                                     *)
(***************************************************************************)
CreditInv ==
  /\ available + others + idle + Count(stream, Leasing) + One(acquisition = "ready") = Budget
  /\ held = idle + Count(stream, Holding)
  /\ task \in {"connecting", "joining", "candidate"} => acquisition = "none"

(***************************************************************************)
(* What the counters of Shared count: Visitor opens and placed Visitors,   *)
(* the CONNECT request, the event stream and the withdrawal requests.      *)
(***************************************************************************)
AccountInv ==
  /\ visitor_work = Count(placement, Working)
  /\ requests_in_flight = visitor_work + One(session = "connecting") + One(events_open)
                            + One(request[1] \in Served) + One(request[2] \in Served)
  /\ withdrawal_waiters = One(request[1] \in Waiting) + One(request[2] \in Waiting)

(***************************************************************************)
(* Each attempt of the withdrawal is a request of its own.                 *)
(***************************************************************************)
AttemptInv ==
  /\ withdrawal = "none" => attempt = 1 /\ request[1] = "none"
  /\ withdrawal = "sending" => request[attempt] = "none"
  /\ attempt = 1 => request[2] = "none"

(***************************************************************************)
(* Whoever has seen quiescence after the commit has seen the last Visitor. *)
(***************************************************************************)
CommitInv ==
  /\ \A r \in Attempts :
       /\ request[r] \in {"committed", "answering", "answered"} => withdrawn
       /\ request[r] \in {"answering", "answered"} => Placed = {}
  /\ closing # "withdrawal" => withdrawn
  /\ closing \in {"waiters", "sleeping"} => Placed = {}
  /\ withdrawal_confirmed => withdrawn /\ Placed = {}
  /\ withdrawal = "draining" => withdrawal_confirmed

(***************************************************************************)
(* After DRAIN no Visitor is placed, and the Client's CLOSE leaves no      *)
(* handler; before a session, or before its open, there is no stream.      *)
(***************************************************************************)
DrainInv ==
  /\ shutdown \in {"goaway", "drain_sent"} => goaway
  /\ shutdown = "drain_sent" => \A v \in Visitors : placement[v] \notin {"passed", "placed"}
  /\ draining => shutdown = "drain_sent"
  /\ task = "closing" => draining /\ \A v \in Visitors : stream[v] \notin Leasing
  /\ \A v \in Visitors :
       session # "established" \/ placement[v] \in {"idle", "checked", "opening"}
         => stream[v] = "none"

ConnectionInv ==
  TypeOK /\ CreditInv /\ AccountInv /\ AttemptInv /\ CommitInv /\ DrainInv

-----------------------------------------------------------------------------
(***************************************************************************)
(* Counting the Visitors in given stages when one of them moves on: the    *)
(* counters of both ends count exactly such sets.                          *)
(***************************************************************************)
LEMMA CountMove ==
  ASSUME NEW f, NEW g, NEW T, NEW v \in Visitors, \A w \in Visitors \ {v} : g[w] = f[w]
  PROVE  /\ Count(f, T) \in Nat
         /\ f[v] \in T => Count(f, T) >= 1
         /\ Count(g, T) = Count(f, T) + (IF g[v] \in T THEN 1 ELSE 0)
                            - (IF f[v] \in T THEN 1 ELSE 0)
<1> DEFINE before == {w \in Visitors : f[w] \in T}
           after  == {w \in Visitors : g[w] \in T}
           rest   == before \ {v}
<1>1. IsFiniteSet(before) /\ before \subseteq Visitors
  BY VisitorsAssumption, FS_Subset
<1>2. IsFiniteSet(rest) /\ v \notin rest
  BY <1>1, FS_RemoveElement
<1>3. /\ Cardinality(before) \in Nat
      /\ Cardinality(rest) \in Nat
  BY <1>1, <1>2, FS_CardinalityType
<1>4. Cardinality(rest) = IF v \in before THEN Cardinality(before) - 1
                                          ELSE Cardinality(before)
  BY <1>1, FS_RemoveElement
<1>5. v \in before <=> f[v] \in T
  OBVIOUS
<1>6. CASE g[v] \in T
  <2>1. after = rest \cup {v}
    BY <1>6
  <2>2. Cardinality(after) = Cardinality(rest) + 1
    BY <2>1, <1>2, FS_AddElement
  <2> QED
    BY <1>6, <2>2, <1>3, <1>4, <1>5 DEF Count
<1>7. CASE g[v] \notin T
  <2>1. after = rest
    BY <1>7
  <2>2. Cardinality(after) = Cardinality(rest)
    BY <2>1
  <2> QED
    BY <1>7, <2>2, <1>3, <1>4, <1>5 DEF Count
<1> QED
  BY <1>6, <1>7

(***************************************************************************)
(* A count is a natural number, grows with the set of stages, and is zero  *)
(* only when no Visitor is in such a stage.                                *)
(***************************************************************************)
LEMMA CountFacts ==
  ASSUME NEW f, NEW T, NEW U, T \subseteq U
  PROVE  /\ Count(f, U) \in Nat
         /\ Count(f, T) \in Nat
         /\ Count(f, T) <= Count(f, U)
         /\ Count(f, U) = 0 => \A v \in Visitors : f[v] \notin U
<1> DEFINE small == {w \in Visitors : f[w] \in T}
           large == {w \in Visitors : f[w] \in U}
<1>1. IsFiniteSet(large) /\ small \subseteq large
  BY VisitorsAssumption, FS_Subset
<1>2. IsFiniteSet(small) /\ Cardinality(small) <= Cardinality(large)
  BY <1>1, FS_Subset
<1>3. Cardinality(large) \in Nat /\ Cardinality(small) \in Nat
  BY <1>1, <1>2, FS_CardinalityType
<1>4. Cardinality(large) = 0 => large = {}
  BY <1>1, FS_EmptySet
<1> QED
  BY <1>2, <1>3, <1>4 DEF Count

-----------------------------------------------------------------------------
(***************************************************************************)
(* A step that moves no permit and no stream keeps the accounts of         *)
(* permits.                                                                *)
(***************************************************************************)
LEMMA CreditKept ==
  ASSUME CreditInv,
         UNCHANGED <<available, others, idle, acquisition, held, stream, task>>
  PROVE  CreditInv'
BY DEF CreditInv

(***************************************************************************)
(* A step that touches none of the Server's counters, nor what they count, *)
(* keeps the accounts of Shared.                                           *)
(***************************************************************************)
LEMMA AccountKept ==
  ASSUME AccountInv,
         UNCHANGED <<placement, visitor_work, requests_in_flight, session, events_open,
                     request, withdrawal_waiters>>
  PROVE  AccountInv'
BY DEF AccountInv

(***************************************************************************)
(* A step outside of the withdrawal keeps the attempts apart.              *)
(***************************************************************************)
LEMMA AttemptKept ==
  ASSUME AttemptInv,
         UNCHANGED <<withdrawal, attempt, request>>
  PROVE  AttemptInv'
BY DEF AttemptInv

(***************************************************************************)
(* A step that neither places a Visitor nor moves the withdrawal keeps     *)
(* what quiescence means.                                                  *)
(***************************************************************************)
LEMMA CommitKept ==
  ASSUME CommitInv,
         UNCHANGED <<placement, request, withdrawn, closing, withdrawal_confirmed,
                     withdrawal>>
  PROVE  CommitInv'
BY DEF CommitInv, Placed

(***************************************************************************)
(* A step that takes no part in the shutdown keeps what DRAIN and CLOSE    *)
(* mean.                                                                   *)
(***************************************************************************)
LEMMA DrainKept ==
  ASSUME DrainInv,
         UNCHANGED <<shutdown, goaway, placement, draining, task, stream, session>>
  PROVE  DrainInv'
BY DEF DrainInv

(***************************************************************************)
(* The number of streams that the transport has not freed is a natural     *)
(* number (set_limit compares it with the limit).                          *)
(***************************************************************************)
LEMMA LiveCount == Cardinality(Live) \in Nat
<1> DEFINE T == {"arriving", "handling", "dropping", "rejected", "resetting"}
<1>1. Count(stream, T) \in Nat
  BY CountFacts
<1> QED
  BY <1>1 DEF Count, Live

(***************************************************************************)
(* A counter at zero has nothing left to count: with no Visitor work       *)
(* nobody is placed or about to be, and with no request in flight there is *)
(* no Visitor work.                                                        *)
(***************************************************************************)
LEMMA NoWork ==
  ASSUME TypeOK, AccountInv
  PROVE  /\ visitor_work = 0 => \A v \in Visitors : placement[v] \notin Working
         /\ requests_in_flight = 0 => visitor_work = 0
<1>1. /\ Count(placement, Working) \in Nat
      /\ Count(placement, Working) = 0 => \A v \in Visitors : placement[v] \notin Working
  BY CountFacts
<1> QED
  BY <1>1 DEF AccountInv, One

(***************************************************************************)
(* Every step of a Visitor open keeps the invariant: the counters follow   *)
(* the stages, and a placement commits only before the withdrawal and      *)
(* never after DRAIN.                                                      *)
(***************************************************************************)
LEMMA PlaceStepInv ==
  ASSUME ConnectionInv, NEW CONSTANT v \in Visitors, PlaceStep(v)
  PROVE  ConnectionInv'
<1> USE BudgetAssumption
<1> USE DEF vars, placeVars, accountVars, commitVars, shutdownVars, serverVars, creditVars,
            budgetVars, taskVars, streamVars, withdrawVars, clientVars
<1>0. TypeOK /\ CreditInv /\ AccountInv /\ AttemptInv /\ CommitInv /\ DrainInv
  BY DEF ConnectionInv
<1>f1. placement' = [placement EXCEPT ![v] = placement'[v]]
        => /\ Count(placement, Working) \in Nat
           /\ placement[v] \in Working => Count(placement, Working) >= 1
           /\ Count(placement', Working) = Count(placement, Working)
                + (IF placement'[v] \in Working THEN 1 ELSE 0)
                - (IF placement[v] \in Working THEN 1 ELSE 0)
  <2>1. SUFFICES ASSUME placement' = [placement EXCEPT ![v] = placement'[v]]
                 PROVE  \A w \in Visitors \ {v} : placement'[w] = placement[w]
    BY CountMove
  <2> QED
    BY <1>0, <2>1 DEF TypeOK
<1>f2. stream' = [stream EXCEPT ![v] = stream'[v]]
        => /\ Count(stream, Leasing) \in Nat
           /\ stream[v] \in Leasing => Count(stream, Leasing) >= 1
           /\ Count(stream', Leasing) = Count(stream, Leasing)
                + (IF stream'[v] \in Leasing THEN 1 ELSE 0)
                - (IF stream[v] \in Leasing THEN 1 ELSE 0)
  <2>1. SUFFICES ASSUME stream' = [stream EXCEPT ![v] = stream'[v]]
                 PROVE  \A w \in Visitors \ {v} : stream'[w] = stream[w]
    BY CountMove
  <2> QED
    BY <1>0, <2>1 DEF TypeOK
<1>f3. stream' = [stream EXCEPT ![v] = stream'[v]]
        => /\ Count(stream, Holding) \in Nat
           /\ stream[v] \in Holding => Count(stream, Holding) >= 1
           /\ Count(stream', Holding) = Count(stream, Holding)
                + (IF stream'[v] \in Holding THEN 1 ELSE 0)
                - (IF stream[v] \in Holding THEN 1 ELSE 0)
  <2>1. SUFFICES ASSUME stream' = [stream EXCEPT ![v] = stream'[v]]
                 PROVE  \A w \in Visitors \ {v} : stream'[w] = stream[w]
    BY CountMove
  <2> QED
    BY <1>0, <2>1 DEF TypeOK
<1>1. CASE CheckAccepts(v)
  <2>1. TypeOK'
    BY <1>0, <1>1 DEF TypeOK, Placements, CheckAccepts, Place
  <2>2. AccountInv'
    BY <1>0, <1>1, <1>f1
       DEF AccountInv, CheckAccepts, Place, Working, One, Placements, TypeOK
  <2>3. CommitInv'
    BY <1>0, <1>1 DEF CommitInv, CheckAccepts, Place, Placed, TypeOK
  <2>4. DrainInv'
    BY <1>0, <1>1 DEF DrainInv, CheckAccepts, Place, TypeOK
  <2> QED
    BY <1>0, <1>1, <2>1, <2>2, <2>3, <2>4, CreditKept, AttemptKept
       DEF ConnectionInv, CheckAccepts, Place
<1>2. CASE StartWork(v)
  <2>1. TypeOK'
    BY <1>0, <1>2 DEF TypeOK, Placements, StartWork, Place
  <2>2. AccountInv'
    BY <1>0, <1>2, <1>f1 DEF AccountInv, StartWork, Place, Working, One, Placements, TypeOK
  <2>3. CommitInv'
    BY <1>0, <1>2 DEF CommitInv, StartWork, Place, Placed, TypeOK
  <2>4. DrainInv'
    BY <1>0, <1>2 DEF DrainInv, StartWork, Place, TypeOK
  <2> QED
    BY <1>0, <1>2, <2>1, <2>2, <2>3, <2>4, CreditKept, AttemptKept
       DEF ConnectionInv, StartWork, Place
<1>3. CASE OpenStream(v)
  <2>1. TypeOK'
    BY <1>0, <1>3 DEF TypeOK, Placements, Streams, OpenStream, Place
  <2>2. CreditInv'
    BY <1>0, <1>3, <1>f2, <1>f3
       DEF CreditInv, OpenStream, Place, DrainInv, TypeOK, Leasing, Holding, One
  <2>3. AccountInv'
    BY <1>0, <1>3, <1>f1 DEF AccountInv, OpenStream, Place, Working, One, Placements, TypeOK
  <2>4. CommitInv'
    BY <1>0, <1>3 DEF CommitInv, OpenStream, Place, Placed, TypeOK
  <2>5. DrainInv'
    BY <1>0, <1>3 DEF DrainInv, OpenStream, Place, TypeOK, Leasing
  <2> QED
    BY <1>0, <1>3, <2>1, <2>2, <2>3, <2>4, <2>5, AttemptKept
       DEF ConnectionInv, OpenStream, Place
<1>4. CASE PassGoaway(v)
  <2>1. TypeOK'
    BY <1>0, <1>4 DEF TypeOK, Placements, PassGoaway, Place
  <2>2. AccountInv'
    BY <1>0, <1>4, <1>f1 DEF AccountInv, PassGoaway, Place, Working, One, Placements, TypeOK
  <2>3. CommitInv'
    BY <1>0, <1>4 DEF CommitInv, PassGoaway, Place, Placed, TypeOK
  <2>4. DrainInv'
    BY <1>0, <1>4 DEF DrainInv, PassGoaway, Place, TypeOK
  <2> QED
    BY <1>0, <1>4, <2>1, <2>2, <2>3, <2>4, CreditKept, AttemptKept
       DEF ConnectionInv, PassGoaway, Place
<1>5. CASE CommitPlacement(v)
  <2>1. TypeOK'
    BY <1>0, <1>5 DEF TypeOK, Placements, CommitPlacement, Place
  <2>2. AccountInv'
    BY <1>0, <1>5, <1>f1
       DEF AccountInv, CommitPlacement, Place, Working, One, Placements, TypeOK
  <2>3. CommitInv'
    BY <1>0, <1>5 DEF CommitInv, CommitPlacement, Place, Placed, TypeOK
  <2>4. DrainInv'
    BY <1>0, <1>5 DEF DrainInv, CommitPlacement, Place, TypeOK
  <2> QED
    BY <1>0, <1>5, <2>1, <2>2, <2>3, <2>4, CreditKept, AttemptKept
       DEF ConnectionInv, CommitPlacement, Place
<1>6. CASE RejectOpened(v)
  <2>1. TypeOK'
    BY <1>0, <1>6, <1>f1
       DEF TypeOK, Placements, RejectOpened, Place, DropWork, AccountInv, Working, One
  <2>2. AccountInv'
    BY <1>0, <1>6, <1>f1
       DEF AccountInv, RejectOpened, Place, DropWork, Working, One, Placements, TypeOK
  <2>3. CommitInv'
    BY <1>0, <1>6 DEF CommitInv, RejectOpened, Place, DropWork, Placed, TypeOK
  <2>4. DrainInv'
    BY <1>0, <1>6 DEF DrainInv, RejectOpened, Place, DropWork, TypeOK
  <2> QED
    BY <1>0, <1>6, <2>1, <2>2, <2>3, <2>4, CreditKept, AttemptKept
       DEF ConnectionInv, RejectOpened, Place, DropWork
<1>7. CASE CancelOpen(v)
  <2>1. TypeOK'
    BY <1>0, <1>7, <1>f1
       DEF TypeOK, Placements, CancelOpen, Place, DropWork, AccountInv, Working, One
  <2>2. AccountInv'
    BY <1>0, <1>7, <1>f1
       DEF AccountInv, CancelOpen, Place, DropWork, Working, One, Placements, TypeOK
  <2>3. CommitInv'
    BY <1>0, <1>7 DEF CommitInv, CancelOpen, Place, DropWork, Placed, TypeOK
  <2>4. DrainInv'
    BY <1>0, <1>7 DEF DrainInv, CancelOpen, Place, DropWork, TypeOK
  <2> QED
    BY <1>0, <1>7, <2>1, <2>2, <2>3, <2>4, CreditKept, AttemptKept
       DEF ConnectionInv, CancelOpen, Place, DropWork
<1>8. CASE PlacedEnds(v)
  <2>1. TypeOK'
    BY <1>0, <1>8, <1>f1
       DEF TypeOK, Placements, PlacedEnds, Place, DropWork, AccountInv, Working, One
  <2>2. AccountInv'
    BY <1>0, <1>8, <1>f1
       DEF AccountInv, PlacedEnds, Place, DropWork, Working, One, Placements, TypeOK
  <2>3. CommitInv'
    BY <1>0, <1>8 DEF CommitInv, PlacedEnds, Place, DropWork, Placed, TypeOK
  <2>4. DrainInv'
    BY <1>0, <1>8 DEF DrainInv, PlacedEnds, Place, DropWork, TypeOK
  <2> QED
    BY <1>0, <1>8, <2>1, <2>2, <2>3, <2>4, CreditKept, AttemptKept
       DEF ConnectionInv, PlacedEnds, Place, DropWork
<1> QED
  BY <1>1, <1>2, <1>3, <1>4, <1>5, <1>6, <1>7, <1>8 DEF PlaceStep

(***************************************************************************)
(* Every step of a withdrawal request keeps the invariant: its answer      *)
(* begins after the commit, with no Visitor placed.                        *)
(***************************************************************************)
LEMMA RequestStepInv ==
  ASSUME ConnectionInv, NEW CONSTANT r \in Attempts, RequestStep(r)
  PROVE  ConnectionInv'
<1> USE BudgetAssumption
<1> USE DEF vars, placeVars, accountVars, commitVars, shutdownVars, serverVars, creditVars,
            budgetVars, taskVars, streamVars, withdrawVars, clientVars
<1>0. TypeOK /\ CreditInv /\ AccountInv /\ AttemptInv /\ CommitInv /\ DrainInv
  BY DEF ConnectionInv
<1>f1. visitor_work = 0 => Placed = {}
  BY <1>0, NoWork DEF Placed, Working
<1>1. CASE AcceptWithdrawal(r)
  <2>1. TypeOK'
    BY <1>0, <1>1
       DEF TypeOK, Requests, Attempts, AcceptWithdrawal, Answered, AccountInv, One, Served,
           Waiting
  <2>2. AccountInv'
    BY <1>0, <1>1
       DEF AccountInv, AcceptWithdrawal, Answered, One, Served, Waiting, TypeOK, Attempts,
           Requests
  <2>3. AttemptInv'
    BY <1>0, <1>1 DEF AttemptInv, AcceptWithdrawal, Answered, TypeOK, Attempts, Requests
  <2>4. CommitInv'
    BY <1>0, <1>1
       DEF CommitInv, AcceptWithdrawal, Answered, TypeOK, Attempts, Requests, Placed
  <2> QED
    BY <1>0, <1>1, <2>1, <2>2, <2>3, <2>4, CreditKept, DrainKept
       DEF ConnectionInv, AcceptWithdrawal, Answered
<1>2. CASE RejectUnprocessed(r)
  <2>1. TypeOK'
    BY <1>0, <1>2 DEF TypeOK, Requests, Attempts, RejectUnprocessed, Answered
  <2>2. AccountInv'
    BY <1>0, <1>2
       DEF AccountInv, RejectUnprocessed, Answered, One, Served, Waiting, TypeOK, Attempts,
           Requests
  <2>3. AttemptInv'
    BY <1>0, <1>2 DEF AttemptInv, RejectUnprocessed, Answered, TypeOK, Attempts, Requests
  <2>4. CommitInv'
    BY <1>0, <1>2
       DEF CommitInv, RejectUnprocessed, Answered, TypeOK, Attempts, Requests, Placed
  <2> QED
    BY <1>0, <1>2, <2>1, <2>2, <2>3, <2>4, CreditKept, DrainKept
       DEF ConnectionInv, RejectUnprocessed, Answered
<1>3. CASE RequestTimesOut(r)
  <2>1. TypeOK'
    BY <1>0, <1>3, CountFacts
       DEF TypeOK, Requests, Attempts, RequestTimesOut, Answered, AccountInv, One, Served,
           Waiting
  <2>2. AccountInv'
    BY <1>0, <1>3
       DEF AccountInv, RequestTimesOut, Answered, One, Served, Waiting, TypeOK, Attempts,
           Requests
  <2>3. AttemptInv'
    BY <1>0, <1>3 DEF AttemptInv, RequestTimesOut, Answered, TypeOK, Attempts, Requests
  <2>4. CommitInv'
    BY <1>0, <1>3
       DEF CommitInv, RequestTimesOut, Answered, TypeOK, Attempts, Requests, Placed
  <2> QED
    BY <1>0, <1>3, <2>1, <2>2, <2>3, <2>4, CreditKept, DrainKept
       DEF ConnectionInv, RequestTimesOut, Answered
<1>4. CASE RegisterWaiter(r)
  <2>1. TypeOK'
    BY <1>0, <1>4
       DEF TypeOK, Requests, Attempts, RegisterWaiter, Answered, AccountInv, One, Served,
           Waiting
  <2>2. AccountInv'
    BY <1>0, <1>4
       DEF AccountInv, RegisterWaiter, Answered, One, Served, Waiting, TypeOK, Attempts,
           Requests
  <2>3. AttemptInv'
    BY <1>0, <1>4 DEF AttemptInv, RegisterWaiter, Answered, TypeOK, Attempts, Requests
  <2>4. CommitInv'
    BY <1>0, <1>4
       DEF CommitInv, RegisterWaiter, Answered, TypeOK, Attempts, Requests, Placed
  <2> QED
    BY <1>0, <1>4, <2>1, <2>2, <2>3, <2>4, CreditKept, DrainKept
       DEF ConnectionInv, RegisterWaiter, Answered
<1>5. CASE CommitWithdrawal(r)
  <2>1. TypeOK'
    BY <1>0, <1>5 DEF TypeOK, Requests, Attempts, CommitWithdrawal, Answered
  <2>2. AccountInv'
    BY <1>0, <1>5
       DEF AccountInv, CommitWithdrawal, Answered, One, Served, Waiting, TypeOK, Attempts,
           Requests
  <2>3. AttemptInv'
    BY <1>0, <1>5 DEF AttemptInv, CommitWithdrawal, Answered, TypeOK, Attempts, Requests
  <2>4. CommitInv'
    BY <1>0, <1>5
       DEF CommitInv, CommitWithdrawal, Answered, TypeOK, Attempts, Requests, Placed
  <2> QED
    BY <1>0, <1>5, <2>1, <2>2, <2>3, <2>4, CreditKept, DrainKept
       DEF ConnectionInv, CommitWithdrawal, Answered
<1>6. CASE WithdrawalQuiescent(r)
  <2>1. TypeOK'
    BY <1>0, <1>6 DEF TypeOK, Requests, Attempts, WithdrawalQuiescent, Answered
  <2>2. AccountInv'
    BY <1>0, <1>6
       DEF AccountInv, WithdrawalQuiescent, Answered, One, Served, Waiting, TypeOK,
           Attempts, Requests
  <2>3. AttemptInv'
    BY <1>0, <1>6 DEF AttemptInv, WithdrawalQuiescent, Answered, TypeOK, Attempts, Requests
  <2>4. CommitInv'
    BY <1>0, <1>6, <1>f1
       DEF CommitInv, WithdrawalQuiescent, Answered, TypeOK, Attempts, Requests, Placed,
           Working
  <2> QED
    BY <1>0, <1>6, <2>1, <2>2, <2>3, <2>4, CreditKept, DrainKept
       DEF ConnectionInv, WithdrawalQuiescent, Answered
<1>7. CASE \E told \in BOOLEAN : SendConfirmation(r, told)
  <2>1. TypeOK'
    BY <1>0, <1>7, CountFacts
       DEF TypeOK, Requests, Attempts, SendConfirmation, Answered, AccountInv, One, Served,
           Waiting
  <2>2. AccountInv'
    BY <1>0, <1>7
       DEF AccountInv, SendConfirmation, Answered, One, Served, Waiting, TypeOK, Attempts,
           Requests
  <2>3. AttemptInv'
    BY <1>0, <1>7 DEF AttemptInv, SendConfirmation, Answered, TypeOK, Attempts, Requests
  <2>4. CommitInv'
    BY <1>0, <1>7
       DEF CommitInv, SendConfirmation, Answered, TypeOK, Attempts, Requests, Placed
  <2> QED
    BY <1>0, <1>7, <2>1, <2>2, <2>3, <2>4, CreditKept, DrainKept
       DEF ConnectionInv, SendConfirmation, Answered
<1> QED
  BY <1>1, <1>2, <1>3, <1>4, <1>5, <1>6, <1>7 DEF RequestStep

(***************************************************************************)
(* Every step of the Server's session, close and shutdown keeps the        *)
(* invariant: DRAIN is sent with no Visitor left.                          *)
(***************************************************************************)
LEMMA ServerStepInv ==
  ASSUME ConnectionInv, ServerStep
  PROVE  ConnectionInv'
<1> USE BudgetAssumption
<1> USE DEF vars, placeVars, accountVars, commitVars, shutdownVars, serverVars, creditVars,
            budgetVars, taskVars, streamVars, withdrawVars, clientVars
<1>0. TypeOK /\ CreditInv /\ AccountInv /\ AttemptInv /\ CommitInv /\ DrainInv
  BY DEF ConnectionInv
<1>f1. /\ visitor_work = 0 => Placed = {}
       /\ requests_in_flight = 0
            => visitor_work = 0 /\ \A v \in Visitors : placement[v] \notin {"passed", "placed"}
  BY <1>0, NoWork DEF Placed, Working
<1>f2. session = "connecting" => requests_in_flight - 1 \in Nat
  BY <1>0 DEF AccountInv, TypeOK, One
<1>f3. events_open => requests_in_flight - 1 \in Nat
  BY <1>0 DEF AccountInv, TypeOK, One
<1>1. CASE \E outcome \in {"accepted", "none"} : AcceptSession(outcome)
  <2>1. TypeOK'
    BY <1>0, <1>1, <1>f2 DEF TypeOK, AcceptSession
  <2>2. AccountInv'
    BY <1>0, <1>1 DEF AccountInv, AcceptSession, One, TypeOK
  <2>3. DrainInv'
    BY <1>0, <1>1 DEF DrainInv, AcceptSession
  <2> QED
    BY <1>0, <1>1, <2>1, <2>2, <2>3, CreditKept, AttemptKept, CommitKept
       DEF ConnectionInv, AcceptSession
<1>2. CASE PublishSession
  <2>1. TypeOK'
    BY <1>0, <1>2 DEF TypeOK, PublishSession
  <2>2. AccountInv'
    BY <1>0, <1>2 DEF AccountInv, PublishSession, One, TypeOK
  <2>3. DrainInv'
    BY <1>0, <1>2 DEF DrainInv, PublishSession
  <2> QED
    BY <1>0, <1>2, <2>1, <2>2, <2>3, CreditKept, AttemptKept, CommitKept
       DEF ConnectionInv, PublishSession
<1>3. CASE EventsEnd
  <2>1. requests_in_flight' \in Nat /\ events_open' \in BOOLEAN
    BY <1>3, <1>f3 DEF EventsEnd
  <2>2. TypeOK'
    BY <1>0, <1>3, <2>1 DEF TypeOK, EventsEnd
  <2>3. AccountInv'
    BY <1>0, <1>3 DEF AccountInv, EventsEnd, One, TypeOK
  <2> QED
    BY <1>0, <1>3, <2>2, <2>3, CreditKept, AttemptKept, CommitKept, DrainKept
       DEF ConnectionInv, EventsEnd
<1>4. CASE CloseSeesWithdrawal
  <2>1. TypeOK'
    BY <1>0, <1>4 DEF TypeOK, CloseSeesWithdrawal
  <2>2. CommitInv'
    BY <1>0, <1>4 DEF CommitInv, CloseSeesWithdrawal, Placed, TypeOK
  <2> QED
    BY <1>0, <1>4, <2>1, <2>2, CreditKept, AccountKept, AttemptKept, DrainKept
       DEF ConnectionInv, CloseSeesWithdrawal
<1>5. CASE CloseSeesQuiescence
  <2>1. TypeOK'
    BY <1>0, <1>5 DEF TypeOK, CloseSeesQuiescence
  <2>2. CommitInv'
    BY <1>0, <1>5, <1>f1 DEF CommitInv, CloseSeesQuiescence, Placed, TypeOK
  <2> QED
    BY <1>0, <1>5, <2>1, <2>2, CreditKept, AccountKept, AttemptKept, DrainKept
       DEF ConnectionInv, CloseSeesQuiescence
<1>6. CASE CloseSeesAnswer
  <2>1. TypeOK'
    BY <1>0, <1>6 DEF TypeOK, CloseSeesAnswer
  <2>2. CommitInv'
    BY <1>0, <1>6 DEF CommitInv, CloseSeesAnswer, Placed, TypeOK
  <2> QED
    BY <1>0, <1>6, <2>1, <2>2, CreditKept, AccountKept, AttemptKept, DrainKept
       DEF ConnectionInv, CloseSeesAnswer
<1>7. CASE PostQuiescenceClose
  <2>1. TypeOK'
    BY <1>0, <1>7 DEF TypeOK, Closings, PostQuiescenceClose, Close
  <2> QED
    BY <1>0, <1>7, <2>1, CreditKept, AccountKept, AttemptKept, CommitKept, DrainKept
       DEF ConnectionInv, PostQuiescenceClose, Close
<1>8. CASE RequestShutdown
  <2>1. TypeOK'
    BY <1>0, <1>8 DEF TypeOK, RequestShutdown
  <2>2. DrainInv'
    BY <1>0, <1>8 DEF DrainInv, RequestShutdown, TypeOK
  <2> QED
    BY <1>0, <1>8, <2>1, <2>2, CreditKept, AccountKept, AttemptKept, CommitKept
       DEF ConnectionInv, RequestShutdown
<1>9. CASE SendGoaway
  <2>1. TypeOK'
    BY <1>0, <1>9 DEF TypeOK, SendGoaway
  <2>2. DrainInv'
    BY <1>0, <1>9 DEF DrainInv, SendGoaway, TypeOK
  <2> QED
    BY <1>0, <1>9, <2>1, <2>2, CreditKept, AccountKept, AttemptKept, CommitKept
       DEF ConnectionInv, SendGoaway
<1>10. CASE SendDrain
  <2>1. TypeOK'
    BY <1>0, <1>10 DEF TypeOK, SendDrain
  <2>2. DrainInv'
    BY <1>0, <1>10, <1>f1 DEF DrainInv, SendDrain, TypeOK
  <2> QED
    BY <1>0, <1>10, <2>1, <2>2, CreditKept, AccountKept, AttemptKept, CommitKept
       DEF ConnectionInv, SendDrain
<1>11. CASE CloseWithoutSession
  <2>1. TypeOK'
    BY <1>0, <1>11 DEF TypeOK, Closings, CloseWithoutSession, Close
  <2> QED
    BY <1>0, <1>11, <2>1, CreditKept, AccountKept, AttemptKept, CommitKept, DrainKept
       DEF ConnectionInv, CloseWithoutSession, Close
<1>12. CASE SessionCloses
  <2>1. TypeOK'
    BY <1>0, <1>12 DEF TypeOK, Closings, SessionCloses, Close
  <2> QED
    BY <1>0, <1>12, <2>1, CreditKept, AccountKept, AttemptKept, CommitKept, DrainKept
       DEF ConnectionInv, SessionCloses, Close
<1> QED
  BY <1>1, <1>2, <1>3, <1>4, <1>5, <1>6, <1>7, <1>8, <1>9, <1>10, <1>11, <1>12
     DEF ServerStep

(***************************************************************************)
(* Every step of a stream at the Client keeps the invariant: permits move  *)
(* with the stream, and none are made.                                     *)
(***************************************************************************)
LEMMA HandlerStepInv ==
  ASSUME ConnectionInv, NEW CONSTANT v \in Visitors, HandlerStep(v)
  PROVE  ConnectionInv'
<1> USE BudgetAssumption
<1> USE DEF vars, placeVars, accountVars, commitVars, shutdownVars, serverVars, creditVars,
            budgetVars, taskVars, streamVars, withdrawVars, clientVars
<1>0. TypeOK /\ CreditInv /\ AccountInv /\ AttemptInv /\ CommitInv /\ DrainInv
  BY DEF ConnectionInv
<1>f1. stream' = [stream EXCEPT ![v] = stream'[v]]
        => /\ Count(stream, Leasing) \in Nat
           /\ stream[v] \in Leasing => Count(stream, Leasing) >= 1
           /\ Count(stream', Leasing) = Count(stream, Leasing)
                + (IF stream'[v] \in Leasing THEN 1 ELSE 0)
                - (IF stream[v] \in Leasing THEN 1 ELSE 0)
  <2>1. SUFFICES ASSUME stream' = [stream EXCEPT ![v] = stream'[v]]
                 PROVE  \A w \in Visitors \ {v} : stream'[w] = stream[w]
    BY CountMove
  <2> QED
    BY <1>0, <2>1 DEF TypeOK
<1>f2. stream' = [stream EXCEPT ![v] = stream'[v]]
        => /\ Count(stream, Holding) \in Nat
           /\ stream[v] \in Holding => Count(stream, Holding) >= 1
           /\ Count(stream', Holding) = Count(stream, Holding)
                + (IF stream'[v] \in Holding THEN 1 ELSE 0)
                - (IF stream[v] \in Holding THEN 1 ELSE 0)
  <2>1. SUFFICES ASSUME stream' = [stream EXCEPT ![v] = stream'[v]]
                 PROVE  \A w \in Visitors \ {v} : stream'[w] = stream[w]
    BY CountMove
  <2> QED
    BY <1>0, <2>1 DEF TypeOK
<1>f3. Count(stream', Holding) <= Count(stream', Leasing) /\ Count(stream', Holding) \in Nat
  BY CountFacts DEF Holding, Leasing
<1>1. CASE AssignIdle(v)
  <2>1. TypeOK'
    BY <1>0, <1>1, <1>f1, <1>f2, <1>f3, LiveCount
       DEF TypeOK, Streams, AssignIdle, Stream, Arrived, CreditInv, Leasing, Holding, One,
           SetLimit
  <2>2. CreditInv'
    BY <1>0, <1>1, <1>f1, <1>f2
       DEF CreditInv, AssignIdle, Stream, Arrived, TypeOK, Leasing, Holding, One, Streams
  <2>3. DrainInv'
    BY <1>0, <1>1 DEF DrainInv, AssignIdle, Stream, Arrived, TypeOK, Leasing, Streams
  <2> QED
    BY <1>0, <1>1, <2>1, <2>2, <2>3, AccountKept, AttemptKept, CommitKept
       DEF ConnectionInv, AssignIdle, Stream, Arrived
<1>2. CASE AssignSpare(v)
  <2>1. TypeOK'
    BY <1>0, <1>2, <1>f1, <1>f2, <1>f3, LiveCount
       DEF TypeOK, Streams, AssignSpare, Stream, Arrived, CreditInv, Leasing, Holding, One,
           SetLimit
  <2>2. CreditInv'
    BY <1>0, <1>2, <1>f1, <1>f2
       DEF CreditInv, AssignSpare, Stream, Arrived, TypeOK, Leasing, Holding, One, Streams
  <2>3. DrainInv'
    BY <1>0, <1>2 DEF DrainInv, AssignSpare, Stream, Arrived, TypeOK, Leasing, Streams
  <2> QED
    BY <1>0, <1>2, <2>1, <2>2, <2>3, AccountKept, AttemptKept, CommitKept
       DEF ConnectionInv, AssignSpare, Stream, Arrived
<1>3. CASE RejectArrived(v)
  <2>1. TypeOK'
    BY <1>0, <1>3, <1>f1, <1>f2, <1>f3, LiveCount
       DEF TypeOK, Streams, RejectArrived, Stream, Arrived, CreditInv, Leasing, Holding,
           One, SetLimit
  <2>2. CreditInv'
    BY <1>0, <1>3, <1>f1, <1>f2
       DEF CreditInv, RejectArrived, Stream, Arrived, TypeOK, Leasing, Holding, One, Streams
  <2>3. DrainInv'
    BY <1>0, <1>3 DEF DrainInv, RejectArrived, Stream, Arrived, TypeOK, Leasing, Streams
  <2> QED
    BY <1>0, <1>3, <2>1, <2>2, <2>3, AccountKept, AttemptKept, CommitKept
       DEF ConnectionInv, RejectArrived, Stream, Arrived
<1>4. CASE TransportFinishes(v)
  <2>1. TypeOK'
    BY <1>0, <1>4, <1>f1, <1>f2, <1>f3, LiveCount
       DEF TypeOK, Streams, TransportFinishes, Stream, Arrived, CreditInv, Leasing, Holding,
           One, SetLimit
  <2>2. CreditInv'
    BY <1>0, <1>4, <1>f1, <1>f2
       DEF CreditInv, TransportFinishes, Stream, Arrived, TypeOK, Leasing, Holding, One,
           Streams
  <2>3. DrainInv'
    BY <1>0, <1>4 DEF DrainInv, TransportFinishes, Stream, Arrived, TypeOK, Leasing, Streams
  <2> QED
    BY <1>0, <1>4, <2>1, <2>2, <2>3, AccountKept, AttemptKept, CommitKept
       DEF ConnectionInv, TransportFinishes, Stream, Arrived
<1>5. CASE HandlerDrops(v)
  <2>1. TypeOK'
    BY <1>0, <1>5, <1>f1, <1>f2, <1>f3, LiveCount
       DEF TypeOK, Streams, HandlerDrops, Stream, Arrived, CreditInv, Leasing, Holding, One,
           SetLimit
  <2>2. CreditInv'
    BY <1>0, <1>5, <1>f1, <1>f2
       DEF CreditInv, HandlerDrops, Stream, Arrived, TypeOK, Leasing, Holding, One, Streams
  <2>3. DrainInv'
    BY <1>0, <1>5 DEF DrainInv, HandlerDrops, Stream, Arrived, TypeOK, Leasing, Streams
  <2> QED
    BY <1>0, <1>5, <2>1, <2>2, <2>3, AccountKept, AttemptKept, CommitKept
       DEF ConnectionInv, HandlerDrops, Stream, Arrived
<1>6. CASE PermitReturns(v)
  <2>1. TypeOK'
    BY <1>0, <1>6, <1>f1, <1>f2, <1>f3, LiveCount
       DEF TypeOK, Streams, PermitReturns, Stream, Arrived, CreditInv, Leasing, Holding,
           One, SetLimit
  <2>2. CreditInv'
    BY <1>0, <1>6, <1>f1, <1>f2
       DEF CreditInv, PermitReturns, Stream, Arrived, TypeOK, Leasing, Holding, One, Streams
  <2>3. DrainInv'
    BY <1>0, <1>6 DEF DrainInv, PermitReturns, Stream, Arrived, TypeOK, Leasing, Streams
  <2> QED
    BY <1>0, <1>6, <2>1, <2>2, <2>3, AccountKept, AttemptKept, CommitKept
       DEF ConnectionInv, PermitReturns, Stream, Arrived
<1>7. CASE StreamFreed(v)
  <2>1. TypeOK'
    BY <1>0, <1>7, <1>f1, <1>f2, <1>f3, LiveCount
       DEF TypeOK, Streams, StreamFreed, Stream, Arrived, CreditInv, Leasing, Holding, One,
           SetLimit
  <2>2. CreditInv'
    BY <1>0, <1>7, <1>f1, <1>f2
       DEF CreditInv, StreamFreed, Stream, Arrived, TypeOK, Leasing, Holding, One, Streams
  <2>3. DrainInv'
    BY <1>0, <1>7 DEF DrainInv, StreamFreed, Stream, Arrived, TypeOK, Leasing, Streams
  <2> QED
    BY <1>0, <1>7, <2>1, <2>2, <2>3, AccountKept, AttemptKept, CommitKept
       DEF ConnectionInv, StreamFreed, Stream, Arrived
<1> QED
  BY <1>1, <1>2, <1>3, <1>4, <1>5, <1>6, <1>7 DEF HandlerStep

(***************************************************************************)
(* Every step of the Client's session task and of its withdrawal keeps the *)
(* invariant.                                                              *)
(***************************************************************************)
LEMMA ClientStepInv ==
  ASSUME ConnectionInv, ClientStep
  PROVE  ConnectionInv'
<1> USE BudgetAssumption
<1> USE DEF vars, placeVars, accountVars, commitVars, shutdownVars, serverVars, creditVars,
            budgetVars, taskVars, streamVars, withdrawVars, clientVars
<1>0. TypeOK /\ CreditInv /\ AccountInv /\ AttemptInv /\ CommitInv /\ DrainInv
  BY DEF ConnectionInv
<1>f1. /\ Count(stream, Holding) \in Nat /\ Count(stream, Leasing) \in Nat
       /\ Count(stream, Holding) <= Count(stream, Leasing)
  BY CountFacts DEF Holding, Leasing
<1>f2. task = "running" /\ Handlers = {} => \A v \in Visitors : stream[v] \notin Leasing
  BY DEF Handlers, Leasing
<1>1. CASE ConnectReturns
  <2>1. TypeOK'
    BY <1>0, <1>1 DEF TypeOK, ConnectReturns
  <2>2. CreditInv'
    BY <1>0, <1>1, <1>f1 DEF CreditInv, ConnectReturns, TypeOK, One
  <2>3. DrainInv'
    BY <1>0, <1>1 DEF DrainInv, ConnectReturns, TypeOK
  <2> QED
    BY <1>0, <1>1, <2>1, <2>2, <2>3, AccountKept, AttemptKept, CommitKept
       DEF ConnectionInv, ConnectReturns
<1>2. CASE ReleaseCredit
  <2>1. TypeOK'
    BY <1>0, <1>2 DEF TypeOK, ReleaseCredit
  <2>2. CreditInv'
    BY <1>0, <1>2, <1>f1 DEF CreditInv, ReleaseCredit, TypeOK, One
  <2>3. DrainInv'
    BY <1>0, <1>2 DEF DrainInv, ReleaseCredit, TypeOK
  <2> QED
    BY <1>0, <1>2, <2>1, <2>2, <2>3, AccountKept, AttemptKept, CommitKept
       DEF ConnectionInv, ReleaseCredit
<1>3. CASE AcquirePermit
  <2>1. TypeOK'
    BY <1>0, <1>3, <1>f1, LiveCount
       DEF TypeOK, AcquirePermit, CreditInv, One, SetLimit, NeedsIdle
  <2>2. CreditInv'
    BY <1>0, <1>3, <1>f1 DEF CreditInv, AcquirePermit, TypeOK, One
  <2> QED
    BY <1>0, <1>3, <2>1, <2>2, AccountKept, AttemptKept, CommitKept, DrainKept
       DEF ConnectionInv, AcquirePermit
<1>4. CASE OfferIdle
  <2>1. TypeOK'
    BY <1>0, <1>4, <1>f1, LiveCount
       DEF TypeOK, OfferIdle, CreditInv, One, SetLimit, NeedsIdle
  <2>2. CreditInv'
    BY <1>0, <1>4, <1>f1 DEF CreditInv, OfferIdle, TypeOK, One
  <2> QED
    BY <1>0, <1>4, <2>1, <2>2, AccountKept, AttemptKept, CommitKept, DrainKept
       DEF ConnectionInv, OfferIdle
<1>5. CASE DropAcquisition
  <2>1. TypeOK'
    BY <1>0, <1>5, <1>f1, LiveCount
       DEF TypeOK, DropAcquisition, CreditInv, One, SetLimit, NeedsIdle
  <2>2. CreditInv'
    BY <1>0, <1>5, <1>f1 DEF CreditInv, DropAcquisition, TypeOK, One
  <2> QED
    BY <1>0, <1>5, <2>1, <2>2, AccountKept, AttemptKept, CommitKept, DrainKept
       DEF ConnectionInv, DropAcquisition
<1>6. CASE ObserveDrain
  <2>1. maintaining' \in BOOLEAN
    BY <1>6 DEF ObserveDrain, ReleaseIdle
  <2>2. TypeOK'
    BY <1>0, <1>6, <2>1, <1>f1, LiveCount
       DEF TypeOK, ObserveDrain, ReleaseIdle, CreditInv, One, SetLimit, NeedsIdle
  <2>3. CreditInv'
    BY <1>0, <1>6, <1>f1 DEF CreditInv, ObserveDrain, ReleaseIdle, TypeOK, One
  <2>4. DrainInv'
    BY <1>0, <1>6 DEF DrainInv, ObserveDrain, ReleaseIdle, TypeOK
  <2> QED
    BY <1>0, <1>6, <2>2, <2>3, <2>4, AccountKept, AttemptKept, CommitKept
       DEF ConnectionInv, ObserveDrain, ReleaseIdle
<1>7. CASE CloseSession
  <2>1. TypeOK'
    BY <1>0, <1>7 DEF TypeOK, CloseSession
  <2>2. CreditInv'
    BY <1>0, <1>7, <1>f1 DEF CreditInv, CloseSession, TypeOK, One
  <2>3. DrainInv'
    BY <1>0, <1>7, <1>f2 DEF DrainInv, CloseSession, TypeOK
  <2> QED
    BY <1>0, <1>7, <2>1, <2>2, <2>3, AccountKept, AttemptKept, CommitKept
       DEF ConnectionInv, CloseSession
<1>8. CASE SessionTaskEnds
  <2>1. maintaining' \in BOOLEAN
    BY <1>8 DEF SessionTaskEnds, ReleaseIdle
  <2>2. TypeOK'
    BY <1>0, <1>8, <2>1, <1>f1, LiveCount
       DEF TypeOK, SessionTaskEnds, ReleaseIdle, CreditInv, One, SetLimit, NeedsIdle
  <2>3. CreditInv'
    BY <1>0, <1>8, <1>f1 DEF CreditInv, SessionTaskEnds, ReleaseIdle, TypeOK, One
  <2>4. DrainInv'
    BY <1>0, <1>8 DEF DrainInv, SessionTaskEnds, ReleaseIdle, TypeOK
  <2> QED
    BY <1>0, <1>8, <2>2, <2>3, <2>4, AccountKept, AttemptKept, CommitKept
       DEF ConnectionInv, SessionTaskEnds, ReleaseIdle
<1>9. CASE StartWithdrawal
  <2>1. maintaining' \in BOOLEAN
    BY <1>9 DEF StartWithdrawal
  <2>2. TypeOK'
    BY <1>0, <1>9, <2>1 DEF TypeOK, StartWithdrawal
  <2>3. AttemptInv'
    BY <1>0, <1>9 DEF AttemptInv, StartWithdrawal, TypeOK
  <2>4. CommitInv'
    BY <1>0, <1>9 DEF CommitInv, StartWithdrawal, TypeOK, Placed
  <2> QED
    BY <1>0, <1>9, <2>2, <2>3, <2>4, CreditKept, AccountKept, DrainKept
       DEF ConnectionInv, StartWithdrawal
<1>10. CASE SendWithdrawal
  <2>1. TypeOK'
    BY <1>0, <1>10 DEF TypeOK, Requests, Attempts, SendWithdrawal
  <2>2. AccountInv'
    BY <1>0, <1>10
       DEF AccountInv, SendWithdrawal, AttemptInv, TypeOK, One, Served, Waiting, Attempts,
           Requests
  <2>3. AttemptInv'
    BY <1>0, <1>10 DEF AttemptInv, SendWithdrawal, TypeOK, Attempts
  <2>4. CommitInv'
    BY <1>0, <1>10 DEF CommitInv, SendWithdrawal, Placed, TypeOK, Attempts
  <2> QED
    BY <1>0, <1>10, <2>1, <2>2, <2>3, <2>4, CreditKept, DrainKept
       DEF ConnectionInv, SendWithdrawal
<1>11. CASE WithdrawalForbidden
  <2>1. TypeOK'
    BY <1>0, <1>11 DEF TypeOK, Closings, WithdrawalForbidden, Close
  <2>2. AttemptInv'
    BY <1>0, <1>11 DEF AttemptInv, WithdrawalForbidden, Close, TypeOK
  <2>3. CommitInv'
    BY <1>0, <1>11 DEF CommitInv, WithdrawalForbidden, Close, TypeOK, Placed
  <2> QED
    BY <1>0, <1>11, <2>1, <2>2, <2>3, CreditKept, AccountKept, DrainKept
       DEF ConnectionInv, WithdrawalForbidden, Close
<1>12. CASE RetryWithdrawal
  <2>1. TypeOK'
    BY <1>0, <1>12 DEF TypeOK, Attempts, RetryWithdrawal
  <2>2. AttemptInv'
    BY <1>0, <1>12 DEF AttemptInv, RetryWithdrawal, TypeOK
  <2>3. CommitInv'
    BY <1>0, <1>12 DEF CommitInv, RetryWithdrawal, TypeOK, Placed
  <2> QED
    BY <1>0, <1>12, <2>1, <2>2, <2>3, CreditKept, AccountKept, DrainKept
       DEF ConnectionInv, RetryWithdrawal
<1>13. CASE WithdrawalExhausted
  <2>1. TypeOK'
    BY <1>0, <1>13 DEF TypeOK, Closings, WithdrawalExhausted, Close
  <2>2. AttemptInv'
    BY <1>0, <1>13 DEF AttemptInv, WithdrawalExhausted, Close, TypeOK
  <2>3. CommitInv'
    BY <1>0, <1>13 DEF CommitInv, WithdrawalExhausted, Close, TypeOK, Placed
  <2> QED
    BY <1>0, <1>13, <2>1, <2>2, <2>3, CreditKept, AccountKept, DrainKept
       DEF ConnectionInv, WithdrawalExhausted, Close
<1>14. CASE WithdrawalConfirmed
  <2>1. maintaining' \in BOOLEAN
    BY <1>14 DEF WithdrawalConfirmed, ReleaseIdle
  <2>2. TypeOK'
    BY <1>0, <1>14, <2>1, <1>f1, LiveCount
       DEF TypeOK, WithdrawalConfirmed, ReleaseIdle, CreditInv, One, SetLimit, NeedsIdle
  <2>3. CreditInv'
    BY <1>0, <1>14, <1>f1 DEF CreditInv, WithdrawalConfirmed, ReleaseIdle, TypeOK, One
  <2>4. AttemptInv'
    BY <1>0, <1>14 DEF AttemptInv, WithdrawalConfirmed, ReleaseIdle, TypeOK
  <2>5. CommitInv'
    BY <1>0, <1>14 DEF CommitInv, WithdrawalConfirmed, ReleaseIdle, TypeOK, Placed, Attempts
  <2> QED
    BY <1>0, <1>14, <2>2, <2>3, <2>4, <2>5, AccountKept, DrainKept
       DEF ConnectionInv, WithdrawalConfirmed, ReleaseIdle
<1>15. CASE WithdrawalDrained
  <2>1. TypeOK'
    BY <1>0, <1>15 DEF TypeOK, Closings, WithdrawalDrained, Close
  <2>2. AttemptInv'
    BY <1>0, <1>15 DEF AttemptInv, WithdrawalDrained, Close, TypeOK
  <2>3. CommitInv'
    BY <1>0, <1>15 DEF CommitInv, WithdrawalDrained, Close, TypeOK, Placed
  <2> QED
    BY <1>0, <1>15, <2>1, <2>2, <2>3, CreditKept, AccountKept, DrainKept
       DEF ConnectionInv, WithdrawalDrained, Close
<1>16. CASE WithdrawalLost
  <2>1. TypeOK'
    BY <1>0, <1>16 DEF TypeOK, WithdrawalLost
  <2>2. AttemptInv'
    BY <1>0, <1>16 DEF AttemptInv, WithdrawalLost, TypeOK
  <2>3. CommitInv'
    BY <1>0, <1>16 DEF CommitInv, WithdrawalLost, TypeOK, Placed
  <2> QED
    BY <1>0, <1>16, <2>1, <2>2, <2>3, CreditKept, AccountKept, DrainKept
       DEF ConnectionInv, WithdrawalLost
<1> QED
  BY <1>1, <1>2, <1>3, <1>4, <1>5, <1>6, <1>7, <1>8, <1>9, <1>10, <1>11, <1>12, <1>13, <1>14, <1>15,
     <1>16
     DEF ClientStep

(***************************************************************************)
(* The initial state satisfies the invariant: no Visitor, no stream, and   *)
(* the whole budget available.                                             *)
(***************************************************************************)
LEMMA InitInv == Init => ConnectionInv
<1> SUFFICES ASSUME Init PROVE ConnectionInv
  OBVIOUS
<1> USE BudgetAssumption
<1>1. TypeOK
  <2>1. /\ events_open \in BOOLEAN /\ withdrawn \in BOOLEAN /\ confirmed \in BOOLEAN
        /\ goaway \in BOOLEAN /\ maintaining \in BOOLEAN /\ draining \in BOOLEAN
        /\ retained \in BOOLEAN /\ withdrawal_confirmed \in BOOLEAN
    BY DEF Init
  <2> QED
    BY <2>1 DEF Init, TypeOK, Placements, Requests, Streams, Closings, Attempts
<1>2. /\ Count(placement, Working) = 0
      /\ Count(stream, Leasing) = 0 /\ Count(stream, Holding) = 0
  <2>1. /\ {v \in Visitors : placement[v] \in Working} = {}
        /\ {v \in Visitors : stream[v] \in Leasing} = {}
        /\ {v \in Visitors : stream[v] \in Holding} = {}
    BY DEF Init, Working, Leasing, Holding
  <2> QED
    BY <2>1, FS_EmptySet DEF Count
<1>3. CreditInv
  BY <1>2 DEF Init, CreditInv, One
<1>4. AccountInv
  BY <1>2 DEF Init, AccountInv, One, Served, Waiting, Attempts
<1>5. AttemptInv /\ CommitInv /\ DrainInv
  BY DEF Init, AttemptInv, CommitInv, DrainInv, Placed, Attempts, Leasing
<1> QED
  BY <1>1, <1>3, <1>4, <1>5 DEF ConnectionInv

(***************************************************************************)
(* The other connections of the Client instance exchange permits with the  *)
(* budget only, and the end of the connection moves no counter.            *)
(***************************************************************************)
LEMMA OtherStepInv ==
  ASSUME ConnectionInv, OtherConnection \/ ConnectionEnds \/ UNCHANGED vars
  PROVE  ConnectionInv'
<1> USE BudgetAssumption
<1> USE DEF vars, placeVars, accountVars, commitVars, shutdownVars, serverVars, creditVars,
            budgetVars, taskVars, streamVars, withdrawVars, clientVars
<1>0. TypeOK /\ CreditInv /\ AccountInv /\ AttemptInv /\ CommitInv /\ DrainInv
  BY DEF ConnectionInv
<1>1. CASE OtherConnection
  <2>1. Count(stream, Leasing) \in Nat
    BY CountFacts
  <2>2. TypeOK'
    BY <1>0, <1>1, <2>1 DEF TypeOK, OtherConnection, CreditInv, One
  <2>3. CreditInv'
    BY <1>0, <1>1, <2>1 DEF TypeOK, OtherConnection, CreditInv, One
  <2> QED
    BY <1>0, <1>1, <2>2, <2>3, AccountKept, AttemptKept, CommitKept, DrainKept
       DEF ConnectionInv, OtherConnection
<1>2. CASE ConnectionEnds
  <2>1. TypeOK'
    BY <1>0, <1>2 DEF TypeOK, ConnectionEnds, Close, Closings
  <2> QED
    BY <1>0, <1>2, <2>1, CreditKept, AccountKept, AttemptKept, CommitKept, DrainKept
       DEF ConnectionInv, ConnectionEnds, Close
<1>3. CASE UNCHANGED vars
  <2>1. TypeOK'
    BY <1>0, <1>3 DEF TypeOK
  <2> QED
    BY <1>0, <1>3, <2>1, CreditKept, AccountKept, AttemptKept, CommitKept, DrainKept
       DEF ConnectionInv
<1> QED
  BY <1>1, <1>2, <1>3

(***************************************************************************)
(* The inductive invariant holds in every reachable state.                 *)
(***************************************************************************)
THEOREM ConnectionCorrect == Spec => []ConnectionInv
<1>1. Init => ConnectionInv
  BY InitInv
<1>2. ConnectionInv /\ [Next]_vars => ConnectionInv'
  BY PlaceStepInv, RequestStepInv, ServerStepInv, HandlerStepInv, ClientStepInv,
     OtherStepInv DEF Next
<1> QED
  BY <1>1, <1>2, PTL DEF Spec

-----------------------------------------------------------------------------
(***************************************************************************)
(* Type correctness of both ends: no counter underflows, idle permits keep *)
(* their limit and no account exceeds the budget (Shared, VisitorCredits). *)
(***************************************************************************)
THEOREM TypeCorrect == Spec => []TypeOK
<1>1. ConnectionInv => TypeOK
  BY DEF ConnectionInv
<1> QED
  BY <1>1, ConnectionCorrect, PTL

(***************************************************************************)
(* Permits are conserved, whatever the budget and however many Visitors:   *)
(* VisitorCredits and VisitorPermit neither lose nor duplicate one.        *)
(***************************************************************************)
THEOREM PermitsConserved == Spec => []PermitAccounting
<1>1. ConnectionInv => PermitAccounting
  BY DEF ConnectionInv, CreditInv, PermitAccounting, Count, One, Handlers, Leasing, Holding
<1> QED
  BY <1>1, ConnectionCorrect, PTL

(***************************************************************************)
(* A withdrawal that is confirmed with 204 leaves no Visitor placed, then  *)
(* or later (open_visitor_stream, serve_withdrawal).                       *)
(***************************************************************************)
THEOREM WithdrawalSafe == Spec => []ConfirmedIsQuiescent
<1>1. ConnectionInv => ConfirmedIsQuiescent
  BY DEF ConnectionInv, CommitInv, ConfirmedIsQuiescent
<1> QED
  BY <1>1, ConnectionCorrect, PTL

(***************************************************************************)
(* No orderly close cuts a Visitor off: close_after_quiescence, the end of *)
(* a drained session, and the Client's close after a confirmed withdrawal. *)
(***************************************************************************)
THEOREM OrderlyCloseSafe == Spec => OrderlyCloseCutsNothing
<1> USE DEF vars, placeVars, accountVars, commitVars, shutdownVars, serverVars, creditVars,
            budgetVars, taskVars, streamVars, withdrawVars, clientVars
<1> DEFINE Orderly ==
      (Open /\ connection' \in {"quiesced", "drained", "withdrawn"}) =>
         /\ Placed = {}
         /\ connection' # "quiesced" => Handlers = {}
<1>1. ASSUME ConnectionInv, [Next]_vars
      PROVE  [Orderly]_vars
  <2>0. TypeOK /\ CreditInv /\ AccountInv /\ AttemptInv /\ CommitInv /\ DrainInv
    BY <1>1 DEF ConnectionInv
  <2>1. CASE PostQuiescenceClose
    BY <2>0, <2>1 DEF PostQuiescenceClose, Close, CommitInv
  <2>2. CASE CloseWithoutSession
    <3>1. Placed = {}
      BY <2>0, <2>2, NoWork DEF CloseWithoutSession, Placed, Working
    <3>2. Handlers = {}
      BY <2>0, <2>2 DEF CloseWithoutSession, DrainInv, Handlers
    <3> QED
      BY <3>1, <3>2
  <2>3. CASE SessionCloses
    <3>1. Placed = {}
      BY <2>0, <2>3 DEF SessionCloses, DrainInv, Placed
    <3>2. Handlers = {}
      BY <2>0, <2>3 DEF SessionCloses, DrainInv, Handlers, Leasing
    <3> QED
      BY <3>1, <3>2
  <2>4. CASE WithdrawalDrained
    BY <2>0, <2>4 DEF WithdrawalDrained, CommitInv
  <2>5. ASSUME NEW v \in Visitors, PlaceStep(v) \/ HandlerStep(v)
        PROVE  connection' = connection
    BY <2>5 DEF PlaceStep, HandlerStep, CheckAccepts, StartWork, OpenStream, PassGoaway,
         CommitPlacement, RejectOpened, CancelOpen, PlacedEnds, DropWork, AssignIdle,
         AssignSpare, RejectArrived, TransportFinishes, HandlerDrops, PermitReturns, StreamFreed
  <2>6. ASSUME NEW r \in Attempts, RequestStep(r)
        PROVE  connection' = connection
    BY <2>6 DEF RequestStep, AcceptWithdrawal, RejectUnprocessed, RequestTimesOut,
         RegisterWaiter, CommitWithdrawal, WithdrawalQuiescent, SendConfirmation
  <2>7. CASE ServerStep
    BY <2>1, <2>2, <2>3, <2>7
       DEF ServerStep, Open, AcceptSession, PublishSession, EventsEnd,
         CloseSeesWithdrawal, CloseSeesQuiescence, CloseSeesAnswer, RequestShutdown,
         SendGoaway, SendDrain
  <2>8. CASE ClientStep
    BY <2>4, <2>8 DEF ClientStep, Open, Close, ConnectReturns, ReleaseCredit, AcquirePermit,
         OfferIdle, DropAcquisition, ObserveDrain, CloseSession, SessionTaskEnds,
         StartWithdrawal, SendWithdrawal, WithdrawalForbidden, RetryWithdrawal,
         WithdrawalExhausted, WithdrawalConfirmed, WithdrawalLost
  <2>9. CASE OtherConnection \/ ConnectionEnds
    BY <2>9 DEF OtherConnection, ConnectionEnds, Close, Open
  <2> QED
    BY <1>1, <2>5, <2>6, <2>7, <2>8, <2>9 DEF Next, Open
<1> QED
  BY <1>1, ConnectionCorrect, PTL DEF Spec, OrderlyCloseCutsNothing
-----------------------------------------------------------------------------
(***************************************************************************)
(* The idle permits have been given up, on a connection that places no     *)
(* Visitor any more: after DRAIN, a confirmed withdrawal, or the close.    *)
(***************************************************************************)
Released == draining \/ withdrawal_confirmed \/ ~Open

(***************************************************************************)
(* What the Server may open, and what is on its way, is backed by idle     *)
(* permits, as long as no handler has outlived its stream (set_limit).     *)
(***************************************************************************)
BackedInv ==
  /\ ~retained => \A v \in Visitors : stream[v] \notin {"finished", "leaving"}
  /\ ~retained /\ ~Released => granted + Count(stream, {"arriving"}) <= idle

(***************************************************************************)
(* Visitors in disjoint sets of stages are counted apart.                  *)
(***************************************************************************)
LEMMA CountApart ==
  ASSUME NEW f, NEW T, NEW U, T \cap U = {}
  PROVE  Count(f, T \cup U) = Count(f, T) + Count(f, U)
<1> DEFINE A == {w \in Visitors : f[w] \in T}
           B == {w \in Visitors : f[w] \in U}
<1>1. IsFiniteSet(A) /\ IsFiniteSet(B)
  BY VisitorsAssumption, FS_Subset
<1>2. /\ {w \in Visitors : f[w] \in T \cup U} = A \cup B
      /\ A \cap B = {}
  OBVIOUS
<1>3. Cardinality(A) \in Nat /\ Cardinality(B) \in Nat /\ Cardinality({}) = 0
  BY <1>1, FS_CardinalityType, FS_EmptySet
<1>4. Cardinality(A \cup B) = Cardinality(A) + Cardinality(B) - Cardinality(A \cap B)
  BY <1>1, FS_Union
<1>5. Cardinality(A \cup B) = Cardinality(A) + Cardinality(B)
  <2>1. Cardinality(A \cap B) = 0
    BY <1>2, <1>3
  <2> QED
    BY <1>3, <1>4, <2>1
<1> QED
  BY <1>2, <1>5 DEF Count

(***************************************************************************)
(* Without a handler that outlived its stream, the limit counts idle       *)
(* permits and streams that a handler reads, so that what quinn allocates  *)
(* up to the limit is what idle permits leave (set_limit).                 *)
(***************************************************************************)
LEMMA LimitBacked ==
  ASSUME TypeOK, CreditInv, BackedInv, ~retained
  PROVE  /\ Count(stream, {"arriving"}) \in Nat
         /\ held - Cardinality(Live) <= idle - Count(stream, {"arriving"})
         /\ \A v \in Visitors : stream[v] \in {"rejected", "resetting"} =>
              held - (Cardinality(Live) - 1) <= idle - Count(stream, {"arriving"})
<1> DEFINE Rest == {"dropping", "rejected", "resetting"}
<1>1. /\ Count(stream, {"arriving"}) \in Nat /\ Count(stream, {"handling"}) \in Nat
      /\ Count(stream, Rest) \in Nat
  BY CountFacts
<1>2. Count(stream, {"arriving"} \cup {"handling"})
        = Count(stream, {"arriving"}) + Count(stream, {"handling"})
  BY CountApart
<1>3. Count(stream, ({"arriving"} \cup {"handling"}) \cup Rest)
        = Count(stream, {"arriving"} \cup {"handling"}) + Count(stream, Rest)
  BY CountApart
<1>4. Cardinality(Live) = Count(stream, ({"arriving"} \cup {"handling"}) \cup Rest)
  <2>1. Live = {v \in Visitors : stream[v] \in ({"arriving"} \cup {"handling"}) \cup Rest}
    BY DEF Live
  <2> QED
    BY <2>1 DEF Count
<1>5. Count(stream, Holding) = Count(stream, {"handling"})
  <2>1. {v \in Visitors : stream[v] \in Holding} = {v \in Visitors : stream[v] \in {"handling"}}
    BY DEF BackedInv, Holding
  <2> QED
    BY <2>1 DEF Count
<1>6. ASSUME NEW v \in Visitors, stream[v] \in {"rejected", "resetting"}
      PROVE  Count(stream, Rest) >= 1
  <2>1. stream[v] \in Rest => Count(stream, Rest) >= 1
    BY CountMove
  <2> QED
    BY <1>6, <2>1
<1>7. held \in Int /\ idle \in Int /\ held = idle + Count(stream, {"handling"})
  BY <1>5 DEF TypeOK, CreditInv
<1>8. Cardinality(Live) = Count(stream, {"arriving"}) + Count(stream, {"handling"})
                            + Count(stream, Rest)
  BY <1>1, <1>2, <1>3, <1>4
<1> HIDE DEF Rest
<1> QED
  BY <1>1, <1>6, <1>7, <1>8

(***************************************************************************)
(* A step that moves no stream, gives no credit and takes no idle permit   *)
(* keeps the credit backed.                                                *)
(***************************************************************************)
LEMMA BackedKept ==
  ASSUME BackedInv, UNCHANGED <<stream, retained, granted>>,
         Released => Released', Released' \/ idle' = idle
  PROVE  BackedInv'
BY DEF BackedInv, Count

(***************************************************************************)
(* Every step keeps the credit backed: a stream uses the credit it was     *)
(* opened with and then the permit behind it, and permits are given up     *)
(* only when nothing is placed (open_visitor_stream, VisitorCredits).      *)
(***************************************************************************)
LEMMA BackedStep ==
  ASSUME ConnectionInv, BackedInv, [Next]_vars
  PROVE  BackedInv'
<1> USE BudgetAssumption
<1> USE DEF vars, placeVars, accountVars, commitVars, shutdownVars, serverVars, creditVars,
            budgetVars, taskVars, streamVars, withdrawVars, clientVars
<1>0. TypeOK /\ CreditInv /\ AccountInv /\ AttemptInv /\ CommitInv /\ DrainInv
  BY DEF ConnectionInv
<1>1. ASSUME NEW v \in Visitors, PlaceStep(v)
      PROVE  BackedInv'
  <2>1. CASE OpenStream(v)
    <3>1. \A w \in Visitors \ {v} : stream'[w] = stream[w]
      BY <1>0, <2>1 DEF OpenStream, TypeOK
    <3>2. stream[v] = "none" /\ stream'[v] = "arriving"
      BY <1>0, <2>1 DEF OpenStream, TypeOK, DrainInv
    <3>3. /\ Count(stream', {"arriving"}) = Count(stream, {"arriving"}) + 1
          /\ Count(stream, {"arriving"}) \in Nat
      BY <3>1, <3>2, CountMove
    <3>4. UNCHANGED <<retained, idle, Released>> /\ granted' = granted - 1
      BY <2>1 DEF OpenStream, Released, Open
    <3> QED
      BY <1>0, <3>1, <3>2, <3>3, <3>4 DEF BackedInv, TypeOK
  <2>2. CASE ~OpenStream(v)
    BY <1>1, <2>2, BackedKept
       DEF PlaceStep, CheckAccepts, StartWork, PassGoaway, CommitPlacement, RejectOpened,
           CancelOpen, PlacedEnds, DropWork, Released, Open
  <2> QED
    BY <2>1, <2>2
<1>2. ASSUME NEW r \in Attempts, RequestStep(r)
      PROVE  BackedInv'
  BY <1>2, BackedKept
     DEF RequestStep, AcceptWithdrawal, RejectUnprocessed, RequestTimesOut, RegisterWaiter,
         CommitWithdrawal, WithdrawalQuiescent, SendConfirmation, Released, Open
<1>3. CASE ServerStep
  BY <1>3, BackedKept
     DEF ServerStep, AcceptSession, PublishSession, EventsEnd, CloseSeesWithdrawal,
         CloseSeesQuiescence, CloseSeesAnswer, PostQuiescenceClose, RequestShutdown,
         SendGoaway, SendDrain, CloseWithoutSession, SessionCloses, Close, Released, Open
<1>4. ASSUME NEW v \in Visitors, HandlerStep(v)
      PROVE  BackedInv'
  <2>1. CASE retained'
    BY <2>1 DEF BackedInv
  <2>2. CASE ~retained'
    <3>1. ~retained /\ Stream(v, stream'[v]) /\ UNCHANGED Released
      BY <1>0, <1>4, <2>2
         DEF HandlerStep, AssignIdle, AssignSpare, RejectArrived, TransportFinishes,
             HandlerDrops, PermitReturns, StreamFreed, Stream, Released, Open, TypeOK
    <3>2. \A w \in Visitors \ {v} : stream'[w] = stream[w]
      BY <1>0, <3>1 DEF Stream, TypeOK
    <3>3. /\ Count(stream, {"arriving"}) \in Nat
          /\ stream[v] = "arriving" => Count(stream, {"arriving"}) >= 1
          /\ Count(stream', {"arriving"})
               = Count(stream, {"arriving"}) + (IF stream'[v] = "arriving" THEN 1 ELSE 0)
                   - (IF stream[v] = "arriving" THEN 1 ELSE 0)
      <4>1. /\ Count(stream, {"arriving"}) \in Nat
            /\ stream[v] \in {"arriving"} => Count(stream, {"arriving"}) >= 1
            /\ Count(stream', {"arriving"})
                 = Count(stream, {"arriving"}) + (IF stream'[v] \in {"arriving"} THEN 1 ELSE 0)
                     - (IF stream[v] \in {"arriving"} THEN 1 ELSE 0)
        BY <3>2, CountMove
      <4> QED
        BY <4>1
    <3>4. stream'[v] \notin {"finished", "leaving", "arriving"} /\ stream[v] # "finished"
      BY <1>0, <1>4, <2>2, <3>1
         DEF HandlerStep, AssignIdle, AssignSpare, RejectArrived, TransportFinishes,
             HandlerDrops, PermitReturns, StreamFreed, Stream, TypeOK, BackedInv
    <3>5. ASSUME ~Released
          PROVE  granted' + Count(stream', {"arriving"}) <= idle'
      <4>0. /\ granted + Count(stream, {"arriving"}) <= idle
            /\ granted \in Nat /\ idle \in Nat /\ Cardinality(Live) \in Nat
        BY <1>0, <3>1, <3>5, LiveCount DEF BackedInv, TypeOK
      <4>1. CASE AssignIdle(v)
        BY <3>3, <3>4, <4>0, <4>1 DEF AssignIdle, Arrived
      <4>2. CASE AssignSpare(v) \/ RejectArrived(v)
        BY <3>3, <4>0, <4>2 DEF AssignSpare, RejectArrived, Arrived
      <4>3. CASE HandlerDrops(v) \/ PermitReturns(v)
        BY <3>3, <3>4, <4>0, <4>3 DEF HandlerDrops, PermitReturns
      <4>4. CASE StreamFreed(v)
        <5>1. held - (Cardinality(Live) - 1) <= idle - Count(stream, {"arriving"})
          BY <1>0, <3>1, <4>4, LimitBacked DEF StreamFreed
        <5> QED
          BY <1>0, <3>3, <3>4, <4>0, <4>4, <5>1 DEF StreamFreed, SetLimit, TypeOK
      <4> QED
        BY <1>4, <2>2, <4>1, <4>2, <4>3, <4>4 DEF HandlerStep, TransportFinishes
    <3> QED
      BY <3>1, <3>2, <3>4, <3>5 DEF BackedInv
  <2> QED
    BY <2>1, <2>2
<1>5. CASE ClientStep
  <2>1. CASE OfferIdle
    <3>1. UNCHANGED <<stream, retained, Released>>
      BY <2>1 DEF OfferIdle, Released, Open
    <3>2. ASSUME ~retained, ~Released
          PROVE  granted' + Count(stream, {"arriving"}) <= idle'
      <4>1. /\ Count(stream, {"arriving"}) \in Nat
            /\ held - Cardinality(Live) <= idle - Count(stream, {"arriving"})
            /\ granted + Count(stream, {"arriving"}) <= idle
        BY <1>0, <3>2, LimitBacked DEF BackedInv
      <4> QED
        BY <1>0, <2>1, <4>1, LiveCount DEF OfferIdle, SetLimit, TypeOK
    <3> QED
      BY <3>1, <3>2 DEF BackedInv
  <2>2. CASE ObserveDrain
    BY <2>2, BackedKept DEF ObserveDrain, Released
  <2>3. CASE SessionTaskEnds
    BY <2>3, BackedKept DEF SessionTaskEnds, Released, Open
  <2>4. CASE WithdrawalConfirmed
    BY <2>4, BackedKept DEF WithdrawalConfirmed, Released
  <2>5. CASE ConnectReturns \/ ReleaseCredit \/ AcquirePermit \/ DropAcquisition \/ CloseSession
    BY <2>5, BackedKept DEF ConnectReturns, ReleaseCredit, AcquirePermit, DropAcquisition,
         CloseSession, Released, Open
  <2>6. CASE \/ StartWithdrawal \/ SendWithdrawal \/ WithdrawalForbidden \/ RetryWithdrawal
             \/ WithdrawalExhausted \/ WithdrawalDrained \/ WithdrawalLost
    BY <2>6, BackedKept DEF Close, StartWithdrawal, SendWithdrawal, WithdrawalForbidden,
         RetryWithdrawal, WithdrawalExhausted, WithdrawalDrained, WithdrawalLost, Released, Open
  <2> QED
    BY <1>5, <2>1, <2>2, <2>3, <2>4, <2>5, <2>6 DEF ClientStep
<1>6. CASE OtherConnection \/ ConnectionEnds \/ UNCHANGED vars
  BY <1>6, BackedKept DEF OtherConnection, ConnectionEnds, Close, Released, Open
<1> QED
  BY <1>1, <1>2, <1>3, <1>4, <1>5, <1>6 DEF Next

(***************************************************************************)
(* A Visitor that the Server has placed finds a permit at the Client, also *)
(* during a withdrawal, whatever the budget, unless some handler outlived  *)
(* its stream (stop_replenishing, VisitorCredits::assign).                 *)
(***************************************************************************)
THEOREM PlacedIsBacked == Spec => PlacedFindsPermit
<1> DEFINE Finds ==
      \A v \in Visitors :
        (placement[v] = "placed" /\ stream[v] = "arriving" /\ stream'[v] = "rejected")
          => retained
<1>1. Init => BackedInv
  <2> SUFFICES ASSUME Init PROVE BackedInv
    OBVIOUS
  <2>1. {v \in Visitors : stream[v] \in {"arriving"}} = {}
    BY DEF Init
  <2>2. Count(stream, {"arriving"}) = 0
    BY <2>1, FS_EmptySet DEF Count
  <2> QED
    BY <2>2 DEF Init, BackedInv
<1>2. ConnectionInv /\ BackedInv /\ [Next]_vars => BackedInv'
  BY BackedStep
<1>3. ConnectionInv /\ BackedInv /\ [Next]_vars => [Finds]_vars
  <2> SUFFICES ASSUME ConnectionInv, BackedInv, Next, ~retained, NEW v \in Visitors,
                      placement[v] = "placed", stream[v] = "arriving",
                      stream'[v] = "rejected"
               PROVE  FALSE
    BY DEF vars
  <2>0. TypeOK /\ CommitInv /\ DrainInv
    BY DEF ConnectionInv
  <2>1. stream' # stream
    OBVIOUS
  <2>2. PICK w \in Visitors : PlaceStep(w) \/ HandlerStep(w)
    BY <2>1 DEF Next, RequestStep, AcceptWithdrawal, RejectUnprocessed, RequestTimesOut,
         RegisterWaiter, CommitWithdrawal, WithdrawalQuiescent, SendConfirmation,
         ServerStep, AcceptSession, PublishSession, EventsEnd, CloseSeesWithdrawal,
         CloseSeesQuiescence, CloseSeesAnswer, PostQuiescenceClose, RequestShutdown,
         SendGoaway, SendDrain, CloseWithoutSession, SessionCloses, Close, ClientStep,
         ConnectReturns, ReleaseCredit, AcquirePermit, OfferIdle, DropAcquisition,
         ObserveDrain, CloseSession, SessionTaskEnds, StartWithdrawal, SendWithdrawal,
         WithdrawalForbidden, RetryWithdrawal, WithdrawalExhausted, WithdrawalConfirmed,
         WithdrawalDrained, WithdrawalLost, OtherConnection, ConnectionEnds, streamVars,
         clientVars
  <2>3. RejectArrived(v)
    <3>1. w = v
      BY <2>0, <2>2
         DEF TypeOK, PlaceStep, CheckAccepts, StartWork, OpenStream, PassGoaway,
             CommitPlacement, RejectOpened, CancelOpen, PlacedEnds, DropWork, HandlerStep,
             AssignIdle, AssignSpare, RejectArrived, TransportFinishes, HandlerDrops,
             PermitReturns, StreamFreed, Stream, streamVars, clientVars
    <3> QED
      BY <2>0, <2>2, <3>1
         DEF TypeOK, PlaceStep, CheckAccepts, StartWork, OpenStream, PassGoaway,
             CommitPlacement, RejectOpened, CancelOpen, PlacedEnds, DropWork, HandlerStep,
             AssignIdle, AssignSpare, RejectArrived, TransportFinishes, HandlerDrops,
             PermitReturns, StreamFreed, Stream, streamVars, clientVars
  <2>4. ~Released
    BY <2>0, <2>3 DEF RejectArrived, Arrived, Released, CommitInv, DrainInv, Placed
  <2>5. Count(stream, {"arriving"}) \in Nat /\ Count(stream, {"arriving"}) >= 1
    <3>1. stream[v] \in {"arriving"} => Count(stream, {"arriving"}) >= 1
      BY CountMove
    <3>2. Count(stream, {"arriving"}) \in Nat
      BY CountFacts
    <3> QED
      BY <3>1, <3>2
  <2> QED
    BY <2>0, <2>3, <2>4, <2>5 DEF BackedInv, RejectArrived, TypeOK
<1> QED
  BY <1>1, <1>2, <1>3, ConnectionCorrect, PTL DEF Spec, PlacedFindsPermit

-----------------------------------------------------------------------------
(***************************************************************************)
(* One Visitor's bytes (TunnelStream), which this connection carries as a  *)
(* stream: for every number of bytes the two peers send.                   *)
(***************************************************************************)

(***************************************************************************)
(* What the buffers hold: the bytes a peer sends are numbered, and the two *)
(* parts of the frame have names.                                          *)
(***************************************************************************)
Items == Nat \cup {Addresses, Hello}
Before == {"intake", "handshake", "connect"}
Ends == {"open", "fin", "reset"}
NearStates == {"off", "idle", "writing", "finishing", "finished", "dropped"}

(***************************************************************************)
(* Types.                                                                  *)
(***************************************************************************)
StreamTypes ==
  /\ service \in [terminate : BOOLEAN, header : BOOLEAN]
  /\ sent \in [Directions -> 0..MaxBytes]
  /\ tcp \in [Directions -> [data : Seq(Items), end : Ends]]
  /\ near \in [Directions -> [state : NearStates, chunk : Seq(Items), held : Seq(Items)]]
  /\ wire \in [Directions -> [data : Seq(Items), end : Ends, stopped : BOOLEAN]]
  /\ far \in [Directions -> {"off", "running", "done"}]
  /\ out \in [Directions -> [data : Seq(Items), ended : BOOLEAN, left : BOOLEAN]]
  /\ handler \in Before \cup {"proxy", "done"}
  /\ cut \in BOOLEAN

(***************************************************************************)
(* What the near end of a direction sends: item n of it, behind the frame  *)
(* that read_tunnel_stream takes off; s continues it from n on.            *)
(***************************************************************************)
Lead(d) == IF d = "request" THEN 2 ELSE 0
Item(d, n) == IF n > Lead(d) THEN n - Lead(d) ELSE IF n = 1 THEN Addresses ELSE Hello
Follows(d, s, n) == \A i \in 1..Len(s) : s[i] = Item(d, n + i)

(***************************************************************************)
(* What the far end writes ahead of the bytes it copies.                   *)
(***************************************************************************)
Ahead(d) == IF d = "request" THEN Preamble ELSE <<>>
AheadLen(d) == Len(Ahead(d))

(***************************************************************************)
(* How many items have left the Tunnel stream, and the positions at which  *)
(* the write in flight, the chunk behind it and the TCP buffer start.      *)
(***************************************************************************)
Taken(d) ==
  CASE d = "request" /\ handler = "intake"                   -> 0
    [] d = "request" /\ handler \in {"handshake", "connect"} -> 2
    [] OTHER -> Lead(d) + Len(out[d].data) - AheadLen(d)

InStream(d) == Taken(d) + Len(wire[d].data)
InChunk(d) == InStream(d) + Len(near[d].chunk)
InHeld(d) == InChunk(d) + Len(near[d].held)

(***************************************************************************)
(* The buffers between the near end's socket and the far end's copy hold   *)
(* one run of items without gap or overlap; it reaches the last byte the   *)
(* peer sent unless that direction was reset or dropped.                   *)
(***************************************************************************)
Flows(d) ==
  /\ Follows(d, wire[d].data, Taken(d))
  /\ Follows(d, near[d].chunk, InStream(d))
  /\ Follows(d, near[d].held, InChunk(d))
  /\ InHeld(d) <= Lead(d) + sent[d]
  /\ tcp[d].end # "reset" /\ near[d].state # "dropped"
       => /\ Follows(d, tcp[d].data, InHeld(d))
          /\ InHeld(d) + Len(tcp[d].data) = Lead(d) + sent[d]

(***************************************************************************)
(* What the state of TunnelWriteHalf says of its buffers: only a write in  *)
(* flight holds a chunk, FIN is asked for behind the source's FIN, and     *)
(* only a completed FIN ends the stream so.                                *)
(***************************************************************************)
Stages(d) ==
  /\ near[d].state # "writing" => near[d].chunk = <<>>
  /\ near[d].state \in {"off", "finishing", "finished", "dropped"} => near[d].held = <<>>
  /\ near[d].state \in {"finishing", "finished"} => tcp[d].end = "fin" /\ tcp[d].data = <<>>
  /\ wire[d].end = "fin" => near[d].state = "finished"
  /\ tcp[d].end = "reset" => tcp[d].data = <<>>

(***************************************************************************)
(* The bytes delivered over TCP are those sent, in order, behind what is   *)
(* written ahead.                                                          *)
(***************************************************************************)
Delivered(d) ==
  /\ Len(out[d].data) <= AheadLen(d) + sent[d]
  /\ \A i \in 1..Len(out[d].data) :
       out[d].data[i] = IF i <= AheadLen(d) THEN Ahead(d)[i] ELSE i - AheadLen(d)

(***************************************************************************)
(* Before it proxies, the handler has given the backend nothing, and the   *)
(* backend has no near end yet.                                            *)
(***************************************************************************)
Handled ==
  /\ handler \in Before => out["request"].data = <<>> /\ near["response"].state = "off"
  /\ handler = "proxy" => AheadLen("request") <= Len(out["request"].data)

(***************************************************************************)
(* A handler that is gone says nothing about the positions in the request  *)
(* any more: no far end copies from there.                                 *)
(***************************************************************************)
DirectionInv(d) ==
  /\ Stages(d) /\ Delivered(d)
  /\ d = "response" \/ handler # "done" => Flows(d)

(***************************************************************************)
(* The inductive invariant of TunnelStream.                                *)
(***************************************************************************)
StreamInv == StreamTypes /\ Handled /\ \A d \in Directions : DirectionInv(d)

-----------------------------------------------------------------------------

(***************************************************************************)
(* The empty buffer continues every position.                              *)
(***************************************************************************)
LEMMA FollowsEmpty ==
  ASSUME NEW d \in Directions, NEW n \in Nat
  PROVE  Follows(d, <<>>, n)
BY DEF Follows

(***************************************************************************)
(* Appending the next item continues a run (PeerSends).                    *)
(***************************************************************************)
LEMMA FollowsAppend ==
  ASSUME NEW d \in Directions, NEW n \in Nat, NEW s \in Seq(Items), NEW x \in Items,
         Follows(d, s, n), x = Item(d, n + Len(s) + 1)
  PROVE  Follows(d, Append(s, x), n)
BY DEF Follows

(***************************************************************************)
(* One item in place is a run (the chunk of a copy).                       *)
(***************************************************************************)
LEMMA FollowsOne ==
  ASSUME NEW d \in Directions, NEW n \in Nat, NEW x \in Items, x = Item(d, n + 1)
  PROVE  Follows(d, <<x>>, n)
BY DEF Follows

(***************************************************************************)
(* Taking the head of a buffer moves its position by one (NearReads,       *)
(* FarCopies).                                                             *)
(***************************************************************************)
LEMMA FollowsTail ==
  ASSUME NEW d \in Directions, NEW n \in Nat, NEW s \in Seq(Items),
         Follows(d, s, n), s # <<>>
  PROVE  /\ Head(s) = Item(d, n + 1) /\ Head(s) \in Items
         /\ Tail(s) \in Seq(Items) /\ Len(Tail(s)) = Len(s) - 1 /\ Len(s) > 0
         /\ Follows(d, Tail(s), n + 1)
<1>1. Len(s) \in Nat /\ Len(s) > 0
  BY EmptySeq
<1>2. Head(s) = s[1] /\ Tail(s) \in Seq(Items) /\ Len(Tail(s)) = Len(s) - 1
      /\ \A i \in 1..(Len(s) - 1) : Tail(s)[i] = s[i + 1]
  BY <1>1, HeadTailProperties
<1>3. s[1] \in Items
  BY <1>1
<1>4. ASSUME NEW i \in 1..Len(Tail(s)) PROVE Tail(s)[i] = Item(d, n + 1 + i)
  <2>1. Tail(s)[i] = s[i + 1] /\ i + 1 \in 1..Len(s)
    BY <1>1, <1>2
  <2>2. s[i + 1] = Item(d, n + (i + 1))
    BY <2>1 DEF Follows
  <2>3. n + (i + 1) = n + 1 + i
    BY <1>1, <1>2
  <2> QED BY <2>1, <2>2, <2>3
<1> QED BY <1>1, <1>2, <1>3, <1>4 DEF Follows

(***************************************************************************)
(* Two runs that meet are one (poll_pending_write hands its chunk over).   *)
(***************************************************************************)
LEMMA FollowsConcat ==
  ASSUME NEW d \in Directions, NEW n \in Nat, NEW s \in Seq(Items), NEW t \in Seq(Items),
         Follows(d, s, n), Follows(d, t, n + Len(s))
  PROVE  /\ Follows(d, s \o t, n) /\ s \o t \in Seq(Items)
         /\ Len(s \o t) = Len(s) + Len(t)
<1>1. s \o t \in Seq(Items) /\ Len(s \o t) = Len(s) + Len(t) /\ Len(s) \in Nat /\ Len(t) \in Nat
      /\ \A i \in 1..(Len(s) + Len(t)) :
            (s \o t)[i] = IF i <= Len(s) THEN s[i] ELSE t[i - Len(s)]
  BY ConcatProperties
<1>2. ASSUME NEW i \in 1..Len(s \o t) PROVE (s \o t)[i] = Item(d, n + i)
  <2>1. CASE i <= Len(s)
    BY <2>1, <1>1 DEF Follows
  <2>2. CASE ~(i <= Len(s))
    <3>1. i - Len(s) \in 1..Len(t) /\ n + Len(s) + (i - Len(s)) = n + i
      BY <2>2, <1>1
    <3> QED BY <2>2, <3>1, <1>1 DEF Follows
  <2> QED BY <2>1, <2>2
<1> QED BY <1>1, <1>2 DEF Follows

(***************************************************************************)
(* A prefix of a run is a run (what a reset stream still delivers).        *)
(***************************************************************************)
LEMMA FollowsPrefix ==
  ASSUME NEW d \in Directions, NEW n \in Nat, NEW s \in Seq(Items), NEW k \in 0..Len(s),
         Follows(d, s, n)
  PROVE  /\ Follows(d, SubSeq(s, 1, k), n) /\ SubSeq(s, 1, k) \in Seq(Items)
         /\ Len(SubSeq(s, 1, k)) = k
<1>1. SubSeq(s, 1, k) \in Seq(Items) /\ Len(SubSeq(s, 1, k)) = k
      /\ \A i \in 1..k : SubSeq(s, 1, k)[i] = s[i]
  OBVIOUS
<1> QED BY <1>1 DEF Follows

(***************************************************************************)
(* Behind the two parts of the frame the run goes on (read_tunnel_stream). *)
(***************************************************************************)
LEMMA FollowsRest ==
  ASSUME NEW d \in Directions, NEW n \in Nat, NEW s \in Seq(Items), Len(s) >= 2,
         Follows(d, s, n)
  PROVE  /\ Follows(d, SubSeq(s, 3, Len(s)), n + 2) /\ SubSeq(s, 3, Len(s)) \in Seq(Items)
         /\ Len(SubSeq(s, 3, Len(s))) = Len(s) - 2
<1>1. SubSeq(s, 3, Len(s)) \in Seq(Items) /\ Len(SubSeq(s, 3, Len(s))) = Len(s) - 2
      /\ \A i \in 1..(Len(s) - 2) : SubSeq(s, 3, Len(s))[i] = s[i + 2]
  <2>1. 3 \in Int /\ Len(s) \in Int /\ \A i \in 3..Len(s) : s[i] \in Items
    OBVIOUS
  <2>2. /\ SubSeq(s, 3, Len(s)) \in Seq(Items)
        /\ Len(SubSeq(s, 3, Len(s))) = IF 3 <= Len(s) THEN Len(s) - 3 + 1 ELSE 0
        /\ \A i \in 1..(Len(s) - 3 + 1) : SubSeq(s, 3, Len(s))[i] = s[3 + i - 1]
    BY <2>1, SubSeqProperties
  <2>3. Len(s) - 3 + 1 = Len(s) - 2 /\ \A i \in 1..(Len(s) - 2) : 3 + i - 1 = i + 2
    BY <2>1
  <2> QED BY <2>1, <2>2, <2>3
<1>2. ASSUME NEW i \in 1..(Len(s) - 2) PROVE SubSeq(s, 3, Len(s))[i] = Item(d, n + 2 + i)
  <2>1. i + 2 \in 1..Len(s) /\ n + (i + 2) = n + 2 + i
    OBVIOUS
  <2> QED BY <1>1, <2>1 DEF Follows
<1> QED BY <1>1, <1>2 DEF Follows

(***************************************************************************)
(* What is written ahead is at most two items long.                        *)
(***************************************************************************)
LEMMA AheadType ==
  ASSUME StreamTypes, NEW d \in Directions
  PROVE  /\ Ahead(d) \in Seq(Items) /\ AheadLen(d) \in 0..2
         /\ Lead(d) \in 0..2
<1>1. Preamble \in Seq(Items) /\ Len(Preamble) \in 0..2
  <2> DEFINE a == IF service.header THEN <<Addresses>> ELSE <<>>
             b == IF service.terminate THEN <<>> ELSE <<Hello>>
  <2>0. /\ <<>> \in Seq(Items) /\ Len(<<>>) = 0
        /\ <<Addresses>> \in Seq(Items) /\ Len(<<Addresses>>) = 1
        /\ <<Hello>> \in Seq(Items) /\ Len(<<Hello>>) = 1
    BY DEF Items
  <2>1. a \in Seq(Items) /\ Len(a) \in 0..1
    <3>1. CASE service.header
      BY <2>0, <3>1
    <3>2. CASE ~service.header
      BY <2>0, <3>2
    <3> QED BY <3>1, <3>2
  <2>2. b \in Seq(Items) /\ Len(b) \in 0..1
    <3>1. CASE service.terminate
      BY <2>0, <3>1
    <3>2. CASE ~service.terminate
      BY <2>0, <3>2
    <3> QED BY <3>1, <3>2
  <2> HIDE DEF a, b
  <2>3. a \o b \in Seq(Items) /\ Len(a \o b) \in 0..2
    BY <2>1, <2>2, ConcatProperties
  <2> QED BY <2>3 DEF a, b, Preamble
<1> QED BY <1>1 DEF Ahead, AheadLen, Lead

(***************************************************************************)
(* A step that leaves the buffers of a direction alone keeps its           *)
(* invariant, even when it resets its wire or ends its handler.            *)
(***************************************************************************)
LEMMA DirectionSame ==
  ASSUME StreamInv, NEW d \in Directions, service' = service,
         handler' = handler \/ d = "response" \/ handler' = "done",
         sent'[d] = sent[d], tcp'[d] = tcp[d], near'[d] = near[d],
         wire'[d].data = wire[d].data, wire'[d].end \in {wire[d].end, "reset"},
         out'[d].data = out[d].data
  PROVE  DirectionInv(d)'
<1>1. DirectionInv(d)
  BY DEF StreamInv
<1>2. Ahead(d)' = Ahead(d) /\ AheadLen(d)' = AheadLen(d)
  BY DEF Ahead, AheadLen, Preamble
<1>3. Stages(d)'
  BY <1>1 DEF DirectionInv, Stages
<1>4. Delivered(d)'
  BY <1>1, <1>2 DEF DirectionInv, Delivered
<1>5. ASSUME d = "response" \/ handler' # "done" PROVE Flows(d)'
  <2>1. Taken(d)' = Taken(d)
    BY <1>2, <1>5 DEF Taken
  <2>2. InStream(d)' = InStream(d) /\ InChunk(d)' = InChunk(d) /\ InHeld(d)' = InHeld(d)
    BY <2>1 DEF InStream, InChunk, InHeld
  <2>3. Flows(d)
    BY <1>1, <1>5 DEF DirectionInv
  <2> QED BY <2>1, <2>2, <2>3 DEF Flows, Follows
<1> QED BY <1>3, <1>4, <1>5 DEF DirectionInv

(***************************************************************************)
(* The positions are natural numbers.                                      *)
(***************************************************************************)
LEMMA TakenType ==
  ASSUME StreamInv, NEW d \in Directions, d = "response" \/ handler # "done"
  PROVE  /\ Taken(d) \in Nat /\ InStream(d) \in Nat /\ InChunk(d) \in Nat /\ InHeld(d) \in Nat
         /\ handler \notin {"intake", "handshake", "connect"} \/ d = "response" =>
              Taken(d) = Lead(d) + Len(out[d].data) - AheadLen(d)
<1>1. StreamTypes /\ Handled
  BY DEF StreamInv
<1>2. Len(out[d].data) \in Nat /\ Len(wire[d].data) \in Nat
      /\ Len(near[d].chunk) \in Nat /\ Len(near[d].held) \in Nat
  BY <1>1 DEF StreamTypes
<1>3. AheadLen(d) \in Nat /\ Lead(d) \in Nat /\ (d = "response" => AheadLen(d) = 0)
      /\ (d = "request" => Lead(d) = 2 /\ AheadLen(d) <= 2)
  <2>1. AheadLen(d) \in 0..2 /\ Lead(d) \in 0..2
    BY <1>1, AheadType
  <2>2. d = "response" => AheadLen(d) = 0
    BY DEF Ahead, AheadLen
  <2>3. d = "request" => Lead(d) = 2
    BY DEF Lead
  <2> QED BY <2>1, <2>2, <2>3
<1>4. d = "request" /\ handler = "proxy" => AheadLen(d) <= Len(out[d].data)
  BY <1>1 DEF Handled
<1>5. Taken(d) \in Nat
  BY <1>1, <1>2, <1>3, <1>4, SMTT(30) DEF Taken, StreamTypes, Directions, Before
<1>6. handler \notin {"intake", "handshake", "connect"} \/ d = "response" =>
              Taken(d) = Lead(d) + Len(out[d].data) - AheadLen(d)
  BY DEF Taken
<1>7. InStream(d) \in Nat
  BY <1>2, <1>5 DEF InStream
<1>8. InChunk(d) \in Nat
  BY <1>2, <1>7 DEF InChunk
<1>9. InHeld(d) \in Nat
  BY <1>2, <1>8 DEF InHeld
<1> QED BY <1>5, <1>6, <1>7, <1>8, <1>9

(***************************************************************************)
(* Dropping the near end of a direction loses what was in flight and       *)
(* resets the stream: the invariant survives.                              *)
(***************************************************************************)
LEMMA DirectionDropped ==
  ASSUME StreamInv, NEW d \in Directions, service' = service,
         handler' = handler \/ d = "response" \/ handler' = "done",
         sent'[d] = sent[d], tcp'[d] = tcp[d],
         near'[d].state = "dropped", near'[d].chunk = <<>>, near'[d].held = <<>>,
         NEW kept \in 0..Len(wire[d].data),
         wire'[d].data = SubSeq(wire[d].data, 1, kept), wire'[d].end = "reset",
         out'[d].data = out[d].data
  PROVE  DirectionInv(d)'
<1>1. DirectionInv(d) /\ StreamTypes
  BY DEF StreamInv
<1>2. Ahead(d)' = Ahead(d) /\ AheadLen(d)' = AheadLen(d)
  BY DEF Ahead, AheadLen, Preamble
<1>3. Stages(d)'
  BY <1>1 DEF DirectionInv, Stages
<1>4. Delivered(d)'
  BY <1>1, <1>2 DEF DirectionInv, Delivered
<1>5. ASSUME d = "response" \/ handler' # "done" PROVE Flows(d)'
  <2>1. Taken(d)' = Taken(d) /\ Taken(d) \in Nat
    BY <1>2, <1>5, TakenType DEF Taken
  <2>2. Flows(d)
    BY <1>1, <1>5 DEF DirectionInv
  <2>3. wire[d].data \in Seq(Items) /\ Len(near[d].chunk) \in Nat /\ Len(near[d].held) \in Nat
    BY <1>1 DEF StreamTypes
  <2>4. Follows(d, wire'[d].data, Taken(d)) /\ Len(wire'[d].data) = kept
    BY <2>1, <2>2, <2>3, FollowsPrefix DEF Flows
  <2>5. InStream(d)' = Taken(d) + kept /\ InChunk(d)' = Taken(d) + kept
        /\ InHeld(d)' = Taken(d) + kept
    BY <2>1, <2>4 DEF InStream, InChunk, InHeld
  <2>6. Taken(d) + kept <= InStream(d) /\ InStream(d) \in Nat
    BY <2>1, <2>3 DEF InStream
  <2>7. InStream(d) <= InChunk(d) /\ InChunk(d) \in Nat
    BY <2>3, <2>6, SMTT(30) DEF InChunk
  <2>8. InChunk(d) <= InHeld(d) /\ InHeld(d) \in Nat
    BY <2>3, <2>7, SMTT(30) DEF InHeld
  <2>9. InHeld(d) <= Lead(d) + sent[d] /\ Lead(d) \in Nat /\ sent[d] \in Nat
    <3>1. Lead(d) \in 0..2 /\ sent[d] \in 0..MaxBytes
      BY <1>1, AheadType DEF StreamTypes
    <3> QED BY <3>1, <2>2 DEF Flows
  <2>10. Taken(d) + kept <= Lead(d) + sent[d]
    BY <2>1, <2>6, <2>7, <2>8, <2>9
  <2> QED BY <2>1, <2>4, <2>5, <2>10, FollowsEmpty DEF Flows, Follows
<1> QED BY <1>3, <1>4, <1>5 DEF DirectionInv

(***************************************************************************)
(* What the invariant says of one direction, typed part by part.           *)
(***************************************************************************)
LEMMA DirectionFacts ==
  ASSUME StreamInv, NEW d \in Directions
  PROVE  /\ StreamTypes /\ Handled /\ DirectionInv(d) /\ Stages(d) /\ Delivered(d)
         /\ sent[d] \in Nat /\ AheadLen(d) \in Nat /\ Lead(d) \in Nat
         /\ tcp[d].data \in Seq(Items) /\ Len(tcp[d].data) \in Nat
         /\ near[d].chunk \in Seq(Items) /\ Len(near[d].chunk) \in Nat
         /\ near[d].held \in Seq(Items) /\ Len(near[d].held) \in Nat
         /\ wire[d].data \in Seq(Items) /\ Len(wire[d].data) \in Nat
         /\ out[d].data \in Seq(Items) /\ Len(out[d].data) \in Nat
<1>1. StreamTypes /\ Handled /\ DirectionInv(d) /\ Stages(d) /\ Delivered(d)
  BY DEF StreamInv, DirectionInv
<1>2. AheadLen(d) \in 0..2 /\ Lead(d) \in 0..2 /\ sent[d] \in 0..MaxBytes
  BY <1>1, AheadType DEF StreamTypes
<1>3. /\ tcp[d].data \in Seq(Items) /\ near[d].chunk \in Seq(Items)
      /\ near[d].held \in Seq(Items) /\ wire[d].data \in Seq(Items)
      /\ out[d].data \in Seq(Items)
  BY <1>1 DEF StreamTypes
<1>4. sent[d] \in Nat /\ AheadLen(d) \in Nat /\ Lead(d) \in Nat
  BY <1>2
<1> QED BY <1>1, <1>3, <1>4, SMTT(30)

(***************************************************************************)
(* What is written ahead only depends on the service.                      *)
(***************************************************************************)
LEMMA AheadSame ==
  ASSUME service' = service, NEW d \in Directions
  PROVE  Ahead(d)' = Ahead(d) /\ AheadLen(d)' = AheadLen(d) /\ Lead(d)' = Lead(d)
BY DEF Ahead, AheadLen, Preamble, Lead

(***************************************************************************)
(* A step before or after which the handler stands where it stood, or is   *)
(* gone, keeps what its stage means.                                       *)
(***************************************************************************)
LEMMA HandledSame ==
  ASSUME StreamInv, service' = service, handler' = handler \/ handler' = "done",
         out'["request"].data = out["request"].data,
         near["response"].state = "off" => near'["response"].state = "off"
  PROVE  Handled'
BY AheadSame DEF StreamInv, Handled, Before, Directions

(***************************************************************************)
(* A peer sends a byte.                                                    *)
(***************************************************************************)
LEMMA PeerSendsStep ==
  ASSUME StreamInv, NEW d \in Directions, PeerSends(d)
  PROVE  StreamInv'
<1>1. StreamTypes /\ Handled /\ DirectionInv(d) /\ tcp[d].data \in Seq(Items)
      /\ sent[d] \in Nat /\ Len(tcp[d].data) \in Nat /\ Lead(d) \in Nat
  BY DirectionFacts
<1>2. tcp[d].end = "open" /\ sent[d] + 1 \in 0..MaxBytes
  <2>1. tcp[d].end = "open" /\ sent[d] < MaxBytes /\ MaxBytes \in Nat
    BY BytesAssumption DEF PeerSends
  <2> QED BY <1>1, <2>1
<1>3. /\ sent[d] + 1 \in Items
      /\ Append(tcp[d].data, sent[d] + 1) \in Seq(Items)
      /\ Len(Append(tcp[d].data, sent[d] + 1)) = Len(tcp[d].data) + 1
  BY <1>1, AppendProperties DEF Items
<1>4. /\ sent' = [sent EXCEPT ![d] = sent[d] + 1]
      /\ tcp' = [tcp EXCEPT ![d].data = Append(tcp[d].data, sent[d] + 1)]
      /\ UNCHANGED <<service, near, wire, far, out, handler, cut>>
  BY DEF PeerSends
<1>5. StreamTypes'
  <2>1. sent' \in [Directions -> 0..MaxBytes]
    <3>1. sent \in [Directions -> 0..MaxBytes]
      BY <1>1 DEF StreamTypes
    <3> QED BY <3>1, <1>2, <1>4
  <2>2. tcp' \in [Directions -> [data : Seq(Items), end : Ends]]
    <3>1. tcp \in [Directions -> [data : Seq(Items), end : Ends]]
      BY <1>1 DEF StreamTypes
    <3>2. tcp' = [tcp EXCEPT ![d].data = Append(tcp[d].data, sent[d] + 1)]
      BY <1>4
    <3> QED BY <3>1, <3>2, <1>3
  <2> QED BY <1>1, <1>4, <2>1, <2>2 DEF StreamTypes
<1>6. /\ sent'[d] = sent[d] + 1 /\ tcp'[d].end = "open"
      /\ tcp'[d].data = Append(tcp[d].data, sent[d] + 1)
      /\ \A e \in Directions : e # d => sent'[e] = sent[e] /\ tcp'[e] = tcp[e]
  BY <1>1, <1>2, <1>4 DEF StreamTypes
<1>7. Stages(d)'
  BY <1>1, <1>2, <1>4, <1>6 DEF DirectionInv, Stages
<1>8. Ahead(d)' = Ahead(d) /\ AheadLen(d)' = AheadLen(d) /\ Lead(d)' = Lead(d)
  BY <1>4, AheadSame
<1>9. Delivered(d)'
  <2>1. Len(out[d].data) \in Nat /\ AheadLen(d) \in Nat
    BY DirectionFacts
  <2>2. Len(out[d].data) <= AheadLen(d) + sent[d]
    BY <1>1 DEF DirectionInv, Delivered
  <2>3. Len(out[d].data) <= AheadLen(d) + (sent[d] + 1)
    BY <1>1, <2>1, <2>2
  <2> QED BY <1>1, <1>4, <1>6, <1>8, <2>3 DEF DirectionInv, Delivered
<1>10. ASSUME d = "response" \/ handler # "done" PROVE Flows(d)'
  <2>1. Flows(d) /\ InHeld(d) \in Nat
    BY <1>1, <1>10, TakenType DEF DirectionInv
  <2>2. /\ Taken(d)' = Taken(d) /\ InStream(d)' = InStream(d)
        /\ InChunk(d)' = InChunk(d) /\ InHeld(d)' = InHeld(d)
    BY <1>4, <1>8 DEF Taken, InStream, InChunk, InHeld
  <2>3. InHeld(d) <= Lead(d) + (sent[d] + 1)
    BY <1>1, <2>1 DEF Flows
  <2>4. ASSUME near[d].state # "dropped"
        PROVE  /\ Follows(d, Append(tcp[d].data, sent[d] + 1), InHeld(d))
               /\ InHeld(d) + (Len(tcp[d].data) + 1) = Lead(d) + (sent[d] + 1)
    <3>1. InHeld(d) + Len(tcp[d].data) = Lead(d) + sent[d]
      BY <1>2, <2>1, <2>4 DEF Flows
    <3>2. Follows(d, tcp[d].data, InHeld(d))
      BY <1>2, <2>1, <2>4 DEF Flows
    <3>3. Item(d, InHeld(d) + Len(tcp[d].data) + 1) = sent[d] + 1
      BY <1>1, <2>1, <3>1 DEF Item
    <3>4. Follows(d, Append(tcp[d].data, sent[d] + 1), InHeld(d))
      BY <1>1, <1>3, <2>1, <3>2, <3>3, FollowsAppend
    <3>5. InHeld(d) + (Len(tcp[d].data) + 1) = Lead(d) + (sent[d] + 1)
      BY <3>1, <1>1, <2>1, SMTT(30)
    <3> QED BY <3>4, <3>5
  <2> QED BY <1>3, <1>4, <1>6, <1>8, <2>1, <2>2, <2>3, <2>4 DEF Flows, Follows
<1>11. DirectionInv(d)'
  BY <1>4, <1>7, <1>9, <1>10 DEF DirectionInv
<1>12. ASSUME NEW e \in Directions, e # d PROVE DirectionInv(e)'
  BY <1>4, <1>6, <1>12, DirectionSame
<1>13. Handled'
  BY <1>4, HandledSame
<1> QED BY <1>5, <1>11, <1>12, <1>13 DEF StreamInv

(***************************************************************************)
(* A peer finishes, leaves or resets.                                      *)
(***************************************************************************)
LEMMA PeerEndsStep ==
  ASSUME StreamInv, NEW d \in Directions,
         PeerFinishes(d) \/ PeerLeaves(d) \/ PeerResets(d)
  PROVE  StreamInv'
<1> DEFINE o == Other(d)
<1>1. StreamTypes /\ Handled /\ DirectionInv(d) /\ o \in Directions
  BY DirectionFacts DEF Other, Directions
<1>2. UNCHANGED <<service, sent, near, wire, far, handler, cut>>
  BY DEF PeerFinishes, PeerLeaves, PeerResets
<1>3. \/ out' = out
      \/ out' = [out EXCEPT ![o].left = TRUE]
  BY DEF PeerFinishes, PeerLeaves, PeerResets
<1> HIDE DEF o
<1>4. out' \in [Directions -> [data : Seq(Items), ended : BOOLEAN, left : BOOLEAN]]
      /\ \A e \in Directions : out'[e].data = out[e].data
  <2>1. out \in [Directions -> [data : Seq(Items), ended : BOOLEAN, left : BOOLEAN]]
    BY <1>1 DEF StreamTypes
  <2>2. CASE out' = out
    BY <2>1, <2>2
  <2>3. CASE out' = [out EXCEPT ![o].left = TRUE]
    BY <2>1, <2>3, <1>1
  <2> QED BY <1>3, <2>2, <2>3
<1>5. \/ tcp' = tcp
      \/ tcp[d].end = "open" /\ tcp' = [tcp EXCEPT ![d].end = "fin"]
      \/ tcp[d].end = "open" /\ tcp' = [tcp EXCEPT ![d] = [data |-> <<>>, end |-> "reset"]]
  BY DEF PeerFinishes, PeerLeaves, PeerResets
<1>6. /\ tcp' \in [Directions -> [data : Seq(Items), end : Ends]]
      /\ \A e \in Directions : e # d => tcp'[e] = tcp[e]
      /\ \/ tcp'[d] = tcp[d]
         \/ tcp[d].end = "open" /\ tcp'[d].end = "fin" /\ tcp'[d].data = tcp[d].data
         \/ tcp[d].end = "open" /\ tcp'[d].end = "reset" /\ tcp'[d].data = <<>>
  <2>1. tcp \in [Directions -> [data : Seq(Items), end : Ends]]
    BY <1>1 DEF StreamTypes
  <2>2. CASE tcp' = tcp
    BY <2>1, <2>2
  <2>3. CASE tcp[d].end = "open" /\ tcp' = [tcp EXCEPT ![d].end = "fin"]
    BY <2>1, <2>3 DEF Ends
  <2>4. CASE tcp[d].end = "open" /\ tcp' = [tcp EXCEPT ![d] = [data |-> <<>>, end |-> "reset"]]
    BY <2>1, <2>4 DEF Ends
  <2> QED BY <1>5, <2>2, <2>3, <2>4
<1>7. StreamTypes'
  BY <1>1, <1>2, <1>4, <1>6 DEF StreamTypes
<1>8. Stages(d)'
  BY <1>1, <1>2, <1>6 DEF DirectionInv, Stages
<1>9. Ahead(d)' = Ahead(d) /\ AheadLen(d)' = AheadLen(d) /\ Lead(d)' = Lead(d)
  BY <1>2, AheadSame
<1>10. Delivered(d)'
  BY <1>1, <1>2, <1>4, <1>9 DEF DirectionInv, Delivered
<1>11. ASSUME d = "response" \/ handler # "done" PROVE Flows(d)'
  <2>1. Flows(d)
    BY <1>1, <1>11 DEF DirectionInv
  <2>2. /\ Taken(d)' = Taken(d) /\ InStream(d)' = InStream(d)
        /\ InChunk(d)' = InChunk(d) /\ InHeld(d)' = InHeld(d)
    BY <1>2, <1>4, <1>9 DEF Taken, InStream, InChunk, InHeld
  <2> QED BY <1>2, <1>6, <1>9, <2>1, <2>2 DEF Flows, Follows
<1>12. DirectionInv(d)'
  BY <1>2, <1>8, <1>10, <1>11 DEF DirectionInv
<1>13. ASSUME NEW e \in Directions, e # d PROVE DirectionInv(e)'
  BY <1>2, <1>4, <1>6, <1>13, DirectionSame
<1>14. Handled'
  BY <1>2, <1>4, HandledSame DEF Directions
<1> QED BY <1>7, <1>12, <1>13, <1>14 DEF StreamInv

(***************************************************************************)
(* A step of one near end that keeps the run of its direction keeps the    *)
(* whole invariant.                                                        *)
(***************************************************************************)
LEMMA NearMoves ==
  ASSUME StreamInv, NEW d \in Directions,
         UNCHANGED <<service, sent, far, out, handler, cut>>,
         tcp' \in [Directions -> [data : Seq(Items), end : Ends]],
         near' \in [Directions -> [state : NearStates, chunk : Seq(Items), held : Seq(Items)]],
         wire' \in [Directions -> [data : Seq(Items), end : Ends, stopped : BOOLEAN]],
         \A e \in Directions : e # d =>
           tcp'[e] = tcp[e] /\ near'[e] = near[e] /\ wire'[e] = wire[e],
         near[d].state # "off", Stages(d)',
         d = "response" \/ handler # "done" => Flows(d)'
  PROVE  StreamInv'
<1>1. StreamTypes /\ Handled /\ DirectionInv(d)
  BY DirectionFacts
<1>2. StreamTypes'
  BY <1>1 DEF StreamTypes
<1>3. Ahead(d)' = Ahead(d) /\ AheadLen(d)' = AheadLen(d)
  BY AheadSame
<1>4. DirectionInv(d)'
  BY <1>1, <1>3 DEF DirectionInv, Delivered
<1>5. ASSUME NEW e \in Directions, e # d PROVE DirectionInv(e)'
  BY <1>5, DirectionSame
<1>6. near["response"].state = "off" => near'["response"].state = "off"
  BY DEF Directions
<1>7. Handled'
  BY <1>6, HandledSame
<1> QED BY <1>2, <1>4, <1>5, <1>7 DEF StreamInv

(***************************************************************************)
(* A near end whose state is set and whose chunk is taken.                 *)
(***************************************************************************)
LEMMA NearTwice ==
  ASSUME near \in [Directions -> [state : NearStates, chunk : Seq(Items), held : Seq(Items)]],
         NEW d \in Directions, NEW x \in NearStates,
         near' = [near EXCEPT ![d].state = x, ![d].chunk = <<>>]
  PROVE  /\ near' \in [Directions -> [state : NearStates, chunk : Seq(Items), held : Seq(Items)]]
         /\ near'[d].held = near[d].held /\ near'[d].state = x /\ near'[d].chunk = <<>>
         /\ \A e \in Directions : e # d => near'[e] = near[e]
<1> DEFINE R == [state : NearStates, chunk : Seq(Items), held : Seq(Items)]
           q == [near[d] EXCEPT !.state = x]
           r == [q EXCEPT !.chunk = <<>>]
<1>1. near[d] \in R
  OBVIOUS
<1>2. q \in R /\ q.state = x /\ q.held = near[d].held
  BY <1>1
<1>3. r \in R /\ r.state = x /\ r.held = near[d].held /\ r.chunk = <<>>
  <2> HIDE DEF q
  <2> QED BY <1>2
<1>4. near' = [[near EXCEPT ![d] = q] EXCEPT ![d].chunk = <<>>]
  OBVIOUS
<1>5. near' = [near EXCEPT ![d] = r]
  <2> HIDE DEF q
  <2> QED BY <1>4
<1> HIDE DEF r
<1> QED BY <1>3, <1>5

(***************************************************************************)
(* The copy reads a byte while a write may be in flight.                   *)
(***************************************************************************)
LEMMA NearReadsStep ==
  ASSUME StreamInv, NEW d \in Directions, NearReads(d)
  PROVE  StreamInv'
<1>1. /\ near[d].state \in {"idle", "writing"} /\ near[d].held = <<>> /\ tcp[d].data # <<>>
      /\ near' = [near EXCEPT ![d].held = <<Head(tcp[d].data)>>]
      /\ tcp' = [tcp EXCEPT ![d].data = Tail(tcp[d].data)]
      /\ UNCHANGED <<service, sent, wire, far, out, handler, cut>>
  BY DEF NearReads
<1>2. StreamTypes /\ DirectionInv(d) /\ Stages(d) /\ tcp[d].data \in Seq(Items)
      /\ sent[d] \in Nat /\ Lead(d) \in Nat
  BY DirectionFacts
<1>3. /\ Tail(tcp[d].data) \in Seq(Items) /\ Head(tcp[d].data) \in Items
      /\ Len(Tail(tcp[d].data)) = Len(tcp[d].data) - 1
      /\ <<Head(tcp[d].data)>> \in Seq(Items) /\ Len(<<Head(tcp[d].data)>>) = 1
  BY <1>1, <1>2, HeadTailProperties
<1>4. /\ tcp' \in [Directions -> [data : Seq(Items), end : Ends]]
      /\ tcp'[d].data = Tail(tcp[d].data) /\ tcp'[d].end = tcp[d].end
      /\ \A e \in Directions : e # d => tcp'[e] = tcp[e]
  <2>1. tcp \in [Directions -> [data : Seq(Items), end : Ends]]
    BY <1>2 DEF StreamTypes
  <2>2. tcp' = [tcp EXCEPT ![d].data = Tail(tcp[d].data)]
    BY <1>1
  <2> QED BY <2>1, <2>2, <1>3
<1>5. /\ near' \in [Directions -> [state : NearStates, chunk : Seq(Items), held : Seq(Items)]]
      /\ near'[d].held = <<Head(tcp[d].data)>>
      /\ near'[d].state = near[d].state /\ near'[d].chunk = near[d].chunk
      /\ \A e \in Directions : e # d => near'[e] = near[e]
  <2>1. near \in [Directions -> [state : NearStates, chunk : Seq(Items), held : Seq(Items)]]
    BY <1>2 DEF StreamTypes
  <2>2. near' = [near EXCEPT ![d].held = <<Head(tcp[d].data)>>]
    BY <1>1
  <2> QED BY <2>1, <2>2, <1>3
<1>6. Stages(d)'
  BY <1>1, <1>2, <1>4, <1>5 DEF Stages
<1>7. ASSUME d = "response" \/ handler # "done" PROVE Flows(d)'
  <2>1. Flows(d) /\ InChunk(d) \in Nat /\ InHeld(d) = InChunk(d)
    BY <1>1, <1>2, <1>7, TakenType DEF DirectionInv, InHeld
  <2>2. /\ Follows(d, tcp[d].data, InChunk(d))
        /\ InChunk(d) + Len(tcp[d].data) = Lead(d) + sent[d]
    BY <1>1, <1>2, <2>1 DEF Flows, Stages
  <2>3. /\ Head(tcp[d].data) = Item(d, InChunk(d) + 1)
        /\ Follows(d, Tail(tcp[d].data), InChunk(d) + 1) /\ Len(tcp[d].data) > 0
    BY <1>1, <1>2, <2>1, <2>2, FollowsTail
  <2>4. Follows(d, <<Head(tcp[d].data)>>, InChunk(d))
    BY <1>3, <2>1, <2>3, FollowsOne
  <2>5. Lead(d)' = Lead(d) /\ AheadLen(d)' = AheadLen(d)
    BY <1>1, AheadSame
  <2>6. Taken(d)' = Taken(d) /\ InStream(d)' = InStream(d) /\ InChunk(d)' = InChunk(d)
    BY <1>1, <1>5, <2>5 DEF Taken, InStream, InChunk
  <2>7. InHeld(d)' = InChunk(d) + 1
    BY <1>3, <1>5, <2>6 DEF InHeld
  <2>8. /\ InChunk(d) + 1 <= Lead(d) + sent[d]
        /\ (InChunk(d) + 1) + (Len(tcp[d].data) - 1) = Lead(d) + sent[d]
    BY <1>2, <2>1, <2>2, <2>3
  <2> QED BY <1>1, <1>3, <1>4, <1>5, <2>1, <2>3, <2>4, <2>5, <2>6, <2>7, <2>8 DEF Flows, Follows
<1> QED BY <1>1, <1>2, <1>4, <1>5, <1>6, <1>7, NearMoves DEF StreamTypes

(***************************************************************************)
(* poll_write accepts the chunk.                                           *)
(***************************************************************************)
LEMMA NearWritesStep ==
  ASSUME StreamInv, NEW d \in Directions, NearWrites(d)
  PROVE  StreamInv'
<1>1. /\ near[d].state = "idle" /\ near[d].held # <<>>
      /\ near' = [near EXCEPT ![d] = [state |-> "writing", chunk |-> near[d].held, held |-> <<>>]]
      /\ UNCHANGED <<service, sent, tcp, wire, far, out, handler, cut>>
  BY DEF NearWrites
<1>2. StreamTypes /\ DirectionInv(d) /\ Stages(d) /\ near[d].held \in Seq(Items)
      /\ near[d].chunk \in Seq(Items)
  BY DirectionFacts
<1>3. /\ near' \in [Directions -> [state : NearStates, chunk : Seq(Items), held : Seq(Items)]]
      /\ near'[d].held = <<>> /\ near'[d].state = "writing" /\ near'[d].chunk = near[d].held
      /\ \A e \in Directions : e # d => near'[e] = near[e]
  <2>1. near \in [Directions -> [state : NearStates, chunk : Seq(Items), held : Seq(Items)]]
    BY <1>2 DEF StreamTypes
  <2>2. near' = [near EXCEPT ![d] = [state |-> "writing", chunk |-> near[d].held, held |-> <<>>]]
    BY <1>1
  <2> QED BY <2>1, <2>2, <1>2 DEF NearStates
<1>4. Stages(d)'
  BY <1>1, <1>2, <1>3 DEF Stages
<1>5. ASSUME d = "response" \/ handler # "done" PROVE Flows(d)'
  <2>1. Flows(d) /\ InStream(d) \in Nat /\ InChunk(d) = InStream(d)
    BY <1>1, <1>2, <1>5, TakenType DEF DirectionInv, InChunk, Stages
  <2>2. Lead(d)' = Lead(d) /\ AheadLen(d)' = AheadLen(d)
    BY <1>1, AheadSame
  <2>3. Taken(d)' = Taken(d) /\ InStream(d)' = InStream(d)
    BY <1>1, <2>2 DEF Taken, InStream
  <2>4. InChunk(d)' = InHeld(d)
    BY <1>3, <2>1, <2>3 DEF InChunk, InHeld
  <2>5. InHeld(d)' = InHeld(d)
    <3>1. InHeld(d) \in Nat
      BY <1>5, TakenType
    <3> QED BY <1>3, <2>4, <3>1 DEF InHeld
  <2>6. InHeld(d) \in Nat
    BY <1>5, TakenType
  <2> QED BY <1>1, <1>3, <2>1, <2>2, <2>3, <2>4, <2>5, <2>6, FollowsEmpty DEF Flows, Follows
<1> QED BY <1>1, <1>2, <1>3, <1>4, <1>5, NearMoves DEF StreamTypes

(***************************************************************************)
(* poll_pending_write completes, into the Tunnel stream.                   *)
(***************************************************************************)
LEMMA WriteCompletesStep ==
  ASSUME StreamInv, NEW d \in Directions, WriteCompletes(d)
  PROVE  StreamInv'
<1>1. /\ near[d].state = "writing"
      /\ near' = [near EXCEPT ![d].state = "idle", ![d].chunk = <<>>]
      /\ wire' = [wire EXCEPT ![d].data = wire[d].data \o near[d].chunk]
      /\ UNCHANGED <<service, sent, tcp, far, out, handler, cut>>
  BY DEF WriteCompletes
<1>2. StreamTypes /\ DirectionInv(d) /\ Stages(d) /\ near[d].held \in Seq(Items)
      /\ near[d].chunk \in Seq(Items) /\ wire[d].data \in Seq(Items)
  BY DirectionFacts
<1>3. /\ near' \in [Directions -> [state : NearStates, chunk : Seq(Items), held : Seq(Items)]]
      /\ near'[d].held = near[d].held /\ near'[d].state = "idle" /\ near'[d].chunk = <<>>
      /\ \A e \in Directions : e # d => near'[e] = near[e]
  <2>1. near \in [Directions -> [state : NearStates, chunk : Seq(Items), held : Seq(Items)]]
    BY <1>2 DEF StreamTypes
  <2>2. near' = [near EXCEPT ![d].state = "idle", ![d].chunk = <<>>]
    BY <1>1
  <2> QED BY <2>1, <2>2, NearTwice DEF NearStates
<1>4. /\ wire[d].data \o near[d].chunk \in Seq(Items)
      /\ Len(wire[d].data \o near[d].chunk) = Len(wire[d].data) + Len(near[d].chunk)
  BY <1>2, ConcatProperties
<1>5. /\ wire' \in [Directions -> [data : Seq(Items), end : Ends, stopped : BOOLEAN]]
      /\ wire'[d].data = wire[d].data \o near[d].chunk /\ wire'[d].end = wire[d].end
      /\ \A e \in Directions : e # d => wire'[e] = wire[e]
  <2>1. wire \in [Directions -> [data : Seq(Items), end : Ends, stopped : BOOLEAN]]
    BY <1>2 DEF StreamTypes
  <2>2. wire' = [wire EXCEPT ![d].data = wire[d].data \o near[d].chunk]
    BY <1>1
  <2> QED BY <2>1, <2>2, <1>4
<1>6. Stages(d)'
  BY <1>1, <1>2, <1>3, <1>5 DEF Stages
<1>7. ASSUME d = "response" \/ handler # "done" PROVE Flows(d)'
  <2>1. Flows(d) /\ Taken(d) \in Nat /\ InStream(d) = Taken(d) + Len(wire[d].data)
        /\ InChunk(d) \in Nat /\ InHeld(d) \in Nat
    BY <1>2, <1>7, TakenType DEF DirectionInv, InStream
  <2>2. Follows(d, wire[d].data \o near[d].chunk, Taken(d))
    BY <1>2, <2>1, FollowsConcat DEF Flows
  <2>3. Lead(d)' = Lead(d) /\ AheadLen(d)' = AheadLen(d)
    BY <1>1, AheadSame
  <2>4. Taken(d)' = Taken(d)
    BY <1>1, <2>3 DEF Taken
  <2>5. InStream(d)' = InChunk(d)
    <3>1. InStream(d)' = Taken(d) + (Len(wire[d].data) + Len(near[d].chunk))
      BY <1>4, <1>5, <2>4 DEF InStream
    <3>2. InChunk(d) = (Taken(d) + Len(wire[d].data)) + Len(near[d].chunk)
      BY <2>1 DEF InChunk
    <3>3. Len(wire[d].data) \in Nat /\ Len(near[d].chunk) \in Nat
      BY DirectionFacts
    <3>4. \A a, b, c \in Nat : a + (b + c) = (a + b) + c
      OBVIOUS
    <3> QED BY <2>1, <3>1, <3>2, <3>3, <3>4, Zenon
  <2>6. InChunk(d)' = InChunk(d)
    BY <1>3, <2>1, <2>5 DEF InChunk
  <2>7. InHeld(d)' = InHeld(d)
    BY <1>3, <2>6 DEF InHeld
  <2> QED BY <1>1, <1>3, <1>5, <2>1, <2>2, <2>3, <2>4, <2>5, <2>6, <2>7, FollowsEmpty DEF Flows
<1> QED BY <1>1, <1>2, <1>3, <1>5, <1>6, <1>7, NearMoves DEF StreamTypes

(***************************************************************************)
(* poll_shutdown starts and completes FIN.                                 *)
(***************************************************************************)
LEMMA NearEndsStep ==
  ASSUME StreamInv, NEW d \in Directions, NearFinishes(d) \/ FinishCompletes(d)
  PROVE  StreamInv'
<1>1. /\ UNCHANGED <<service, sent, tcp, far, out, handler, cut>>
      /\ \/ /\ near[d].state = "idle" /\ near[d].held = <<>>
            /\ tcp[d].data = <<>> /\ tcp[d].end = "fin"
            /\ near' = [near EXCEPT ![d].state = "finishing", ![d].chunk = <<>>]
            /\ wire' = wire
         \/ /\ near[d].state = "finishing"
            /\ near' = [near EXCEPT ![d].state = "finished"]
            /\ wire' = [wire EXCEPT ![d].end = "fin"]
  BY DEF NearFinishes, FinishCompletes
<1>2. StreamTypes /\ DirectionInv(d) /\ Stages(d)
  BY DirectionFacts
<1>3. near \in [Directions -> [state : NearStates, chunk : Seq(Items), held : Seq(Items)]]
  BY <1>2 DEF StreamTypes
<1>4. wire \in [Directions -> [data : Seq(Items), end : Ends, stopped : BOOLEAN]]
  BY <1>2 DEF StreamTypes
<1>5. /\ near' \in [Directions -> [state : NearStates, chunk : Seq(Items), held : Seq(Items)]]
      /\ near'[d].held = near[d].held /\ near'[d].chunk = near[d].chunk
      /\ \/ near[d].state = "idle" /\ near'[d].state = "finishing"
         \/ near[d].state = "finishing" /\ near'[d].state = "finished"
      /\ \A e \in Directions : e # d => near'[e] = near[e]
  <2>1. near[d].state = "idle" => near[d].chunk = <<>>
    BY <1>2 DEF Stages
  <2>2. CASE near[d].state = "idle" /\ near' = [near EXCEPT ![d].state = "finishing", ![d].chunk = <<>>]
    <3>1. "finishing" \in NearStates
      BY DEF NearStates
    <3>2. /\ near' \in [Directions -> [state : NearStates, chunk : Seq(Items), held : Seq(Items)]]
          /\ near'[d].held = near[d].held /\ near'[d].state = "finishing"
          /\ near'[d].chunk = <<>>
          /\ \A e \in Directions : e # d => near'[e] = near[e]
      BY <2>2, <1>3, <3>1, NearTwice, Zenon
    <3>3. near[d].state = "idle" /\ near'[d].chunk = near[d].chunk
      BY <2>1, <2>2, <3>2, Zenon
    <3> QED BY <3>2, <3>3
  <2>3. CASE near[d].state = "finishing" /\ near' = [near EXCEPT ![d].state = "finished"]
    BY <2>3, <1>3 DEF NearStates
  <2> QED BY <1>1, <2>2, <2>3
<1>6. /\ wire' \in [Directions -> [data : Seq(Items), end : Ends, stopped : BOOLEAN]]
      /\ wire'[d].data = wire[d].data
      /\ wire'[d].end = wire[d].end \/ near[d].state = "finishing"
      /\ \A e \in Directions : e # d => wire'[e] = wire[e]
  <2>1. CASE wire' = wire
    BY <2>1, <1>4
  <2>2. CASE near[d].state = "finishing" /\ wire' = [wire EXCEPT ![d].end = "fin"]
    BY <2>2, <1>4 DEF Ends
  <2> QED BY <1>1, <2>1, <2>2
<1>7. Stages(d)'
  BY <1>1, <1>2, <1>5, <1>6 DEF Stages
<1>8. ASSUME d = "response" \/ handler # "done" PROVE Flows(d)'
  <2>1. Flows(d)
    BY <1>2, <1>8 DEF DirectionInv
  <2>2. Lead(d)' = Lead(d) /\ AheadLen(d)' = AheadLen(d)
    BY <1>1, AheadSame
  <2>3. /\ Taken(d)' = Taken(d) /\ InStream(d)' = InStream(d)
        /\ InChunk(d)' = InChunk(d) /\ InHeld(d)' = InHeld(d)
    BY <1>1, <1>5, <1>6, <2>2 DEF Taken, InStream, InChunk, InHeld
  <2> QED BY <1>1, <1>5, <1>6, <2>1, <2>2, <2>3 DEF Flows, Follows
<1> QED BY <1>1, <1>2, <1>5, <1>6, <1>7, <1>8, NearMoves DEF StreamTypes

(***************************************************************************)
(* The far end copies a byte out of the Tunnel.                            *)
(***************************************************************************)
LEMMA FarCopiesStep ==
  ASSUME StreamInv, NEW d \in Directions, FarCopies(d)
  PROVE  StreamInv'
<1>1. /\ d = "request" => handler = "proxy"
      /\ wire[d].data # <<>>
      /\ out' = [out EXCEPT ![d].data = Append(out[d].data, Head(wire[d].data))]
      /\ wire' = [wire EXCEPT ![d].data = Tail(wire[d].data)]
      /\ UNCHANGED <<service, sent, tcp, near, far, handler, cut>>
  BY DEF FarCopies, Running
<1>2. /\ StreamTypes /\ Handled /\ DirectionInv(d) /\ Stages(d) /\ Delivered(d)
      /\ wire[d].data \in Seq(Items) /\ out[d].data \in Seq(Items)
      /\ sent[d] \in Nat /\ Lead(d) \in Nat /\ AheadLen(d) \in Nat
  BY DirectionFacts
<1>3. d = "response" \/ handler # "done"
  BY <1>1 DEF Directions
<1>4. Flows(d) /\ Taken(d) \in Nat /\ InStream(d) \in Nat /\ InChunk(d) \in Nat /\ InHeld(d) \in Nat
      /\ Taken(d) = Lead(d) + Len(out[d].data) - AheadLen(d)
  <2>1. Flows(d)
    BY <1>2, <1>3 DEF DirectionInv
  <2>2. handler \notin {"intake", "handshake", "connect"} \/ d = "response"
    BY <1>1 DEF Directions
  <2> QED BY <1>3, <2>1, <2>2, TakenType
<1>5. /\ Head(wire[d].data) = Item(d, Taken(d) + 1) /\ Head(wire[d].data) \in Items
      /\ Tail(wire[d].data) \in Seq(Items) /\ Len(Tail(wire[d].data)) = Len(wire[d].data) - 1
      /\ Len(wire[d].data) > 0 /\ Follows(d, Tail(wire[d].data), Taken(d) + 1)
  BY <1>1, <1>2, <1>4, FollowsTail DEF Flows
<1>6. /\ Append(out[d].data, Head(wire[d].data)) \in Seq(Items)
      /\ Len(Append(out[d].data, Head(wire[d].data))) = Len(out[d].data) + 1
      /\ \A i \in 1..Len(out[d].data) : Append(out[d].data, Head(wire[d].data))[i] = out[d].data[i]
      /\ Append(out[d].data, Head(wire[d].data))[Len(out[d].data) + 1] = Head(wire[d].data)
  BY <1>2, <1>5, AppendProperties
<1>7. /\ out' \in [Directions -> [data : Seq(Items), ended : BOOLEAN, left : BOOLEAN]]
      /\ out'[d].data = Append(out[d].data, Head(wire[d].data))
      /\ \A e \in Directions : e # d => out'[e] = out[e]
  <2>1. out \in [Directions -> [data : Seq(Items), ended : BOOLEAN, left : BOOLEAN]]
    BY <1>2 DEF StreamTypes
  <2>2. out' = [out EXCEPT ![d].data = Append(out[d].data, Head(wire[d].data))]
    BY <1>1
  <2> QED BY <2>1, <2>2, <1>6
<1>8. /\ wire' \in [Directions -> [data : Seq(Items), end : Ends, stopped : BOOLEAN]]
      /\ wire'[d].data = Tail(wire[d].data) /\ wire'[d].end = wire[d].end
      /\ \A e \in Directions : e # d => wire'[e] = wire[e]
  <2>1. wire \in [Directions -> [data : Seq(Items), end : Ends, stopped : BOOLEAN]]
    BY <1>2 DEF StreamTypes
  <2>2. wire' = [wire EXCEPT ![d].data = Tail(wire[d].data)]
    BY <1>1
  <2> QED BY <2>1, <2>2, <1>5
<1>9. StreamTypes'
  BY <1>1, <1>2, <1>7, <1>8 DEF StreamTypes
<1>10. Stages(d)'
  BY <1>1, <1>2, <1>8 DEF Stages
<1>11. Ahead(d)' = Ahead(d) /\ AheadLen(d)' = AheadLen(d) /\ Lead(d)' = Lead(d)
  BY <1>1, AheadSame
<1> DEFINE n == Len(out[d].data)
           m == Len(wire[d].data)
<1>12. n \in Nat /\ m \in Nat /\ m > 0
  BY <1>2, <1>5
<1>13. InStream(d) = Taken(d) + m /\ InStream(d) <= InHeld(d)
  <2>1. Len(near[d].chunk) \in Nat /\ Len(near[d].held) \in Nat
    BY DirectionFacts
  <2>2. InStream(d) <= InChunk(d)
    BY <1>4, <2>1 DEF InChunk
  <2>3. InChunk(d) <= InHeld(d)
    BY <1>4, <2>1 DEF InHeld
  <2>4. InStream(d) = Taken(d) + m
    BY DEF InStream
  <2> QED BY <1>4, <2>2, <2>3, <2>4
<1>14. n + 1 <= AheadLen(d) + sent[d]
  <2>1. InHeld(d) <= Lead(d) + sent[d]
    BY <1>4 DEF Flows
  <2>2. Taken(d) = Lead(d) + n - AheadLen(d)
    BY <1>4
  <2>3. /\ Taken(d) \in Nat /\ InStream(d) \in Nat /\ InHeld(d) \in Nat
        /\ Lead(d) \in Nat /\ sent[d] \in Nat /\ AheadLen(d) \in Nat
    BY <1>2, <1>4
  <2> HIDE DEF n, m
  <2> QED BY <1>12, <1>13, <2>1, <2>2, <2>3
<1>15. n + 1 > AheadLen(d) /\ Head(wire[d].data) = n + 1 - AheadLen(d)
  <2>1. Taken(d) = Lead(d) + n - AheadLen(d) /\ Head(wire[d].data) = Item(d, Taken(d) + 1)
    BY <1>4, <1>5
  <2>2. AheadLen(d) <= n
    <3>1. CASE d = "request"
      BY <1>1, <1>2, <3>1 DEF Handled
    <3>2. CASE d = "response"
      BY <1>12, <3>2 DEF AheadLen, Ahead
    <3> QED BY <3>1, <3>2 DEF Directions
  <2>3. Taken(d) + 1 > Lead(d) /\ Taken(d) + 1 - Lead(d) = n + 1 - AheadLen(d)
    <3>1. Taken(d) = Lead(d) + n - AheadLen(d)
      BY <2>1
    <3>2. Taken(d) \in Nat /\ Lead(d) \in Nat /\ AheadLen(d) \in Nat /\ n \in Nat
      BY <1>2, <1>4, <1>12
    <3> HIDE DEF n
    <3> QED BY <2>2, <3>1, <3>2
  <2> HIDE DEF n
  <2> QED BY <1>2, <1>12, <2>1, <2>2, <2>3 DEF Item
<1>16. Delivered(d)'
  <2>1. Len(out'[d].data) = n + 1
    BY <1>6, <1>7
  <2>2. ASSUME NEW i \in 1..(n + 1)
        PROVE  out'[d].data[i] = IF i <= AheadLen(d) THEN Ahead(d)[i] ELSE i - AheadLen(d)
    <3>1. CASE i = n + 1
      <4>1. out'[d].data[i] = Head(wire[d].data)
        BY <1>6, <1>7, <3>1
      <4> HIDE DEF n
      <4> QED BY <1>2, <1>12, <1>15, <3>1, <4>1
    <3>2. CASE i # n + 1
      <4>1. i \in 1..n
        BY <1>12, <3>2
      <4>2. out'[d].data[i] = out[d].data[i]
        BY <1>6, <1>7, <4>1
      <4> QED BY <1>2, <4>1, <4>2 DEF Delivered
    <3> QED BY <3>1, <3>2
  <2> QED BY <1>1, <1>11, <1>14, <2>1, <2>2 DEF Delivered
<1>17. Flows(d)'
  <2>1. Taken(d)' = Taken(d) + 1
    <3>1. Taken(d)' = Lead(d) + (n + 1) - AheadLen(d)
      BY <1>1, <1>6, <1>7, <1>11 DEF Taken, Directions
    <3>2. Taken(d) = Lead(d) + n - AheadLen(d)
      BY <1>4
    <3> HIDE DEF n
    <3> QED BY <1>2, <1>12, <3>1, <3>2
  <2>2. InStream(d)' = InStream(d)
    <3>1. InStream(d)' = Taken(d) + 1 + (m - 1)
      BY <1>5, <1>8, <2>1 DEF InStream
    <3> HIDE DEF m
    <3> QED BY <1>4, <1>12, <1>13, <3>1
  <2>3. InChunk(d)' = InChunk(d) /\ InHeld(d)' = InHeld(d)
    BY <1>1, <2>2 DEF InChunk, InHeld
  <2> QED BY <1>1, <1>4, <1>5, <1>8, <1>11, <2>1, <2>2, <2>3 DEF Flows, Follows
<1>18. DirectionInv(d)'
  BY <1>10, <1>16, <1>17 DEF DirectionInv
<1>19. ASSUME NEW e \in Directions, e # d PROVE DirectionInv(e)'
  BY <1>1, <1>7, <1>8, <1>19, DirectionSame
<1>20. Handled'
  <2>1. handler \in Before => d # "request"
    BY <1>1 DEF Before
  <2>2. AheadLen("request")' = AheadLen("request")
    BY <1>1, AheadSame DEF Directions
  <2>3. CASE d = "request"
    <3>1. handler = "proxy" /\ AheadLen(d) <= Len(out'[d].data)
      <4>1. Len(out'[d].data) = n + 1
        BY <1>6, <1>7
      <4> HIDE DEF n
      <4> QED BY <1>1, <1>2, <1>12, <1>15, <2>3, <4>1
    <3> QED BY <1>1, <2>1, <2>2, <2>3, <3>1 DEF Handled
  <2>4. CASE d # "request"
    BY <1>1, <1>2, <1>7, <2>2, <2>4 DEF Handled, Directions
  <2> QED BY <2>3, <2>4
<1> QED BY <1>9, <1>18, <1>19, <1>20 DEF StreamInv

(***************************************************************************)
(* A dropped half holds nothing.                                           *)
(***************************************************************************)
LEMMA DroppedHalf ==
  ASSUME NEW r \in [state : NearStates, chunk : Seq(Items), held : Seq(Items)]
  PROVE  /\ Dropped(r) \in [state : NearStates, chunk : Seq(Items), held : Seq(Items)]
         /\ Dropped(r).state = "dropped"
         /\ Dropped(r).chunk = <<>> /\ Dropped(r).held = <<>>
<1> DEFINE R == [state : NearStates, chunk : Seq(Items), held : Seq(Items)]
           p == [r EXCEPT !.state = "dropped"]
           q == [p EXCEPT !.chunk = <<>>]
           t == [q EXCEPT !.held = <<>>]
<1>1. p \in R /\ p.state = "dropped" /\ p.held = r.held
  BY DEF NearStates
<1>2. q \in R /\ q.state = "dropped" /\ q.chunk = <<>>
  <2> HIDE DEF p
  <2>1. q.state = p.state /\ q.chunk = <<>>
    BY <1>1
  <2>2. \A x \in Seq(Items) : [p EXCEPT !.chunk = x] \in R
    BY <1>1
  <2>3. <<>> \in Seq(Items)
    OBVIOUS
  <2>4. q \in R
    BY <2>2, <2>3, Zenon
  <2> QED BY <1>1, <2>1, <2>4
<1>3. t \in R /\ t.state = "dropped" /\ t.chunk = <<>> /\ t.held = <<>>
  <2> HIDE DEF q
  <2> QED BY <1>2
<1>4. Dropped(r) = t
  BY DEF Dropped
<1> HIDE DEF t
<1> QED BY <1>3, <1>4

(***************************************************************************)
(* A reset stream keeps a prefix of what was in flight.                    *)
(***************************************************************************)
LEMMA ResetWire ==
  ASSUME NEW w \in [data : Seq(Items), end : Ends, stopped : BOOLEAN], NEW kept \in 0..Len(w.data)
  PROVE  /\ Reset(w, kept) \in [data : Seq(Items), end : Ends, stopped : BOOLEAN]
         /\ Reset(w, kept).end = "reset"
         /\ Reset(w, kept).data = SubSeq(w.data, 1, kept)
<1> DEFINE W == [data : Seq(Items), end : Ends, stopped : BOOLEAN]
           p == [w EXCEPT !.end = "reset"]
           q == [p EXCEPT !.data = SubSeq(w.data, 1, kept)]
<1>1. p \in W /\ p.end = "reset" /\ p.data = w.data
  BY DEF Ends
<1>2. SubSeq(w.data, 1, kept) \in Seq(Items)
  <2>1. w.data \in Seq(Items)
    OBVIOUS
  <2> HIDE DEF p, q
  <2> QED BY <2>1
<1>3. q \in W /\ q.end = "reset" /\ q.data = SubSeq(w.data, 1, kept)
  <2> HIDE DEF p
  <2> QED BY <1>1, <1>2
<1>4. Reset(w, kept) = q
  BY <1>1 DEF Reset, DropEnd
<1> HIDE DEF q
<1> QED BY <1>3, <1>4

(***************************************************************************)
(* Dropping both halves of a side.                                         *)
(***************************************************************************)
LEMMA DropSideStep ==
  ASSUME StreamInv, NEW d \in Directions, DropSide(d),
         UNCHANGED <<service, sent, tcp>>,
         handler' = handler \/ handler' = "done", cut' \in BOOLEAN
  PROVE  StreamInv'
<1> DEFINE o == Other(d)
<1>1. StreamTypes /\ o \in Directions /\ o # d
      /\ \A e \in Directions : e = d \/ e = o
  BY DirectionFacts DEF Other, Directions
<1>2. PICK kept \in 0..Len(wire[d].data) :
        wire' = [wire EXCEPT ![d] = IF NearLive(d) THEN Reset(wire[d], kept) ELSE wire[d],
                               ![o].stopped = wire[o].stopped \/ far[o] # "done"]
  BY <1>1 DEF DropSide
<1>3. /\ near' = [near EXCEPT ![d] = IF NearLive(d) THEN Dropped(near[d]) ELSE near[d]]
      /\ far' = [far EXCEPT ![o] = "done"]
      /\ out' = [out EXCEPT ![o].ended = TRUE]
  BY DEF DropSide
<1> HIDE DEF o
<1>4. /\ near \in [Directions -> [state : NearStates, chunk : Seq(Items), held : Seq(Items)]]
      /\ near[d] \in [state : NearStates, chunk : Seq(Items), held : Seq(Items)]
  BY <1>1 DEF StreamTypes
<1>5. /\ wire \in [Directions -> [data : Seq(Items), end : Ends, stopped : BOOLEAN]]
      /\ wire[d] \in [data : Seq(Items), end : Ends, stopped : BOOLEAN]
  BY <1>1 DEF StreamTypes
<1>6. out \in [Directions -> [data : Seq(Items), ended : BOOLEAN, left : BOOLEAN]]
      /\ far \in [Directions -> {"off", "running", "done"}]
  BY <1>1 DEF StreamTypes
<1>7. /\ near' \in [Directions -> [state : NearStates, chunk : Seq(Items), held : Seq(Items)]]
      /\ near'[o] = near[o]
      /\ near'[d] = IF NearLive(d) THEN Dropped(near[d]) ELSE near[d]
  <2>1. (IF NearLive(d) THEN Dropped(near[d]) ELSE near[d])
          \in [state : NearStates, chunk : Seq(Items), held : Seq(Items)]
    BY <1>4, DroppedHalf
  <2> QED BY <1>1, <1>3, <1>4, <2>1
<1>8. /\ wire' \in [Directions -> [data : Seq(Items), end : Ends, stopped : BOOLEAN]]
      /\ wire'[o].data = wire[o].data /\ wire'[o].end = wire[o].end
      /\ wire'[d] = IF NearLive(d) THEN Reset(wire[d], kept) ELSE wire[d]
  <2> DEFINE w == IF NearLive(d) THEN Reset(wire[d], kept) ELSE wire[d]
             g == [wire EXCEPT ![d] = w]
             x == wire[o].stopped \/ far[o] # "done"
  <2>1. w \in [data : Seq(Items), end : Ends, stopped : BOOLEAN]
    BY <1>5, ResetWire
  <2>2. wire' = [g EXCEPT ![o].stopped = x] /\ x \in BOOLEAN
    BY <1>1, <1>2, <1>5
  <2> HIDE DEF w, x
  <2>3. /\ g \in [Directions -> [data : Seq(Items), end : Ends, stopped : BOOLEAN]]
        /\ g[d] = w /\ g[o] = wire[o]
    BY <1>1, <1>5, <2>1
  <2> HIDE DEF g
  <2>4. /\ wire' \in [Directions -> [data : Seq(Items), end : Ends, stopped : BOOLEAN]]
        /\ wire'[o].data = wire[o].data /\ wire'[o].end = wire[o].end /\ wire'[d] = w
    BY <1>1, <2>2, <2>3
  <2> QED BY <2>4 DEF w
<1>9. /\ out' \in [Directions -> [data : Seq(Items), ended : BOOLEAN, left : BOOLEAN]]
      /\ \A e \in Directions : out'[e].data = out[e].data
  BY <1>1, <1>3, <1>6
<1>10. far' \in [Directions -> {"off", "running", "done"}]
  BY <1>1, <1>3, <1>6
<1>11. StreamTypes'
  BY <1>1, <1>7, <1>8, <1>9, <1>10 DEF StreamTypes
<1>12. DirectionInv(o)'
  BY <1>1, <1>7, <1>8, <1>9, DirectionSame
<1>13. DirectionInv(d)'
  <2>1. CASE NearLive(d)
    <3>1. near'[d].state = "dropped" /\ near'[d].chunk = <<>> /\ near'[d].held = <<>>
      BY <1>4, <1>7, <2>1, DroppedHalf
    <3>2. wire'[d].data = SubSeq(wire[d].data, 1, kept) /\ wire'[d].end = "reset"
      BY <1>5, <1>8, <2>1, ResetWire
    <3> QED BY <1>9, <3>1, <3>2, DirectionDropped
  <2>2. CASE ~NearLive(d)
    BY <1>7, <1>8, <1>9, <2>2, DirectionSame
  <2> QED BY <2>1, <2>2
<1>14. Handled'
  <2>1. near["response"].state = "off" => near'["response"].state = "off"
    <3>1. "response" = d \/ "response" = o
      BY <1>1 DEF Directions
    <3> QED BY <3>1, <1>7 DEF NearLive
  <2>2. out'["request"].data = out["request"].data
    BY <1>9 DEF Directions
  <2> QED BY <2>1, <2>2, HandledSame
<1> QED BY <1>1, <1>11, <1>12, <1>13, <1>14 DEF StreamInv

(***************************************************************************)
(* A near end fails: its own half is dropped, or in terminate mode both of *)
(* its side.                                                               *)
(***************************************************************************)
LEMMA NearFailsStep ==
  ASSUME StreamInv, NEW d \in Directions, NearFails(d)
  PROVE  StreamInv'
<1>1. StreamTypes /\ UNCHANGED <<service, sent, tcp, handler, cut>> /\ cut \in BOOLEAN
  BY DirectionFacts DEF NearFails, StreamTypes
<1>2. CASE DropSide(d)
  BY <1>1, <1>2, DropSideStep
<1>3. CASE ~DropSide(d)
  <2>1. near[d].state \in {"idle", "writing", "finishing"} /\ UNCHANGED <<far, out>>
        /\ near' = [near EXCEPT ![d] = Dropped(near[d])]
    BY <1>3 DEF NearFails
  <2>2. PICK kept \in 0..Len(wire[d].data) :
          wire' = [wire EXCEPT ![d] = Reset(wire[d], kept)]
    BY <1>3 DEF NearFails
  <2>3. /\ near \in [Directions -> [state : NearStates, chunk : Seq(Items), held : Seq(Items)]]
        /\ near[d] \in [state : NearStates, chunk : Seq(Items), held : Seq(Items)]
    BY <1>1 DEF StreamTypes
  <2>4. /\ wire \in [Directions -> [data : Seq(Items), end : Ends, stopped : BOOLEAN]]
        /\ wire[d] \in [data : Seq(Items), end : Ends, stopped : BOOLEAN]
    BY <1>1 DEF StreamTypes
  <2>5. /\ near' \in [Directions -> [state : NearStates, chunk : Seq(Items), held : Seq(Items)]]
        /\ near'[d].state = "dropped" /\ near'[d].chunk = <<>> /\ near'[d].held = <<>>
        /\ \A e \in Directions : e # d => near'[e] = near[e]
    <3>1. /\ Dropped(near[d]) \in [state : NearStates, chunk : Seq(Items), held : Seq(Items)]
          /\ Dropped(near[d]).state = "dropped"
          /\ Dropped(near[d]).chunk = <<>> /\ Dropped(near[d]).held = <<>>
      BY <2>3, DroppedHalf
    <3> QED BY <2>1, <2>3, <3>1
  <2>6. /\ wire' \in [Directions -> [data : Seq(Items), end : Ends, stopped : BOOLEAN]]
        /\ wire'[d].data = SubSeq(wire[d].data, 1, kept) /\ wire'[d].end = "reset"
        /\ \A e \in Directions : e # d => wire'[e] = wire[e]
    <3>1. /\ Reset(wire[d], kept) \in [data : Seq(Items), end : Ends, stopped : BOOLEAN]
          /\ Reset(wire[d], kept).data = SubSeq(wire[d].data, 1, kept)
          /\ Reset(wire[d], kept).end = "reset"
      BY <2>4, ResetWire
    <3> QED BY <2>2, <2>4, <3>1
  <2>7. StreamTypes'
    BY <1>1, <2>1, <2>5, <2>6 DEF StreamTypes
  <2>8. DirectionInv(d)'
    BY <1>1, <2>1, <2>5, <2>6, DirectionDropped
  <2>9. ASSUME NEW e \in Directions, e # d PROVE DirectionInv(e)'
    BY <1>1, <2>1, <2>5, <2>6, <2>9, DirectionSame
  <2>10. near["response"].state = "off" => near'["response"].state = "off"
    BY <2>1, <2>5 DEF Directions
  <2>11. Handled'
    BY <1>1, <2>1, <2>10, HandledSame
  <2> QED BY <2>7, <2>8, <2>9, <2>11 DEF StreamInv
<1> QED BY <1>2, <1>3

(***************************************************************************)
(* A far end finishes or fails.                                            *)
(***************************************************************************)
LEMMA FarEndsStep ==
  ASSUME StreamInv, NEW d \in Directions, FarFinishes(d) \/ FarFails(d)
  PROVE  StreamInv'
<1>1. StreamTypes /\ UNCHANGED <<service, sent, tcp, handler, cut>> /\ cut \in BOOLEAN
  BY DirectionFacts DEF FarFinishes, FarFails, StreamTypes
<1>2. CASE DropSide("response")
  BY <1>1, <1>2, DropSideStep DEF Directions
<1>3. CASE ~DropSide("response")
  <2>1. /\ near' = near
        /\ far' = [far EXCEPT ![d] = "done"]
        /\ out' = [out EXCEPT ![d].ended = TRUE]
        /\ wire' = wire \/ wire' = [wire EXCEPT ![d].stopped = TRUE]
    BY <1>3 DEF FarFinishes, FarFails
  <2>2. /\ out' \in [Directions -> [data : Seq(Items), ended : BOOLEAN, left : BOOLEAN]]
        /\ \A e \in Directions : out'[e].data = out[e].data
    <3>1. out \in [Directions -> [data : Seq(Items), ended : BOOLEAN, left : BOOLEAN]]
      BY <1>1 DEF StreamTypes
    <3>2. out' = [out EXCEPT ![d].ended = TRUE]
      BY <2>1
    <3> QED BY <3>1, <3>2
  <2>3. /\ wire' \in [Directions -> [data : Seq(Items), end : Ends, stopped : BOOLEAN]]
        /\ \A e \in Directions : wire'[e].data = wire[e].data /\ wire'[e].end = wire[e].end
    <3>1. wire \in [Directions -> [data : Seq(Items), end : Ends, stopped : BOOLEAN]]
      BY <1>1 DEF StreamTypes
    <3>2. CASE wire' = wire
      BY <3>1, <3>2
    <3>3. CASE wire' = [wire EXCEPT ![d].stopped = TRUE]
      BY <3>1, <3>3
    <3> QED BY <2>1, <3>2, <3>3
  <2>4. far' \in [Directions -> {"off", "running", "done"}]
    BY <1>1, <2>1 DEF StreamTypes
  <2>5. StreamTypes'
    BY <1>1, <2>1, <2>2, <2>3, <2>4 DEF StreamTypes
  <2>6. ASSUME NEW e \in Directions PROVE DirectionInv(e)'
    BY <1>1, <2>1, <2>2, <2>3, DirectionSame
  <2>7. Handled'
    BY <1>1, <2>1, <2>2, HandledSame DEF Directions
  <2> QED BY <2>5, <2>6, <2>7 DEF StreamInv
<1> QED BY <1>2, <1>3

(***************************************************************************)
(* read_tunnel_stream takes the frame off the stream.                      *)
(***************************************************************************)
LEMMA IntakeStep ==
  ASSUME StreamInv, Intake
  PROVE  StreamInv'
<1> DEFINE d == "request"
           s == wire[d].data
<1>0. d \in Directions /\ "response" \in Directions
  BY DEF Directions
<1>1. /\ handler = "intake" /\ handler' \in {"handshake", "connect"}
      /\ wire' = [wire EXCEPT ![d].data = SubSeq(s, 3, Len(s))]
      /\ UNCHANGED <<service, sent, tcp, near, far, out, cut>>
  <2>1. Len(Frame) + 1 = 3
    BY DEF Frame
  <2> QED BY <2>1 DEF Intake
<1>2. StreamTypes /\ Handled /\ DirectionInv(d) /\ Stages(d) /\ Delivered(d) /\ s \in Seq(Items)
  BY <1>0, DirectionFacts
<1>3. Len(s) >= 2
  <2>1. Len(Frame) <= Len(s) /\ Len(Frame) = 2
    BY DEF Intake, IsPrefix, Frame
  <2> QED BY <1>2, <2>1
<1>4. Flows(d) /\ Taken(d) = 0 /\ InStream(d) \in Nat
  BY <1>0, <1>1, <1>2, TakenType DEF DirectionInv, Taken
<1>5. /\ Follows(d, SubSeq(s, 3, Len(s)), 2) /\ SubSeq(s, 3, Len(s)) \in Seq(Items)
      /\ Len(SubSeq(s, 3, Len(s))) = Len(s) - 2
  <2>1. Follows(d, s, 0)
    BY <1>4 DEF Flows
  <2>2. 0 + 2 = 2
    OBVIOUS
  <2> HIDE DEF d, s
  <2> QED BY <1>0, <1>2, <1>3, <2>1, <2>2, FollowsRest
<1>6. /\ wire' \in [Directions -> [data : Seq(Items), end : Ends, stopped : BOOLEAN]]
      /\ wire'[d].data = SubSeq(s, 3, Len(s)) /\ wire'[d].end = wire[d].end
      /\ \A e \in Directions : e # d => wire'[e] = wire[e]
  <2>1. wire \in [Directions -> [data : Seq(Items), end : Ends, stopped : BOOLEAN]]
    BY <1>2 DEF StreamTypes
  <2>2. wire' = [wire EXCEPT ![d].data = SubSeq(s, 3, Len(s))]
    BY <1>1
  <2> HIDE DEF d, s
  <2> QED BY <1>0, <2>1, <2>2, <1>5
<1>7. StreamTypes'
  BY <1>1, <1>2, <1>6 DEF StreamTypes, Before
<1>8. Stages(d)'
  BY <1>1, <1>2, <1>6 DEF Stages
<1>9. Ahead(d)' = Ahead(d) /\ AheadLen(d)' = AheadLen(d) /\ Lead(d)' = Lead(d)
  BY <1>0, <1>1, AheadSame
<1>10. Delivered(d)'
  BY <1>1, <1>2, <1>9 DEF Delivered
<1>11. Flows(d)'
  <2>1. Taken(d)' = 2
    BY <1>1 DEF Taken
  <2>2. InStream(d)' = InStream(d)
    <3>1. InStream(d)' = 2 + (Len(s) - 2)
      BY <1>5, <1>6, <2>1 DEF InStream
    <3>2. InStream(d) = 0 + Len(s)
      BY <1>4 DEF InStream
    <3> HIDE DEF s
    <3> QED BY <1>2, <3>1, <3>2
  <2>3. InChunk(d)' = InChunk(d) /\ InHeld(d)' = InHeld(d)
    BY <1>1, <2>2 DEF InChunk, InHeld
  <2> QED BY <1>1, <1>4, <1>5, <1>6, <1>9, <2>1, <2>2, <2>3 DEF Flows, Follows
<1>12. DirectionInv(d)'
  BY <1>8, <1>10, <1>11 DEF DirectionInv
<1>13. DirectionInv("response")'
  BY <1>0, <1>1, <1>6, DirectionSame
<1>14. Handled'
  BY <1>1, <1>2 DEF Handled, Before
<1> QED BY <1>7, <1>12, <1>13, <1>14 DEF StreamInv, Directions

(***************************************************************************)
(* TLS termination replays the ClientHello.                                *)
(***************************************************************************)
LEMMA HandshakeStep ==
  ASSUME StreamInv, Handshake
  PROVE  StreamInv'
<1>0. "request" \in Directions /\ "response" \in Directions
  BY DEF Directions
<1>1. /\ handler = "handshake" /\ handler' = "connect"
      /\ UNCHANGED <<service, sent, tcp, near, wire, far, out, cut>>
  BY DEF Handshake
<1>2. StreamTypes /\ Handled /\ DirectionInv("request")
  BY <1>0, DirectionFacts
<1>3. StreamTypes'
  BY <1>1, <1>2 DEF StreamTypes, Before
<1>4. Ahead("request")' = Ahead("request") /\ AheadLen("request")' = AheadLen("request")
      /\ Lead("request")' = Lead("request")
  BY <1>0, <1>1, AheadSame
<1>5. Taken("request")' = Taken("request")
  BY <1>1 DEF Taken
<1>6. /\ InStream("request")' = InStream("request") /\ InChunk("request")' = InChunk("request")
      /\ InHeld("request")' = InHeld("request")
  BY <1>1, <1>5 DEF InStream, InChunk, InHeld
<1>7. Stages("request")' /\ Delivered("request")'
  BY <1>1, <1>2, <1>4 DEF DirectionInv, Stages, Delivered
<1>8. Flows("request")'
  BY <1>1, <1>2, <1>4, <1>5, <1>6 DEF DirectionInv, Flows, Follows
<1>9. DirectionInv("response")'
  BY <1>0, <1>1, DirectionSame
<1>10. Handled'
  BY <1>1, <1>2 DEF Handled, Before
<1> QED BY <1>3, <1>7, <1>8, <1>9, <1>10 DEF StreamInv, DirectionInv, Directions

(***************************************************************************)
(* The backend is connected and given what goes ahead of the copied bytes. *)
(***************************************************************************)
LEMMA ConnectBackendStep ==
  ASSUME StreamInv, ConnectBackend
  PROVE  StreamInv'
<1> DEFINE q == "request"
           p == "response"
<1>0. q \in Directions /\ p \in Directions /\ q # p
  BY DEF Directions
<1>1. /\ handler = "connect" /\ handler' = "proxy"
      /\ near' = [near EXCEPT ![p].state = "idle"]
      /\ far' = [far EXCEPT ![q] = "running"]
      /\ out' = [out EXCEPT ![q].data = Ahead(q)]
      /\ UNCHANGED <<service, sent, tcp, wire, cut>>
  BY DEF ConnectBackend, Ahead
<1>2. StreamTypes /\ Handled /\ DirectionInv(q) /\ Stages(q) /\ DirectionInv(p) /\ Stages(p)
      /\ sent[q] \in Nat
  BY <1>0, DirectionFacts
<1>3. Ahead(q) \in Seq(Items) /\ AheadLen(q) \in 0..2 /\ AheadLen(q) = Len(Ahead(q))
  BY <1>0, <1>2, AheadType DEF AheadLen
<1>4. near[p].state = "off"
  BY <1>1, <1>2 DEF Handled, Before
<1> HIDE DEF q, p
<1>5. /\ near' \in [Directions -> [state : NearStates, chunk : Seq(Items), held : Seq(Items)]]
      /\ near'[p].state = "idle" /\ near'[p].chunk = near[p].chunk /\ near'[p].held = near[p].held
      /\ near'[q] = near[q]
  <2>1. near \in [Directions -> [state : NearStates, chunk : Seq(Items), held : Seq(Items)]]
    BY <1>2 DEF StreamTypes
  <2>2. near' = [near EXCEPT ![p].state = "idle"] /\ "idle" \in NearStates
    BY <1>1 DEF NearStates
  <2> QED BY <1>0, <2>1, <2>2
<1>6. /\ out' \in [Directions -> [data : Seq(Items), ended : BOOLEAN, left : BOOLEAN]]
      /\ out'[q].data = Ahead(q) /\ out'[p] = out[p]
  <2>1. out \in [Directions -> [data : Seq(Items), ended : BOOLEAN, left : BOOLEAN]]
    BY <1>2 DEF StreamTypes
  <2>2. out' = [out EXCEPT ![q].data = Ahead(q)]
    BY <1>1
  <2> QED BY <1>0, <1>3, <2>1, <2>2
<1>7. far' \in [Directions -> {"off", "running", "done"}]
  BY <1>0, <1>1, <1>2 DEF StreamTypes
<1>8. StreamTypes'
  BY <1>1, <1>2, <1>5, <1>6, <1>7 DEF StreamTypes
<1>9. ASSUME NEW e \in Directions
      PROVE  Ahead(e)' = Ahead(e) /\ AheadLen(e)' = AheadLen(e) /\ Lead(e)' = Lead(e)
  BY <1>1, AheadSame
<1>10. DirectionInv(q)'
  <2>1. Stages(q)'
    BY <1>1, <1>2, <1>5 DEF Stages
  <2>2. Delivered(q)'
    <3>1. Len(Ahead(q)) <= AheadLen(q) + sent[q]
      BY <1>2, <1>3
    <3>2. \A i \in 1..Len(Ahead(q)) :
            Ahead(q)[i] = IF i <= AheadLen(q) THEN Ahead(q)[i] ELSE i - AheadLen(q)
      BY <1>3
    <3> QED BY <1>0, <1>1, <1>6, <1>9, <3>1, <3>2 DEF Delivered
  <2>3. Taken(q) = 2
    BY <1>1 DEF Taken, q
  <2>4. Taken(q)' = 2
    <3>1. Taken(q)' = Lead(q) + AheadLen(q) - AheadLen(q)
      BY <1>0, <1>1, <1>3, <1>6, <1>9 DEF Taken, q
    <3>2. Lead(q) = 2
      BY DEF Lead, q
    <3> QED BY <1>3, <3>1, <3>2
  <2>5. /\ InStream(q)' = InStream(q) /\ InChunk(q)' = InChunk(q) /\ InHeld(q)' = InHeld(q)
    BY <1>1, <1>5, <2>3, <2>4 DEF InStream, InChunk, InHeld
  <2>6. Flows(q)
    BY <1>1, <1>2 DEF DirectionInv
  <2>7. Flows(q)'
    BY <1>0, <1>1, <1>5, <1>9, <2>3, <2>4, <2>5, <2>6 DEF Flows, Follows
  <2> QED BY <2>1, <2>2, <2>7 DEF DirectionInv
<1>11. DirectionInv(p)'
  <2>1. Stages(p)'
    BY <1>1, <1>2, <1>4, <1>5 DEF Stages
  <2>2. Delivered(p)'
    BY <1>0, <1>1, <1>2, <1>6, <1>9 DEF DirectionInv, Delivered
  <2>3. Taken(p)' = Taken(p)
    BY <1>0, <1>6, <1>9 DEF Taken, p
  <2>4. /\ InStream(p)' = InStream(p) /\ InChunk(p)' = InChunk(p) /\ InHeld(p)' = InHeld(p)
    BY <1>1, <1>5, <2>3 DEF InStream, InChunk, InHeld
  <2>5. Flows(p)
    BY <1>1, <1>2 DEF DirectionInv
  <2>6. Flows(p)'
    BY <1>0, <1>1, <1>4, <1>5, <1>9, <2>3, <2>4, <2>5 DEF Flows, Follows
  <2> QED BY <2>1, <2>2, <2>6 DEF DirectionInv
<1>12. Handled'
  <2>1. AheadLen("request")' <= Len(out'["request"].data)
    BY <1>0, <1>3, <1>6, <1>9 DEF q
  <2> QED BY <1>1, <2>1 DEF Handled, Before
<1> QED BY <1>8, <1>10, <1>11, <1>12 DEF StreamInv, Directions, p, q

(***************************************************************************)
(* A handler that ends before it proxies drops the whole stream.           *)
(***************************************************************************)
LEMMA AbandonStep ==
  ASSUME StreamInv, Abandon, handler \in Before,
         UNCHANGED <<service, sent, tcp, out>>, cut' \in BOOLEAN
  PROVE  StreamInv'
<1> DEFINE q == "request"
           p == "response"
<1>0. q \in Directions /\ p \in Directions /\ q # p
  BY DEF Directions
<1>1. /\ handler' = "done"
      /\ near' = [near EXCEPT ![p].state = "dropped"]
      /\ wire' = [wire EXCEPT ![q].stopped = TRUE, ![p].end = "reset"]
      /\ far' = [far EXCEPT ![q] = "done"]
  BY DEF Abandon, DropEnd
<1>2. /\ StreamTypes /\ Handled /\ Stages(p) /\ wire[p].data \in Seq(Items)
  BY <1>0, DirectionFacts
<1>3. near[p].chunk = <<>> /\ near[p].held = <<>>
  BY <1>2 DEF Handled, Stages
<1> HIDE DEF q, p
<1>4. /\ near' \in [Directions -> [state : NearStates, chunk : Seq(Items), held : Seq(Items)]]
      /\ near'[p].state = "dropped" /\ near'[p].chunk = near[p].chunk
      /\ near'[p].held = near[p].held /\ near'[q] = near[q]
  <2>1. near \in [Directions -> [state : NearStates, chunk : Seq(Items), held : Seq(Items)]]
    BY <1>2 DEF StreamTypes
  <2>2. near' = [near EXCEPT ![p].state = "dropped"] /\ "dropped" \in NearStates
    BY <1>1 DEF NearStates
  <2> QED BY <1>0, <2>1, <2>2
<1>5. /\ wire' \in [Directions -> [data : Seq(Items), end : Ends, stopped : BOOLEAN]]
      /\ wire'[q].data = wire[q].data /\ wire'[q].end = wire[q].end
      /\ wire'[p].data = wire[p].data /\ wire'[p].end = "reset"
  <2> DEFINE g == [wire EXCEPT ![q].stopped = TRUE]
  <2>1. wire \in [Directions -> [data : Seq(Items), end : Ends, stopped : BOOLEAN]]
    BY <1>2 DEF StreamTypes
  <2>2. wire' = [g EXCEPT ![p].end = "reset"] /\ "reset" \in Ends
    BY <1>1 DEF Ends
  <2>3. /\ g \in [Directions -> [data : Seq(Items), end : Ends, stopped : BOOLEAN]]
        /\ g[q].data = wire[q].data /\ g[q].end = wire[q].end /\ g[p] = wire[p]
    BY <1>0, <2>1
  <2> HIDE DEF g
  <2> QED BY <1>0, <2>2, <2>3
<1>6. far' \in [Directions -> {"off", "running", "done"}]
  BY <1>0, <1>1, <1>2 DEF StreamTypes
<1>7. StreamTypes'
  BY <1>1, <1>2, <1>4, <1>5, <1>6 DEF StreamTypes
<1>8. DirectionInv(q)'
  BY <1>0, <1>1, <1>4, <1>5, DirectionSame
<1>9. DirectionInv(p)'
  <2>1. Len(wire[p].data) \in 0..Len(wire[p].data)
    BY <1>2
  <2>2. wire'[p].data = SubSeq(wire[p].data, 1, Len(wire[p].data))
    BY <1>2, <1>5, SubSeqFull
  <2> QED BY <1>0, <1>1, <1>3, <1>4, <1>5, <2>1, <2>2, DirectionDropped
<1>10. Handled'
  BY <1>1 DEF Handled, Before
<1> QED BY <1>7, <1>8, <1>9, <1>10 DEF StreamInv, Directions, p, q

(***************************************************************************)
(* A handler that ends, revoked work, a cancelled handler or a lost        *)
(* connection.                                                             *)
(***************************************************************************)
LEMMA CutStep ==
  ASSUME StreamInv, HandlerEnds \/ ServerCut \/ ClientCut
  PROVE  StreamInv'
<1>1. StreamTypes /\ cut \in BOOLEAN /\ handler \in Before \cup {"proxy", "done"}
  BY DEF StreamInv, StreamTypes
<1>2. CASE HandlerEnds
  BY <1>1, <1>2, AbandonStep DEF HandlerEnds, Before
<1>3. CASE ServerCut
  BY <1>3, DropSideStep DEF ServerCut, Directions
<1>4. CASE ClientCut
  <2>1. CASE handler = "proxy"
    BY <1>4, <2>1, DropSideStep DEF ClientCut, Directions
  <2>2. CASE handler # "proxy"
    BY <1>1, <1>4, <2>2, AbandonStep DEF ClientCut
  <2> QED BY <2>1, <2>2
<1> QED BY <1>2, <1>3, <1>4

(***************************************************************************)
(* Initially nothing has been sent and the frame is held.                  *)
(***************************************************************************)
LEMMA StreamStarts ==
  ASSUME StreamInit
  PROVE  StreamInv
<1>1. StreamTypes
  <2>1. Frame \in Seq(Items) /\ <<>> \in Seq(Items)
    BY DEF Frame, Items
  <2>2. 0 \in 0..MaxBytes
    BY BytesAssumption
  <2> QED BY <2>1, <2>2 DEF StreamTypes, StreamInit, Ends, NearStates, Before
<1>2. Handled
  BY DEF Handled, Before, StreamInit, Directions
<1>3. ASSUME NEW d \in Directions PROVE DirectionInv(d)
  <2>1. /\ sent[d] = 0 /\ tcp[d].data = <<>> /\ tcp[d].end = "open" /\ near[d].chunk = <<>>
        /\ wire[d].data = <<>> /\ wire[d].end = "open" /\ out[d].data = <<>>
        /\ near[d].held = IF d = "request" THEN Frame ELSE <<>>
        /\ near[d].state = IF d = "request" THEN "idle" ELSE "off"
        /\ handler = "intake"
    BY DEF StreamInit
  <2>2. Stages(d)
    BY <2>1 DEF Stages
  <2>3. AheadLen(d) \in 0..2
    BY <1>1, AheadType
  <2>4. Delivered(d)
    BY <2>1, <2>3 DEF Delivered
  <2>5. Taken(d) = 0
    <3>1. d = "response" => AheadLen(d) = 0 /\ Lead(d) = 0
      BY DEF AheadLen, Ahead, Lead
    <3> QED BY <2>1, <3>1 DEF Taken, Directions
  <2>6. InStream(d) = 0 /\ InChunk(d) = 0
    BY <2>1, <2>5 DEF InStream, InChunk
  <2>7. /\ Len(near[d].held) = Lead(d)
        /\ \A i \in 1..Len(near[d].held) : near[d].held[i] = Item(d, 0 + i)
    <3>1. CASE d = "request"
      BY <2>1, <3>1 DEF Frame, Lead, Item
    <3>2. CASE d # "request"
      BY <2>1, <3>2 DEF Lead
    <3> QED BY <3>1, <3>2
  <2>8. InHeld(d) = Lead(d) /\ Lead(d) \in 0..2
    BY <2>6, <2>7, <1>1, AheadType DEF InHeld
  <2>9. Flows(d)
    BY <2>1, <2>5, <2>6, <2>7, <2>8 DEF Flows, Follows
  <2> QED BY <2>2, <2>4, <2>9 DEF DirectionInv
<1> QED BY <1>1, <1>2, <1>3 DEF StreamInv

(***************************************************************************)
(* Every step keeps the invariant.                                         *)
(***************************************************************************)
LEMMA StreamStep ==
  ASSUME StreamInv, [StreamNext]_proxyVars
  PROVE  StreamInv'
<1>1. ASSUME NEW d \in Directions, ProxyStep(d) PROVE StreamInv'
  BY <1>1, NearReadsStep, NearWritesStep, WriteCompletesStep, NearEndsStep, NearFailsStep,
     FarCopiesStep, FarEndsStep DEF ProxyStep
<1>2. ASSUME NEW d \in Directions, PeerStep(d) PROVE StreamInv'
  BY <1>2, PeerSendsStep, PeerEndsStep DEF PeerStep
<1>3. CASE Intake \/ Handshake \/ ConnectBackend
  BY <1>3, IntakeStep, HandshakeStep, ConnectBackendStep
<1>4. CASE HandlerEnds \/ ServerCut \/ ClientCut
  BY <1>4, CutStep
<1>5. CASE UNCHANGED proxyVars
  <2>1. UNCHANGED <<service, sent, tcp, near, wire, far, out, handler, cut>>
    BY <1>5 DEF proxyVars
  <2>2. StreamTypes'
    BY <2>1 DEF StreamInv, StreamTypes
  <2>3. ASSUME NEW d \in Directions PROVE DirectionInv(d)'
    BY <2>1, DirectionSame
  <2>4. Handled'
    BY <2>1, HandledSame
  <2> QED BY <2>2, <2>3, <2>4 DEF StreamInv
<1> QED BY <1>1, <1>2, <1>3, <1>4, <1>5 DEF StreamNext

(***************************************************************************)
(* The invariant is strong enough: what was delivered is a prefix of what  *)
(* was sent, and FIN comes last.                                           *)
(***************************************************************************)
LEMMA StreamInvFaithful ==
  ASSUME StreamInv
  PROVE  StreamFaithful
<1>1. StreamTypeOK
  BY DEF StreamInv, StreamTypes, StreamTypeOK, Ends, NearStates, Before
<1>2. ASSUME NEW d \in Directions
      PROVE  /\ IsPrefix(out[d].data, Whole(d))
             /\ wire[d].end = "fin" =>
                  /\ tcp[d].end = "fin" /\ tcp[d].data = <<>> /\ near[d].held = <<>>
                  /\ far[d] = "running" /\ wire[d].data = <<>> /\ handler = "proxy"
                       => out[d].data = Whole(d)
  <2> DEFINE n == sent[d]
             S == Sent(n)
             w == Whole(d)
             v == out[d].data
  <2>1. /\ StreamTypes /\ DirectionInv(d) /\ Stages(d) /\ Delivered(d) /\ n \in Nat /\ v \in Seq(Items)
        /\ AheadLen(d) \in Nat /\ Lead(d) \in Nat
    BY DirectionFacts
  <2>2. Ahead(d) \in Seq(Items) /\ AheadLen(d) = Len(Ahead(d))
    BY <2>1, AheadType DEF AheadLen
  <2>3. S \in Seq(Items) /\ Len(S) = n /\ \A i \in 1..n : S[i] = i
    <3>1. S = [i \in 1..n |-> i]
      BY DEF Sent
    <3>2. \A i \in 1..n : i \in Items
      BY DEF Items
    <3> HIDE DEF S, n
    <3> QED BY <2>1, <3>1, <3>2
  <2>4. w = Ahead(d) \o S
    BY DEF Whole, Ahead
  <2> HIDE DEF S, n, w
  <2>5. /\ w \in Seq(Items) /\ Len(w) = AheadLen(d) + n
        /\ \A i \in 1..(AheadLen(d) + n) :
             w[i] = IF i <= AheadLen(d) THEN Ahead(d)[i] ELSE i - AheadLen(d)
    <3>1. /\ w \in Seq(Items) /\ Len(w) = AheadLen(d) + n
          /\ \A i \in 1..(AheadLen(d) + n) :
               w[i] = IF i <= AheadLen(d) THEN Ahead(d)[i] ELSE S[i - AheadLen(d)]
      <4>1. /\ Ahead(d) \o S \in Seq(Items) /\ Len(Ahead(d) \o S) = Len(Ahead(d)) + Len(S)
            /\ \A i \in 1..(Len(Ahead(d)) + Len(S)) :
                 (Ahead(d) \o S)[i] = IF i <= Len(Ahead(d)) THEN Ahead(d)[i] ELSE S[i - Len(Ahead(d))]
        BY <2>2, <2>3, ConcatProperties, Zenon
      <4> QED BY <2>2, <2>3, <2>4, <4>1, Zenon
    <3>2. ASSUME NEW i \in 1..(AheadLen(d) + n), ~(i <= AheadLen(d))
          PROVE  S[i - AheadLen(d)] = i - AheadLen(d)
      BY <2>1, <2>3, <3>2
    <3> QED BY <3>1, <3>2
  <2>6. /\ Len(v) <= AheadLen(d) + n
        /\ \A i \in 1..Len(v) : v[i] = IF i <= AheadLen(d) THEN Ahead(d)[i] ELSE i - AheadLen(d)
    BY <2>1 DEF Delivered, n
  <2> HIDE DEF v
  <2>7. Len(v) <= Len(w) /\ \A i \in 1..Len(v) : v[i] = w[i]
    <3>1. ASSUME NEW i \in 1..Len(v) PROVE v[i] = w[i]
      <4>1. i \in 1..(AheadLen(d) + n)
        BY <2>1, <2>6
      <4> QED BY <2>5, <2>6, <4>1
    <3> QED BY <2>5, <2>6, <3>1
  <2>8. IsPrefix(v, w)
    <3>1. Len(v) \in Nat /\ Len(w) \in Nat
      BY <2>1, <2>5
    <3>2. \A i \in 1..Len(v) : v[i] \in Items /\ w[i] \in Items
      BY <2>1, <2>7
    <3>3. /\ SubSeq(v, 1, Len(v)) \in Seq(Items) /\ SubSeq(w, 1, Len(v)) \in Seq(Items)
          /\ Len(SubSeq(v, 1, Len(v))) = Len(v) /\ Len(SubSeq(w, 1, Len(v))) = Len(v)
          /\ \A i \in 1..Len(v) : SubSeq(v, 1, Len(v))[i] = v[i] /\ SubSeq(w, 1, Len(v))[i] = w[i]
      BY <2>1, <2>5, <2>7, <3>1
    <3>4. SubSeq(v, 1, Len(v)) = SubSeq(w, 1, Len(v))
      BY <2>7, <3>3, SeqEqual
    <3> QED BY <2>7, <3>4 DEF IsPrefix
  <2>9. ASSUME wire[d].end = "fin"
        PROVE  /\ tcp[d].end = "fin" /\ tcp[d].data = <<>> /\ near[d].held = <<>>
               /\ near[d].chunk = <<>> /\ near[d].state = "finished"
    BY <2>1, <2>9 DEF Stages
  <2>10. ASSUME wire[d].end = "fin", wire[d].data = <<>>, handler = "proxy"
         PROVE  v = w
    <3>1. /\ tcp[d].end = "fin" /\ Len(tcp[d].data) = 0 /\ Len(near[d].held) = 0
          /\ Len(near[d].chunk) = 0 /\ near[d].state = "finished" /\ Len(wire[d].data) = 0
      BY <2>9, <2>10
    <3>2. Flows(d) /\ Taken(d) \in Nat /\ Taken(d) = Lead(d) + Len(v) - AheadLen(d)
      BY <2>1, <2>10, TakenType DEF DirectionInv, v
    <3>3. InHeld(d) + Len(tcp[d].data) = Lead(d) + n
      BY <3>1, <3>2 DEF Flows, n
    <3>4. InHeld(d) = Taken(d)
      BY <3>1, <3>2 DEF InHeld, InChunk, InStream
    <3>5. Len(v) = AheadLen(d) + n
      <4>1. Taken(d) + 0 = Lead(d) + n
        BY <3>1, <3>3, <3>4
      <4>2. Len(v) \in Nat
        BY <2>1
      <4> QED BY <2>1, <3>2, <4>1, <4>2
    <3> QED BY <2>1, <2>5, <2>7, <3>5, SeqEqual
  <2> QED BY <2>8, <2>9, <2>10 DEF v, w
<1> QED BY <1>1, <1>2 DEF StreamFaithful

(***************************************************************************)
(* Proxying (proxy.rs, tunnel/stream.rs, client/tunnel_stream.rs) is       *)
(* faithful for any number of bytes: no byte is lost, doubled or moved     *)
(* through the copies, the write in flight and the replayed ClientHello,   *)
(* and a Tunnel stream only ends with FIN behind all of its source's bytes *)
(* and its source's own FIN, whatever resets, failures and cuts come       *)
(* between.                                                                *)
(***************************************************************************)
THEOREM StreamIsFaithful == StreamSpec => []StreamFaithful
<1>1. StreamInit => StreamInv
  BY StreamStarts
<1>2. StreamInv /\ [StreamNext]_proxyVars => StreamInv'
  BY StreamStep
<1>3. StreamInv => StreamFaithful
  BY StreamInvFaithful
<1> QED BY <1>1, <1>2, <1>3, PTL DEF StreamSpec

=============================================================================
