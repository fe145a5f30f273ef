------------------------------ MODULE VisitorIntake ------------------------------
(***************************************************************************)
(* A Visitor connection from the listener to the proxy                     *)
(* (src/src/server/visitor_stream.rs) and the permits that bound it        *)
(* (src/src/server/admission.rs): the PROXY header and the ClientHello are *)
(* read under one global and one per-source permit, which are returned     *)
(* before the Visitor is placed; the open of its stream and the proxying   *)
(* each hold a permit of their own.                                        *)
(***************************************************************************)
EXTENDS Naturals, FiniteSets, FiniteSetsExt

CONSTANTS
  Visitors, Sources,   \* connections; source IP addresses
  Trusted,             \* the sources inside visitor_proxy_trusted_networks
  Limits               \* ServerAdmissionLimits: pending, perSource, opens, active

ASSUME IntakeAssumption ==
  /\ IsFiniteSet(Visitors) /\ Sources # {} /\ Trusted \subseteq Sources
  /\ Limits \in [{"pending", "perSource", "opens", "active"} -> Nat]

VARIABLES
  visitor,   \* per Visitor: where it is, and the source it came from or is counted under
  free,      \* permits left in the semaphores pending, opens and active
  sources,   \* pending_visitors_by_source; 0 where the map has no entry
  proxied,   \* visitor_proxy_protocol is configured
  sealed,    \* TunnelRegistry::stop_accepting_new_work has run
  local,     \* mode of the Server's own OrderlyShutdown: 0 none, 1 graceful, 2 fast
  expired    \* the graceful window has passed

permitVars == <<free, sources>>
intakeVars == <<visitor, free, sources, proxied, sealed, local, expired>>

Somewhere == CHOOSE s \in Sources : TRUE
Absent == [at |-> "away", source |-> Somewhere]
At(places) == {v \in Visitors : visitor[v].at \in places}

\* Only the intake looks at a Visitor's source; it is dropped behind it.
Move(v, place) == visitor' = [visitor EXCEPT ![v] = [Absent EXCEPT !.at = place]]

IntakeInit ==
  /\ visitor = [v \in Visitors |-> Absent]
  /\ free = [pending |-> Limits["pending"], opens |-> Limits["opens"], active |-> Limits["active"]]
  /\ sources = [s \in Sources |-> 0]
  /\ sealed = FALSE /\ local = 0 /\ expired = FALSE

Acquire(permit) == free' = [free EXCEPT ![permit] = @ - 1]

\* Mutant: the entry of the source is left behind.
ReturnIntakeGlobal(v) ==
  /\ free' = [free EXCEPT !.pending = @ + 1]
  /\ sources' = [sources EXCEPT ![visitor[v].source] = @]

\* VisitorAdmissionPermit::drop: the source is counted only from `hello` on.
ReturnIntake(v) ==
  /\ free' = [free EXCEPT !.pending = @ + 1]
  /\ sources' = IF visitor[v].at = "hello"
                THEN [sources EXCEPT ![visitor[v].source] = @ - 1] ELSE sources

\* The Visitor connects: it waits in the backlog of a listener.
Connect(v) ==
  /\ visitor[v].at = "away"
  /\ \E s \in Sources : visitor' = [visitor EXCEPT ![v] = [at |-> "backlog", source |-> s]]
  /\ UNCHANGED <<permitVars, proxied, sealed, local, expired>>

\* accepted_task, within the accept loop: a full Server closes the newest socket.
Accepted(v) ==
  IF free.pending = 0
  THEN Move(v, "away") /\ UNCHANGED permitVars
  ELSE /\ visitor' = [visitor EXCEPT ![v].at = "header"]
       /\ Acquire("pending") /\ UNCHANGED sources

(***************************************************************************)
(* intake_until.  Its select is not biased: timeout, shutdown and progress *)
(* race.                                                                   *)
(***************************************************************************)
Claims(v) == IF proxied THEN Sources ELSE {visitor[v].source}

\* read_proxy_v2 or the socket's own address, then use_canonical_source.
ReadHeader(v) ==
  /\ visitor[v].at = "header"
  /\ proxied => visitor[v].source \in Trusted
  /\ \E s \in Claims(v) :
       IF sources[s] >= Limits["perSource"]
       THEN Move(v, "away") /\ ReturnIntake(v)
       ELSE /\ visitor' = [visitor EXCEPT ![v] = [at |-> "hello", source |-> s]]
            /\ sources' = [sources EXCEPT ![s] = @ + 1]
            /\ UNCHANGED free
  /\ UNCHANGED <<proxied, sealed, local, expired>>

\* read_client_hello: a service's hostname goes on to be routed; the Server's
\* own hostname is only served an ACME challenge.
ReadHello(v) ==
  /\ visitor[v].at = "hello"
  /\ \E next \in {"routing", "challenge", "away"} : Move(v, next)
  /\ ReturnIntake(v)
  /\ UNCHANGED <<proxied, sealed, local, expired>>

\* The peer is not trusted, the header or the ClientHello is invalid, too long
\* or cut off, or client_hello_timeout passed.
IntakeFails(v) ==
  /\ visitor[v].at \in {"header", "hello"}
  /\ Move(v, "away") /\ ReturnIntake(v)
  /\ UNCHANGED <<proxied, sealed, local, expired>>

IntakeShutdown(v) ==
  /\ visitor[v].at \in {"header", "hello"} /\ local # 0
  /\ Move(v, "away") /\ ReturnIntake(v)
  /\ UNCHANGED <<proxied, sealed, local, expired>>

\* serve_acme_tls_alpn_01.
ChallengeEnds(v) ==
  /\ visitor[v].at = "challenge"
  /\ Move(v, "away")
  /\ UNCHANGED <<permitVars, proxied, sealed, local, expired>>

\* handle_parsed to try_admit_pending_stream_open.  No certificate, no route
\* or no permit ends the Visitor; a sealed registry has no route.
Route(v) ==
  /\ visitor[v].at = "routing"
  /\ \/ Move(v, "away") /\ UNCHANGED free
     \/ ~sealed /\ free.opens > 0 /\ Move(v, "opening") /\ Acquire("opens")
  /\ UNCHANGED <<sources, proxied, sealed, local, expired>>

\* open_tunnel_stream failed or timed out, or a stream is assigned: the active
\* permit is taken before the pending one is returned, and registration fails
\* behind the seal or a new Authorization.
OpenEnds(v) ==
  /\ visitor[v].at = "opening"
  /\ \/ Move(v, "away") /\ free' = [free EXCEPT !.opens = @ + 1]
     \/ /\ free.active > 0 /\ ~sealed
        /\ Move(v, "active")
        /\ free' = [free EXCEPT !.opens = @ + 1, !.active = @ - 1]
  /\ UNCHANGED <<sources, proxied, sealed, local, expired>>

\* The proxy ended, or its work was revoked.
ProxyEnds(v) ==
  /\ visitor[v].at = "active"
  /\ Move(v, "away") /\ free' = [free EXCEPT !.active = @ + 1]
  /\ UNCHANGED <<sources, proxied, sealed, local, expired>>

IntakeStep(v) ==
  \/ ReadHeader(v) \/ ReadHello(v) \/ IntakeFails(v) \/ IntakeShutdown(v) \/ ChallengeEnds(v)
  \/ Route(v) \/ OpenEnds(v) \/ ProxyEnds(v)

Tasks == {"header", "hello", "routing", "challenge", "opening", "active"}

\* visitor_intakes.abort_all: every permit comes back with its task.
AbortAll ==
  /\ visitor' = [v \in Visitors |->
                   IF visitor[v].at \in Tasks THEN Absent ELSE visitor[v]]
  /\ free' = [pending |-> Limits["pending"], opens |-> Limits["opens"], active |-> Limits["active"]]
  /\ sources' = [s \in Sources |-> 0]

\* wait_quiescent: neither a reservation nor a lease is left.
Quiescent == At({"opening", "active"}) = {}

-----------------------------------------------------------------------------
\* The permits are conserved through every way a Visitor can leave, and a
\* source is charged for exactly its Visitors whose ClientHello is awaited,
\* never above its limit, whichever address the PROXY header claimed.
IntakeAccounting ==
  /\ free.pending + Cardinality(At({"header", "hello"})) = Limits["pending"]
  /\ free.opens + Cardinality(At({"opening"})) = Limits["opens"]
  /\ free.active + Cardinality(At({"active"})) = Limits["active"]
  /\ \A s \in Sources :
       /\ sources[s] = Cardinality({v \in At({"hello"}) : visitor[v].source = s})
       /\ sources[s] <= Limits["perSource"]
===============================================================================
