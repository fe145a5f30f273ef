-------------------------------- MODULE ServerRun --------------------------------
(***************************************************************************)
(* A Server process from bind to exit: the sockets and the readiness probe *)
(* (src/src/server/mod.rs, src/src/server/readiness.rs), the accept loop   *)
(* and the orderly shutdown behind it, the certificate manager beside it   *)
(* (src/src/startup.rs) and the Managed session beside both                *)
(* (src/src/server_runtime.rs).                                            *)
(***************************************************************************)
EXTENDS VisitorIntake, Signals, Sequences

CONSTANTS
  Configs,        \* what may be configured: managed, acme, probe, proxied, and the graceful window
  MaxDelay,       \* AcceptBackoff's largest delay
  MaxHandshakes,  \* pending Tunnel handshakes
  MaxEvents       \* bound on what the environment does besides Visitors and signals

ASSUME RunAssumption ==
  /\ MaxDelay \in Nat \ {0} /\ MaxHandshakes \in Nat \ {0} /\ MaxEvents \in Nat
  /\ Configs \subseteq [managed : BOOLEAN, acme : BOOLEAN, probe : BOOLEAN, proxied : BOOLEAN,
                       grace : {"zero", "some", "long"}]

VARIABLES
  config,     \* a member of Configs
  events,     \* events so far, of MaxEvents
  stage,      \* where Server::bind and Server::serve are
  sockets,    \* reserved so far
  probe,      \* none, reserved, listening, failed, closed
  ready,      \* ReadinessGate: authorization has been applied
  certified,  \* ReadinessGate: the certificate can serve
  fatal,      \* FatalSignal
  drain,      \* ServerDrain
  backoff,    \* AcceptBackoff: the next delay, and whether the listener waits
  handshakes, \* tasks in `handshakes`
  terminal,   \* terminal_error of Server::serve
  acme,       \* the certificate manager: off, running, ended
  session,    \* the Managed session: off, running, lost, ended
  exit        \* result of the process: none, ok, error

loopVars == <<backoff, handshakes>>
serveVars == <<stage, sockets, probe, ready, certified, fatal, terminal>>
besideVars == <<drain, acme, session>>
serverVars == <<intakeVars, events, config, serveVars, loopVars, besideVars, exit>>

ServerInit ==
  /\ IntakeInit
  /\ config \in Configs /\ proxied = config.proxied
  /\ events = 0
  /\ stage = "bind" /\ sockets = {} /\ probe = "none"
  /\ ready = ~config.managed /\ certified = ~config.acme
  /\ fatal = FALSE /\ drain = FALSE /\ terminal = FALSE
  /\ backoff = [delay |-> 1, waiting |-> FALSE] /\ handshakes = 0
  /\ acme = "off" /\ session = "off"
  /\ exit = "none"

-----------------------------------------------------------------------------
(***************************************************************************)
(* bind_with_admission_limits_and_proxy: everything is reserved before any *)
(* work is accepted, and an error releases what was.                       *)
(***************************************************************************)
BindOrder == <<"public", "tunnel", "probe", "endpoint">>
NextSocket == BindOrder[Cardinality(sockets) + 1]
IsReady == ready /\ certified

\* ReadinessProbe::bind listens at once when the gate is open.
ProbeBound ==
  IF ~config.probe THEN "none" ELSE IF IsReady THEN "listening" ELSE "reserved"

Bind ==
  /\ stage = "bind" /\ exit = "none"
  /\ sockets' = sockets \cup {NextSocket}
  /\ probe' = IF NextSocket = "probe" THEN ProbeBound ELSE probe
  /\ IF NextSocket = "endpoint"
     THEN /\ stage' = "loop"
          /\ acme' = IF config.acme THEN "running" ELSE "off"
          /\ session' = IF config.managed THEN "running" ELSE "off"
     ELSE UNCHANGED <<stage, acme, session>>
  /\ UNCHANGED <<intakeVars, config, ready, certified, fatal, terminal, drain, loopVars, exit>>

BindFails ==
  /\ stage = "bind" /\ exit = "none"
  /\ sockets' = {} /\ probe' = IF probe = "none" THEN "none" ELSE "closed"
  /\ exit' = "error"
  /\ UNCHANGED <<intakeVars, config, stage, ready, certified, fatal, terminal, besideVars, loopVars>>

\* Mutant: the task that listens does not wait for the gate.
ProbeListensEarly ==
  /\ probe = "reserved"
  /\ \/ probe' = "listening" /\ UNCHANGED <<ready, fatal>>
     \/ probe' = "failed" /\ ready' = FALSE /\ fatal' = TRUE
  /\ UNCHANGED <<intakeVars, config, stage, sockets, certified, terminal, besideVars, loopVars, exit>>

\* wait_until_ready, then listen; a failure after the commit is fatal.
ProbeListens ==
  /\ probe = "reserved" /\ IsReady
  /\ \/ probe' = "listening" /\ UNCHANGED <<ready, fatal>>
     \/ probe' = "failed" /\ ready' = FALSE /\ fatal' = TRUE
  /\ UNCHANGED <<intakeVars, config, stage, sockets, certified, terminal, besideVars, loopVars, exit>>

\* The first applied Authorization opens the gate (replace_authorization).
Authorized ==
  /\ session = "running" /\ ~ready /\ ~fatal
  /\ ready' = TRUE
  /\ UNCHANGED <<intakeVars, config, stage, sockets, probe, certified, fatal, terminal, besideVars,
                 loopVars, exit>>

\* The certificate controller's readiness watch.
CertificateChanges ==
  /\ config.acme /\ exit = "none"
  /\ certified' = ~certified
  /\ UNCHANGED <<intakeVars, config, stage, sockets, probe, ready, fatal, terminal, besideVars,
                 loopVars, exit>>

-----------------------------------------------------------------------------
\* Server::run_with_shutdown: the Server's own shutdown follows the process's
\* and the Managed drain, which starts it gracefully.

DrainRequested ==
  /\ session = "running" /\ ~drain
  /\ drain' = TRUE
  /\ UNCHANGED <<intakeVars, config, serveVars, loopVars, acme, session, exit>>

\* Mutant: a graceful shutdown that has begun is not escalated.
FollowOnce ==
  /\ stage \notin {"bind", "returned"}
  /\ LET to == Raise(process, IF drain THEN 1 ELSE 0)
     IN  to > 0 /\ local = 0 /\ local' = to
  /\ UNCHANGED <<visitor, permitVars, proxied, sealed, expired, config, serveVars, loopVars,
                 besideVars, exit>>

Follow ==
  /\ stage \notin {"bind", "returned"}
  /\ LET to == Raise(process, IF drain THEN 1 ELSE 0)
     IN  to > local /\ local' = to
  /\ UNCHANGED <<visitor, permitVars, proxied, sealed, expired, config, serveVars, loopVars,
                 besideVars, exit>>

-----------------------------------------------------------------------------
\* The accept loop of Server::serve: next_server_event looks at the fatal
\* signal first, so no accept is taken over it; a shutdown that comes with it
\* may be.

Leave == stage' = "leaving"
Unserved == UNCHANGED <<sockets, probe, ready, certified, fatal>>

\* Mutant: the loop ends and forgets why.
LoopFatalQuiet ==
  /\ stage = "loop" /\ fatal
  /\ Leave /\ local' = Raise(local, 2)
  /\ Unserved
  /\ UNCHANGED <<visitor, permitVars, proxied, sealed, expired, terminal, config, loopVars, besideVars, exit>>

LoopFatal ==
  /\ stage = "loop" /\ fatal
  /\ Leave /\ terminal' = TRUE /\ local' = Raise(local, 2)
  /\ Unserved
  /\ UNCHANGED <<visitor, permitVars, proxied, sealed, expired, config, loopVars, besideVars, exit>>

LoopShutdown ==
  /\ stage = "loop" /\ local # 0
  /\ Leave
  /\ Unserved
  /\ UNCHANGED <<intakeVars, terminal, config, loopVars, besideVars, exit>>

\* process_public_accept: a success resets the backoff.
AcceptVisitor(v) ==
  /\ stage = "loop" /\ ~fatal /\ ~backoff.waiting
  /\ visitor[v].at = "backlog"
  /\ Accepted(v)
  /\ backoff' = [delay |-> 1, waiting |-> FALSE]
  /\ UNCHANGED <<proxied, sealed, local, expired, config, serveVars, handshakes, besideVars, exit>>

\* A transient accept error: the listener waits, twice as long each time.
AcceptRetries ==
  /\ stage = "loop" /\ ~fatal /\ ~backoff.waiting
  /\ backoff' = [delay |-> Min({2 * backoff.delay, MaxDelay}), waiting |-> TRUE]
  /\ UNCHANGED <<intakeVars, config, serveVars, handshakes, besideVars, exit>>

BackoffElapses ==
  /\ backoff.waiting
  /\ backoff' = [backoff EXCEPT !.waiting = FALSE]
  /\ UNCHANGED <<intakeVars, config, serveVars, handshakes, besideVars, exit>>

\* Any other accept error, or no connection ID left.
AcceptFails ==
  /\ stage = "loop" /\ ~fatal /\ ~backoff.waiting
  /\ Leave /\ terminal' = TRUE /\ local' = Raise(local, 2)
  /\ Unserved
  /\ UNCHANGED <<visitor, permitVars, proxied, sealed, expired, config, loopVars, besideVars, exit>>

\* A Tunnel endpoint stopped: its accept returns None.
EndpointLost ==
  /\ stage = "loop" /\ ~fatal
  /\ Leave /\ local' = Raise(local, 2)
  /\ Unserved
  /\ UNCHANGED <<visitor, permitVars, proxied, sealed, expired, terminal, config, loopVars,
                 besideVars, exit>>

\* admit_tunnel_handshake and register_tunnel_connection; a full Server refuses.
HandshakeBegins ==
  /\ stage = "loop" /\ ~fatal /\ handshakes < MaxHandshakes
  /\ handshakes' = handshakes + 1
  /\ UNCHANGED <<intakeVars, config, serveVars, backoff, besideVars, exit>>

HandshakeEnds ==
  /\ handshakes > 0 /\ handshakes' = handshakes - 1
  /\ UNCHANGED <<intakeVars, config, serveVars, backoff, besideVars, exit>>

-----------------------------------------------------------------------------
\* Behind the loop.

\* Mutant: the registry is not sealed.
StopAcceptingUnsealed ==
  /\ stage = "leaving" /\ stage' = "unready"
  /\ Unserved
  /\ UNCHANGED <<intakeVars, terminal, config, loopVars, besideVars, exit>>

StopAccepting ==
  /\ stage = "leaving" /\ stage' = "unready"
  /\ sealed' = TRUE
  /\ Unserved
  /\ UNCHANGED <<visitor, permitVars, proxied, local, expired, terminal, config, loopVars, besideVars,
                 exit>>

\* Mutant: the listeners go first.
CloseProbeLast ==
  /\ stage = "unready" /\ stage' = "unlisten"
  /\ sockets' = {}
  /\ UNCHANGED <<intakeVars, probe, ready, certified, fatal, terminal, config, loopVars, besideVars,
                 exit>>

\* ReadinessProbe::close, before the listeners go.
CloseProbe ==
  /\ stage = "unready" /\ stage' = "unlisten"
  /\ probe' = IF probe = "none" THEN "none" ELSE "closed"
  /\ UNCHANGED <<intakeVars, sockets, ready, certified, fatal, terminal, config, loopVars, besideVars,
                 exit>>

\* The listeners are dropped and the handshakes aborted; the graceful wait
\* is skipped in fast mode or without a window.
CloseListeners ==
  /\ stage = "unlisten"
  /\ sockets' = {} /\ handshakes' = 0
  /\ visitor' = [v \in Visitors |->
                   IF visitor[v].at = "backlog" THEN Absent ELSE visitor[v]]
  /\ stage' = IF local = 1 /\ config.grace # "zero" THEN "draining" ELSE "closing"
  /\ probe' = IF probe = "none" THEN "none" ELSE "closed"
  /\ UNCHANGED <<permitVars, proxied, sealed, local, expired, ready, certified, fatal, terminal,
                 config, backoff, besideVars, exit>>

\* Every connection shut down in order and no Visitor work is left.
DrainCompletes ==
  /\ stage = "draining" /\ Quiescent
  /\ stage' = "closing"
  /\ Unserved
  /\ UNCHANGED <<intakeVars, terminal, config, loopVars, besideVars, exit>>

DrainExpires ==
  /\ stage = "draining" /\ config.grace = "some"
  /\ stage' = "closing" /\ expired' = TRUE
  /\ Unserved
  /\ UNCHANGED <<visitor, permitVars, proxied, sealed, local, terminal, config, loopVars, besideVars,
                 exit>>

DrainEscalates ==
  /\ stage = "draining" /\ local = 2
  /\ stage' = "closing"
  /\ Unserved
  /\ UNCHANGED <<intakeVars, terminal, config, loopVars, besideVars, exit>>

\* close_all, abort_all and the flush; Server::serve returns.
CloseAll ==
  /\ stage = "closing" /\ stage' = "returned"
  /\ AbortAll
  /\ Unserved
  /\ UNCHANGED <<proxied, sealed, local, expired, terminal, config, loopVars, besideVars, exit>>

-----------------------------------------------------------------------------
(***************************************************************************)
(* coordinate_server_acme and coordinate_managed_server.  The certificate  *)
(* manager's end turns the result into its error; a session that ends      *)
(* before it was asked to turns it into another.                           *)
(***************************************************************************)
AcmeEnds ==
  /\ acme = "running" /\ stage # "returned"
  /\ acme' = "ended" /\ process' = Raise(process, 2)
  /\ UNCHANGED <<intakeVars, config, serveVars, loopVars, drain, session, exit, armed, heard>>

ServerResult == IF terminal \/ acme = "ended" THEN "error" ELSE "ok"

\* The coordinator stops the session; a drained Managed Server keeps it until
\* the process is told to stop.
Stopped == stage = "returned" /\ (process # 0 \/ ServerResult = "error")

\* The session was asked to stop, by fast shutdown or by the coordinator.
SessionStops ==
  /\ session = "running"
  /\ process = 2 \/ Stopped
  /\ session' = "ended"
  /\ UNCHANGED <<intakeVars, config, serveVars, loopVars, drain, acme, exit, process, armed, heard>>

SessionLost ==
  /\ session = "running" /\ process # 2 /\ ~Stopped
  /\ session' = "lost"
  /\ process' = Raise(process, 2)
  /\ UNCHANGED <<intakeVars, config, serveVars, loopVars, drain, acme, exit, armed, heard>>

\* Mutant: the loss of the session is forgotten when the Server ends well.
ExitResultServer == ServerResult
ExitResult == IF session = "lost" THEN "error" ELSE ServerResult

\* The process ends once the Server and the session have.
Exit ==
  /\ stage = "returned" /\ exit = "none"
  /\ session # "running"
  /\ exit' = ExitResult
  /\ UNCHANGED <<intakeVars, config, serveVars, loopVars, besideVars>>

ServerProgram ==
  \/ Bind \/ BindFails \/ ProbeListens
  \/ Follow \/ LoopFatal \/ LoopShutdown \/ BackoffElapses
  \/ StopAccepting \/ CloseProbe \/ CloseListeners \/ DrainCompletes \/ DrainExpires \/ DrainEscalates
  \/ CloseAll \/ Exit

VisitorStep(v) ==
  /\ stage # "bind" /\ exit = "none"
  /\ \/ AcceptVisitor(v)
     \/ /\ IntakeStep(v) \/ ("public" \in sockets /\ Connect(v))
        /\ UNCHANGED <<config, serveVars, loopVars, besideVars, exit>>

Event ==
  /\ events < MaxEvents /\ events' = events + 1
  /\ \/ AcmeEnds \/ SessionLost
     \/ /\ \/ AcceptRetries \/ AcceptFails \/ EndpointLost \/ HandshakeBegins
           \/ CertificateChanges \/ DrainRequested
        /\ UNCHANGED signalVars

ServerNext ==
  \/ /\ ServerProgram \/ Authorized \/ HandshakeEnds \/ \E v \in Visitors : VisitorStep(v)
     /\ UNCHANGED <<events, signalVars>>
  \/ exit = "none" /\ (FirstSignal \/ SecondSignal) /\ UNCHANGED serverVars
  \/ SessionStops /\ UNCHANGED events
  \/ Event
===============================================================================
