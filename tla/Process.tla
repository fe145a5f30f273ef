--------------------------------- MODULE Process ---------------------------------
(***************************************************************************)
(* The two long-running commands, `runewarp server` and `runewarp client`  *)
(* (src/src/commands/mod.rs): a process is one or the other.               *)
(***************************************************************************)
EXTENDS ServerRun, ClientRun

VARIABLE role

vars == <<role, signalVars, serverVars, clientVars>>

Init == /\ role \in {"server", "client"}
        /\ SignalsInit
        /\ ServerInit /\ ClientInit
        \* A Client process leaves the Server's state alone, and the other way round.
        /\ role = "client" => config = CHOOSE c \in Configs : TRUE
        /\ role = "server" => ~managed

Next ==
  \/ role = "server" /\ ServerNext /\ UNCHANGED <<role, clientVars>>
  \/ role = "client" /\ ClientNext /\ UNCHANGED <<role, serverVars>>

\* The runtime polls what is ready; a finite graceful window passes, and the
\* controller of a Client that shuts down ends (AddressController).
Fairness ==
  /\ WF_vars(role = "server" /\ ServerProgram /\ UNCHANGED <<role, events, signalVars, clientVars>>)
  /\ WF_vars(role = "server" /\ SessionStops /\ UNCHANGED <<role, events, clientVars>>)
  /\ WF_vars(role = "client" /\ mode # 0 /\ ControllerEnds /\ UNCHANGED <<role, signalVars, serverVars>>)
  /\ WF_vars(/\ role = "client" /\ (SessionHears \/ SignalBranch \/ ControllerBranch \/ ClientExit)
             /\ UNCHANGED <<role, signalVars, serverVars>>)

Spec == Init /\ [][Next]_vars /\ Fairness

-----------------------------------------------------------------------------
\* A Server that answers its readiness probe has applied an Authorization and
\* holds the sockets of Visitors and Tunnels: the probe listens only once the
\* gate is open, closes before the listeners, and a failed bind leaves neither.
ReadyServerAccepts ==
  /\ probe = "listening" => ready /\ {"public", "tunnel"} \subseteq sockets
  /\ exit # "none" => sockets = {} /\ probe # "listening"

\* A graceful shutdown cuts no placed Visitor before its window has passed,
\* unless it was escalated or has no window: nothing is placed behind the seal.
GracefulCutsNothing ==
  [][stage = "closing" /\ stage' = "returned" /\ ~Quiescent
      => local = 2 \/ expired \/ config.grace = "zero"]_vars

\* The exit status tells the truth and nothing is left running: the process
\* exits well only if no error ended the accept loop, the certificate manager
\* did not stop, the Managed session was not lost and the signals were heard.
\* A Server that failed after its commit (the probe cannot listen) leaves the
\* loop with that error, unless it was told to stop.  (ExitTruthful is stated of
\* the state after each step; in the initial state no process has exited.)
ExitTruthful ==
  /\ exit = "ok" => ~terminal /\ acme # "ended" /\ session # "lost"
  /\ exit # "none" => At(Tasks) = {} /\ handshakes = 0 /\ session # "running"
  /\ result = "ok" => controller = "ok" /\ (branch = "signal" => heard = "ok")
  /\ result # "none" => controller # "running" /\ drive # "running" /\ link # "running"
FatalIsAnError == stage = "loop" /\ stage' # "loop" /\ fatal => terminal' \/ process # 0 \/ drain
ExitAccounts == [][ExitTruthful' /\ FatalIsAnError]_vars

\* Once told to stop, the process exits: at once when told so fast, and at the
\* end of its window when told so gracefully.
ShutdownExits ==
  /\ process = 2 \/ (process = 1 /\ config.grace # "long") ~> exit # "none" \/ result # "none"

\* Serve until `shutdown` completes, or until a Managed drain completes.
ServesUntilAsked == stage = "returned" /\ ~terminal => process # 0 \/ drain
===============================================================================
