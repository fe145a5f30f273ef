-------------------------------- MODULE ClientRun --------------------------------
(***************************************************************************)
(* A Client process from preparation to exit (src/src/client_runtime.rs,   *)
(* ClientInstancePrep of src/src/startup.rs, src/src/commands/client):     *)
(* the address controller, the Managed session beside it, the signals and  *)
(* the ACME tasks of the Client instance.  The controller itself is the    *)
(* subject of AddressController; here it runs and ends.                    *)
(***************************************************************************)
EXTENDS Signals

VARIABLES
  managed,     \* ClientAdmission
  controller,  \* AddressController::run: off, running, ok, error
  mode,        \* the controller's OrderlyShutdown
  link,        \* the Managed session: off, running, signalled, ended
  branch,      \* which future of the coordinator's select completed first
  drive,       \* ClientAcmeDrive: idle, running, stopped
  result       \* of the process: none, ok, error

clientVars == <<managed, controller, mode, link, branch, drive, result>>

ClientInit ==
  /\ managed \in BOOLEAN
  /\ controller = "off" /\ mode = 0 /\ link = "off" /\ branch = "none"
  /\ drive = "idle" /\ result = "none"

\* ClientRuntime::prepare, and start_acme_once when the run begins.
Prepare ==
  /\ controller = "off" /\ result = "none"
  /\ \/ /\ controller' = "running" /\ drive' = "running"
        /\ link' = IF managed THEN "running" ELSE "off"
        /\ UNCHANGED result
     \/ result' = "error" /\ UNCHANGED <<controller, drive, link>>
  /\ UNCHANGED <<managed, mode, branch>>

\* The workers all ended: by themselves, or because shutdown began.
ControllerEnds ==
  /\ controller = "running"
  /\ controller' \in {"ok", "error"}
  /\ UNCHANGED <<managed, mode, link, branch, drive, result>>

\* The Managed session ends on the signal, which it hands to the coordinator.
SessionHears ==
  /\ link = "running" /\ heard # "none"
  /\ link' = "signalled"
  /\ UNCHANGED <<managed, controller, mode, branch, drive, result>>

\* begin_shutdown: a failed signal listener forces fast.
SignalledMode == IF heard = "error" THEN 2 ELSE process

SignalBranch ==
  /\ branch = "none" /\ controller # "off"
  /\ IF managed THEN link = "signalled" ELSE heard # "none"
  /\ branch' = "signal"
  /\ mode' = Raise(mode, SignalledMode)
  /\ UNCHANGED <<managed, controller, link, drive, result>>

\* The controller came first: a running session is told to stop and awaited.
ControllerBranch ==
  /\ branch = "none" /\ controller \in {"ok", "error"}
  /\ branch' = "controller"
  /\ link' = IF link = "running" THEN "ended" ELSE link
  /\ UNCHANGED <<managed, controller, mode, drive, result>>

\* finish_with_escalation: the second signal is listened for from now on only.
Escalate ==
  /\ branch = "signal" /\ armed /\ mode = 1 /\ controller = "running"
  /\ mode' = Raise(mode, 2)
  /\ UNCHANGED <<managed, controller, link, branch, drive, result>>

\* A signal listener that failed is an error, whatever the controller says.
ClientResult == IF branch = "signal" /\ heard = "error" THEN "error" ELSE controller

\* stop_acme, after the controller ended, and the exit.
ClientExit ==
  /\ branch # "none" /\ controller \in {"ok", "error"} /\ result = "none"
  /\ drive' = "stopped"
  /\ result' = ClientResult
  /\ UNCHANGED <<managed, controller, mode, link, branch>>

ClientNext ==
  \/ /\ Prepare \/ ControllerEnds \/ SessionHears \/ SignalBranch \/ ControllerBranch \/ Escalate
        \/ ClientExit
     /\ UNCHANGED signalVars
  \/ /\ result = "none" /\ controller # "off"
     /\ FirstSignal
     /\ UNCHANGED clientVars
===============================================================================
