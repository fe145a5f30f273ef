--------------------------------- MODULE Signals ---------------------------------
(***************************************************************************)
(* Process signals and the OrderlyShutdown they start                      *)
(* (src/src/commands/mod.rs, src/src/shutdown.rs): a mode only rises, from *)
(* none to graceful to fast.                                               *)
(***************************************************************************)
EXTENDS Naturals

VARIABLES
  process,   \* mode of the process's OrderlyShutdown: 0 none, 1 graceful, 2 fast
  armed,     \* a further signal may escalate to fast
  heard      \* what became of waiting for the first signal: none, ok, error

signalVars == <<process, armed, heard>>

SignalsInit == process = 0 /\ armed = FALSE /\ heard = "none"

\* OrderlyShutdown::transition_to.
Raise(mode, to) == IF mode >= to THEN mode ELSE to

SignalEvents == {"CtrlC", "Sigterm", "Sigquit"}
ShutdownMode(signal) == IF signal = "Sigquit" THEN 2 ELSE 1
Escalates(signal) == signal \in {"CtrlC", "Sigquit"}

\* The first signal, or a signal listener that failed: that forces fast.
FirstSignal ==
  /\ heard = "none"
  /\ \/ /\ heard' = "ok"
        /\ \E signal \in SignalEvents :
             /\ process' = Raise(process, ShutdownMode(signal))
             /\ armed' = Escalates(signal)
     \/ heard' = "error" /\ process' = Raise(process, 2) /\ UNCHANGED armed

\* wait_for_fast_shutdown_signal hears CtrlC and Sigquit, and both escalate.
SecondSignal ==
  /\ armed /\ process = 1
  /\ process' = Raise(process, 2)
  /\ UNCHANGED <<armed, heard>>
================================================================================
