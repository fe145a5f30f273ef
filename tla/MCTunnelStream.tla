----------------------------- MODULE MCTunnelStream -----------------------------
(***************************************************************************)
(* Instance of TunnelStream: every service mode, two bytes each way, so    *)
(* that one can be in flight behind another.                               *)
(***************************************************************************)
EXTENDS TunnelStream
================================================================================
