------------------------------ MODULE Provisioning ------------------------------
(***************************************************************************)
(* What happens before a process serves: a configuration is resolved, what *)
(* its Visitors may hold is sized by the descriptors it is allowed, or a   *)
(* material command runs.  None reads what another leaves (the verdict on  *)
(* the material a configuration names is part of its input, and so is what *)
(* a configuration asks for where it is sized), so a behaviour is of one   *)
(* of them.                                                                *)
(***************************************************************************)
EXTENDS Configuration, Credentials, FdCapacity

provisionVars == <<configVars, materialVars, fdVars>>

ProvisionInit ==
  \/ ConfigInit /\ MaterialIdle /\ FdIdle
  \/ ConfigIdle /\ MaterialInit /\ FdIdle
  \/ ConfigIdle /\ MaterialIdle /\ FdInit

ProvisionNext ==
  \/ ConfigNext /\ UNCHANGED <<materialVars, fdVars>>
  \/ MaterialNext /\ UNCHANGED <<configVars, fdVars>>
  \/ FdNext /\ UNCHANGED <<configVars, materialVars>>

ProvisionSpec == ProvisionInit /\ [][ProvisionNext]_provisionVars

\* Startup keeps what the configuration promised: an accepted configuration is
\* served whole (AcceptedServes, config/mod.rs and startup.rs), and the Visitors
\* it lets in fit the descriptors the process may open (CapacityFitsLimit,
\* fd_capacity.rs).
StartupSound == AcceptedServes /\ CapacityFitsLimit
================================================================================
