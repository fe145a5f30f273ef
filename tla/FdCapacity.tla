------------------------------- MODULE FdCapacity -------------------------------
(***************************************************************************)
(* How a process sizes what its Visitors may hold by the descriptors it is *)
(* allowed (src/src/fd_capacity.rs).  At startup the soft limit is raised  *)
(* towards the hard one, a reserve is set aside, and the configured        *)
(* capacities are kept when they fit and cut down when they do not: one of *)
(* the Client, three of the Server (pending Visitors, pending stream opens *)
(* and active routed streams, each with a socket of its own).              *)
(*                                                                         *)
(* The code multiplies in 128 bits and saturates every subtraction, so     *)
(* nothing wraps.  Warnings are left out.                                  *)
(***************************************************************************)
EXTENDS Integers

CONSTANTS
  Unread,               \* what is not known yet
  Unreadable,           \* a limit that cannot be known
  FdReserve,            \* FD_RESERVE
  MaxSnapshotAddresses, \* ManagedSessionLimits::max_server_addresses
  Capacities,           \* the configured capacities that are tried
  MaxNofile             \* bound: the largest hard limit that is tried

ASSUME FdAssumption ==
  /\ FdReserve \in Nat /\ MaxSnapshotAddresses \in Nat /\ MaxNofile \in Nat
  /\ Capacities \subseteq Nat
  /\ Unread \notin Nat /\ Unreadable \notin Nat

VARIABLES
  sized,      \* [kind, configured, managed, addresses] of what is starting, or Unread
  limits,     \* [soft, hard]: RLIMIT_NOFILE of the process
  nofile,     \* Unread before raise_nofile, then what it returned
  effective   \* the capacities that are used, Unread before

fdVars == <<sized, limits, nofile, effective>>

Owners == 1..3
PendingVisitors == 1
PendingStreamOpens == 2
ActiveRoutedStreams == 3

Lesser(a, b) == IF a < b THEN a ELSE b
SaturatingSub(a, b) == IF a < b THEN 0 ELSE a - b
Total(c) == c[PendingVisitors] + c[PendingStreamOpens] + c[ActiveRoutedStreams]

\* A Managed Client reserves for as many Server addresses as a snapshot may
\* carry, a Static one for those of its file.
Addresses(r) == IF r.managed THEN MaxSnapshotAddresses ELSE r.addresses
Reserve(r) == IF r.kind = "client" THEN FdReserve + Addresses(r) ELSE FdReserve

ClientCapacity(configured, limit, reserve) ==
  Lesser(configured, SaturatingSub(limit, reserve))

\* Mutant: what rounding leaves over goes to active streams whatever they want.
GiveToActive(configured, result, remaining) ==
  [result EXCEPT ![ActiveRoutedStreams] = @ + remaining]
\* What rounding leaves over: to active streams first, then pending Visitors,
\* then pending opens, to none above what was configured.
GiveLeftovers(configured, result, remaining) ==
  LET Room(i) == configured[i] - result[i]
      active  == Lesser(remaining, Room(ActiveRoutedStreams))
      pending == Lesser(remaining - active, Room(PendingVisitors))
      opens   == Lesser(remaining - active - pending, Room(PendingStreamOpens))
  IN  [result EXCEPT ![ActiveRoutedStreams] = @ + active,
                     ![PendingVisitors] = @ + pending,
                     ![PendingStreamOpens] = @ + opens]

ServerCapacity(configured, limit, reserve) ==
  LET available == SaturatingSub(limit, reserve)
      share == [i \in Owners |-> (configured[i] * available) \div Total(configured)]
  IN  IF Total(configured) <= available THEN configured
      ELSE GiveLeftovers(configured, share, available - Total(share))

-----------------------------------------------------------------------------
Roles == [kind : {"client"}, configured : Capacities,
          managed : BOOLEAN, addresses : 0..MaxSnapshotAddresses]
         \cup [kind : {"server"}, configured : [Owners -> Capacities],
               managed : {FALSE}, addresses : {0}]

FdInit == /\ sized \in Roles
          /\ limits \in [soft : 0..MaxNofile, hard : 0..MaxNofile] /\ limits.soft <= limits.hard
          /\ nofile = Unread
          /\ effective = Unread

\* A process that is not being sized.
FdIdle == sized = Unread /\ limits = Unread /\ nofile = Unread /\ effective = Unread

\* The soft limit goes up to the hard one, or to what the kernel allows a
\* process; or it stays, and may not even be readable.
RaiseNofile ==
  /\ sized # Unread /\ nofile = Unread
  /\ \/ \E soft \in limits.soft..limits.hard :
          nofile' = soft /\ limits' = [limits EXCEPT !.soft = soft]
     \/ nofile' \in {limits.soft, Unreadable} /\ UNCHANGED limits
  /\ UNCHANGED <<sized, effective>>

\* apply_client, apply_server: without a known limit nothing is cut.
Apply ==
  /\ nofile # Unread /\ effective = Unread
  /\ effective' = CASE nofile = Unreadable    -> sized.configured
                    [] sized.kind = "client" -> ClientCapacity(sized.configured, nofile, Reserve(sized))
                    [] sized.kind = "server" -> ServerCapacity(sized.configured, nofile, Reserve(sized))
  /\ UNCHANGED <<sized, limits, nofile>>

FdNext == RaiseNofile \/ Apply

-----------------------------------------------------------------------------
\* What the Visitors of a sized process may hold at most.
Wanted == IF sized.kind = "client" THEN sized.configured ELSE Total(sized.configured)
Granted == IF sized.kind = "client" THEN effective ELSE Total(effective)

\* When the limit is known, full Visitor capacity fits into what the process
\* may really open beside its reserve and one endpoint for every Server
\* address it can be given, no descriptor that was asked for is left unused,
\* and the Server's three capacities are cut evenly: none grows beyond its
\* setting or falls below its rounded share of the descriptors there are, as
\* server_capacity and client_capacity of fd_capacity.rs promise.
CapacityFitsLimit ==
  nofile \notin {Unread, Unreadable} /\ effective # Unread =>
    LET available == SaturatingSub(limits.soft, Reserve(sized))
    IN  /\ Granted = Lesser(Wanted, available)
        /\ Granted > 0 /\ sized.kind = "client" =>
             \A n \in 0..Addresses(sized) : Granted + FdReserve + n <= limits.soft
        /\ sized.kind = "server" /\ Wanted > 0 =>
             \A i \in Owners :
               /\ effective[i] <= sized.configured[i]
               /\ (effective[i] + 1) * Wanted > sized.configured[i] * Granted
================================================================================
