---------------------------- MODULE TunnelPools ----------------------------
(***************************************************************************)
(* The Tunnel pools of the Server: registration of Tunnel connections      *)
(* under the active-connection limits, their close watchers, and the       *)
(* realignment of the pools by an Authorization commit.                    *)
(*                                                                         *)
(*   - TunnelRegistry::register, commit_authorization and                  *)
(*     stop_accepting_new_work (src/server/tunnel_registry.rs);            *)
(*   - ActiveClientPool (src/server/active_client.rs);                     *)
(*   - TunnelConnectionAdmission (src/server/admission.rs);                *)
(*   - the handshake tasks of the run loop (src/server/mod.rs).            *)
(*                                                                         *)
(* A pool is an object of its own, shared by its clones: `tunnel_pools`    *)
(* lists the pools of the live layout, and a task that cloned a pool keeps *)
(* it when the layout is replaced.  Each connection registers at most      *)
(* once, so a member is named by its connection.                           *)
(***************************************************************************)
EXTENDS Authorization, FiniteSets

CONSTANTS Connections,            \* Tunnel connections
          NoConnection,           \* nobody is being adopted
          IdentityOf,             \* the Client identity of each connection
          TunnelInputs,           \* the `tunnels` that Control publishes
          MaxApplies,             \* bound: inputs that Control publishes
          MaxAbandons,            \* bound: commits dropped before their end
          MaxTunnelConnections,   \* active connections on the Server
          MaxPerTunnel,           \* active connections of one Tunnel
          MaxPerIdentity          \* active connections of one Client identity

ASSUME ConnectionsAssumption ==
  IsFiniteSet(Connections) /\ NoConnection \notin Connections
ASSUME IdentityOfAssumption == IdentityOf \in [Connections -> Identities]
ASSUME TunnelInputsAssumption == TunnelInputs \subseteq Seq(ServerTunnelConfig)
ASSUME LimitsAssumption ==
  {MaxApplies, MaxAbandons, MaxTunnelConnections, MaxPerTunnel, MaxPerIdentity} \subseteq Nat

VARIABLES
  tunnel_pools,        \* the live layout: the pool of each Tunnel index
  next_pool,           \* pools are numbered as they are created
  accepting,           \* accepting_tunnel_connections
  \* One Tunnel connection.
  conn,                \* the QUIC connection
  register_pc,         \* its handshake task
  register_pool,       \* the pool that task has cloned
  pool_of,             \* the pool it is a member of
  watcher,             \* the close watcher of its membership
  permit,              \* it holds a TunnelConnectionPermit
  releasing,           \* release_admission_after_close waits for its end
  raced,               \* history: a commit moved or revoked its identity
                       \* between the registration's lookup and its push, or
                       \* a commit was abandoned before that push
  orphaned,            \* history: an abandoned commit dropped its membership
  \* TunnelConnectionAdmissionState.
  active, active_by_identity,
  \* commit_authorization.
  commit_pc, applies, abandons,
  interrupted,         \* history: the last commit was abandoned
  commit_at,           \* the pool its loop has reached
  previous_ids,        \* Tunnel IDs of the layout being replaced
  removed,             \* identities the commit revoked
  taken,               \* members detached from their pool
  adopting             \* the member between its new watcher and its push

registerVars  == <<register_pc, register_pool>>
memberVars    == <<pool_of, watcher>>
admissionVars == <<permit, active, active_by_identity>>
layoutVars    == <<authorization, tunnel_pools, next_pool>>
commitVars    == <<commit_pc, applies, abandons, interrupted, commit_at, previous_ids,
                   removed, taken, adopting>>
historyVars   == <<raced, orphaned>>
vars == <<registerVars, memberVars, admissionVars, layoutVars, commitVars,
          accepting, conn, releasing, historyVars>>

NoPool == 0

RegisterStages ==
  {"none", "handshaken", "accepted", "looked_up", "registered", "refused"}

TypeOK ==
  /\ authorization \in [version: Nat, snapshot: AuthorizationSnapshot]
  /\ tunnel_pools \in Seq(Nat)
  /\ next_pool \in Nat
  /\ accepting \in BOOLEAN
  /\ conn \in [Connections -> {"absent", "open", "closed"}]
  /\ register_pc \in [Connections -> RegisterStages]
  /\ register_pool \in [Connections -> Nat]
  /\ pool_of \in [Connections -> Nat]
  /\ watcher \in [Connections -> {"none", "live", "done"}]
  /\ permit \in [Connections -> BOOLEAN]
  /\ releasing \in [Connections -> BOOLEAN]
  /\ raced \in [Connections -> BOOLEAN]
  /\ orphaned \in [Connections -> BOOLEAN]
  /\ active \in Nat
  /\ active_by_identity \in [Identities -> Nat]
  /\ commit_pc \in {"idle", "closing", "taking", "adopting"}
  /\ applies \in 0..MaxApplies
  /\ abandons \in 0..MaxAbandons
  /\ interrupted \in BOOLEAN
  /\ commit_at \in Nat
  /\ previous_ids \in Seq(TunnelIds)
  /\ removed \subseteq Identities
  /\ taken \subseteq Connections
  /\ adopting \in Connections \cup {NoConnection}

Init ==
  /\ AuthorizationInit
  /\ tunnel_pools = <<>>
  /\ next_pool = 1
  /\ accepting = TRUE
  /\ conn = [c \in Connections |-> "absent"]
  /\ register_pc = [c \in Connections |-> "none"]
  /\ register_pool = [c \in Connections |-> NoPool]
  /\ pool_of = [c \in Connections |-> NoPool]
  /\ watcher = [c \in Connections |-> "none"]
  /\ permit = [c \in Connections |-> FALSE]
  /\ releasing = [c \in Connections |-> FALSE]
  /\ raced = [c \in Connections |-> FALSE]
  /\ orphaned = [c \in Connections |-> FALSE]
  /\ active = 0
  /\ active_by_identity = [x \in Identities |-> 0]
  /\ commit_pc = "idle"
  /\ applies = 0
  /\ abandons = 0
  /\ interrupted = FALSE
  /\ commit_at = 1
  /\ previous_ids = <<>>
  /\ removed = {}
  /\ taken = {}
  /\ adopting = NoConnection

-----------------------------------------------------------------------------
\* Helpers.

Members(p) == {c \in Connections : pool_of[c] = p}

\* The pools' write lock, held from the swap to the end of the adoptions.
PoolsWriteLocked == commit_pc # "idle"

IndexOf(c) == TunnelIndexForClientIdentity(Current, IdentityOf[c])

\* Mutant: one connection too many for an identity.
AdmissionOpenOneTooMany(c) ==
  /\ active < MaxTunnelConnections
  /\ active_by_identity[IdentityOf[c]] <= MaxPerIdentity

\* TunnelConnectionAdmission::try_acquire.
AdmissionOpen(c) ==
  /\ active < MaxTunnelConnections
  /\ active_by_identity[IdentityOf[c]] < MaxPerIdentity

AcquirePermit(c) ==
  /\ permit' = [permit EXCEPT ![c] = TRUE]
  /\ active' = active + 1
  /\ active_by_identity' = [active_by_identity EXCEPT ![IdentityOf[c]] = @ + 1]

\* TunnelConnectionPermit::drop.
DropPermit(c) ==
  /\ permit' = [permit EXCEPT ![c] = FALSE]
  /\ active' = active - 1
  /\ active_by_identity' = [active_by_identity EXCEPT ![IdentityOf[c]] = @ - 1]

CloseConnections(cs) == conn' = [c \in Connections |-> IF c \in cs THEN "closed" ELSE conn[c]]

-----------------------------------------------------------------------------
\* The handshake task of a Tunnel connection: TLS, then register.

\* The certificate verifier consults the live snapshot.
Handshake(c) ==
  /\ conn[c] = "absent"
  /\ accepting
  /\ IdentityOf[c] \in TrustedClientIdentities(Current)
  /\ conn' = [conn EXCEPT ![c] = "open"]
  /\ register_pc' = [register_pc EXCEPT ![c] = "handshaken"]
  /\ UNCHANGED <<register_pool, memberVars, admissionVars, layoutVars, commitVars,
                 accepting, releasing, historyVars>>

RegisterBegin(c) ==
  /\ register_pc[c] = "handshaken"
  /\ accepting
  /\ register_pc' = [register_pc EXCEPT ![c] = "accepted"]
  /\ UNCHANGED <<register_pool, memberVars, admissionVars, layoutVars, commitVars,
                 accepting, conn, releasing, historyVars>>

\* Every early return closes the connection.
Refuse(c) ==
  /\ CloseConnections({c})
  /\ register_pc' = [register_pc EXCEPT ![c] = "refused"]
  /\ register_pool' = [register_pool EXCEPT ![c] = NoPool]
  /\ UNCHANGED <<memberVars, admissionVars, layoutVars, commitVars, accepting,
                 releasing, historyVars>>

RegisterShuttingDown(c) == register_pc[c] = "handshaken" /\ ~accepting /\ Refuse(c)

\* Under the pools' read lock: the index of the identity, a clone of its pool.
RegisterLookup(c) ==
  /\ register_pc[c] = "accepted"
  /\ ~PoolsWriteLocked
  /\ IndexOf(c) \in DOMAIN tunnel_pools
  /\ register_pc' = [register_pc EXCEPT ![c] = "looked_up"]
  /\ register_pool' = [register_pool EXCEPT ![c] = tunnel_pools[IndexOf(c)]]
  /\ raced' = [raced EXCEPT ![c] = interrupted]
  /\ UNCHANGED <<memberVars, admissionVars, layoutVars, commitVars, accepting,
                 conn, releasing, orphaned>>

RegisterUnmapped(c) ==
  /\ register_pc[c] = "accepted"
  /\ ~PoolsWriteLocked
  /\ IndexOf(c) \notin DOMAIN tunnel_pools
  /\ Refuse(c)

\* try_register on the cloned pool, under that pool's lock only.
HasRoom(c) ==
  /\ Cardinality(Members(register_pool[c])) < MaxPerTunnel
  /\ AdmissionOpen(c)

TryRegister(c) ==
  /\ register_pc[c] = "looked_up"
  /\ HasRoom(c)
  /\ AcquirePermit(c)
  /\ pool_of' = [pool_of EXCEPT ![c] = register_pool[c]]
  /\ watcher' = [watcher EXCEPT ![c] = "live"]
  /\ register_pc' = [register_pc EXCEPT ![c] = "registered"]
  /\ register_pool' = [register_pool EXCEPT ![c] = NoPool]
  /\ UNCHANGED <<layoutVars, commitVars, accepting, conn, releasing, historyVars>>

RegisterSaturated(c) == register_pc[c] = "looked_up" /\ ~HasRoom(c) /\ Refuse(c)

\* handshakes.abort_all() once the accept loop has ended: the task's only
\* reference to the connection is dropped, which closes it.
CancelHandshake(c) ==
  /\ ~accepting
  /\ register_pc[c] \in {"handshaken", "accepted", "looked_up"}
  /\ Refuse(c)

\* The peer, the transport or another part of the Server ends the connection.
ConnectionEnds(c) ==
  /\ conn[c] = "open"
  /\ CloseConnections({c})
  /\ UNCHANGED <<registerVars, memberVars, admissionVars, layoutVars, commitVars,
                 accepting, releasing, historyVars>>

(***************************************************************************)
(* The close watcher removes the member it was started for, by a member ID *)
(* that is fresh for every push: on a pool the member has left, or was not *)
(* pushed to yet, it removes nothing.  The member's permit goes with it.   *)
(***************************************************************************)
WatcherRemoves(c) ==
  /\ watcher[c] = "live"
  /\ conn[c] = "closed"
  /\ pool_of[c] # NoPool
  /\ watcher' = [watcher EXCEPT ![c] = "done"]
  /\ pool_of' = [pool_of EXCEPT ![c] = NoPool]
  /\ DropPermit(c)
  /\ UNCHANGED <<registerVars, layoutVars, commitVars, accepting, conn, releasing, historyVars>>

WatcherFindsNothing(c) ==
  /\ watcher[c] = "live"
  /\ conn[c] = "closed"
  /\ pool_of[c] = NoPool
  /\ watcher' = [watcher EXCEPT ![c] = "done"]
  /\ UNCHANGED <<registerVars, pool_of, admissionVars, layoutVars, commitVars,
                 accepting, conn, releasing, historyVars>>

\* The task of release_admission_after_close.
ReleaseAdmission(c) ==
  /\ releasing[c]
  /\ conn[c] = "closed"
  /\ releasing' = [releasing EXCEPT ![c] = FALSE]
  /\ DropPermit(c)
  /\ UNCHANGED <<registerVars, memberVars, layoutVars, commitVars, accepting, conn, historyVars>>

StopAcceptingNewWork ==
  /\ accepting
  /\ accepting' = FALSE
  /\ UNCHANGED <<registerVars, memberVars, admissionVars, layoutVars, commitVars,
                 conn, releasing, historyVars>>

-----------------------------------------------------------------------------
\* commit_authorization, one at a time.  Only the pools' lock is held
\* throughout: a pool that was cloned before still takes registrations.

\* A registration that has cloned its pool and not pushed yet is raced when
\* the new snapshot gives its identity another Tunnel ID, or none.
Races(c, tunnels) ==
  /\ register_pc[c] = "looked_up"
  /\ TunnelIdOfIdentity(SnapshotOf(tunnels), IdentityOf[c])
       # TunnelIdOfIdentity(Current, IdentityOf[c])

CommitSnapshot(tunnels) ==
  /\ commit_pc = "idle"
  /\ applies < MaxApplies
  /\ ManagedTunnelsValid(tunnels)
  /\ Commit(tunnels)
  /\ previous_ids' = Current.tunnel_ids
  /\ removed' = TrustedClientIdentities(Current)
                  \ TrustedClientIdentities(SnapshotOf(tunnels))
  /\ raced' = [c \in Connections |-> raced[c] \/ Races(c, tunnels)]
  /\ applies' = applies + 1
  /\ commit_pc' = "closing"
  /\ commit_at' = 1
  /\ UNCHANGED <<registerVars, memberVars, admissionVars, tunnel_pools, next_pool,
                 abandons, interrupted, taken, adopting, accepting, conn, releasing,
                 orphaned>>

\* close_connections_for_identities, pool after pool of the old layout.
CloseRemoved ==
  /\ commit_pc = "closing"
  /\ commit_at \in DOMAIN tunnel_pools
  /\ CloseConnections({c \in Members(tunnel_pools[commit_at]) : IdentityOf[c] \in removed})
  /\ commit_at' = commit_at + 1
  /\ UNCHANGED <<registerVars, memberVars, admissionVars, layoutVars, commit_pc, applies,
                 abandons, interrupted, previous_ids, removed, taken, adopting, accepting,
                 releasing, historyVars>>

AllClosed ==
  /\ commit_pc = "closing"
  /\ commit_at \notin DOMAIN tunnel_pools
  /\ commit_pc' = "taking"
  /\ commit_at' = 1
  /\ UNCHANGED <<registerVars, memberVars, admissionVars, layoutVars, applies, abandons,
                 interrupted, previous_ids, removed, taken, adopting, accepting, conn,
                 releasing, historyVars>>

\* Mutant: pools keep their position instead of their Tunnel ID.
RebuiltPoolByPosition(i) ==
  IF i \in DOMAIN tunnel_pools THEN tunnel_pools[i] ELSE next_pool + i - 1

\* The pool of Tunnel index i in the new layout: the one its Tunnel ID had,
\* otherwise a new one.
RebuiltPool(i) ==
  LET kept == {j \in DOMAIN previous_ids : /\ previous_ids[j] = Current.tunnel_ids[i]
                                           /\ j \in DOMAIN tunnel_pools}
  IN  IF kept = {} THEN next_pool + i - 1 ELSE tunnel_pools[CHOOSE j \in kept : TRUE]

\* take_members, pool after pool of the old layout.
TakeMembers ==
  /\ commit_pc = "taking"
  /\ commit_at \in DOMAIN tunnel_pools
  /\ LET members == Members(tunnel_pools[commit_at])
     IN  /\ taken' = taken \cup members
         /\ pool_of' = [c \in Connections |-> IF c \in members THEN NoPool ELSE pool_of[c]]
  /\ commit_at' = commit_at + 1
  /\ UNCHANGED <<registerVars, watcher, admissionVars, layoutVars, commit_pc, applies,
                 abandons, interrupted, previous_ids, removed, adopting, accepting, conn,
                 releasing, historyVars>>

\* Mutant: the snapshot is swapped and the layout is not.
KeepPools ==
  /\ commit_pc = "taking"
  /\ commit_at \notin DOMAIN tunnel_pools
  /\ commit_pc' = "adopting"
  /\ UNCHANGED <<registerVars, memberVars, admissionVars, layoutVars, applies, abandons,
                 interrupted, commit_at, previous_ids, removed, taken, adopting, accepting,
                 conn, releasing, historyVars>>

\* The new layout replaces the old one.
RebuildPools ==
  /\ commit_pc = "taking"
  /\ commit_at \notin DOMAIN tunnel_pools
  /\ tunnel_pools' = [i \in DOMAIN Current.tunnel_ids |-> RebuiltPool(i)]
  /\ next_pool' = next_pool + Len(Current.tunnel_ids)
  /\ commit_pc' = "adopting"
  /\ UNCHANGED <<registerVars, memberVars, admissionVars, authorization, applies, abandons,
                 interrupted, commit_at, previous_ids, removed, taken, adopting, accepting,
                 conn, releasing, historyVars>>

\* adopt_member aborts the old watcher and starts the new one before it takes
\* the pool's lock ...
AdoptMember(c) ==
  /\ commit_pc = "adopting"
  /\ adopting = NoConnection
  /\ c \in taken
  /\ IndexOf(c) \in DOMAIN tunnel_pools
  /\ taken' = taken \ {c}
  /\ adopting' = c
  /\ watcher' = [watcher EXCEPT ![c] = "live"]
  /\ UNCHANGED <<registerVars, pool_of, admissionVars, layoutVars, commit_pc, applies,
                 abandons, interrupted, commit_at, previous_ids, removed, accepting, conn, releasing, historyVars>>

\* ... and pushes the member afterwards.
PushAdopted ==
  /\ adopting # NoConnection
  /\ pool_of' = [pool_of EXCEPT ![adopting] = tunnel_pools[IndexOf(adopting)]]
  /\ raced' = [raced EXCEPT ![adopting] = FALSE]
  /\ adopting' = NoConnection
  /\ UNCHANGED <<registerVars, watcher, admissionVars, layoutVars, commit_pc, applies,
                 abandons, interrupted, commit_at, previous_ids, removed, taken, accepting, conn, releasing,
                 orphaned>>

\* A member whose identity is revoked keeps its permit until it has closed.
ReleaseMember(c) ==
  /\ commit_pc = "adopting"
  /\ adopting = NoConnection
  /\ c \in taken
  /\ IndexOf(c) \notin DOMAIN tunnel_pools
  /\ taken' = taken \ {c}
  /\ releasing' = [releasing EXCEPT ![c] = TRUE]
  /\ UNCHANGED <<registerVars, memberVars, admissionVars, layoutVars, commit_pc, applies,
                 abandons, interrupted, commit_at, previous_ids, removed, adopting, accepting, conn, historyVars>>

UnlockPools ==
  /\ commit_pc = "adopting"
  /\ taken = {}
  /\ adopting = NoConnection
  /\ commit_pc' = "idle"
  /\ interrupted' = FALSE
  /\ commit_at' = 1
  /\ previous_ids' = <<>>
  /\ removed' = {}
  /\ UNCHANGED <<registerVars, memberVars, admissionVars, layoutVars, applies, abandons,
                 taken, adopting, accepting, conn, releasing, historyVars>>

(***************************************************************************)
(* The Managed session drops the apply future when its connection fails    *)
(* while the commit waits for a pool's lock.  The pools' lock is released  *)
(* and the detached members are dropped with their permits; a close        *)
(* watcher still holds each of their connections, which stay open.         *)
(***************************************************************************)
AbandonCommit ==
  LET dropped == taken \cup ({adopting} \ {NoConnection})
  IN  /\ abandons < MaxAbandons
      /\ \/ commit_pc \in {"closing", "taking"} /\ commit_at \in DOMAIN tunnel_pools
         \/ adopting # NoConnection
      /\ abandons' = abandons + 1
      /\ interrupted' = TRUE
      /\ commit_pc' = "idle"
      /\ commit_at' = 1
      /\ previous_ids' = <<>>
      /\ removed' = {}
      /\ taken' = {}
      /\ adopting' = NoConnection
      /\ permit' = [c \in Connections |-> permit[c] /\ c \notin dropped]
      /\ active' = active - Cardinality(dropped)
      /\ active_by_identity' =
           [x \in Identities |->
              active_by_identity[x] - Cardinality({c \in dropped : IdentityOf[c] = x})]
      /\ orphaned' = [c \in Connections |-> orphaned[c] \/ c \in dropped]
      /\ raced' = [c \in Connections |-> raced[c] \/ register_pc[c] = "looked_up"]
      /\ UNCHANGED <<registerVars, memberVars, layoutVars, applies, accepting, conn,
                     releasing>>

-----------------------------------------------------------------------------
RegisterStep(c) ==
  \/ Handshake(c)
  \/ RegisterBegin(c)
  \/ RegisterShuttingDown(c)
  \/ RegisterLookup(c)
  \/ RegisterUnmapped(c)
  \/ TryRegister(c)
  \/ RegisterSaturated(c)
  \/ CancelHandshake(c)

WatchStep(c) == WatcherRemoves(c) \/ WatcherFindsNothing(c) \/ ReleaseAdmission(c)

CommitProgress ==
  \/ CloseRemoved
  \/ AllClosed
  \/ TakeMembers
  \/ RebuildPools
  \/ \E c \in Connections : AdoptMember(c) \/ ReleaseMember(c)
  \/ PushAdopted
  \/ UnlockPools

Next ==
  \/ \E c \in Connections : RegisterStep(c) \/ ConnectionEnds(c) \/ WatchStep(c)
  \/ StopAcceptingNewWork
  \/ \E tunnels \in TunnelInputs : CommitSnapshot(tunnels)
  \/ CommitProgress
  \/ AbandonCommit

Spec == Init /\ [][Next]_vars

(***************************************************************************)
(* Fairness.  Tokio polls every ready task again: an apply in progress     *)
(* goes on and the tasks that wait for a closed connection run.            *)
(***************************************************************************)
FairSpec ==
  /\ Spec
  /\ WF_vars(CommitProgress)
  /\ \A c \in Connections : WF_vars(WatchStep(c))

-----------------------------------------------------------------------------
\* Properties.

\* A registered connection keeps its slot as long as it is open: neither a
\* move to another pool nor a revocation gives it back early, unless an
\* abandoned commit dropped it (adopt_member, release_admission_after_close).
SlotHeldWhileOpen ==
  \A c \in Connections :
    (register_pc[c] = "registered" /\ conn[c] = "open" /\ ~orphaned[c]) => permit[c]

(***************************************************************************)
(* The admission counters are exactly the permits held, within the global  *)
(* and the per-identity limit, through registration, realignment,          *)
(* revocation and closing, and no open connection is without one           *)
(* (try_acquire, TunnelConnectionPermit::drop).                            *)
(***************************************************************************)
AdmissionAccounting ==
  /\ TypeOK
  /\ SlotHeldWhileOpen
  /\ active = Cardinality({c \in Connections : permit[c]})
  /\ \A x \in Identities :
       active_by_identity[x] =
         Cardinality({c \in Connections : permit[c] /\ IdentityOf[c] = x})
  /\ active <= MaxTunnelConnections
  /\ \A x \in Identities : active_by_identity[x] <= MaxPerIdentity

(***************************************************************************)
(* Between commits that ran to their end, a member sits in the pool that   *)
(* the live snapshot gives its Client identity, unless its registration    *)
(* was raced between its lookup and its push: pools follow Tunnel IDs      *)
(* through reorderings, members follow identities, and a completed commit  *)
(* repairs the layout an abandoned one left (commit_authorization,         *)
(* register).                                                              *)
(***************************************************************************)
MembersAtHome ==
  (~PoolsWriteLocked /\ ~interrupted) =>
    \A c \in Connections :
      (pool_of[c] # NoPool /\ ~raced[c]) =>
        /\ IndexOf(c) \in DOMAIN tunnel_pools
        /\ pool_of[c] = tunnel_pools[IndexOf(c)]

\* One pool for each Tunnel ID of the live snapshot, and none shared.
LayoutMatches ==
  /\ Len(tunnel_pools) = Len(Current.tunnel_ids)
  /\ \A i, j \in DOMAIN tunnel_pools : tunnel_pools[i] = tunnel_pools[j] => i = j

(***************************************************************************)
(* Whenever a reader can hold the pools' lock after a commit that ran to   *)
(* its end, the layout is the one of the live snapshot                     *)
(* (commit_authorization).                                                 *)
(***************************************************************************)
LayoutMatchesSnapshot == (~PoolsWriteLocked /\ ~interrupted) => LayoutMatches

(***************************************************************************)
(* What src/docs/managed.md says of revocation: removing a Client identity *)
(* closes that identity's live Tunnel connections.                         *)
(***************************************************************************)
RevokedConnectionsClosed ==
  ~PoolsWriteLocked =>
    \A c \in Connections :
      (register_pc[c] = "registered" /\ conn[c] = "open")
        => IdentityOf[c] \in TrustedClientIdentities(Current)

(***************************************************************************)
(* What src/docs/protocol.md says of slots: an active Tunnel slot is       *)
(* released after its connection terminates.                               *)
(***************************************************************************)
SlotReleasedAfterClose ==
  \A c \in Connections : (conn[c] = "closed" /\ permit[c]) ~> ~permit[c]
=============================================================================
