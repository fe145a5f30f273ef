------------------------- MODULE TunnelPoolsProofs -------------------------
(***************************************************************************)
(* Theorems about TunnelPools for every set of connections, identities and *)
(* Tunnel IDs, every inputs and every limit.                               *)
(***************************************************************************)
EXTENDS TunnelPools, FiniteSetTheorems, SequenceTheorems, TLAPS

(***************************************************************************)
(* Who holds a slot: a member of a pool, a member that a commit has taken  *)
(* out of its pool or is putting into its new one, and a revoked           *)
(* connection that has not closed yet.  A connection is one of them at a   *)
(* time.                                                                   *)
(***************************************************************************)
Held(c) == pool_of[c] # NoPool \/ c \in taken \/ adopting = c \/ releasing[c]

HolderInv ==
  \A c \in Connections :
    /\ permit[c] <=> Held(c)
    /\ Held(c) => register_pc[c] = "registered"
    /\ conn[c] = "absent" => register_pc[c] = "none"
    /\ pool_of[c] # NoPool => c \notin taken /\ adopting # c /\ ~releasing[c]
    /\ c \in taken => adopting # c /\ ~releasing[c]
    /\ adopting = c => ~releasing[c]

(***************************************************************************)
(* A live snapshot names each Tunnel ID once and leads every identity to   *)
(* one of its Tunnels or to none.                                          *)
(***************************************************************************)
Sound(snapshot) ==
  /\ snapshot.tunnel_ids \in Seq(TunnelIds)
  /\ \A i, j \in DOMAIN snapshot.tunnel_ids :
       snapshot.tunnel_ids[i] = snapshot.tunnel_ids[j] => i = j
  /\ \A x \in Identities :
       TunnelIndexForClientIdentity(snapshot, x) \in {None} \cup DOMAIN snapshot.tunnel_ids

(***************************************************************************)
(* The layout is made of different pools that exist, a registration has    *)
(* cloned one that exists, and a member is only adopted where it has a     *)
(* place.                                                                  *)
(***************************************************************************)
PoolInv ==
  /\ Sound(Current)
  /\ next_pool >= 1
  /\ \A i \in DOMAIN tunnel_pools : tunnel_pools[i] \in 1..(next_pool - 1)
  /\ \A i, j \in DOMAIN tunnel_pools : tunnel_pools[i] = tunnel_pools[j] => i = j
  /\ \A c \in Connections : register_pc[c] = "looked_up" => register_pool[c] # NoPool
  /\ adopting # NoConnection =>
       commit_pc = "adopting" /\ IndexOf(adopting) \in DOMAIN tunnel_pools

-----------------------------------------------------------------------------
\* Pool p is the one the live layout gives to c.
AtHome(c, p) == IndexOf(c) \in DOMAIN tunnel_pools /\ p = tunnel_pools[IndexOf(c)]

\* Pool p is the one the replaced layout had for the Tunnel that c is in now.
KeepsTunnel(c, p) ==
  /\ IndexOf(c) # None
  /\ \E j \in DOMAIN previous_ids :
       /\ j \in DOMAIN tunnel_pools
       /\ previous_ids[j] = Current.tunnel_ids[IndexOf(c)]
       /\ p = tunnel_pools[j]

\* Pool p is of the layout from place n on.
FromPlace(n, p) == \E j \in DOMAIN tunnel_pools : j >= n /\ p = tunnel_pools[j]

(***************************************************************************)
(* Where a registration that nothing has raced is going to push.           *)
(***************************************************************************)
CloneInv ==
  \A c \in Connections :
    register_pc[c] = "looked_up" /\ ~raced[c] =>
      /\ ~interrupted
      /\ commit_pc \in {"idle", "adopting"} => AtHome(c, register_pool[c])
      /\ commit_pc \in {"closing", "taking"} => KeepsTunnel(c, register_pool[c])

(***************************************************************************)
(* Where a member that nothing has raced is: at home, or in a pool that    *)
(* the commit has still to empty, or, pushed behind its back, in the pool  *)
(* that the Tunnel will keep.  An abandoned commit leaves its members      *)
(* somewhere in the layout, where the next commit finds them.              *)
(***************************************************************************)
MemberInv ==
  \A c \in Connections :
    pool_of[c] # NoPool /\ ~raced[c] =>
      /\ commit_pc = "idle" /\ ~interrupted => AtHome(c, pool_of[c])
      /\ commit_pc = "idle" /\ interrupted => FromPlace(1, pool_of[c])
      /\ commit_pc = "closing" => FromPlace(1, pool_of[c])
      /\ commit_pc = "taking" =>
           FromPlace(commit_at, pool_of[c]) \/ (~interrupted /\ KeepsTunnel(c, pool_of[c]))
      /\ commit_pc = "adopting" => AtHome(c, pool_of[c])

(***************************************************************************)
(* The layout has the length of the live snapshot's list of Tunnels, or of *)
(* the one before while a commit replaces it.                              *)
(***************************************************************************)
LayoutInv ==
  /\ commit_at >= 1
  /\ commit_pc = "idle" /\ ~interrupted => Len(tunnel_pools) = Len(Current.tunnel_ids)
  /\ commit_pc = "adopting" => Len(tunnel_pools) = Len(Current.tunnel_ids)
  /\ \A i, j \in DOMAIN previous_ids : previous_ids[i] = previous_ids[j] => i = j

HomeInv == LayoutInv /\ CloneInv /\ MemberInv

-----------------------------------------------------------------------------
(***************************************************************************)
(* The places of a list are natural numbers, and its entries have the type *)
(* of the list (the `tunnels` of an input are a Vec).                      *)
(***************************************************************************)
LEMMA Entries ==
  ASSUME NEW S, NEW s \in Seq(S), NEW i \in DOMAIN s
  PROVE  i \in Nat /\ i >= 1 /\ i <= Len(s) /\ s[i] \in S
BY LenProperties

(***************************************************************************)
(* A list of Tunnels that build_authorization_maps and                     *)
(* try_from_managed_tunnels accept yields a sound, well-typed snapshot.    *)
(***************************************************************************)
LEMMA SnapshotFacts ==
  ASSUME NEW tunnels \in Seq(ServerTunnelConfig), ManagedTunnelsValid(tunnels)
  PROVE  /\ SnapshotOf(tunnels) \in AuthorizationSnapshot
         /\ Sound(SnapshotOf(tunnels))
<1> DEFINE In(places) == \A p \in places : p[1] \in DOMAIN tunnels
           ids == [i \in DOMAIN tunnels |-> tunnels[i].id]
<1>1. ASSUME NEW places, In(places)
      PROVE  TunnelOf(places) \in {None} \cup DOMAIN tunnels
  <2>1. CASE places = {}
    BY <2>1 DEF TunnelOf
  <2>2. CASE places # {}
    <3>1. (CHOOSE p \in places : TRUE) \in places
      BY <2>2
    <3> QED
      BY <1>1, <2>2, <3>1 DEF TunnelOf
  <2> QED
    BY <2>1, <2>2
<1>2. \A x \in Identities : In(IdentityPlaces(tunnels, x))
  BY DEF IdentityPlaces
<1>3. \A h \in Hostnames : In(HostnamePlaces(tunnels, h))
  BY DEF HostnamePlaces
<1> HIDE DEF In
<1>4. None \in Nat /\ DOMAIN tunnels \subseteq Nat
  BY Entries DEF None
<1>5. /\ [x \in Identities |-> TunnelOf(IdentityPlaces(tunnels, x))] \in [Identities -> Nat]
      /\ [h \in Hostnames |-> TunnelOf(HostnamePlaces(tunnels, h))] \in [Hostnames -> Nat]
  BY <1>1, <1>2, <1>3, <1>4
<1>6. ids \in Seq(TunnelIds)
  <2>1. \A i \in DOMAIN tunnels : tunnels[i] \in ServerTunnelConfig
    BY Entries
  <2>2. \A i \in DOMAIN tunnels : tunnels[i].id \in TunnelIds
    BY <2>1 DEF ServerTunnelConfig, ManagedTunnelsValid
  <2>3. DOMAIN tunnels = 1..Len(tunnels) /\ Len(tunnels) \in Nat
    BY LenProperties
  <2> QED
    BY <2>2, <2>3, SeqDef
<1>7. \A i, j \in DOMAIN ids : ids[i] = ids[j] => i = j
  BY DEF ManagedTunnelsValid
<1>8. \A x \in Identities :
        TunnelIndexForClientIdentity(SnapshotOf(tunnels), x) \in {None} \cup DOMAIN ids
  BY <1>1, <1>2 DEF TunnelIndexForClientIdentity, SnapshotOf
<1> QED
  BY <1>5, <1>6, <1>7, <1>8 DEF SnapshotOf, AuthorizationSnapshot, Sound

-----------------------------------------------------------------------------
(***************************************************************************)
(* The counters as sets: the connections that hold a permit, in all and of *)
(* one identity.                                                           *)
(***************************************************************************)
Holders == {c \in Connections : permit[c]}
HoldersOf(x) == {c \in Connections : permit[c] /\ IdentityOf[c] = x}

Counts ==
  /\ active = Cardinality(Holders)
  /\ \A x \in Identities : active_by_identity[x] = Cardinality(HoldersOf(x))

Within ==
  /\ active <= MaxTunnelConnections
  /\ \A x \in Identities : active_by_identity[x] <= MaxPerIdentity

\* AdmissionAccounting, taken apart.
LEMMA AccountingParts ==
  AdmissionAccounting <=> TypeOK /\ SlotHeldWhileOpen /\ Counts /\ Within
BY DEF AdmissionAccounting, Counts, Within, Holders, HoldersOf

(***************************************************************************)
(* Sets of holders are finite, and a connection added or removed is one.   *)
(***************************************************************************)
LEMMA OneMore ==
  ASSUME NEW S \in SUBSET Connections, NEW c \in Connections \ S
  PROVE  /\ Cardinality(S) \in Nat
         /\ Cardinality(S \cup {c}) = Cardinality(S) + 1
BY ConnectionsAssumption, FS_Subset, FS_CardinalityType, FS_AddElement

\* One connection leaves a set of connections.
LEMMA OneLess ==
  ASSUME NEW S \in SUBSET Connections, NEW c \in S
  PROVE  /\ Cardinality(S) \in Nat /\ Cardinality(S) >= 1
         /\ Cardinality(S \ {c}) = Cardinality(S) - 1
<1>1. IsFiniteSet(S) /\ IsFiniteSet(S \ {c})
  BY ConnectionsAssumption, FS_Subset
<1>2. Cardinality(S) \in Nat /\ Cardinality(S \ {c}) \in Nat
  BY <1>1, FS_CardinalityType
<1> QED
  BY <1>1, <1>2, FS_RemoveElement

(***************************************************************************)
(* try_acquire under its limits, and the drop of a permit, move both       *)
(* counters by one.                                                        *)
(***************************************************************************)
LEMMA Acquired ==
  ASSUME TypeOK, Counts, Within, NEW c \in Connections, ~permit[c],
         AdmissionOpen(c), AcquirePermit(c)
  PROVE  /\ Counts' /\ Within'
         /\ permit' \in [Connections -> BOOLEAN]
         /\ active' \in Nat /\ active_by_identity' \in [Identities -> Nat]
<1> DEFINE x == IdentityOf[c]
<1>1. x \in Identities
  BY IdentityOfAssumption
<1>2. /\ permit \in [Connections -> BOOLEAN] /\ active \in Nat
      /\ active_by_identity \in [Identities -> Nat]
  BY DEF TypeOK
<1>3. /\ c \notin Holders /\ Holders' = Holders \cup {c}
      /\ c \notin HoldersOf(x) /\ HoldersOf(x)' = HoldersOf(x) \cup {c}
      /\ \A y \in Identities \ {x} : HoldersOf(y)' = HoldersOf(y)
  BY <1>2 DEF Holders, HoldersOf, AcquirePermit
<1>4. Holders \subseteq Connections /\ HoldersOf(x) \subseteq Connections
  BY DEF Holders, HoldersOf
<1>5. /\ Cardinality(Holders)' = Cardinality(Holders) + 1
      /\ Cardinality(HoldersOf(x))' = Cardinality(HoldersOf(x)) + 1
  BY <1>3, <1>4, OneMore
<1>6. \A y \in Identities :
        active_by_identity'[y] = IF y = x THEN active_by_identity[y] + 1
                                          ELSE active_by_identity[y]
  BY <1>1, <1>2 DEF AcquirePermit
<1>7. Counts'
  BY <1>1, <1>3, <1>5, <1>6 DEF Counts, AcquirePermit
<1>8. Within'
  BY <1>1, <1>2, <1>6, LimitsAssumption DEF Within, AcquirePermit, AdmissionOpen
<1>9. /\ permit' \in [Connections -> BOOLEAN] /\ active' \in Nat
      /\ active_by_identity' \in [Identities -> Nat]
  BY <1>1, <1>2 DEF AcquirePermit
<1> QED
  BY <1>7, <1>8, <1>9

\* The drop of a permit takes exactly one connection out of the counts
\* (TunnelConnectionPermit::drop).
LEMMA Dropped ==
  ASSUME TypeOK, Counts, Within, NEW c \in Connections, permit[c], DropPermit(c)
  PROVE  /\ Counts' /\ Within'
         /\ permit' \in [Connections -> BOOLEAN]
         /\ active' \in Nat /\ active_by_identity' \in [Identities -> Nat]
<1> DEFINE x == IdentityOf[c]
<1>1. x \in Identities
  BY IdentityOfAssumption
<1>2. /\ permit \in [Connections -> BOOLEAN] /\ active \in Nat
      /\ active_by_identity \in [Identities -> Nat]
  BY DEF TypeOK
<1>3. /\ c \in Holders /\ Holders' = Holders \ {c}
      /\ c \in HoldersOf(x) /\ HoldersOf(x)' = HoldersOf(x) \ {c}
      /\ \A y \in Identities \ {x} : HoldersOf(y)' = HoldersOf(y)
  BY <1>2 DEF Holders, HoldersOf, DropPermit
<1>4. Holders \subseteq Connections /\ HoldersOf(x) \subseteq Connections
  BY DEF Holders, HoldersOf
<1>5. /\ Cardinality(Holders)' = Cardinality(Holders) - 1
      /\ Cardinality(HoldersOf(x))' = Cardinality(HoldersOf(x)) - 1
      /\ Cardinality(Holders) >= 1 /\ Cardinality(HoldersOf(x)) >= 1
  BY <1>3, <1>4, OneLess
<1>6. \A y \in Identities :
        active_by_identity'[y] = IF y = x THEN active_by_identity[y] - 1
                                          ELSE active_by_identity[y]
  BY <1>1, <1>2 DEF DropPermit
<1>7. Counts'
  BY <1>1, <1>3, <1>5, <1>6 DEF Counts, DropPermit
<1>8. active >= 1 /\ active_by_identity[x] >= 1
  BY <1>1, <1>5 DEF Counts
<1>9. Within'
  BY <1>1, <1>2, <1>6, <1>8, LimitsAssumption DEF Within, DropPermit
<1>10. /\ permit' \in [Connections -> BOOLEAN] /\ active' \in Nat
       /\ active_by_identity' \in [Identities -> Nat]
  BY <1>1, <1>2, <1>8 DEF DropPermit
<1> QED
  BY <1>7, <1>9, <1>10

\* A step that leaves the permits alone keeps the counts.
LEMMA SlotsUntouched ==
  ASSUME Counts, Within, UNCHANGED admissionVars
  PROVE  Counts' /\ Within'
BY DEF Counts, Within, Holders, HoldersOf, admissionVars

-----------------------------------------------------------------------------
\* The invariant that makes the accounting inductive.
Parts == TypeOK /\ SlotHeldWhileOpen /\ Counts /\ Within /\ HolderInv /\ PoolInv

(***************************************************************************)
(* The steps of one connection: its handshake task, its watcher, the task  *)
(* that waits for its end, and its end.                                    *)
(***************************************************************************)
LEMMA ConnectionStepAccount ==
  ASSUME Parts, NEW c \in Connections, RegisterStep(c) \/ ConnectionEnds(c) \/ WatchStep(c)
  PROVE  Parts'
<1> USE DEF Parts
<1>1. CASE Handshake(c)
  <2> USE <1>1 DEF Handshake, registerVars, memberVars, admissionVars, layoutVars, commitVars, historyVars
  <2>1. TypeOK'
    BY DEF TypeOK, RegisterStages, NoPool
  <2>2. SlotHeldWhileOpen'
    BY DEF TypeOK, SlotHeldWhileOpen
  <2>3. Counts' /\ Within'
    BY SlotsUntouched
  <2>4. HolderInv'
    BY DEF TypeOK, HolderInv, Held
  <2>5. PoolInv'
    BY DEF TypeOK, PoolInv, IndexOf, Current, NoPool
  <2> QED
    BY <2>1, <2>2, <2>3, <2>4, <2>5
<1>2. CASE RegisterBegin(c)
  <2> USE <1>2 DEF RegisterBegin, registerVars, memberVars, admissionVars, layoutVars, commitVars, historyVars
  <2>1. TypeOK'
    BY DEF TypeOK, RegisterStages, NoPool
  <2>2. SlotHeldWhileOpen'
    BY DEF TypeOK, SlotHeldWhileOpen
  <2>3. Counts' /\ Within'
    BY SlotsUntouched
  <2>4. HolderInv'
    BY DEF TypeOK, HolderInv, Held
  <2>5. PoolInv'
    BY DEF TypeOK, PoolInv, IndexOf, Current, NoPool
  <2> QED
    BY <2>1, <2>2, <2>3, <2>4, <2>5
<1>3. CASE RegisterShuttingDown(c)
  <2> USE <1>3 DEF RegisterShuttingDown, Refuse, CloseConnections, registerVars, memberVars, admissionVars, layoutVars, commitVars, historyVars
  <2>1. TypeOK'
    BY DEF TypeOK, RegisterStages, NoPool
  <2>2. SlotHeldWhileOpen'
    BY DEF TypeOK, SlotHeldWhileOpen
  <2>3. Counts' /\ Within'
    BY SlotsUntouched
  <2>4. HolderInv'
    BY DEF TypeOK, HolderInv, Held
  <2>5. PoolInv'
    BY DEF TypeOK, PoolInv, IndexOf, Current, NoPool
  <2> QED
    BY <2>1, <2>2, <2>3, <2>4, <2>5
<1>4. CASE RegisterLookup(c)
  <2> USE <1>4 DEF RegisterLookup, registerVars, memberVars, admissionVars, layoutVars, commitVars, historyVars
  <2>1. TypeOK'
    BY DEF TypeOK, RegisterStages, NoPool
  <2>2. SlotHeldWhileOpen'
    BY DEF TypeOK, SlotHeldWhileOpen
  <2>3. Counts' /\ Within'
    BY SlotsUntouched
  <2>4. HolderInv'
    BY DEF TypeOK, HolderInv, Held
  <2>5. PoolInv'
    BY DEF TypeOK, PoolInv, IndexOf, Current, NoPool
  <2> QED
    BY <2>1, <2>2, <2>3, <2>4, <2>5
<1>5. CASE RegisterUnmapped(c)
  <2> USE <1>5 DEF RegisterUnmapped, Refuse, CloseConnections, registerVars, memberVars, admissionVars, layoutVars, commitVars, historyVars
  <2>1. TypeOK'
    BY DEF TypeOK, RegisterStages, NoPool
  <2>2. SlotHeldWhileOpen'
    BY DEF TypeOK, SlotHeldWhileOpen
  <2>3. Counts' /\ Within'
    BY SlotsUntouched
  <2>4. HolderInv'
    BY DEF TypeOK, HolderInv, Held
  <2>5. PoolInv'
    BY DEF TypeOK, PoolInv, IndexOf, Current, NoPool
  <2> QED
    BY <2>1, <2>2, <2>3, <2>4, <2>5
<1>6. CASE RegisterSaturated(c)
  <2> USE <1>6 DEF RegisterSaturated, Refuse, CloseConnections, registerVars, memberVars, admissionVars, layoutVars, commitVars, historyVars
  <2>1. TypeOK'
    BY DEF TypeOK, RegisterStages, NoPool
  <2>2. SlotHeldWhileOpen'
    BY DEF TypeOK, SlotHeldWhileOpen
  <2>3. Counts' /\ Within'
    BY SlotsUntouched
  <2>4. HolderInv'
    BY DEF TypeOK, HolderInv, Held
  <2>5. PoolInv'
    BY DEF TypeOK, PoolInv, IndexOf, Current, NoPool
  <2> QED
    BY <2>1, <2>2, <2>3, <2>4, <2>5
<1>7. CASE CancelHandshake(c)
  <2> USE <1>7 DEF CancelHandshake, Refuse, CloseConnections, registerVars, memberVars, admissionVars, layoutVars, commitVars, historyVars
  <2>1. TypeOK'
    BY DEF TypeOK, RegisterStages, NoPool
  <2>2. SlotHeldWhileOpen'
    BY DEF TypeOK, SlotHeldWhileOpen
  <2>3. Counts' /\ Within'
    BY SlotsUntouched
  <2>4. HolderInv'
    BY DEF TypeOK, HolderInv, Held
  <2>5. PoolInv'
    BY DEF TypeOK, PoolInv, IndexOf, Current, NoPool
  <2> QED
    BY <2>1, <2>2, <2>3, <2>4, <2>5
<1>8. CASE ConnectionEnds(c)
  <2> USE <1>8 DEF ConnectionEnds, CloseConnections, registerVars, memberVars, admissionVars, layoutVars, commitVars, historyVars
  <2>1. TypeOK'
    BY DEF TypeOK, RegisterStages, NoPool
  <2>2. SlotHeldWhileOpen'
    BY DEF TypeOK, SlotHeldWhileOpen
  <2>3. Counts' /\ Within'
    BY SlotsUntouched
  <2>4. HolderInv'
    BY DEF TypeOK, HolderInv, Held
  <2>5. PoolInv'
    BY DEF TypeOK, PoolInv, IndexOf, Current, NoPool
  <2> QED
    BY <2>1, <2>2, <2>3, <2>4, <2>5
<1>9. CASE WatcherFindsNothing(c)
  <2> USE <1>9 DEF WatcherFindsNothing, registerVars, memberVars, admissionVars, layoutVars, commitVars, historyVars
  <2>1. TypeOK'
    BY DEF TypeOK, RegisterStages, NoPool
  <2>2. SlotHeldWhileOpen'
    BY DEF TypeOK, SlotHeldWhileOpen
  <2>3. Counts' /\ Within'
    BY SlotsUntouched
  <2>4. HolderInv'
    BY DEF TypeOK, HolderInv, Held
  <2>5. PoolInv'
    BY DEF TypeOK, PoolInv, IndexOf, Current, NoPool
  <2> QED
    BY <2>1, <2>2, <2>3, <2>4, <2>5
<1>10. CASE TryRegister(c)
  <2> USE <1>10 DEF TryRegister, HasRoom, registerVars, memberVars, admissionVars, layoutVars, commitVars, historyVars
  <2>1. ~permit[c]
    BY DEF HolderInv
  <2>2. /\ Counts' /\ Within' /\ permit' \in [Connections -> BOOLEAN]
        /\ active' \in Nat /\ active_by_identity' \in [Identities -> Nat]
    BY <2>1, Acquired
  <2> USE DEF AcquirePermit
  <2>3. TypeOK'
    BY <2>2 DEF TypeOK, RegisterStages, NoPool
  <2>4. SlotHeldWhileOpen'
    BY DEF TypeOK, SlotHeldWhileOpen
  <2>5. HolderInv'
    BY DEF TypeOK, HolderInv, Held, PoolInv
  <2>6. PoolInv'
    BY DEF TypeOK, PoolInv, IndexOf, Current, NoPool
  <2> QED
    BY <2>2, <2>3, <2>4, <2>5, <2>6
<1>11. CASE WatcherRemoves(c)
  <2> USE <1>11 DEF WatcherRemoves, registerVars, memberVars, admissionVars, layoutVars, commitVars, historyVars
  <2>1. permit[c]
    BY DEF HolderInv, Held
  <2>2. /\ Counts' /\ Within' /\ permit' \in [Connections -> BOOLEAN]
        /\ active' \in Nat /\ active_by_identity' \in [Identities -> Nat]
    BY <2>1, Dropped
  <2> USE DEF DropPermit
  <2>3. TypeOK'
    BY <2>2 DEF TypeOK, NoPool
  <2>4. SlotHeldWhileOpen'
    BY DEF TypeOK, SlotHeldWhileOpen
  <2>5. HolderInv'
    BY DEF TypeOK, HolderInv, Held
  <2>6. PoolInv'
    BY DEF TypeOK, PoolInv, IndexOf, Current, NoPool
  <2> QED
    BY <2>2, <2>3, <2>4, <2>5, <2>6
<1>12. CASE ReleaseAdmission(c)
  <2> USE <1>12 DEF ReleaseAdmission, registerVars, memberVars, admissionVars, layoutVars, commitVars, historyVars
  <2>1. permit[c]
    BY DEF HolderInv, Held
  <2>2. /\ Counts' /\ Within' /\ permit' \in [Connections -> BOOLEAN]
        /\ active' \in Nat /\ active_by_identity' \in [Identities -> Nat]
    BY <2>1, Dropped
  <2> USE DEF DropPermit
  <2>3. TypeOK'
    BY <2>2 DEF TypeOK, NoPool
  <2>4. SlotHeldWhileOpen'
    BY DEF TypeOK, SlotHeldWhileOpen
  <2>5. HolderInv'
    BY DEF TypeOK, HolderInv, Held
  <2>6. PoolInv'
    BY DEF TypeOK, PoolInv, IndexOf, Current, NoPool
  <2> QED
    BY <2>2, <2>3, <2>4, <2>5, <2>6
<1> QED
  BY <1>1, <1>2, <1>3, <1>4, <1>5, <1>6, <1>7, <1>8, <1>9, <1>10, <1>11, <1>12 DEF RegisterStep,
     WatchStep

-----------------------------------------------------------------------------
(***************************************************************************)
(* The new layout: a pool for every Tunnel, the old one where the Tunnel   *)
(* ID had one, and no pool for two Tunnels.                                *)
(***************************************************************************)
LEMMA RebuiltFacts ==
  ASSUME TypeOK, PoolInv
  PROVE  /\ \A i \in DOMAIN Current.tunnel_ids :
              RebuiltPool(i) \in 1..(next_pool + Len(Current.tunnel_ids) - 1)
         /\ \A i, j \in DOMAIN Current.tunnel_ids : RebuiltPool(i) = RebuiltPool(j) => i = j
<1> DEFINE ids == Current.tunnel_ids
           kept(i) == {j \in DOMAIN previous_ids : previous_ids[j] = ids[i]
                                                   /\ j \in DOMAIN tunnel_pools}
           pick(i) == CHOOSE j \in kept(i) : TRUE
<1>1. /\ ids \in Seq(TunnelIds) /\ next_pool \in Nat /\ next_pool >= 1
      /\ \A i, j \in DOMAIN ids : ids[i] = ids[j] => i = j
  BY DEF TypeOK, PoolInv, Sound
<1>2. Len(ids) \in Nat /\ \A i \in DOMAIN ids : i \in 1..Len(ids)
  BY <1>1, LenProperties
<1>3. \A i : RebuiltPool(i) = IF kept(i) = {} THEN next_pool + i - 1 ELSE tunnel_pools[pick(i)]
  BY DEF RebuiltPool
<1>4. \A i : kept(i) # {} => pick(i) \in kept(i)
  OBVIOUS
<1>5. \A i : kept(i) # {} =>
        pick(i) \in DOMAIN tunnel_pools /\ tunnel_pools[pick(i)] \in 1..(next_pool - 1)
                                        /\ previous_ids[pick(i)] = ids[i]
  BY <1>4 DEF PoolInv
<1> HIDE DEF ids, kept, pick
<1>6. ASSUME NEW i \in DOMAIN ids
      PROVE  RebuiltPool(i) \in 1..(next_pool + Len(ids) - 1)
  BY <1>1, <1>2, <1>3, <1>5
<1>7. ASSUME NEW i \in DOMAIN ids, NEW j \in DOMAIN ids, RebuiltPool(i) = RebuiltPool(j)
      PROVE  i = j
  <2>1. CASE kept(i) = {} /\ kept(j) = {}
    BY <1>1, <1>2, <1>3, <1>7, <2>1
  <2>2. CASE kept(i) = {} /\ kept(j) # {}
    BY <1>1, <1>2, <1>3, <1>5, <1>7, <2>2
  <2>3. CASE kept(i) # {} /\ kept(j) = {}
    BY <1>1, <1>2, <1>3, <1>5, <1>7, <2>3
  <2>4. CASE kept(i) # {} /\ kept(j) # {}
    <3>1. pick(i) = pick(j)
      BY <1>3, <1>5, <1>7, <2>4 DEF PoolInv
    <3> QED
      BY <1>1, <1>5, <2>4, <3>1
  <2> QED
    BY <2>1, <2>2, <2>3, <2>4
<1> QED
  BY <1>6, <1>7 DEF ids

(***************************************************************************)
(* A commit that is dropped returns the slots of the members it had        *)
(* detached, no more and no fewer.                                         *)
(***************************************************************************)
LEMMA SetDropped ==
  ASSUME NEW S \in SUBSET Connections, NEW D \in SUBSET S
  PROVE  /\ Cardinality(S) - Cardinality(D) \in Nat
         /\ Cardinality(S \ D) = Cardinality(S) - Cardinality(D)
<1>1. IsFiniteSet(S) /\ IsFiniteSet(S \ D) /\ S \cap D = D
  BY ConnectionsAssumption, FS_Subset
<1>2. Cardinality(S \ D) \in Nat
  BY <1>1, FS_CardinalityType
<1>3. Cardinality(S \ D) = Cardinality(S) - Cardinality(D)
  BY <1>1, FS_Difference
<1> QED
  BY <1>2, <1>3

\* An abandoned commit drops the permits of the members it had taken, and no
\* other.
LEMMA Abandoned ==
  ASSUME Parts, AbandonCommit
  PROVE  /\ Counts' /\ Within'
         /\ permit' \in [Connections -> BOOLEAN]
         /\ active' \in Nat /\ active_by_identity' \in [Identities -> Nat]
<1> DEFINE dropped == taken \cup ({adopting} \ {NoConnection})
           droppedOf(x) == {c \in dropped : IdentityOf[c] = x}
<1>1. /\ permit \in [Connections -> BOOLEAN] /\ active \in Nat
      /\ active_by_identity \in [Identities -> Nat]
      /\ dropped \subseteq Connections
  BY DEF Parts, TypeOK
<1>2. /\ permit' = [c \in Connections |-> permit[c] /\ c \notin dropped]
      /\ active' = active - Cardinality(dropped)
      /\ active_by_identity' = [x \in Identities |->
            active_by_identity[x] - Cardinality(droppedOf(x))]
  BY DEF AbandonCommit
<1>3. \A c \in dropped : permit[c]
  BY <1>1 DEF Parts, HolderInv, Held
<1> HIDE DEF dropped
<1>4. /\ dropped \subseteq Holders /\ Holders' = Holders \ dropped
      /\ Holders \subseteq Connections
  BY <1>1, <1>2, <1>3 DEF Holders
<1>5. \A x \in Identities : /\ droppedOf(x) \subseteq HoldersOf(x)
                            /\ HoldersOf(x)' = HoldersOf(x) \ droppedOf(x)
                            /\ HoldersOf(x) \subseteq Connections
  BY <1>1, <1>2, <1>3 DEF HoldersOf
<1>6. /\ Cardinality(Holders) - Cardinality(dropped) \in Nat
      /\ Cardinality(Holders)' = Cardinality(Holders) - Cardinality(dropped)
  BY <1>4, SetDropped
<1>7. \A x \in Identities :
        /\ Cardinality(HoldersOf(x)) - Cardinality(droppedOf(x)) \in Nat
        /\ Cardinality(HoldersOf(x))' = Cardinality(HoldersOf(x)) - Cardinality(droppedOf(x))
  BY <1>5, SetDropped
<1>8. IsFiniteSet(dropped) /\ \A x \in Identities : IsFiniteSet(droppedOf(x))
  BY <1>1, ConnectionsAssumption, FS_Subset
<1>9. Cardinality(dropped) \in Nat /\ \A x \in Identities : Cardinality(droppedOf(x)) \in Nat
  BY <1>8, FS_CardinalityType
<1> HIDE DEF droppedOf
<1>10. Counts'
  BY <1>2, <1>6, <1>7 DEF Counts, Parts
<1>11. active' \in Nat /\ active_by_identity' \in [Identities -> Nat]
  BY <1>2, <1>6, <1>7 DEF Counts, Parts
<1>12. Within'
  BY <1>1, <1>2, <1>9, LimitsAssumption DEF Within, Parts
<1>13. permit' \in [Connections -> BOOLEAN]
  BY <1>1, <1>2
<1> QED
  BY <1>10, <1>11, <1>12, <1>13

(***************************************************************************)
(* The steps of a commit, its abandonment, and the end of new work.        *)
(***************************************************************************)
LEMMA CommitStepAccount ==
  ASSUME Parts,
         \/ StopAcceptingNewWork
         \/ \E tunnels \in TunnelInputs : CommitSnapshot(tunnels)
         \/ CommitProgress
         \/ AbandonCommit
  PROVE  Parts'
<1> USE LimitsAssumption, ConnectionsAssumption DEF Parts
<1>1. CASE StopAcceptingNewWork
  <2> USE <1>1 DEF StopAcceptingNewWork, registerVars, memberVars, admissionVars, layoutVars, commitVars, historyVars
  <2>1. TypeOK'
    BY DEF TypeOK, NoPool
  <2>2. SlotHeldWhileOpen'
    BY DEF TypeOK, SlotHeldWhileOpen
  <2>3. Counts' /\ Within'
    BY SlotsUntouched
  <2>4. HolderInv'
    BY DEF TypeOK, HolderInv, Held
  <2>5. PoolInv'
    BY DEF TypeOK, PoolInv, IndexOf, Current, NoPool
  <2> QED
    BY <2>1, <2>2, <2>3, <2>4, <2>5
<1>2. ASSUME NEW tunnels \in TunnelInputs, CommitSnapshot(tunnels) PROVE Parts'
  <2> USE <1>2 DEF CommitSnapshot, Commit, registerVars, memberVars, admissionVars, layoutVars, commitVars, historyVars
  <2>0. /\ SnapshotOf(tunnels) \in AuthorizationSnapshot
        /\ Sound(SnapshotOf(tunnels))
        /\ Current.tunnel_ids \in Seq(TunnelIds)
    BY SnapshotFacts, TunnelInputsAssumption DEF PoolInv, Sound
  <2>6. /\ authorization' \in [version: Nat, snapshot: AuthorizationSnapshot]
        /\ removed' \subseteq Identities
        /\ raced' \in [Connections -> BOOLEAN]
        /\ applies' \in 0..MaxApplies
    BY <2>0 DEF TypeOK, TrustedClientIdentities, Races
  <2>1. TypeOK'
    BY <2>0, <2>6 DEF TypeOK
  <2>2. SlotHeldWhileOpen'
    BY DEF TypeOK, SlotHeldWhileOpen
  <2>3. Counts' /\ Within'
    BY SlotsUntouched
  <2>4. HolderInv'
    BY DEF TypeOK, HolderInv, Held
  <2>5. PoolInv'
    BY <2>0 DEF TypeOK, PoolInv, IndexOf, Current, NoPool
  <2> QED
    BY <2>1, <2>2, <2>3, <2>4, <2>5
<1>3. CASE CloseRemoved
  <2> USE <1>3 DEF CloseRemoved, CloseConnections, registerVars, memberVars, admissionVars, layoutVars, commitVars, historyVars
  <2>6. commit_at' \in Nat /\ conn' \in [Connections -> {"absent", "open", "closed"}]
    BY DEF TypeOK
  <2>1. TypeOK'
    BY <2>6 DEF TypeOK
  <2>2. SlotHeldWhileOpen'
    BY DEF TypeOK, SlotHeldWhileOpen
  <2>3. Counts' /\ Within'
    BY SlotsUntouched
  <2>4. HolderInv'
    BY DEF TypeOK, HolderInv, Held
  <2>5. PoolInv'
    BY DEF TypeOK, PoolInv, IndexOf, Current, NoPool
  <2> QED
    BY <2>1, <2>2, <2>3, <2>4, <2>5
<1>4. CASE AllClosed
  <2> USE <1>4 DEF AllClosed, registerVars, memberVars, admissionVars, layoutVars, commitVars, historyVars
  <2>1. TypeOK'
    BY DEF TypeOK, NoPool
  <2>2. SlotHeldWhileOpen'
    BY DEF TypeOK, SlotHeldWhileOpen
  <2>3. Counts' /\ Within'
    BY SlotsUntouched
  <2>4. HolderInv'
    BY DEF TypeOK, HolderInv, Held
  <2>5. PoolInv'
    BY DEF TypeOK, PoolInv, IndexOf, Current, NoPool
  <2> QED
    BY <2>1, <2>2, <2>3, <2>4, <2>5
<1>5. CASE TakeMembers
  <2> USE <1>5 DEF TakeMembers, Members, registerVars, memberVars, admissionVars, layoutVars, commitVars, historyVars
  <2>1. TypeOK'
    BY SMTT(30) DEF TypeOK, NoPool
  <2>2. SlotHeldWhileOpen'
    BY DEF TypeOK, SlotHeldWhileOpen
  <2>3. Counts' /\ Within'
    BY SlotsUntouched
  <2>4. HolderInv'
    BY SMTT(30) DEF TypeOK, HolderInv, Held, PoolInv, NoPool
  <2>5. PoolInv'
    BY DEF TypeOK, PoolInv, IndexOf, Current, NoPool
  <2> QED
    BY <2>1, <2>2, <2>3, <2>4, <2>5
<1>6. CASE RebuildPools
  <2> USE <1>6 DEF RebuildPools, registerVars, memberVars, admissionVars, layoutVars, commitVars, historyVars
  <2>0. /\ tunnel_pools' \in Seq(Nat) /\ next_pool' \in Nat
        /\ next_pool' >= 1
        /\ \A i \in DOMAIN tunnel_pools' : tunnel_pools'[i] \in 1..(next_pool' - 1)
        /\ \A i, j \in DOMAIN tunnel_pools' : tunnel_pools'[i] = tunnel_pools'[j] => i = j
    <3>1. Current.tunnel_ids \in Seq(TunnelIds)
      BY DEF PoolInv, Sound
    <3>2. Len(Current.tunnel_ids) \in Nat /\ DOMAIN Current.tunnel_ids = 1..Len(Current.tunnel_ids)
      BY <3>1, LenProperties
    <3>3. next_pool' \in Nat /\ next_pool' >= 1
      BY <3>2 DEF TypeOK, PoolInv
    <3>4. \A i \in DOMAIN Current.tunnel_ids : RebuiltPool(i) \in 1..(next_pool' - 1)
      BY RebuiltFacts, SMTT(30) DEF TypeOK
    <3>5. \A i, j \in DOMAIN tunnel_pools' : tunnel_pools'[i] = tunnel_pools'[j] => i = j
      BY RebuiltFacts
    <3>6. tunnel_pools' \in Seq(Nat)
      BY <3>2, <3>3, <3>4, SeqDef
    <3> QED
      BY <3>3, <3>4, <3>5, <3>6
  <2>1. TypeOK'
    BY <2>0 DEF TypeOK, NoPool
  <2>2. SlotHeldWhileOpen'
    BY DEF TypeOK, SlotHeldWhileOpen
  <2>3. Counts' /\ Within'
    BY SlotsUntouched
  <2>4. HolderInv'
    BY DEF TypeOK, HolderInv, Held
  <2>5. PoolInv'
    BY <2>0 DEF TypeOK, PoolInv, IndexOf, Current, NoPool
  <2> QED
    BY <2>1, <2>2, <2>3, <2>4, <2>5
<1>7. ASSUME NEW c \in Connections, AdoptMember(c) PROVE Parts'
  <2> USE <1>7 DEF AdoptMember, registerVars, memberVars, admissionVars, layoutVars, commitVars, historyVars
  <2>1. TypeOK'
    BY DEF TypeOK, NoPool
  <2>2. SlotHeldWhileOpen'
    BY DEF TypeOK, SlotHeldWhileOpen
  <2>3. Counts' /\ Within'
    BY SlotsUntouched
  <2>4. HolderInv'
    BY SMTT(30) DEF TypeOK, HolderInv, Held
  <2>5. PoolInv'
    BY DEF TypeOK, PoolInv, IndexOf, Current, NoPool
  <2> QED
    BY <2>1, <2>2, <2>3, <2>4, <2>5
<1>8. CASE PushAdopted
  <2> USE <1>8 DEF PushAdopted, registerVars, memberVars, admissionVars, layoutVars, commitVars, historyVars
  <2>6. pool_of' \in [Connections -> Nat] /\ raced' \in [Connections -> BOOLEAN]
    <3>1. adopting \in Connections /\ tunnel_pools[IndexOf(adopting)] \in Nat
      BY Entries DEF TypeOK, PoolInv
    <3> QED
      BY <3>1 DEF TypeOK
  <2>1. TypeOK'
    BY <2>6 DEF TypeOK
  <2>2. SlotHeldWhileOpen'
    BY DEF TypeOK, SlotHeldWhileOpen
  <2>3. Counts' /\ Within'
    BY SlotsUntouched
  <2>4. HolderInv'
    <3>1. adopting \in Connections /\ tunnel_pools[IndexOf(adopting)] # NoPool
      BY Entries DEF TypeOK, PoolInv, NoPool
    <3>2. /\ pool_of'[adopting] # NoPool
          /\ \A c \in Connections : c # adopting => pool_of'[c] = pool_of[c]
      BY <3>1 DEF TypeOK
    <3>3. adopting' = NoConnection /\ NoConnection \notin Connections
      BY ConnectionsAssumption
    <3>4. UNCHANGED <<permit, taken, releasing, register_pc, conn>>
      OBVIOUS
    <3> QED
      BY <3>1, <3>2, <3>3, <3>4 DEF HolderInv, Held
  <2>5. PoolInv'
    BY DEF TypeOK, PoolInv, IndexOf, Current, NoPool
  <2> QED
    BY <2>1, <2>2, <2>3, <2>4, <2>5
<1>9. ASSUME NEW c \in Connections, ReleaseMember(c) PROVE Parts'
  <2> USE <1>9 DEF ReleaseMember, registerVars, memberVars, admissionVars, layoutVars, commitVars, historyVars
  <2>1. TypeOK'
    BY DEF TypeOK, NoPool
  <2>2. SlotHeldWhileOpen'
    BY DEF TypeOK, SlotHeldWhileOpen
  <2>3. Counts' /\ Within'
    BY SlotsUntouched
  <2>4. HolderInv'
    BY DEF TypeOK, HolderInv, Held
  <2>5. PoolInv'
    BY DEF TypeOK, PoolInv, IndexOf, Current, NoPool
  <2> QED
    BY <2>1, <2>2, <2>3, <2>4, <2>5
<1>10. CASE UnlockPools
  <2> USE <1>10 DEF UnlockPools, registerVars, memberVars, admissionVars, layoutVars, commitVars, historyVars
  <2>6. previous_ids' \in Seq(TunnelIds)
    BY EmptySeq
  <2>1. TypeOK'
    BY <2>6 DEF TypeOK
  <2>2. SlotHeldWhileOpen'
    BY DEF TypeOK, SlotHeldWhileOpen
  <2>3. Counts' /\ Within'
    BY SlotsUntouched
  <2>4. HolderInv'
    BY DEF TypeOK, HolderInv, Held
  <2>5. PoolInv'
    BY DEF TypeOK, PoolInv, IndexOf, Current, NoPool
  <2> QED
    BY <2>1, <2>2, <2>3, <2>4, <2>5
<1>11. CASE AbandonCommit
  <2>1. /\ Counts' /\ Within' /\ permit' \in [Connections -> BOOLEAN]
        /\ active' \in Nat /\ active_by_identity' \in [Identities -> Nat]
    BY <1>11, Abandoned
  <2> USE <1>11 DEF AbandonCommit, registerVars, memberVars, admissionVars, layoutVars, commitVars, historyVars
  <2>2. TypeOK'
    <3>1. /\ raced' \in [Connections -> BOOLEAN] /\ orphaned' \in [Connections -> BOOLEAN]
          /\ interrupted' \in BOOLEAN /\ commit_at' \in Nat
      BY DEF TypeOK
    <3>2. abandons' \in 0..MaxAbandons
      BY DEF TypeOK
    <3>3. previous_ids' \in Seq(TunnelIds) /\ removed' = {} /\ taken' = {}
      BY EmptySeq
    <3>4. adopting' = NoConnection /\ commit_pc' = "idle"
      OBVIOUS
    <3>5. UNCHANGED <<authorization, tunnel_pools, next_pool, accepting, conn, register_pc,
                      register_pool, pool_of, watcher, releasing, applies>>
      OBVIOUS
    <3> HIDE <1>11 DEF AbandonCommit
    <3> QED
      BY <2>1, <3>1, <3>2, <3>3, <3>4, <3>5 DEF TypeOK
  <2>3. SlotHeldWhileOpen'
    BY DEF TypeOK, SlotHeldWhileOpen
  <2>4. HolderInv'
    <3>1. \A c \in Connections :
            /\ permit'[c] <=> permit[c] /\ c \notin taken /\ c # adopting
            /\ c \notin taken' /\ adopting' # c
      BY ConnectionsAssumption DEF TypeOK
    <3>2. UNCHANGED <<pool_of, releasing, register_pc, conn>>
      OBVIOUS
    <3> QED
      BY <3>1, <3>2 DEF HolderInv, Held
  <2>5. PoolInv'
    BY DEF TypeOK, PoolInv, IndexOf, Current
  <2> QED
    BY <2>1, <2>2, <2>3, <2>4, <2>5
<1> QED
  BY <1>1, <1>2, <1>3, <1>4, <1>5, <1>6, <1>7, <1>8, <1>9, <1>10, <1>11 DEF CommitProgress

-----------------------------------------------------------------------------
\* The registry starts with no connection and no permit.
LEMMA PartsInit == Init => Parts
<1> SUFFICES ASSUME Init PROVE Parts
  OBVIOUS
<1> USE DEF Init, AuthorizationInit
<1>1. /\ SnapshotOf(<<>>) \in AuthorizationSnapshot
      /\ Sound(SnapshotOf(<<>>))
  <2>1. <<>> \in Seq(ServerTunnelConfig) /\ DOMAIN <<>> = {}
    OBVIOUS
  <2>2. ManagedTunnelsValid(<<>>)
    BY <2>1 DEF ManagedTunnelsValid, AuthorizationMapsValid, AtMostOne, IdentityPlaces,
                HostnamePlaces
  <2> QED
    BY <2>1, <2>2, SnapshotFacts
<1>2. TypeOK
  <2>1. 0 \in 0..MaxApplies /\ 0 \in 0..MaxAbandons
    BY LimitsAssumption
  <2>2. tunnel_pools \in Seq(Nat) /\ previous_ids \in Seq(TunnelIds)
    BY EmptySeq
  <2>3. authorization \in [version: Nat, snapshot: AuthorizationSnapshot]
    BY <1>1 DEF EmptyManaged
  <2> QED
    BY <2>1, <2>2, <2>3 DEF TypeOK, RegisterStages, NoPool
<1>3. SlotHeldWhileOpen
  BY DEF SlotHeldWhileOpen
<1>4. Counts /\ Within
  <2>1. Holders = {} /\ \A x \in Identities : HoldersOf(x) = {}
    BY DEF Holders, HoldersOf
  <2>2. Counts
    BY <2>1, FS_EmptySet DEF Counts
  <2>3. Within
    BY LimitsAssumption DEF Within
  <2> QED
    BY <2>2, <2>3
<1>5. HolderInv
  BY ConnectionsAssumption DEF HolderInv, Held
<1>6. PoolInv
  BY <1>1 DEF PoolInv, Current, EmptyManaged
<1> QED
  BY <1>2, <1>3, <1>4, <1>5, <1>6 DEF Parts

\* Every step keeps types, counts, holders and pools.
LEMMA PartsStep == Parts /\ [Next]_vars => Parts'
<1> SUFFICES ASSUME Parts, [Next]_vars PROVE Parts'
  OBVIOUS
<1>1. CASE UNCHANGED vars
  <2> USE <1>1 DEF Parts, vars, registerVars, memberVars, admissionVars, layoutVars,
                   commitVars, historyVars
  <2>1. TypeOK'
    BY DEF TypeOK
  <2>2. SlotHeldWhileOpen' /\ HolderInv' /\ PoolInv'
    BY DEF SlotHeldWhileOpen, HolderInv, Held, PoolInv, Current, IndexOf
  <2>3. Counts' /\ Within'
    BY SlotsUntouched
  <2> QED
    BY <2>1, <2>2, <2>3
<1> QED
  BY <1>1, ConnectionStepAccount, CommitStepAccount DEF Next

(***************************************************************************)
(* The admission counters of TunnelConnectionAdmission are the permits     *)
(* held and stay within the limits, and no registered connection that is   *)
(* open is without its slot, whatever registers, closes, is realigned,     *)
(* revoked or abandoned, and in whatever order.                            *)
(***************************************************************************)
THEOREM AdmissionSafe == Spec => []AdmissionAccounting
<1>1. Init => Parts
  BY PartsInit
<1>2. Parts /\ [Next]_vars => Parts'
  BY PartsStep
<1>3. Parts => AdmissionAccounting
  BY AccountingParts DEF Parts
<1> QED
  BY <1>1, <1>2, <1>3, PTL DEF Spec

-----------------------------------------------------------------------------
(***************************************************************************)
(* What a step that leaves the layout alone, clones no pool and pushes no  *)
(* member keeps.                                                           *)
(***************************************************************************)
LEMMA HomeKept ==
  ASSUME HomeInv,
         UNCHANGED <<layoutVars, commit_pc, interrupted, previous_ids, raced>>,
         commit_at' = commit_at \/ (commit_pc = "closing" /\ commit_at' >= 1),
         \A c \in Connections : pool_of'[c] # NoPool => pool_of'[c] = pool_of[c],
         \A c \in Connections :
           register_pc'[c] = "looked_up" =>
             register_pc[c] = "looked_up" /\ register_pool'[c] = register_pool[c]
  PROVE  HomeInv'
<1> USE DEF HomeInv, layoutVars, IndexOf, Current
<1>1. LayoutInv'
  BY DEF LayoutInv
<1>2. CloneInv'
  BY DEF CloneInv, AtHome, KeepsTunnel
<1>3. MemberInv'
  <2> SUFFICES ASSUME NEW c \in Connections, pool_of'[c] # NoPool, ~raced'[c]
               PROVE  /\ commit_pc' = "idle" /\ ~interrupted' => AtHome(c, pool_of[c])'
                      /\ commit_pc' = "idle" /\ interrupted' => FromPlace(1, pool_of[c])'
                      /\ commit_pc' = "closing" => FromPlace(1, pool_of[c])'
                      /\ commit_pc' = "taking" =>
                           \/ FromPlace(commit_at, pool_of[c])'
                           \/ (~interrupted' /\ KeepsTunnel(c, pool_of[c])')
                      /\ commit_pc' = "adopting" => AtHome(c, pool_of[c])'
    BY DEF MemberInv
  <2>1. pool_of'[c] = pool_of[c] /\ pool_of[c] # NoPool /\ ~raced[c]
    OBVIOUS
  <2> QED
    BY <2>1 DEF MemberInv, AtHome, KeepsTunnel, FromPlace
<1> QED
  BY <1>1, <1>2, <1>3

(***************************************************************************)
(* The steps of one connection: a lookup under the lock clones the pool    *)
(* the live layout gives it, and a push goes where the clone leads.        *)
(***************************************************************************)
LEMMA ConnectionStepHome ==
  ASSUME Parts, HomeInv, NEW c \in Connections,
         RegisterStep(c) \/ ConnectionEnds(c) \/ WatchStep(c)
  PROVE  HomeInv'
<1> USE DEF registerVars, memberVars, layoutVars, commitVars, historyVars
<1>1. CASE Handshake(c) \/ RegisterBegin(c)
  BY <1>1, HomeKept DEF Handshake, RegisterBegin, Parts, TypeOK
<1>2. CASE Refuse(c)
  BY <1>2, HomeKept DEF Refuse, Parts, TypeOK
<1>3. CASE ConnectionEnds(c)
  BY <1>3, HomeKept DEF ConnectionEnds
<1>4. CASE WatchStep(c)
  BY <1>4, HomeKept DEF WatchStep, WatcherRemoves, WatcherFindsNothing, ReleaseAdmission,
                        Parts, TypeOK
<1>5. CASE RegisterLookup(c)
  <2> USE <1>5 DEF RegisterLookup, HomeInv, IndexOf, Current
  <2>1. pool_of[c] = NoPool
    BY DEF Parts, HolderInv, Held
  <2>2. /\ register_pc' = [register_pc EXCEPT ![c] = "looked_up"]
        /\ raced' = [raced EXCEPT ![c] = interrupted]
        /\ register_pool' = [register_pool EXCEPT ![c] = tunnel_pools[IndexOf(c)]]
        /\ register_pc \in [Connections -> RegisterStages]
        /\ raced \in [Connections -> BOOLEAN] /\ register_pool \in [Connections -> Nat]
    BY DEF Parts, TypeOK
  <2>3. LayoutInv'
    BY DEF LayoutInv
  <2>4. CloneInv'
    BY <2>2 DEF CloneInv, AtHome, KeepsTunnel, PoolsWriteLocked
  <2>5. MemberInv'
    BY <2>1, <2>2 DEF MemberInv, AtHome, KeepsTunnel, FromPlace
  <2> QED
    BY <2>3, <2>4, <2>5
<1>6. CASE TryRegister(c)
  <2> USE <1>6 DEF TryRegister, HomeInv, IndexOf, Current
  <2>1. /\ register_pc' = [register_pc EXCEPT ![c] = "registered"]
        /\ pool_of' = [pool_of EXCEPT ![c] = register_pool[c]]
        /\ register_pool' = [register_pool EXCEPT ![c] = NoPool]
        /\ register_pc \in [Connections -> RegisterStages]
        /\ pool_of \in [Connections -> Nat] /\ register_pool \in [Connections -> Nat]
    BY DEF Parts, TypeOK
  <2>2. LayoutInv'
    BY DEF LayoutInv
  <2>3. CloneInv'
    BY <2>1 DEF CloneInv, AtHome, KeepsTunnel
  <2>4. ~raced[c] => /\ ~interrupted
                     /\ commit_pc \in {"idle", "adopting"} => AtHome(c, register_pool[c])
                     /\ commit_pc \in {"closing", "taking"} => KeepsTunnel(c, register_pool[c])
    BY DEF CloneInv
  <2>5. KeepsTunnel(c, register_pool[c]) => FromPlace(1, register_pool[c])
    BY Entries DEF KeepsTunnel, FromPlace, Parts, TypeOK
  <2>6. MemberInv'
    BY <2>1, <2>4, <2>5 DEF MemberInv, AtHome, KeepsTunnel, FromPlace
  <2> QED
    BY <2>2, <2>3, <2>6
<1> QED
  BY <1>1, <1>2, <1>3, <1>4, <1>5, <1>6
     DEF RegisterStep, RegisterShuttingDown, RegisterUnmapped, RegisterSaturated,
         CancelHandshake

(***************************************************************************)
(* The swap of the snapshot: a registration that it does not race keeps    *)
(* its Tunnel ID, so its clone is the pool that this Tunnel had.           *)
(***************************************************************************)
LEMMA SwapHome ==
  ASSUME Parts, HomeInv, NEW tunnels \in TunnelInputs, CommitSnapshot(tunnels)
  PROVE  HomeInv'
<1> USE DEF CommitSnapshot, registerVars, memberVars, layoutVars, commitVars, historyVars
<1>1. /\ Current' = SnapshotOf(tunnels) /\ previous_ids' = Current.tunnel_ids
      /\ raced' = [c \in Connections |-> raced[c] \/ Races(c, tunnels)]
      /\ UNCHANGED <<tunnel_pools, register_pc, register_pool, pool_of, interrupted>>
      /\ commit_pc = "idle" /\ commit_pc' = "closing" /\ commit_at' = 1
  BY DEF Commit, Current
<1>2. Sound(Current) /\ tunnel_pools \in Seq(Nat)
  BY DEF Parts, PoolInv, TypeOK
<1>3. LayoutInv'
  BY <1>1, <1>2 DEF LayoutInv, Sound
<1>4. CloneInv'
  <2> SUFFICES ASSUME NEW c \in Connections, register_pc[c] = "looked_up", ~raced'[c]
               PROVE  ~interrupted /\ KeepsTunnel(c, register_pool[c])'
    BY <1>1 DEF CloneInv
  <2>1. ~raced[c] /\ ~Races(c, tunnels)
    BY <1>1
  <2>2. ~interrupted /\ AtHome(c, register_pool[c])
    BY <1>1, <2>1 DEF HomeInv, CloneInv
  <2>3. Len(tunnel_pools) = Len(Current.tunnel_ids)
    BY <1>1, <2>2 DEF HomeInv, LayoutInv
  <2>4. /\ IndexOf(c) \in DOMAIN Current.tunnel_ids /\ IndexOf(c) \in DOMAIN tunnel_pools
        /\ IndexOf(c) # None
    BY <1>2, <2>2, <2>3, LenProperties, Entries DEF AtHome, Sound, None
  <2>5. Current.tunnel_ids[IndexOf(c)] \in TunnelIds
    BY <1>2, <2>4, Entries DEF Sound
  <2>6. TunnelIdOfIdentity(Current, IdentityOf[c]) = Current.tunnel_ids[IndexOf(c)]
    BY <2>4 DEF TunnelIdOfIdentity, IndexOf
  <2>7. TunnelIdOfIdentity(SnapshotOf(tunnels), IdentityOf[c])
          = Current.tunnel_ids[IndexOf(c)]
    BY <2>1, <2>6 DEF Races
  <2>8. /\ IndexOf(c)' # None
        /\ Current'.tunnel_ids[IndexOf(c)'] = Current.tunnel_ids[IndexOf(c)]
    BY <1>1, <2>5, <2>7, NoTunnelIdAssumption DEF TunnelIdOfIdentity, IndexOf
  <2> QED
    BY <1>1, <2>2, <2>4, <2>8 DEF KeepsTunnel, AtHome
<1>5. MemberInv'
  <2>1. \A c \in Connections : pool_of[c] # NoPool /\ ~raced[c] => FromPlace(1, pool_of[c])
    BY <1>1, <1>2, Entries DEF HomeInv, MemberInv, AtHome, FromPlace
  <2> QED
    BY <1>1, <2>1 DEF MemberInv, FromPlace
<1> QED
  BY <1>3, <1>4, <1>5 DEF HomeInv

(***************************************************************************)
(* The rebuilt layout: the pool a Tunnel ID had is the pool it has.        *)
(***************************************************************************)
LEMMA KeptPool ==
  ASSUME Parts, HomeInv, NEW c \in Connections, NEW p, KeepsTunnel(c, p)
  PROVE  IndexOf(c) \in DOMAIN Current.tunnel_ids /\ RebuiltPool(IndexOf(c)) = p
<1> DEFINE i == IndexOf(c)
           kept == {j \in DOMAIN previous_ids : /\ previous_ids[j] = Current.tunnel_ids[i]
                                                /\ j \in DOMAIN tunnel_pools}
<1>1. i \in DOMAIN Current.tunnel_ids
  BY IdentityOfAssumption DEF KeepsTunnel, Parts, PoolInv, Sound, IndexOf
<1>2. PICK j \in DOMAIN previous_ids : /\ j \in DOMAIN tunnel_pools
                                       /\ previous_ids[j] = Current.tunnel_ids[i]
                                       /\ p = tunnel_pools[j]
  BY DEF KeepsTunnel
<1>3. kept = {j}
  BY <1>2 DEF HomeInv, LayoutInv
<1>4. (CHOOSE k \in kept : TRUE) = j
  BY <1>3
<1>5. RebuiltPool(i) = tunnel_pools[CHOOSE k \in kept : TRUE]
  BY <1>3 DEF RebuiltPool
<1> QED
  BY <1>1, <1>2, <1>4, <1>5

\* The rebuilt layout gives every kept Tunnel the pool it had
\* (commit_authorization).
LEMMA RebuildHome ==
  ASSUME Parts, Parts', HomeInv, RebuildPools
  PROVE  HomeInv'
<1> USE DEF RebuildPools, registerVars, memberVars, layoutVars, commitVars, historyVars
<1>1. /\ tunnel_pools' = [i \in DOMAIN Current.tunnel_ids |-> RebuiltPool(i)]
      /\ Current' = Current /\ \A c \in Connections : IndexOf(c)' = IndexOf(c)
      /\ UNCHANGED <<register_pc, register_pool, pool_of, raced, interrupted, commit_at,
                     previous_ids>>
      /\ commit_pc = "taking" /\ commit_pc' = "adopting" /\ commit_at \notin DOMAIN tunnel_pools
  BY DEF Current, IndexOf
<1>2. /\ Current.tunnel_ids \in Seq(TunnelIds) /\ tunnel_pools \in Seq(Nat)
      /\ tunnel_pools' \in Seq(Nat) /\ commit_at \in Nat /\ commit_at >= 1
  BY DEF Parts, PoolInv, Sound, TypeOK, HomeInv, LayoutInv
<1>3. \A c \in Connections : \A p : KeepsTunnel(c, p) => AtHome(c, p)'
  BY <1>1, KeptPool DEF AtHome
<1>4. \A p : ~FromPlace(commit_at, p)
  BY <1>1, <1>2, LenProperties DEF FromPlace
<1>5. LayoutInv'
  <2>1. Len(tunnel_pools') = Len(Current.tunnel_ids)
    BY <1>1, <1>2, LenProperties
  <2> QED
    BY <1>1, <1>2, <2>1 DEF LayoutInv, HomeInv
<1>6. CloneInv'
  BY <1>1, <1>3 DEF CloneInv, HomeInv
<1>7. MemberInv'
  BY <1>1, <1>3, <1>4 DEF MemberInv, HomeInv
<1> QED
  BY <1>5, <1>6, <1>7 DEF HomeInv

(***************************************************************************)
(* The other steps of a commit, its abandonment, and the end of new work.  *)
(***************************************************************************)
LEMMA CommitStepHome ==
  ASSUME Parts, Parts', HomeInv,
         \/ StopAcceptingNewWork
         \/ \E tunnels \in TunnelInputs : CommitSnapshot(tunnels)
         \/ CommitProgress
         \/ AbandonCommit
  PROVE  HomeInv'
<1> USE DEF registerVars, memberVars, layoutVars, commitVars, historyVars
<1>0. /\ tunnel_pools \in Seq(Nat) /\ commit_at \in Nat /\ commit_at >= 1
      /\ pool_of \in [Connections -> Nat] /\ raced \in [Connections -> BOOLEAN]
  BY DEF Parts, TypeOK, HomeInv, LayoutInv
<1>1. CASE StopAcceptingNewWork
  BY <1>1, HomeKept DEF StopAcceptingNewWork
<1>2. CASE CloseRemoved
  BY <1>0, <1>2, HomeKept DEF CloseRemoved
<1>3. ASSUME NEW c \in Connections, AdoptMember(c) \/ ReleaseMember(c) PROVE HomeInv'
  BY <1>3, HomeKept DEF AdoptMember, ReleaseMember
<1>4. CASE AllClosed
  <2> USE <1>4 DEF AllClosed, HomeInv, IndexOf, Current
  <2>1. LayoutInv'
    BY DEF LayoutInv
  <2>2. CloneInv'
    BY DEF CloneInv, AtHome, KeepsTunnel
  <2>3. MemberInv'
    BY DEF MemberInv, FromPlace
  <2> QED
    BY <2>1, <2>2, <2>3
<1>5. CASE TakeMembers
  <2> USE <1>5 DEF TakeMembers, HomeInv, IndexOf, Current
  <2>1. LayoutInv'
    BY <1>0 DEF LayoutInv
  <2>2. CloneInv'
    BY DEF CloneInv, AtHome, KeepsTunnel
  <2>3. MemberInv'
    <3> SUFFICES ASSUME NEW c \in Connections, pool_of'[c] # NoPool, ~raced[c]
                 PROVE  \/ FromPlace(commit_at, pool_of[c])'
                        \/ (~interrupted /\ KeepsTunnel(c, pool_of[c])')
      BY DEF MemberInv
    <3>1. pool_of'[c] = pool_of[c] /\ pool_of[c] # tunnel_pools[commit_at]
      BY DEF Members
    <3>2. CASE FromPlace(commit_at, pool_of[c])
      <4>1. PICK j \in DOMAIN tunnel_pools : j >= commit_at /\ pool_of[c] = tunnel_pools[j]
        BY <3>2 DEF FromPlace
      <4>2. j \in Nat /\ j >= commit_at + 1
        BY <1>0, <3>1, <4>1, Entries
      <4> QED
        BY <3>1, <4>1, <4>2 DEF FromPlace
    <3>3. CASE ~interrupted /\ KeepsTunnel(c, pool_of[c])
      BY <3>1, <3>3 DEF KeepsTunnel
    <3> QED
      BY <3>1, <3>2, <3>3 DEF MemberInv
  <2> QED
    BY <2>1, <2>2, <2>3
<1>6. CASE PushAdopted
  <2> USE <1>6 DEF PushAdopted, HomeInv, IndexOf, Current
  <2>1. /\ adopting \in Connections /\ commit_pc = "adopting"
        /\ register_pc[adopting] = "registered"
        /\ AtHome(adopting, tunnel_pools[IndexOf(adopting)])
    BY DEF Parts, TypeOK, PoolInv, HolderInv, Held, AtHome
  <2>2. LayoutInv'
    BY DEF LayoutInv
  <2>3. CloneInv'
    BY <1>0, <2>1 DEF CloneInv, AtHome, KeepsTunnel
  <2>4. MemberInv'
    BY <1>0, <2>1 DEF MemberInv, AtHome
  <2> QED
    BY <2>2, <2>3, <2>4
<1>7. CASE UnlockPools
  <2> USE <1>7 DEF UnlockPools, HomeInv, IndexOf, Current
  <2>1. LayoutInv'
    BY DEF LayoutInv
  <2>2. CloneInv'
    BY DEF CloneInv, AtHome
  <2>3. MemberInv'
    BY DEF MemberInv, AtHome
  <2> QED
    BY <2>1, <2>2, <2>3
<1>8. CASE AbandonCommit
  <2> USE <1>8 DEF AbandonCommit, HomeInv, IndexOf, Current
  <2>1. LayoutInv'
    BY DEF LayoutInv
  <2>2. CloneInv'
    BY DEF CloneInv
  <2>3. commit_pc \in {"closing", "taking", "adopting"}
    BY DEF Parts, PoolInv
  <2>4. \A c \in Connections : pool_of[c] # NoPool /\ ~raced[c] => FromPlace(1, pool_of[c])
    BY <1>0, <2>3, Entries DEF MemberInv, AtHome, KeepsTunnel, FromPlace
  <2>5. MemberInv'
    BY <2>4 DEF MemberInv, FromPlace
  <2> QED
    BY <2>1, <2>2, <2>5
<1> QED
  BY <1>1, <1>2, <1>3, <1>4, <1>5, <1>6, <1>7, <1>8, SwapHome, RebuildHome DEF CommitProgress

\* Every step keeps the members where the layout has their home.
LEMMA HomeStep == Parts /\ Parts' /\ HomeInv /\ [Next]_vars => HomeInv'
<1> SUFFICES ASSUME Parts, Parts', HomeInv, [Next]_vars PROVE HomeInv'
  OBVIOUS
<1>1. CASE UNCHANGED vars
  BY <1>1, HomeKept DEF vars, registerVars, memberVars, layoutVars, commitVars, historyVars
<1> QED
  BY <1>1, ConnectionStepHome, CommitStepHome DEF Next

\* There is no member to begin with.
LEMMA HomeInit == Init => HomeInv
<1> SUFFICES ASSUME Init PROVE HomeInv
  OBVIOUS
<1>1. Len(tunnel_pools) = Len(Current.tunnel_ids)
  BY DEF Init, AuthorizationInit, Current, EmptyManaged, SnapshotOf
<1> QED
  BY <1>1 DEF Init, HomeInv, LayoutInv, CloneInv, MemberInv

(***************************************************************************)
(* Both invariants hold in every reachable state.                          *)
(***************************************************************************)
LEMMA PoolsInvariant == Spec => [](Parts /\ HomeInv)
<1>1. Init => Parts /\ HomeInv
  BY PartsInit, HomeInit
<1>2. (Parts /\ HomeInv) /\ [Next]_vars => (Parts /\ HomeInv)'
  BY PartsStep, HomeStep
<1> QED
  BY <1>1, <1>2, PTL DEF Spec

(***************************************************************************)
(* After a commit_authorization that ran to its end, the layout has one    *)
(* pool for each Tunnel ID of the live snapshot and none is shared,        *)
(* however Control reorders, adds and removes Tunnels.                     *)
(***************************************************************************)
THEOREM LayoutSafe == Spec => []LayoutMatchesSnapshot
<1>1. Parts /\ HomeInv => LayoutMatchesSnapshot
  BY DEF Parts, PoolInv, HomeInv, LayoutInv, LayoutMatchesSnapshot, LayoutMatches,
         PoolsWriteLocked
<1> QED
  BY <1>1, PoolsInvariant, PTL

(***************************************************************************)
(* Between commits that ran to their end every member that was not raced   *)
(* is in the pool its Client identity is authorized for: pools follow      *)
(* Tunnel IDs, members follow identities, a registration that cloned its   *)
(* pool before the swap pushes into the pool its Tunnel keeps, and a       *)
(* completed commit repairs what an abandoned one left.                    *)
(***************************************************************************)
THEOREM MembersSafe == Spec => []MembersAtHome
<1>1. Parts /\ HomeInv => MembersAtHome
  BY DEF HomeInv, MemberInv, MembersAtHome, AtHome, PoolsWriteLocked
<1> QED
  BY <1>1, PoolsInvariant, PTL
=============================================================================
