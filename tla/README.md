# Runewarp in TLA+

Runewarp publishes services behind NAT: a public **Server** accepts Visitor TLS
connections, reads the host name of the ClientHello, and carries each Visitor over a
QUIC **Tunnel connection** that a **Client** dialed out to it. In Managed mode both roles
follow a **Control** service: it publishes snapshots of the desired state (the Server's
authorization, the Client's Server addresses), and each role applies them and reports back.

The modules in this directory model that system where tasks interleave, fail or stop halfway:
Visitor intake and placement against authorization replacement, Tunnel pools against commits,
the two ends of a Tunnel connection and the bytes through it, the Managed session, the
Client's address workers, the Server certificate on disk, and both processes from their
configuration to their exit. TLC checks them on small instances. All safety that the passing
runs check, the refinement of the certificate store included, is also proved with TLAPS for
every instance, with one exception (section 4.10).

Source paths below are relative to the repository (`src/server/...`); `PROJECT.json` maps
every definition to the lines it models.

## 1. Inventory

The program runs on the multi-threaded tokio runtime: every `spawn` is an actor, every
`.await`, lock or `Drop` a point where another task can be seen or can see.

| Component | State | Operations | Hard behaviour |
| --- | --- | --- | --- |
| Authorization snapshot (`server/authorization.rs`) | hostname and identity maps, Tunnel IDs, behind an `Arc` that is swapped | validate, commit, look up | a reader keeps the old `Arc` |
| Visitor work gate (`server/tunnel_registry.rs`) | records, reservations, seal, under one mutex; a `Notify` | reserve, register, drop, reset, seal, wait | swap against register; lost wake-up; drop paths |
| Visitor intake (`server/visitor_stream.rs`, `server/admission.rs`) | one task per Visitor; permits, globally and per source | PROXY header, ClientHello, route, open, register, proxy | cancellation at each await; a source that changes while it is counted |
| Tunnel pools (`server/active_client.rs`) | members with watcher and slot, per Tunnel | register, select, take, adopt, close | locks given back between lookup and push |
| Tunnel admission (`server/admission.rs`) | counters, global and per identity | acquire, release | limits under churn |
| Managed Server adapter, drain (`server/managed_adapter.rs`, `server/drain.rs`) | drain flag | apply, report | order of seal, flag and fields |
| Server run loop (`server/mod.rs`, `server/readiness.rs`) | sockets, task sets, readiness gate and probe | bind, accept, back off, shut down | order of the last steps; graceful, deadline, fast |
| Runtimes (`server_runtime.rs`, `client_runtime.rs`, `startup.rs`, `commands/`) | role, session and ACME side by side; signals | coordinate, escalate, exit | who ends first, and with which status |
| Managed session (`managed_session/`) | connection, snapshot queue, report state, applied revision | connect, accept, apply, report | a connection that fails during an apply; rollbacks; request spacing |
| Address controller (`client/address_controller.rs`) | slots, generations, intents | replace intent, add, remove, re-adopt, complete, drain | workers that exit while they are re-adopted |
| Address worker (`client/address_worker.rs`) | dial loop, candidates | dial, run, back off | changes missed between a check and a subscription |
| Assignment convergence (`client/assignment_convergence.rs`) | assigned, connected, carrying credit | mark, notify | counted across worker generations |
| Orderly shutdown (`shutdown.rs`) | none, graceful, fast; deadline | begin, escalate, wait | escalation |
| Server and Client Tunnel (`tunnel/server.rs`, `tunnel/client.rs`) | GOAWAY, withdrawal, counts, session | open, withdraw, drain, follow events | commit of an open against a withdrawal |
| Visitor credits (`tunnel/credit.rs`) | idle and held permits, shared budget | offer, assign, release | irrevocable credit |
| Tunnel events (`tunnel/events.rs`) | snapshot, subscriptions | publish, subscribe, supersede | pauses and hints |
| Tunnel streams (`tunnel/stream.rs`, `proxy.rs`, `client/tunnel_stream.rs`) | write in flight, halves of a stream | copy, finish, reset, stop | a half dropped before its FIN |
| Server certificate, ACME (`server_certificate/`) | ownership lock, files, challenge, route | publish, read, renew, recover, hand over | crash and power loss between two writes; two processes; lost wake-ups |
| Configuration (`config/`, `startup.rs`) | file, command line, defaults | prepare, validate, start | two validators; parts dropped without a message |
| Credentials (`identity.rs`, `server_cert.rs`, `client_public_cert.rs`) | keys and certificates in files | init, renew, rotate | a command killed between two files |
| Descriptor capacity (`fd_capacity.rs`) | soft and hard limit, configured and effective capacities | raise, reserve, divide | rounding, limits below the reserve |

Interactions: the Managed session calls `RoleAdapter::apply` and owns its future; the
Server's adapter calls the registry, which swaps the snapshot, realigns the pools and
resets Visitors; the Client's adapter sends to the Address controller's channel and waits
for its answer; workers and the registry signal changed facts back to the session; the run
loops stop everything through `OrderlyShutdown`.

What makes each of them correct:

- placement: a Visitor runs only under an authorization that is live, or has been told to
  abort; the counters balance on every path; a reported quiescence is final;
- pools: slots are exactly those of live connections, and members are in the pool of their
  Tunnel ID;
- session: the reported revision is the one in force, the last snapshot wins, no fact
  change is lost;
- controller: one worker for each assigned address, none for the others, and a shutdown
  that ends;
- Tunnel, credits, events: no Visitor after a confirmed withdrawal, conservation of the
  budget, a candidate only on the hint that asked for it;
- streams: what arrives is a prefix of what was sent, and ends only where it ended;
- certificate: the store is a register that survives any stop, with one owner;
- processes: a ready Server accepts, a graceful end cuts nothing, the exit status is true;
- descriptors: full capacity fits the limit and wastes none of it;
- configuration and credentials: what is accepted is served whole, and a command that
  succeeds leaves material that works.

`PROJECT.json` lists the hazards, each at its line, with the properties that cover it. A hazard that
the code does not avoid is covered by none: it is under "Observations" in section 3.

## 2. Modules

| Module | What it models |
| --- | --- |
| `Authorization` | the snapshot as a record of maps, its validation, the swap. A `version` number stands for the identity of the `Arc` (`Arc::ptr_eq`) |
| `VisitorWork` | Visitor tasks, gate, permits, `apply` with drain, state document, end of the run loop |
| `VisitorWorkProofs` | its theorems |
| `TunnelPools` | handshake tasks, pools, close watchers, slots, `commit_authorization` step by step |
| `TunnelPoolsProofs` | its theorems |
| `TunnelConnection` | one Tunnel connection, Server and Client: Visitor opens, placement withdrawal, GOAWAY and DRAIN, Visitor credits |
| `TunnelConnectionProofs` | its theorems, and that of `TunnelStream` |
| `ManagedSession` | Control, the wire, `ConnectionLifecycle`, `SnapshotQueue`, `ReportState`, `AppliedRevision`, both roles |
| `ManagedSessionProofs` | its theorems |
| `AddressController` | controller, outer loop of the workers, intent channels, convergence sets, shutdown |
| `AddressControllerProofs` | its theorems |
| `AddressWorker` | one worker from inside: attempts, primary, candidate and joined connection, event follower, hints, carrying credit |
| `AddressWorkerProofs` | its theorems |
| `VisitorIntake` | a Visitor from the listener to the proxy, with every permit it takes |
| `Signals` | process signals and the mode of an `OrderlyShutdown` |
| `ServerRun` | extends the two: sockets, readiness, accept loop, shutdown, certificate manager, Managed session |
| `ClientRun` | extends `Signals`: the Client process around its controller |
| `Process` | composes `ServerRun` and `ClientRun`: a process is one or the other |
| `ProcessProofs` | its theorems, and those of `Provisioning` |
| `TunnelStream` | the bytes of one Visitor in both directions, from socket to backend |
| `CertificateRegister` | what the certificate store promises: a register that survives any stop |
| `CertificateStore` | the files, the jobs on them, crash and power loss |
| `ServerCertificate` | extends it: the controllers of the processes that share a directory |
| `ServerCertificateProofs` | its theorems |
| `Configuration` | preparation, validation and startup checks of Server and Client |
| `Credentials` | the commands that write identities and certificates |
| `FdCapacity` | the descriptor limit and what a process lets its Visitors hold under it |
| `Provisioning` | composes `Configuration`, `Credentials` and `FdCapacity`: what happens before a process serves |
| `MC...` | constants for TLC; the `.cfg` files give the bounds |

`VisitorWork` and `TunnelPools` both extend `Authorization` and model the two halves of
`commit_authorization`. `VisitorWork` leaves the selection of a connection open (any one may
be selected, also one that is no longer authorized), so what it shows does not depend on
the pools. `TunnelPools` has no Visitors. `TunnelConnection` stands beside them: it is one of
the connections a Visitor may have been given, seen from inside; `TunnelStream` is one stream
of it. `VisitorIntake` has what precedes `VisitorWork` in full and what follows in outline
(placed or not, sealed or not), so that the permits of a Visitor's whole life, and the run loop
around it, are in one state space. `AddressController` has many workers with one stage for a
Connected stretch, `AddressWorker` has one worker with that stretch opened up.

Operators named `...OneTooMany`, `...Leaks` and the like, under a comment "Mutant:", are
faulty variants of the definition that follows them. They are not part of a specification;
each is there to show that some property fails when the code has that fault.

### 2.1 VisitorWork

One step is one critical section of the gate's mutex, one acquisition of the pools' lock, or
one await. A Visitor goes through `arrived`, `admitted` (it holds a reservation), `looked_up`
(it holds a pool and the snapshot's `Arc`), `routed`, `opening` (pending-open permit),
`assigned` (active-stream permit), `running` (it has a record), `dropping` (the permit is
back, the record not yet removed), `done`. `CommitSnapshot` is the swap under both locks;
`PoolsRealigned` ends the write lock, `ResetStreams` scans the records. `AbandonApply` is the
drop of the apply future by a Managed session that lost its connection: only the lock waits
of the realignment are points where that can happen after the swap.

### 2.2 TunnelPools

A pool is a number; `tunnel_pools` is the live layout and `register_pool` what a handshake
task has cloned. `RegisterLookup` and `TryRegister` are two steps because the code gives the
pools' lock back in between. `AdoptMember` starts the new watcher and `PushAdopted` pushes
the member, again two steps. `raced`, `orphaned` and `interrupted` are history variables that
name the situations of the findings, so that the other properties can say what holds outside
of them.

### 2.3 ManagedSession

A snapshot is its revision; `Invalid`, `OverLimit` and `Refused` say what becomes of its input.
Deadlines, transport errors and unacknowledged documents fail the connection at any time.
`DriveReport` is a function of the values a step leaves, as `drive_report` is called at the
end of several handlers. `role` is chosen in the initial state: the Server's apply future
takes its effect with it when it is dropped before the commit, the Client's input is in a
channel and takes effect anyway.

### 2.4 AddressController

A worker is its generation number. `unseen` and `woken` say whether the two receivers of its
maintenance channel hold a value not looked at: `subscribe_maintenance` marks the current
value as seen. `exiting` lies between the decision to return and the drop of the receivers:
there `is_live` still holds. A Connected stretch is one stage, with or without a second
connection.

### 2.5 TunnelConnection

A Visitor's open is `checked` (it has read `accepts_visitors`), `opening` (it holds
`VisitorWork` and waits for the session and for stream credit), `opened`, `passed` (it has
read GOAWAY), `placed` (committed under the read lock of `withdrawn`) and `gone`; the code
gives the lock back between all of these. At the Client the same stream is `arriving`,
`handling`, `finished` (the transport has freed it, its handler has not), `dropping` or
`leaving` (the limit is down, the permit not yet back), `resetting`, `over`, or `rejected`.

`request[r]` is one attempt of the withdrawal request on the Server (`accepted`, `registered`
as a waiter, `committed`, `answering`, then `answered` or `failed`), `withdrawal` is the
Client's future. `closing` is the place of `close_after_quiescence`, `shutdown` that of
`serve_connection`. `granted` is the stream credit that quinn has given the Server: a limit
that goes down takes none of it back (external). The CONNECT request leaves
`requests_in_flight` before its session is published (`AcceptSession`, `PublishSession`), so
that a shutdown can see no request and no session. An event stream that breaks and is
subscribed again changes the accounts by nothing; only its end is an action.

`available` is the budget of the Client instance, `others` what its other connections hold (at
most `MaxOthers` at once).
`retained` is a history variable: some handler has outlived its stream.

### 2.6 AddressWorker

`primary` and `joined` are connections with the state of their event follower: the hint, the
count of interruptions, whether it is paused, and whether the worker's `watch` holds a change
it has not looked at (`fresh`). `candidate` is idle, waiting out its delay or warming, `attempt`
the one attempt under way, for the first dial or for a candidate. The worker's `select!` is
biased, but a branch can become ready after it was polled: the model lets a candidate complete
with any other event pending, and `StillHints` is what protects it. Servers advertise any
generation, change it and take it back; a connection leads to whichever runtime the address
reaches. `carrying` counts, for each generation, the worker's marks in the convergence set.
`violated` is a history variable: some connection ended with a protocol failure.

### 2.7 VisitorIntake, Signals, ServerRun, ClientRun, Process

A Visitor is in the `backlog`, in `header`, `hello`, `routing`, `challenge`, `opening` or `active`.
The per-source entry is charged at the end of `header`, for the address that the PROXY header
claims when the peer is trusted. `ServerRun` has one stage per step of `Server::bind` and
`Server::serve`: `bind`, `loop`, `leaving` (seal), `unready` (probe), `unlisten`, `draining`,
`closing`, `returned`. The mode of the Server's own `OrderlyShutdown` (`local`) follows the
process's and the Managed drain (`Follow`) as a task of its own. The certificate manager
and the Managed session end beside it; `ExitResult` is what remains of all of them.

### 2.8 TunnelStream

Each direction has a near end (copy from TCP, `TunnelWriteHalf`), the stream inside QUIC, and a
far end (`TunnelReadHalf`, copy to TCP). `near.held` is a chunk read and not yet accepted,
`near.chunk` the write in flight. A dropped half resets or stops its stream, and any suffix of
the bytes in flight may be lost with it. `cut` stands for revocation, cancellation and a lost
connection. The request begins with the frame that carries the addresses and the
ClientHello; what the backend gets first depends on the service (`Preamble`).

### 2.9 CertificateStore, ServerCertificate, CertificateRegister

`seen` is what processes read, `disk` what a power loss leaves for certain; a power loss keeps
`disk` and any part of what was not yet synced. A storage job is the sequence of its remaining
steps, each of which may fail; it runs in a blocking thread, so that it goes on when its caller
is dropped (`awaited`). A generation stands for its own file name (the code uses its digest).
A certificate is the number of its issue and ages with `clock`. A manifest has at most two
generations, and `Retain` is the `retain` of `Store::open` on it.

In `ServerCertificate` a process has one task (`stage`), its watchdog, which looks at the status
and acts on it in two steps (`tick`), and threads of the embedder, which set a flag first and
notify later (`asking`, `losing`). `permit` is the stored permit of `Notify`. A reader that starts
beside an owner takes no lock (`ReadManifest`, `ReadExport`).

`CertificateStore` implements `CertificateRegister`: `Register` maps the register's `value` to
what `Store::load` would return, its `acked`, `doubt` and `past` to the history variables of the
same names. `StoreIsRegister` is the abstract specification as a property.

### 2.10 Configuration, Credentials, FdCapacity, Provisioning

`Configuration` follows one input through `prepare_*`, `validate_prepared_*` and startup. A text
that a parser refuses is `"bad"`, hostnames have a spelling that parsing takes away. Faults are
collected as in the code, beside the settings that are built from the parts that were
understood, and the accepted settings are those of an input without a fault. `AuthorizationBuilds` and
`ServicesValid` are the second validators, which startup runs on the settings, and
`TerminationLoads` is the loading of the certificates that a Client terminates with: validation has
looked only at the directory, startup needs the leaf and key of every hostname in it. The types of an
input (`ServerSection`, `ClientSection`, ...) are those of the raw structs that serde fills;
`Strings` is the set of the texts in them.

`Credentials` has the three kinds of directory. A file holds the number of its key pair and of its
issuer's; a new file is created empty and then filled, a replaced one changes by a rename. A
command looks at the directory first and then writes its files in the code's order; it may be
killed between two, and inits may run beside each other. An init of a public certificate looks for
the CA a second time once it has made its directory (`PublicPlan`). An init that finds all its files
answers that they exist and writes nothing (`Vouches`); `torn` is a history variable: a command was
killed, or failed between two replacements, and nothing was rotated since.

In `FdCapacity`, `RaiseNofile` is `raise_nofile`: the soft limit ends anywhere up to the hard one (a kernel may
allow less), stays where it was, or cannot be read. `Apply` is `apply_client` or `apply_server`
with the reserve of the caller; without a known limit nothing is cut. `ServerCapacity` gives each
of the three owners its share, rounded down, and `GiveLeftovers` hands out the rest.

## 3. Runs

| Run | Specification | Shows |
| --- | --- | --- |
| `visitor_work` | `FairSpec` | `PlacedWorkAuthorized`, `ReportedQuiescenceIsFinal`, `GateAccounting`; `AuthorizationDecides`, `QuiescenceNoticed` |
| `tunnel_pools` | `Spec` | `AdmissionAccounting`, `MembersAtHome`, `LayoutMatchesSnapshot` |
| `tunnel_connection` | `Spec` | `PermitAccounting`, `ConfirmedIsQuiescent`, `OrderlyCloseCutsNothing`, `PlacedFindsPermit` |
| `tunnel_connection_live` | `FairSpec` | `WithdrawnCloses`, `ShutdownDrains`, `PermitsReturned` |
| `streams` | `StreamSpec`, with fairness | `StreamFaithful`, `ResponseDelivered` |
| `managed_session` | `FairSpec` | `SessionTruthful`, `LatestSnapshotTakesEffect`, `FactsReported` |
| `address_controller` | `FairSpec` | `WorkersAccounted`, `IntentFollowsAssignment`, `GracefulNotCutShort`, `ShutdownCompletes`, `RemovedStopsDialing` |
| `address_worker` | `Spec` | `WorkerInvariant`, `CandidateFollowsHint`, `JoinOnCurrentHint` |
| `process` | `Spec`, with fairness | `IntakeAccounting`, `ReadyServerAccepts`, `ExitAccounts`, `GracefulCutsNothing`, `ShutdownExits` |
| `server_certificate` | `Spec` | `StoreRecovers`, `OwnershipSound`, `NoWakeupLost`, `CertificateKept`; `StoreIsRegister` (refinement) |
| `provisioning` | `ProvisionSpec` | `StartupSound` (`AcceptedServes` and `CapacityFitsLimit`), `SuccessIsUsable` (`WrittenUsable` and `VouchedUsable`) |
| `revocation_race` | `Spec` | a violation, below |

What some of the names stand for:

- `PermitsReturned`: once a connection has ended, its idle and acquired permits are back in the
  budget, whatever its handlers do. A handler is a detached task around two copies; one whose
  backend stays silent keeps its permit for as long as it runs, and the property counts it.
- `ReadyServerAccepts`: a Server whose probe answers has applied an Authorization (`ready`) and
  holds the sockets of Visitors and Tunnels.
- `ExitAccounts`: the exit status is that of what went wrong, and a Server that failed after its
  commit leaves the accept loop with that error unless it was told to stop.
- `StartupSound`: what validation accepted is served whole; startup refuses it for a missing leaf
  only, and building the settings panics for an empty ACME email only.
- `SuccessIsUsable`: a command that has written and reports success leaves material that works; one
  that answers "already exists" is right about it, unless something was torn before.

The type invariants are parts of properties with other content (`SessionTruthful`,
`AdmissionAccounting`, `WorkersAccounted`, `WorkerInvariant`, `OwnershipSound`, `StreamFaithful`), or proved (section 4).

`revocation_race` ends in a violation of `RevokedConnectionsClosed`, which
`docs/managed.md` states: a registration pushes after the commit's scan, and the revoked
identity stays connected.

### Observations

Places where the code does less than a reader of its documents or comments expects. The
first four are stated as definitions without a run; adding the definition to the cfg of its
module (with `FairSpec` for `SlotReleasedAfterClose`) shows the behaviour. The others are the
reason for an exception in a property.

- `AssignedHasWorker` (`client/address_controller.rs:427`): a worker on its way out is
  re-adopted, because it still counts as live; the address then has no worker.
- `SlotReleasedAfterClose` (`server/active_client.rs:311`): the watcher of an adopted member
  runs before the member is pushed; a dead member keeps its slot.
- `LatestSnapshotTakesEffect` without `RolledBack` (`managed_session/lifecycle.rs:351`): a
  rollback in the same chunk does not supersede the pending snapshot, which then stays.
- `ServesUntilAsked` (`server/mod.rs:487`, "Serve until `shutdown` completes, or until a
  Managed drain completes"): a Tunnel endpoint that stops accepting ends the run loop and
  `serve` returns `Ok`, without either.
- With `[server.acme]` and an empty `email`, validation builds no settings and reports no message,
  and the `expect` at `config/mod.rs:619` ("validated server certificate settings") panics.
  `StartupSound` names this case and excludes every other panic.
- Validation only asks that `client.public-cert-dir` is a directory (`config/mod.rs:833`); a leaf or
  key that is missing in it is found by `load_manual_termination_tls_configs` at startup, so a
  configuration that was accepted is refused late. `StartupSound` names this case and excludes
  every other late refusal.
- An apply that is dropped after its swap and before `reset_streams_matching` leaves Visitors
  that the new snapshot does not authorize running until the next completed apply
  (`PlacedWorkAuthorized` excepts `interrupted`).
- An apply that is dropped after it took effect is not remembered in `AppliedRevision`, so a
  rollback to the remembered revision is skipped as equal while the other input is in force
  (`SessionTruthful` excepts `abandoned`).
- An apply that is dropped while it waits for a pool's lock gives back the pools' lock with
  the old layout under the new snapshot, where the comment at `server/tunnel_registry.rs:339`
  says that readers never see the two apart (`LayoutMatchesSnapshot` and `MembersAtHome`
  except `interrupted`).
- A handler that outlives its stream keeps its permit while QUIC allows another stream in
  its place; that stream may find no permit and is reset after the Server has placed it
  (`PlacedFindsPermit` excepts `retained`).
- A removal between a worker's last look at its intent and `wait_for_retry_delay`'s
  subscription wakes nothing: the worker waits out the delay, up to 60 s, before it stops
  (`RemovedStopsDialing` says "in the end", where `docs/managed.md` says "immediately").
- `init` does not look at what matches: `server cert init` reads its files and parses the CA's key,
  `client public-cert init` asks only whether its files exist. After a `renew` or `rotate-ca` that was
  killed between the certificate and its key (`server_cert.rs:150`), or a `public-cert init` killed
  with the leaf's key still empty, both answer "already exists" and exit 0
  (`commands/server/cert.rs:17`, `commands/client/public_cert.rs:211`) over files that do not load.
  `VouchedUsable` excepts this case (`torn`). When a file is missing instead, `init` and the loader
  refuse until an operator removes the others.
- `server_capacity` is not monotone: with three equal capacities of 3, five descriptors leave
  3 for active streams and six leave 2, because the rest goes to active streams first
  (`fd_capacity.rs:17`). With the built-in limits the difference is at most two, so
  `CapacityFitsLimit` asks for a fair share and not for a growing one.

### Bounds

- `VisitorWork`: two Visitors, two connections of two identities, four inputs (two Tunnels,
  the same with their hostnames exchanged, a revocation that drains, one with a duplicate
  identity) and up to two applies; one permit of each kind, so that limits are hit.
  Two Visitors are enough for one to be at each place where the other acts, two applies for
  a revocation of a route taken under the first. The repair of an interrupted apply by a
  third is left to the theorem `PlacementSafe`, which has no bound.
- `TunnelPools`: three connections, two of one identity, with one slot per identity and two
  in all, so that each limit is reached; three commits out of inputs that create, move,
  merge (two members in one pool) and remove Tunnels; one abandoned commit.
- `TunnelConnection`: two Visitors, a budget of one permit, and the withdrawal with its one
  retry. One Visitor can be placed while the other is between any two steps of its open, and
  they, an idle list and another connection compete for the permit. The theorems have no
  bound on the budget. The liveness run has one Visitor, whose waits are for one, or for all, and
  two permits, so that one can be idle or acquired while a handler keeps the other.
- `TunnelStream`: two bytes each way, so that one can be in flight behind another, and every
  combination of terminated TLS and PROXY header.
- `ManagedSession`: three publications and two failed connections: enough for an apply that
  is abandoned, a reconnection, and a rollback after it. A chunk holds up to two snapshots,
  the least at which one can supersede the other before the task looks.
- `AddressController`: two addresses, three applies of one address each, two workers: one for
  each address, or two generations of one, the second in the slot while the completion of the
  first is still to come. When the bound on workers is reached the controller stays in
  `adding` (`OutOfWorkers`), which `ShutdownCompletes` excepts; it is a bound of the model.
- `AddressWorker`: three generations, so that a hint can change its target; three changes of
  hints and intent and two interruptions per connection, so that a hint can be given, taken
  and given again around an interruption. The generations are symmetric.
- `Process`: two Visitors, two sources of which one is a trusted proxy, one permit per source
  and per stage behind the intake; four configurations that cover Managed and Static, ACME,
  PROXY protocol, the probe, and a graceful window that is zero, passes, or never does; two
  events besides Visitors and signals.
- `ServerCertificate`: two processes, one of which asks for ownership at once and the other
  when told; two certificates, two ticks of time, and one disturbance (a second process
  beside the first, a crash, a power loss, a rotten file, a lost route, a handoff) at any
  point. A publication already has every place to stop in with one.
- `Provisioning`: inputs that are right but for one or two parts that vary together, over
  three disks; two commands at once and four in all, for two hostnames.
- `FdCapacity`: capacities up to 5 and limits up to 18, with a reserve of 2: below the reserve,
  at every remainder of the division, and beyond what all three owners ask for.

`CHECK_DEADLOCK FALSE` is set where a finished instance stops for good: nothing more to
publish and every connection closed, or the session, controller, worker, process, command
or startup ended. `visitor_work` checks deadlock: the state reporter never stops.

### Fairness

Every fairness condition is weak and is on steps of the program's own tasks: tokio polls a
task again once what it waits for is ready, mutexes and `RwLock`s are fair (tokio's) or held
only briefly (std's), timers elapse. Nothing is assumed of Visitors, of Control's
publications, of dials that succeed, of credit, or of connections that end, with exceptions
that the code itself bounds by deadlines: a state request is answered (otherwise its deadline
fails the connection, a step of its own), the run of a connection ends once a shutdown has
started, an open that waits is cancelled, and a candidate joins or is dropped. A handler is not assumed
to end, also not after its connection has; one that has begun to drop its halves drops its permit.
`ShutdownDrains`
does not use the deadline of the shutdown: it shows that the connection closes before it.

In `AddressController` there is one condition per worker, over all its steps: a worker is one
task, and nothing decides between its branches. In `Process` the Server's program is one
condition too; a graceful window that is finite passes, one that is `long` is not assumed to,
and `ShutdownExits` says nothing of it. A Client's controller ends once it was told to stop,
which is what `ShutdownCompletes` shows of it. In `TunnelStream` the near and far end of each
direction are polled independently, as `join!` does; peers and cuts are free. Each condition
is stated above the module's `FairSpec`, `Spec` or `StreamSpec`.

## 4. Theorems

### 4.1 Visitor placement

`VisitorWorkProofs` proves, for every set of Visitors, connections, identities, hostnames,
inputs and every limit:

| Theorem | Statement |
| --- | --- |
| `TypeCorrect` | `Spec => []TypeOK` |
| `AccountingCorrect` | `Spec => []GateAccounting` |
| `PlacementSafe` | `Spec => []PlacedWorkAuthorized` |
| `PlacementUsesLiveSnapshot` | `Spec => NewWorkUsesLiveSnapshot` |
| `AuthorizedWorkKept` | `Spec => AuthorizedWorkSurvives` |
| `ReportedQuiescenceSafe` | `Spec => []ReportedQuiescenceIsFinal` |

Assumptions (named, in `Authorization` and `VisitorWork`, evaluated by TLC on every run):
the set of Visitors is finite, `NoConnection` is no connection, every connection has an
identity, inputs are well-typed, limits are natural numbers.

`TypeOK` is not inductive: that a permit counter stays within its limit, and that a
reservation counter stays above zero when it is decremented, follow only from the number of
tasks in the stages that hold one. The inductive invariant `GateInv` is `TypeOK` together
with `GateAccounting`, which ties every counter to those tasks. `StageMove` says how the cardinality of the tasks in a set of
stages changes when one task moves; `VisitorStepGateInv` takes the actions of a Visitor one
by one and `OtherStepGateInv` the rest, which do not move a task.

`PlacementSafe` adds the property itself: a step that adds a record does so under a
snapshot that authorizes it (`VisitorStepRecords`), only `CommitSnapshot` changes the
snapshot and it opens the window that `apply_pc` describes, and `ResetStreams` closes it
with every record authorized or aborted. An interrupted apply is named by `interrupted`,
which only a completed reset clears. `ReportedQuiescenceSafe` needs that `draining` and a
document that has read it imply `sealed`, and that a sealed gate takes no record.

### 4.2 The Tunnel connection

`TunnelConnectionProofs` proves, for every finite set of Visitors and every positive budget
and idle limit (the named assumptions of `TunnelConnection`):

| Theorem | Statement |
| --- | --- |
| `TypeCorrect` | `Spec => []TypeOK` |
| `PermitsConserved` | `Spec => []PermitAccounting` |
| `WithdrawalSafe` | `Spec => []ConfirmedIsQuiescent` |
| `OrderlyCloseSafe` | `Spec => OrderlyCloseCutsNothing` |
| `PlacedIsBacked` | `Spec => PlacedFindsPermit` |

The inductive invariant `ConnectionInv` has six parts. `CreditInv` is `PermitAccounting` with
what it needs of the session task: `available`, `held` and `idle` stay in range only because
they are sums over handlers. `AccountInv` ties `visitor_work` and `requests_in_flight` to the
placements and requests that hold them; the Server reads those counters, never the set of
its Visitors. `AttemptInv` relates the Client's attempt to the request it waits for.
`CommitInv` carries the argument of the withdrawal: a request past its commit implies
`withdrawn`, after which nothing becomes `placed`, and one past its wait implies that nothing
is placed. `DrainInv` says the same of GOAWAY and the requests: a DRAIN was sent when no
request was in flight, so nothing is placed any more. `CountMove` and `CountFacts` say how a
cardinality changes when one Visitor moves; there is one lemma per group of actions.

`PlacedIsBacked` needs a relation between the two ends, `BackedInv`: the credit that the Server
has not used and the streams on their way are together at most the idle permits, as long as no
handler has outlived its stream and the idle permits have not been given up. The limit counts
idle permits and handlers, so what quinn allocates up to it (`LimitBacked`) is what idle
permits leave; they are given up only after DRAIN, a confirmed withdrawal or the close, when
nothing is placed.

The module also proves, of `TunnelStream`, for every number of bytes (`BytesAssumption`, which
also says that the two parts of the frame are no bytes of a peer):

| Theorem | Statement |
| --- | --- |
| `StreamIsFaithful` | `StreamSpec => []StreamFaithful` |

`StreamFaithful` speaks of what was delivered and of the end of a stream. `StreamInv` says for each
direction where the bytes in between are: what was delivered, what is inside the stream, the write
in flight, the chunk held and what TCP has still to give are consecutive positions of what was sent
(`Flows`, `Delivered`), and what an end of a stream at each stage says of the stage before it
(`Stages`). The handler has given the backend nothing before it proxies, and its preamble first
(`Handled`). There is one lemma for each step that moves bytes from one place to the next.

### 4.3 Tunnel pools

`TunnelPoolsProofs` proves, for every finite set of connections, every identities, Tunnel IDs,
inputs and limits (`ConnectionsAssumption`, `IdentityOfAssumption`, `TunnelInputsAssumption`,
`LimitsAssumption`):

| Theorem | Statement |
| --- | --- |
| `AdmissionSafe` | `Spec => []AdmissionAccounting` |
| `LayoutSafe` | `Spec => []LayoutMatchesSnapshot` |
| `MembersSafe` | `Spec => []MembersAtHome` |

A permit has no owner in the model: `HolderInv` says that a connection holds one exactly if it is
in a pool, was taken out of one by a commit, is being adopted or is being released, and is only
one of these at a time. From it the counters change by one where one connection moves, and by
the number of the dropped ones where a commit is abandoned (`Abandoned`). `PoolInv` says that a
layout has no pool twice and that a snapshot that was accepted leads each identity to one place
(`SnapshotFacts`, from `ManagedTunnelsValid`).

For `MembersSafe` a commit in progress must be described: `MemberInv` says where an unraced
member is at each stage (in a pool that the commit has still to empty, in the one that its Tunnel
keeps, or at home), `CloneInv` the same of the pool that a registration has cloned. The step that
rebuilds the layout (`RebuildHome`) shows that a Tunnel that stays keeps its pool at its new place.

### 4.4 Managed session

`ManagedSessionProofs` proves `SessionSafe`, `Spec => []SessionTruthful`, for every set of
revisions, both roles and every bound (`NoRevisionAssumption`, `InputsAssumption`,
`BoundsAssumption`). `SessionTruthful` says nothing of an apply under way; `ApplyInv` adds that the
input handed to the role is the last in its inbox until the role takes it, that the outcome tells
what became of it, and that inputs left by a dropped apply are taken before it.

### 4.5 Address controller

`AddressControllerProofs`, for every finite set of addresses and every sequence of assignments
(`AddressesAssumption`, `AssignmentsAssumption`, `BoundsAssumption`):

| Theorem | Statement |
| --- | --- |
| `ControllerAccounts` | `Spec => []WorkersAccounted` |
| `IntentsFollow` | `Spec => []IntentFollowsAssignment` |
| `GracefulKept` | `Spec => GracefulNotCutShort` |

`GenerationInv` ties generations to the workers that were spawned; `IntentInv` follows an
assignment through its two steps (the intents of the living, then the missing ones), since
between them the intents are not those of the new assignment. Every step of a worker is one
kind of move (`WorkerMoves`), and one lemma shows that a move keeps everything.

### 4.6 Address worker

`AddressWorkerProofs`, for every set of Server runtimes and every number of changes and
interruptions (`GenerationsAssumption`, `BoundsAssumption`):

| Theorem | Statement |
| --- | --- |
| `WorkerSafe` | `Spec => []WorkerInvariant` |
| `CandidateFollows` | `Spec => []CandidateFollowsHint` |
| `JoinsOnHint` | `Spec => JoinOnCurrentHint` |

`HintsSound` is what an event follower keeps: a hint never names its own runtime and an
interruption clears it. `CandidateInv` and `FollowInv` relate the candidate to the hint when the
worker's receiver holds nothing new; `Evolves` is what one step of a connection may do to it
(`FollowerEvolves`), so that the steps of connections are one case of the induction. `FailureInv`
says where a protocol failure is until the worker returns it.

### 4.7 Processes

`ProcessProofs`, for every finite set of Visitors, every sources, limits, configurations and
events (`IntakeAssumption`, `RunAssumption`):

| Theorem | Statement |
| --- | --- |
| `IntakeAccounts` | `Spec => []IntakeAccounting` |
| `ReadySafe` | `Spec => []ReadyServerAccepts` |
| `ExitSafe` | `Spec => ExitAccounts` |
| `GracefulSafe` | `Spec => GracefulCutsNothing` |

`MovesWithPermits` reduces the accounts to one statement: a Visitor that moves together with the
permits of the places it leaves and enters keeps them; each step of the intake is such a move.
The run loop is described stage by stage: `BindInv` (sockets are reserved in order, and released
when a bind fails), `StageInv` (sealed before the probe closes, the listeners last longer than
the probe), `CutInv` (who may still be placed when the connections are closed, and why) and
`ExitInv`. `ClientInv` does the same for the Client's coordinator.

### 4.8 Server certificate

`ServerCertificateProofs`, for every set of processes, every number of certificates, ticks and
disturbances, and every directory of an older version (`CertificateAssumption`,
`ProcessesAssumption`):

| Theorem | Statement |
| --- | --- |
| `CertificateRecovers` | `Spec => []StoreRecovers` |
| `CertificateOwnership` | `Spec => []OwnershipSound` |
| `CertificateWakeups` | `Spec => []NoWakeupLost` |
| `CertificateRegistered` | `Spec => StoreIsRegister` |
| `RenewalRemembered` | `Spec => FailedRenewalKept` |

`CertificateRegistered` is the refinement: the files implement `CertificateRegister`.
`FailedRenewalKept` is the first part of `CertificateKept`: after a failed renewal only another
certificate disarms the recovery deadline.

`StoreInv` describes the files. A manifest *holds* when one of its generations is in its file for
certain and is owed (acknowledged, or being written), and nothing that a power loss could leave
is found before it; `DurableInv` says that both the manifest that processes read and the one on
disk hold, so a power loss at any point leaves one that does (`HoldingLoads`). `PublishInv` and
`OpenInv` say, for each list of steps that a job has still to do, what it has synced: the order of
`PublishSteps` is what makes them inductive, with one case per step in `JobStepKept`. `QuietInv`
and `SettledInv` say that nothing is left to sync when a publication starts.

`ControlInv` has, per process, who may hold the lock (`OwnerInv`), the permit behind every flag
that a task has not read (`WakeInv`), and where a task is while its job runs (`AwaitInv`).
`ControllerMoves` reduces a step of one process to what holds of that process.

For the refinement, only a submission, the steps of a job and a rotten file move the history
variables (`NextHistory`). The register's value can waver between what is acknowledged and what is
in doubt on every other step (`RegisterWavers`); a submission is its write, the last sync of a job
its acknowledgement, and a rotten file its damage.

For `RenewalRemembered` certificates are numbered as they are issued. `RenewInv` says that no file, job
or process names one that was not issued (`StoreKnown`, `KnownTo`), that what the ACME loop publishes is
newer than the one whose renewal failed and than everything else that the manifest names (`IssueOf`),
and that the export read behind that publication finds it or nothing (`ExportOf`).

### 4.9 Provisioning

`ProcessProofs` also proves, of `Provisioning`:

| Theorem | Statement |
| --- | --- |
| `CapacityAlwaysFits` | `ProvisionSpec => []CapacityFitsLimit` |
| `StartupIsSound` | `ProvisionSpec => []StartupSound` |
| `WrittenLeavesUsable` | `ProvisionSpec => WrittenUsable` |

`CapacityAlwaysFits` holds for every limit, reserve and configured capacity (`FdAssumption`). The
three shares are rounded down, so the lemmas bound a quotient from both sides and show that the
descriptors left over are fewer than the owners that can still take one; `Sized` is what
`ServerCapacity` and `ClientCapacity` have made of the limit once it is known.

`StartupIsSound` holds for every input of the types of the raw structs, every disk and every limit on
addresses and binds (`ConfigAssumption`, `NullAssumption`: an absent field is nothing that a file can
hold). The part to prove is `AcceptedServes`: what was accepted passes the second validators, fails
to start only over a missing leaf, and names everything that the file and the command line asked
for; and a part that building unwraps is there whenever no fault was found, but for the email
(`ServerBuilds`, `ClientBuilds`). Validation flattens lists of
results, so the proof is about lists of any length. `Flattens` says what a flattened list holds
after its first `n` parts; induction on `n` is by the least natural number at which it would fail
(`LeastNatural`), for no induction theorem can be used here. From it follows that an entry of the
result comes from an entry of the file and, without a fault, the other way round; that the hostnames
of two Tunnels or services are apart is a check on the flattened list and has to be taken back to the
parts. `ServerSound` and `ClientSound` are the two roles, `Resolved` what `resolution` holds.

`WrittenLeavesUsable` holds for every finite set of hostnames and every number of commands
(`MaterialAssumption`). Success is the last of a command's writes, and says nothing of the earlier ones,
which another init may have made or a killed command left. `MaterialInv` therefore speaks of the
future: `After` is the directory as it will be when a command has made all its remaining writes,
and `CommandInv` says that this directory is usable by every hostname that the command is about.
A write moves a file from what is to come to what is there and leaves `After` as it was
(`AfterWrite`); of two inits at once, each new file belongs to the one that created it, so neither
writes a file that the other relies on (`KeepApart`, `BesideKeeps`). The start of a command has one
lemma for each of the eight commands, from what its checks have found in the directory.

### 4.10 Only model-checked

- All liveness, which this prover does not handle: `QuiescenceNoticed`, `RevokedWorkEnds` (the third
  part of `AuthorizationDecides`; the first two are theorems), `WithdrawnCloses`, `ShutdownDrains`,
  `PermitsReturned`, `ResponseDelivered`, `LatestSnapshotTakesEffect`, `FactsReported`,
  `ShutdownCompletes`, `RemovedStopsDialing`, `ShutdownExits`.
- `VouchedUsable`, the second part of `SuccessIsUsable` (the first is a theorem): what an init that
  writes nothing says of the files it finds.
- `ReaderFindsCommitted`, the second part of `CertificateKept` (the first is a theorem): a reader reads
  the manifest at most `MaxAttempts` times, as in the code, so that what it finds depends on how many
  publications fall into its reads. It holds for the bounds of the run, not for every one.

## 5. What is not modelled

- Bytes: parsers, framing, TLS, HTTP/3 and QUIC. The models start from their results;
  `TunnelStream` has the order and the end of bytes, not their encoding.
- Time: a deadline or a delay is a step that may happen, not a duration. The reconnect
  policy, a table of durations with jitter, has nothing else to it.
- Member selection (`least_active_index`): any member of the pool may be taken.
- Two event subscriptions on one connection: the Client never opens a second before the first
  has ended.
- Logging, with its gates and contexts; argument and TOML parsing; messages; benchmarks and
  release tooling.
- The CA and rustls-acme: an order succeeds, fails or stores its account (external).
- Two `renew` or `rotate` commands at once on one directory: they take no lock, and an
  operator runs them one at a time.
- Static mode beyond what it shares: it has no replacement, no drain and no session.

## 6. Plan

Modelled and checked: everything above. Proved: every invariant and every action property of the
passing runs, and the refinement, but for the items of section 4.10. What could follow is more of
the system: the parsers of Managed input and of the PROXY header, and the reconnect policy with its
durations.
