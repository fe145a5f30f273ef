---------------------------- MODULE ServerCertificate ----------------------------
(***************************************************************************)
(* The Server certificate controller (src/src/server_certificate/          *)
(* controller.rs) in the processes that share one certificate directory.   *)
(* In each process one task runs `run`: the watchdog and, at its awaits,   *)
(* `drive` and `activate`.  Other threads of the process call              *)
(* install_snapshot, request_ownership, challenge_route_lost and           *)
(* export_snapshot at any time.  The CA and rustls-acme are external.      *)
(***************************************************************************)
EXTENDS CertificateStore

CONSTANTS
  Processes,
  Legacies,     \* what the directory of an older version may hold
  MaxClock,     \* certificate time
  Controlled,   \* processes whose embedder asks for ownership; the others do at once
  MaxFaults     \* disturbances: a second process, a stop, a power loss, a rotten
                \* file, a lost route or a handoff

ASSUME ProcessesAssumption ==
  /\ NoProcess \notin Processes /\ Controlled \subseteq Processes
  /\ Legacies \subseteq Generation
  /\ MaxClock \in Nat /\ MaxFaults \in Nat

VARIABLES ctl, lock, issued, legacy, faults

vars == <<storeVars, clock, ctl, lock, issued, legacy, faults>>

Stages ==
  {"down", "reading", "check", "parking", "idle", "open", "opening", "import_account",
   "importing_account", "import_certificate", "importing_certificate", "load", "loading",
   "proving", "observing", "starting", "acme_check", "acme", "confirming_cached",
   "confirming_new", "active_check", "active", "renewing", "sleep", "ended"}

\* Where the run task is suspended, and its watchdog may run.
Awaits ==
  {"idle", "open", "opening", "importing_account", "importing_certificate", "loading",
   "observing", "acme", "confirming_cached", "confirming_new", "active", "renewing", "sleep"}

NoReader == [left |-> <<>>, attempt |-> 0, had |-> 0]

\* ServerCertificateController::new, before the committed snapshot is read.
Stopped ==
  [stage |-> "down", snap |-> 0, challenge |-> "none", driving |-> FALSE,
   maintenance |-> FALSE, store |-> FALSE, recovery |-> FALSE, failedRenewal |-> 0,
   requested |-> FALSE, routeLost |-> FALSE, permit |-> FALSE, ready |-> FALSE,
   tick |-> "none", losing |-> FALSE, asking |-> FALSE, reader |-> NoReader]

Init ==
  /\ StoreInit
  /\ clock = 0
  /\ ctl = [p \in Processes |-> Stopped]
  /\ lock = NoProcess
  /\ legacy \in Legacies
  /\ issued = legacy.certificate
  /\ faults = 0

Fault == faults < MaxFaults /\ faults' = faults + 1

Goto(p, stage) == ctl' = [ctl EXCEPT ![p].stage = stage]

\* The task of p is at `stage` and its watchdog is not between its two steps.
At(p, stage) == ctl[p].stage = stage /\ ctl[p].tick = "none"

\* The end of one round of drive: nothing of the activation but the lock stays.
Ended(c) ==
  [c EXCEPT !.stage = "sleep", !.challenge = "none", !.driving = FALSE, !.store = FALSE,
            !.recovery = TRUE]

\* activate goes on, or returns an error.
Proceed(p, ok, stage) ==
  ctl' = [ctl EXCEPT ![p] = IF ok THEN [@ EXCEPT !.stage = stage] ELSE Ended(@)]

Usable(c) == ~c.maintenance /\ BeyondMargin(c.snap)

-----------------------------------------------------------------------------
\* Starting a process: CertificateStore::read_snapshot, which takes no lock.

MaxAttemptsOne == 1  \* mutant: the manifest is read once
MaxAttempts == 3

StartProcess(p) ==
  /\ ctl[p].stage = "down"
  /\ IF \A q \in Processes : ctl[q].stage = "down" THEN UNCHANGED faults ELSE Fault
  /\ ctl' = [ctl EXCEPT ![p].stage = "reading", ![p].requested = p \notin Controlled,
                        ![p].recovery = p \notin Controlled]
  /\ UNCHANGED <<storeVars, clock, lock, issued, legacy>>

ReadManifest(p) ==
  /\ ctl[p].stage = "reading" /\ ctl[p].reader.left = <<>>
  /\ LET r == ctl[p].reader IN
       IF r.attempt = MaxAttempts \/ seen.manifest = <<>>
       THEN ctl' = [ctl EXCEPT ![p].stage = "check", ![p].reader = NoReader]
       ELSE ctl' = [ctl EXCEPT ![p].reader =
                      [left |-> seen.manifest, attempt |-> r.attempt + 1,
                       had |-> IF r.attempt = 0 THEN ReadSnapshot ELSE r.had]]
  /\ UNCHANGED <<storeVars, clock, lock, issued, legacy, faults>>

ReadExport(p) ==
  /\ ctl[p].stage = "reading" /\ ctl[p].reader.left # <<>>
  /\ LET g == Head(ctl[p].reader.left) IN
       IF g \in seen.exports /\ Fresh(g.certificate)
       THEN ctl' = [ctl EXCEPT ![p].stage = "check", ![p].snap = g.certificate,
                               ![p].ready = TRUE, ![p].reader = NoReader]
       ELSE ctl' = [ctl EXCEPT ![p].reader.left = Tail(@)]
  /\ UNCHANGED <<storeVars, clock, lock, issued, legacy, faults>>

-----------------------------------------------------------------------------
\* drive and activate, up to the first ACME event.

\* The flag is read, then the task waits for a permit.
AwaitRequest(p) ==
  /\ \/ At(p, "check") /\ ~ctl[p].requested /\ Goto(p, "parking")
     \/ At(p, "parking") /\ Goto(p, "idle")
  /\ UNCHANGED <<storeVars, clock, lock, issued, legacy, faults>>

Notified(p) ==
  /\ At(p, "idle") /\ ctl[p].permit
  /\ ctl' = [ctl EXCEPT ![p].permit = FALSE, ![p].stage = "check"]
  /\ UNCHANGED <<storeVars, clock, lock, issued, legacy, faults>>

\* CertificateOwner::try_acquire; the lock is kept until the process ends.
TryAcquire(p) ==
  /\ At(p, "check") \/ At(p, "sleep")
  /\ ctl[p].requested
  /\ IF lock \in {NoProcess, p}
     THEN lock' = p /\ Goto(p, "open")
     ELSE lock' = lock /\ ctl' = [ctl EXCEPT ![p] = Ended(@)]
  /\ UNCHANGED <<storeVars, clock, issued, legacy, faults>>

\* A step of the task that waits for one storage job.
Submit(p, from, to, kind, steps, g) ==
  /\ At(p, from)
  /\ StartJob(p, kind, steps, g, TRUE)
  /\ Goto(p, to)
  /\ UNCHANGED <<clock, lock, issued, legacy, faults>>

JobReturned(p) == job.process = p /\ job.awaited /\ job.steps = <<>>

\* The task takes the result of its job.
TakeResult(p) ==
  /\ JobReturned(p)
  /\ job' = NoJob
  /\ UNCHANGED <<fileVars, failed, historyVars, clock, lock, issued, legacy, faults>>

OpenStore(p) == Submit(p, "open", "opening", "open", OpenSteps, Empty)

StoreOpened(p) ==
  /\ At(p, "opening")
  /\ TakeResult(p)
  /\ Proceed(p, job.ok, "import_account")

WithAccount == [Load(seen) EXCEPT !.account = 1]
WithCertificate(c) == [Load(seen) EXCEPT !.certificate = c]

\* CertificateStore::import_legacy, once the committed manifest is empty.
ImportAccount(p) ==
  \/ /\ legacy.account # 0 /\ seen.manifest = <<>>
     /\ Submit(p, "import_account", "importing_account", "account", PublishSteps, WithAccount)
  \/ /\ At(p, "import_account")
     /\ Goto(p, IF seen.manifest = <<>> THEN "import_certificate" ELSE "load")
     /\ legacy.account = 0 \/ seen.manifest # <<>>
     /\ UNCHANGED <<storeVars, clock, lock, issued, legacy, faults>>

ImportCertificate(p) ==
  \/ /\ Fresh(legacy.certificate)
     /\ Submit(p, "import_certificate", "importing_certificate", "certificate", PublishSteps,
               WithCertificate(legacy.certificate))
  \/ /\ At(p, "import_certificate") /\ ~Fresh(legacy.certificate)
     /\ Goto(p, "load")
     /\ UNCHANGED <<storeVars, clock, lock, issued, legacy, faults>>

Imported(p) ==
  \/ /\ At(p, "importing_account")
     /\ TakeResult(p)
     /\ Proceed(p, job.ok, "import_certificate")
  \/ /\ At(p, "importing_certificate")
     /\ TakeResult(p)
     /\ Proceed(p, job.ok, "load")

LoadSnapshot(p) == Submit(p, "load", "loading", "export", ExportSteps, Empty)

\* The certificate that an export job read; 0 when it failed or found none.
Exported == IF job.ok THEN job.found ELSE 0

\* install_snapshot refuses a stale certificate and a terminal controller.
CanInstall(p, c) == Fresh(c) /\ ~ctl[p].maintenance
Installed(c, snap) == [c EXCEPT !.snap = snap, !.ready = TRUE]

SnapshotLoaded(p) ==
  /\ At(p, "loading")
  /\ TakeResult(p)
  /\ IF CanInstall(p, Exported)
     THEN ctl' = [ctl EXCEPT ![p] = [Installed(@, Exported) EXCEPT !.stage = "proving"]]
     ELSE Proceed(p, Exported = 0, "proving")

\* The proof is offered, then the route is observed; both need the route anew.
OfferProof(p) ==
  /\ At(p, "proving")
  /\ ctl' = [ctl EXCEPT ![p].stage = "observing", ![p].store = TRUE, ![p].routeLost = FALSE,
                        ![p].challenge = "proof"]
  /\ UNCHANGED <<storeVars, clock, lock, issued, legacy, faults>>

ObserveRoute(p) ==
  /\ At(p, "observing")
  /\ \/ Proceed(p, FALSE, "starting")
     \/ ctl[p].challenge = "proof" /\ ~ctl[p].routeLost /\ Goto(p, "starting")
  /\ UNCHANGED <<storeVars, clock, lock, issued, legacy, faults>>

StartAcme(p) ==
  /\ At(p, "starting")
  /\ ctl' = [ctl EXCEPT ![p].stage = "acme_check", ![p].challenge = "acme",
                        ![p].driving = TRUE]
  /\ UNCHANGED <<storeVars, clock, lock, issued, legacy, faults>>

-----------------------------------------------------------------------------
\* The ACME loop of activate and the loop of drive_active.

\* A job that the dropped ACME state was waiting for goes on by itself.
AbandonJob(p) ==
  /\ job' = IF job.process = p THEN [job EXCEPT !.awaited = FALSE] ELSE job
  /\ UNCHANGED <<fileVars, failed, historyVars>>

CheckRoute(p) ==
  /\ \E loop \in {"acme", "active"} :
       /\ At(p, IF loop = "acme" THEN "acme_check" ELSE "active_check")
       /\ Proceed(p, ~ctl[p].routeLost, loop)
  /\ IF ctl[p].routeLost THEN AbandonJob(p) ELSE UNCHANGED storeVars
  /\ UNCHANGED <<clock, lock, issued, legacy, faults>>

LoopNotified(p) ==
  /\ At(p, "acme") \/ At(p, "active")
  /\ ctl[p].permit
  /\ ctl' = [ctl EXCEPT ![p] =
               IF @.routeLost THEN [Ended(@) EXCEPT !.permit = FALSE]
               ELSE [@ EXCEPT !.permit = FALSE,
                              !.stage = IF At(p, "acme") THEN "acme_check" ELSE "active_check"]]
  /\ IF ctl[p].routeLost THEN AbandonJob(p) ELSE UNCHANGED storeVars
  /\ UNCHANGED <<clock, lock, issued, legacy, faults>>

\* The select is biased: an ACME event is taken only when no permit is there.
Polls(p, loop) == At(p, loop) /\ ~ctl[p].permit

\* EventOk::DeployedCachedCert: load_cert returned a certificate that is valid.
AcmeCached(p) ==
  /\ Polls(p, "acme") /\ Fresh(Load(seen).certificate)
  /\ Submit(p, "acme", "confirming_cached", "export", ExportSteps, Empty)

\* A new certificate is due in both loops, in the first once none is valid.
Due(p, loop) == Polls(p, loop) /\ (loop = "acme" => ~Fresh(Load(seen).certificate))

AcmeAccount(p) ==
  \E loop \in {"acme", "active"} :
    /\ Due(p, loop) /\ Load(seen).account = 0
    /\ Submit(p, loop, loop, "account", PublishSteps, WithAccount)

\* The CA issues; store_cert validates and publishes.
AcmeIssue(p) ==
  /\ \E loop \in {"acme", "active"} :
       /\ Due(p, loop) /\ Load(seen).account = 1
       /\ Goto(p, loop)
  /\ \E c \in issued + 1..MaxCertificate :
       /\ Fresh(c)
       /\ issued' = c
       /\ StartJob(p, "certificate", PublishSteps, WithCertificate(c), TRUE)
  /\ UNCHANGED <<clock, lock, legacy, faults>>

\* An error of drive_active is a failed renewal of the certificate it serves.
RenewalFailed(c) == [Ended(c) EXCEPT !.failedRenewal = c.snap]

LoopError(c) ==
  IF c.stage \in {"active", "renewing"} THEN RenewalFailed(c) ELSE Ended(c)

AcmeFails(p) ==
  /\ Polls(p, "acme") \/ Polls(p, "active")
  /\ job.process # p
  /\ ctl' = [ctl EXCEPT ![p] = LoopError(@)]
  /\ UNCHANGED <<storeVars, clock, lock, issued, legacy, faults>>

\* AccountCacheStore, or the failure of a publication.
AcmeStored(p) ==
  /\ Polls(p, "acme") \/ Polls(p, "active")
  /\ ~job.ok \/ job.kind = "account"
  /\ TakeResult(p)
  /\ IF job.ok THEN UNCHANGED ctl ELSE ctl' = [ctl EXCEPT ![p] = LoopError(@)]

\* EventOk::CertCacheStore: the published certificate is exported at once.
AcmePublished(p) ==
  /\ Polls(p, "acme") \/ Polls(p, "active")
  /\ JobReturned(p) /\ job.ok /\ job.kind = "certificate"
  /\ job' = [job EXCEPT !.kind = "export", !.steps = ExportSteps, !.generation = Empty]
  /\ Goto(p, IF ctl[p].stage = "acme" THEN "confirming_new" ELSE "renewing")
  /\ UNCHANGED <<fileVars, failed, historyVars, clock, lock, issued, legacy, faults>>

\* Mutant: any deployed certificate ends the recovery.
RecoveredAlways(c, snap, event) ==
  IF event \in {"stored", "cached"} /\ snap > 0
  THEN [c EXCEPT !.recovery = FALSE, !.failedRenewal = 0]
  ELSE c

\* Reopening the certificate whose renewal failed does not end the recovery.
Recovered(c, snap, event) ==
  IF event = "stored" \/ c.failedRenewal # snap
  THEN [c EXCEPT !.recovery = FALSE, !.failedRenewal = 0]
  ELSE c

Confirmed(p) ==
  /\ \E event \in {"cached", "stored"} :
       /\ At(p, IF event = "cached" THEN "confirming_cached" ELSE "confirming_new")
       /\ LET c == ctl[p]
              recovered == IF Exported # 0 THEN Recovered(c, Exported, event) ELSE c
          IN  ctl' = [ctl EXCEPT ![p] =
                        IF CanInstall(p, Exported)
                        THEN [Installed(recovered, Exported) EXCEPT !.stage = "active_check"]
                        ELSE Ended(recovered)]
  /\ TakeResult(p)

Renewed(p) ==
  /\ At(p, "renewing")
  /\ TakeResult(p)
  /\ ctl' = [ctl EXCEPT ![p] =
               IF CanInstall(p, Exported)
               THEN [Installed(@, Exported) EXCEPT !.stage = "active_check", !.recovery = FALSE,
                                                   !.failedRenewal = 0]
               ELSE LoopError(@)]

-----------------------------------------------------------------------------
\* The watchdog of run: the status is read, then acted on.  A look that finds
\* nothing to change is left out, unless a snapshot may still be installed
\* before the watchdog acts on it.

WatchdogLook(p) ==
  /\ ctl[p].stage \in Awaits /\ ctl[p].tick = "none"
  /\ Usable(ctl[p]) => ~ctl[p].ready
  /\ ctl[p].snap = 0 /\ ~ctl[p].ready => faults < MaxFaults
  /\ ctl' = [ctl EXCEPT ![p].tick =
               IF Usable(ctl[p]) THEN "serving" ELSE IF ctl[p].snap = 0 THEN "bare" ELSE "expired"]
  /\ UNCHANGED <<storeVars, clock, lock, issued, legacy, faults>>

\* ServerCertificateController::maintenance; run returns and drops the activation.
Maintenance(p) ==
  /\ ctl' = [ctl EXCEPT ![p].stage = "ended", ![p].tick = "none", ![p].maintenance = TRUE,
                        ![p].challenge = "none", ![p].driving = FALSE, ![p].ready = FALSE]
  /\ AbandonJob(p)

WatchdogAct(p) ==
  /\ \/ ctl[p].tick = "expired" /\ Maintenance(p)
     \/ /\ ctl[p].tick \in {"serving", "bare"}
        /\ ctl' = [ctl EXCEPT ![p].tick = "none", ![p].ready = (ctl[p].tick = "serving")]
        /\ UNCHANGED storeVars
  /\ UNCHANGED <<clock, lock, issued, legacy, faults>>

\* Mutant: the lock goes with the run that ends.
WatchdogOverdueUnlocked(p) ==
  /\ ctl[p].stage \in Awaits /\ ctl[p].tick = "none" /\ ctl[p].recovery
  /\ Maintenance(p)
  /\ lock' = IF lock = p THEN NoProcess ELSE lock
  /\ UNCHANGED <<clock, issued, legacy, faults>>

\* recovery_timeout has passed.
WatchdogOverdue(p) ==
  /\ ctl[p].stage \in Awaits /\ ctl[p].tick = "none" /\ ctl[p].recovery
  /\ Maintenance(p)
  /\ UNCHANGED <<clock, lock, issued, legacy, faults>>

-----------------------------------------------------------------------------
\* Calls of the embedding process, on threads of its own.

Alive(p) == ctl[p].stage \notin {"down", "reading"}

\* A snapshot handed over by the owner, as it exported it.
InstallHandoff(p) ==
  /\ Alive(p) /\ Fault
  /\ \E g \in past :
       /\ g.certificate # 0 /\ CanInstall(p, g.certificate)
       /\ ctl' = [ctl EXCEPT ![p] = Installed(@, g.certificate)]
  /\ UNCHANGED <<storeVars, clock, lock, issued, legacy>>

RequestOwnership(p) ==
  /\ Alive(p) /\ ~ctl[p].requested
  /\ ctl' = [ctl EXCEPT ![p].requested = TRUE, ![p].asking = TRUE,
                        ![p].recovery = @ \/ ~ctl[p].driving]
  /\ UNCHANGED <<storeVars, clock, lock, issued, legacy, faults>>

\* Mutant: only a task that is waiting is woken.
NotifyWaiting(c) == [c EXCEPT !.permit = @ \/ c.stage \in {"idle", "acme", "active"}]

\* Notify::notify_one keeps a permit for a task that is not yet waiting.
NotifyOne(c) == [c EXCEPT !.permit = TRUE]

OwnershipRequested(p) ==
  /\ ctl[p].asking
  /\ ctl' = [ctl EXCEPT ![p] = [NotifyOne(@) EXCEPT !.asking = FALSE]]
  /\ UNCHANGED <<storeVars, clock, lock, issued, legacy, faults>>

ChallengeRouteLost(p) ==
  /\ Alive(p) /\ Fault /\ lock = p /\ ~ctl[p].losing
  /\ ctl' = [ctl EXCEPT ![p].routeLost = TRUE, ![p].losing = TRUE]
  /\ UNCHANGED <<storeVars, clock, lock, issued, legacy>>

RouteRevoked(p) ==
  /\ ctl[p].losing
  /\ ctl' = [ctl EXCEPT ![p] = [NotifyOne(@) EXCEPT !.losing = FALSE, !.challenge = "none",
                                                    !.driving = FALSE, !.recovery = TRUE]]
  /\ UNCHANGED <<storeVars, clock, lock, issued, legacy, faults>>

\* export_snapshot, the gate before a drain.
ExportSnapshot(p) ==
  /\ Alive(p) /\ ctl[p].store /\ ~failed
  /\ StartJob(p, "export", ExportSteps, Empty, FALSE)
  /\ UNCHANGED <<clock, ctl, lock, issued, legacy, faults>>

-----------------------------------------------------------------------------
\* Storage, time and faults.

Storage ==
  /\ \/ JobStep
     \/ JobFails
     \/ JobReaped
  /\ UNCHANGED <<clock, ctl, lock, issued, legacy, faults>>

FileRots ==
  /\ Fault
  /\ \E g \in Generation : CorruptBlob(g)
  /\ UNCHANGED <<clock, ctl, lock, issued, legacy>>

PassTime ==
  /\ clock < MaxClock
  /\ clock' = clock + 1
  /\ UNCHANGED <<storeVars, ctl, lock, issued, legacy, faults>>

\* A process stops; its threads, its lock and its storage job stop with it.
Crash(p) ==
  /\ ctl[p].stage # "down"
  /\ Fault
  /\ ctl' = [ctl EXCEPT ![p] = Stopped]
  /\ lock' = IF lock = p THEN NoProcess ELSE lock
  /\ job' = IF job.process = p THEN NoJob ELSE job
  /\ UNCHANGED <<fileVars, failed, historyVars, clock, issued, legacy>>

PowerLoss ==
  /\ Fault
  /\ LosePower
  /\ ctl' = [p \in Processes |-> Stopped]
  /\ lock' = NoProcess /\ job' = NoJob
  /\ UNCHANGED <<failed, historyVars, clock, issued, legacy>>

Drive(p) ==
  \/ StartProcess(p) \/ ReadManifest(p) \/ ReadExport(p)
  \/ AwaitRequest(p) \/ Notified(p) \/ TryAcquire(p) \/ OpenStore(p) \/ StoreOpened(p)
  \/ ImportAccount(p) \/ ImportCertificate(p) \/ Imported(p)
  \/ LoadSnapshot(p) \/ SnapshotLoaded(p)
  \/ OfferProof(p) \/ ObserveRoute(p) \/ StartAcme(p)
  \/ CheckRoute(p) \/ LoopNotified(p) \/ AcmeCached(p) \/ AcmeAccount(p) \/ AcmeIssue(p)
  \/ AcmeFails(p) \/ AcmeStored(p) \/ AcmePublished(p) \/ Confirmed(p) \/ Renewed(p)

Next ==
  \/ \E p \in Processes :
       \/ Drive(p)
       \/ WatchdogLook(p) \/ WatchdogAct(p) \/ WatchdogOverdue(p)
       \/ Crash(p)
  \/ \E p \in Controlled :
       \/ InstallHandoff(p) \/ RequestOwnership(p) \/ OwnershipRequested(p)
       \/ ChallengeRouteLost(p) \/ RouteRevoked(p) \/ ExportSnapshot(p)
  \/ Storage
  \/ FileRots
  \/ PassTime
  \/ PowerLoss

Spec == Init /\ [][Next]_vars

-----------------------------------------------------------------------------
TypeOK ==
  /\ StoreTypeOK
  /\ clock \in 0..MaxClock /\ issued \in 0..MaxCertificate /\ legacy \in Legacies
  /\ lock \in Processes \cup {NoProcess}
  /\ \A p \in Processes :
       /\ ctl[p].stage \in Stages /\ ctl[p].snap \in 0..MaxCertificate
       /\ ctl[p].challenge \in {"none", "proof", "acme"}
       /\ ctl[p].failedRenewal \in 0..MaxCertificate
       /\ ctl[p].tick \in {"none", "serving", "bare", "expired"}

(***************************************************************************)
(* Whatever stops in the middle of a publication (a failed write, a        *)
(* process, the power), the files hold the last acknowledged account and   *)
(* certificate or the ones being written, and every acknowledged           *)
(* publication survives (Store::publish, recover_manifest, sync_committed).*)
(***************************************************************************)
StoreIsRegister == Register!RegisterSpec

\* The files can always be opened again: the manifest never names only
\* generations that are gone (Store::load, Store::prune).
StoreRecovers == CanLoad(seen)

\* Only the process that holds owner.lock writes to the store or answers the
\* ACME challenge, also while a dropped activation's storage job still runs
\* (CertificateOwner, PROCESS_OWNERS).
OnlyOwnerActs ==
  /\ job # NoJob => lock = job.process
  /\ \A p \in Processes : ctl[p].challenge # "none" => lock = p

\* Maintenance is terminal: no snapshot that another thread installs meanwhile
\* makes the Server ready again (install_snapshot, maintenance).
MaintenanceNotReady == \A p \in Processes : ~(ctl[p].maintenance /\ ctl[p].ready)

\* No call is lost between the check of a flag and the wait: a waiting task with
\* an ownership request or a lost route has a permit (request_ownership,
\* challenge_route_lost, drive, activate).
NoWakeupLost ==
  \A p \in Processes :
    /\ ctl[p].stage = "idle" /\ ctl[p].requested /\ ~ctl[p].asking => ctl[p].permit
    /\ ctl[p].stage \in {"acme", "active"} /\ ctl[p].routeLost /\ ~ctl[p].losing => ctl[p].permit

\* Outside an active ACME session, an ownership that was asked for is under its
\* recovery deadline (drive, request_ownership, activate).
TakeoverIsBounded ==
  \A p \in Processes :
    ctl[p].requested /\ Alive(p)
      => ctl[p].recovery
         \/ ctl[p].stage \in {"active_check", "active", "renewing", "ended"}

(***************************************************************************)
(* Ownership of the store and of the ACME account is exclusive; one that   *)
(* was asked for is under a deadline; and after maintenance it does not    *)
(* come back.                                                              *)
(***************************************************************************)
OwnershipSound == TypeOK /\ OnlyOwnerActs /\ MaintenanceNotReady /\ TakeoverIsBounded

\* After a failed renewal the recovery deadline is only disarmed by another
\* certificate: reopening the same one does not do it (activate, drive_active).
FailedRenewalKept ==
  [][\A p \in Processes :
       /\ ctl[p].failedRenewal # 0 /\ ctl[p].recovery
       /\ ~ctl'[p].recovery /\ ctl'[p].stage # "down"
       => ctl'[p].snap # ctl[p].failedRenewal]_vars

\* A starting process that raced the owner's pruning still finds a committed
\* certificate: the one that was there when it began, unless that has aged
\* or rotted, or a later one (read_snapshot re-reads the manifest).
ReaderFindsCommitted ==
  [][\A p \in Processes :
       /\ ctl[p].stage = "reading" /\ ctl'[p].stage = "check"
       /\ Fresh(ctl[p].reader.had) /\ ~corrupted
       => ctl'[p].snap # 0]_vars

(***************************************************************************)
(* What was committed is neither missed by a reader nor mistaken for a     *)
(* recovery after its renewal failed.                                      *)
(***************************************************************************)
CertificateKept == FailedRenewalKept /\ ReaderFindsCommitted
===============================================================================
