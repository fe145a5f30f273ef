------------------------- MODULE ServerCertificateProofs -------------------------
(***************************************************************************)
(* Theorems about ServerCertificate for every set of processes, every      *)
(* number of certificates and disturbances, and every directory of an      *)
(* older version.                                                          *)
(***************************************************************************)
EXTENDS ServerCertificate, SequenceTheorems, TLAPS

(***************************************************************************)
(* Types.                                                                  *)
(***************************************************************************)
Certificates == 0..MaxCertificate
Manifest == {m \in Seq(Generation) : Len(m) =< 2}
Files == [manifest : Manifest, blobs : SUBSET Generation, exports : SUBSET Generation]

(***************************************************************************)
(* What a job has still to do.                                             *)
(***************************************************************************)
Retaining == <<"retain", "sync_committed", "prune">>
Committing == <<"sync_committed", "prune">>
Pruning == <<"prune">>
Syncing == <<"sync_generations", "export", "sync_generations", "manifest", "sync_manifest", "prune">>
Exporting == <<"export", "sync_generations", "manifest", "sync_manifest", "prune">>
Resyncing == <<"sync_generations", "manifest", "sync_manifest", "prune">>
Renaming == <<"manifest", "sync_manifest", "prune">>
Confirming == <<"sync_manifest", "prune">>

Remaining ==
  {OpenSteps, Retaining, Committing, Pruning, PublishSteps, Syncing, Exporting, Resyncing, Renaming,
   Confirming, ExportSteps, <<"read">>, <<>>}

Job ==
  [process : Processes \cup {NoProcess}, kind : {"none", "open", "export"} \cup Publishing,
   steps : Remaining, generation : Generation, ok : BOOLEAN, awaited : BOOLEAN,
   found : Certificates]

Controller ==
  [stage : Stages, snap : Certificates, challenge : {"none", "proof", "acme"}, driving : BOOLEAN,
   maintenance : BOOLEAN, store : BOOLEAN, recovery : BOOLEAN, failedRenewal : Certificates,
   requested : BOOLEAN, routeLost : BOOLEAN, permit : BOOLEAN, ready : BOOLEAN,
   tick : {"none", "serving", "bare", "expired"}, losing : BOOLEAN, asking : BOOLEAN,
   reader : [left : Seq(Generation), attempt : Nat, had : Nat]]

StoreTypes ==
  /\ seen \in Files /\ disk \in Files
  /\ job \in Job
  /\ failed \in BOOLEAN
  /\ acked \in Generation /\ doubt \in SUBSET Generation /\ past \in SUBSET Generation

CtlTypes ==
  /\ ctl \in [Processes -> Controller]
  /\ lock \in Processes \cup {NoProcess}
  /\ clock \in 0..MaxClock /\ issued \in Certificates /\ legacy \in Legacies

JobInv ==
  /\ job.process = NoProcess <=> job = NoJob
  /\ job.kind = "none" => job = NoJob
  /\ job.kind = "open" => job.steps \in {OpenSteps, Retaining, Committing, Pruning, <<>>}
  /\ job.kind = "export" => job.steps \in {ExportSteps, <<"read">>, <<>>}
  /\ job.kind \in Publishing =>
       job.steps \in {PublishSteps, Syncing, Exporting, Resyncing, Renaming, Confirming, Pruning, <<>>}
  /\ ~job.ok => job.steps = <<>>

(***************************************************************************)
(* Whatever a power loss leaves can be loaded and yields what the store    *)
(* owes.  A manifest holds when one of its generations is in its file for  *)
(* certain and is owed, and no generation before it can yield anything     *)
(* else.                                                                   *)
(***************************************************************************)
Owed == {acked} \cup doubt
Certain == seen.blobs \cap disk.blobs
Possible == seen.blobs \cup disk.blobs

Holds(m) ==
  \/ m = <<>> /\ Empty \in Owed
  \/ Len(m) >= 1 /\ m[1] \in Certain \cap Owed
  \/ /\ Len(m) = 2 /\ m[2] \in Certain \cap Owed
     /\ m[1] \in Possible => m[1] \in Owed

\* A manifest names different generations, and all of them have been
\* acknowledged, but for a leading one that is in doubt.
Traced(m) ==
  /\ Len(m) >= 1 => m[1] \in past \cup doubt
  /\ Len(m) = 2 => m[2] \in past /\ m[1] # m[2]

DurableInv ==
  /\ Holds(seen.manifest) /\ Holds(disk.manifest)
  /\ Traced(seen.manifest) /\ Traced(disk.manifest)

(***************************************************************************)
(* How far a job has come.                                                 *)
(***************************************************************************)
Synced == disk.manifest = seen.manifest
Leads(g) == seen.manifest # <<>> /\ seen.manifest[1] = g

PublishInv ==
  job.kind \in Publishing =>
    /\ job.steps # <<>> \/ ~job.ok => doubt = {job.generation}
    /\ job.steps # <<>> /\ job.steps # Confirming => Synced
    /\ job.steps \notin {PublishSteps, <<>>} => job.generation \in seen.blobs
    /\ job.steps \notin {PublishSteps, Syncing, <<>>} => disk.blobs = seen.blobs
    /\ job.steps \in {Confirming, Pruning} => Leads(job.generation)
    /\ job.steps = <<>> /\ job.ok => doubt = {} /\ Synced

OpenInv ==
  job.kind = "open" =>
    /\ job.steps \in {Retaining, Committing, Pruning} => disk.blobs = seen.blobs
    /\ job.steps \in {Committing, Pruning} => Named(seen) \subseteq seen.blobs
    /\ job.steps = Pruning => Synced
    /\ job.steps = <<>> /\ job.ok => doubt = {} /\ Synced

\* Nothing is left to sync once nothing is in doubt, but for a manifest that
\* an interrupted open has shortened.
QuietInv ==
  doubt = {} =>
    /\ Named(seen) \cap seen.blobs \subseteq disk.blobs
    /\ Len(seen.manifest) = 2 => Synced

(***************************************************************************)
(* The task and its job.                                                   *)
(***************************************************************************)
Loops == {"acme", "acme_check", "active", "active_check"}
Opened ==
  Loops \cup
  {"import_account", "importing_account", "import_certificate", "importing_certificate", "load",
   "loading", "proving", "observing", "starting", "confirming_cached", "confirming_new", "renewing"}
Acquired == {"open", "opening"} \cup Opened

\* Who holds owner.lock, and what only the holder has; what is asked for is under
\* its deadline or served; maintenance is final.
OwnerOf(c, p, holder) ==
  /\ c.stage \in Acquired => holder = p /\ c.requested
  /\ c.store \/ c.challenge # "none" => holder = p
  /\ c.driving => c.requested /\ c.stage # "down"
  /\ c.requested => c.recovery \/ c.stage \in {"active_check", "active", "renewing", "ended"}
  /\ c.maintenance => c.stage = "ended" /\ c.tick = "none" /\ ~c.ready

OwnerInv ==
  /\ job # NoJob => lock = job.process
  /\ \A p \in Processes : OwnerOf(ctl[p], p, lock)

\* A task that waits, or is about to, has a permit for what it was not told.
WakeOf(c) ==
  /\ c.stage \in {"parking", "idle"} /\ c.requested /\ ~c.asking => c.permit
  /\ c.stage \in {"acme", "active"} /\ c.routeLost /\ ~c.losing => c.permit

WakeInv == \A p \in Processes : WakeOf(ctl[p])

\* Where the task of a job is while the job runs: it waits for it, or has given
\* up everything that the job was for.
AwaitOf(kind, awaited, s) ==
  /\ awaited =>
       \/ kind = "open" /\ s = "opening"
       \/ kind = "export" /\ s \in {"loading", "confirming_cached", "confirming_new", "renewing"}
       \/ kind = "account" /\ s \in {"importing_account"} \cup Loops
       \/ kind = "certificate" /\ s \in {"importing_certificate"} \cup Loops
  /\ ~awaited /\ kind # "export" => s \in {"sleep", "open", "ended"}

AwaitInv == job # NoJob => AwaitOf(job.kind, job.awaited, ctl[job.process].stage)

\* A task that has opened the store, and is not publishing, finds it settled.
SettledInv ==
  \A p \in Processes :
    ctl[p].stage \in Opened /\ (job = NoJob \/ job.kind = "export") => doubt = {} /\ Synced

StoreInv == StoreTypes /\ JobInv /\ DurableInv /\ PublishInv /\ OpenInv /\ QuietInv
ControlInv == CtlTypes /\ OwnerInv /\ WakeInv /\ AwaitInv /\ SettledInv
Inv == StoreInv /\ ControlInv

-----------------------------------------------------------------------------
(***************************************************************************)
(* What Retain yields on the manifests that a store can have.              *)
(***************************************************************************)
LEMMA RetainCases ==
  ASSUME NEW m \in Manifest, NEW S
  PROVE  /\ Len(m) \in 0..2 /\ (m = <<>> <=> Len(m) = 0)
         /\ Len(m) >= 1 => m[1] \in Generation
         /\ Len(m) = 2 => m[2] \in Generation
         /\ Len(m) = 1 => m = <<m[1]>>
         /\ Len(m) = 2 => m = <<m[1], m[2]>>
         /\ Len(m) = 0 => Retain(m, S) = <<>>
         /\ Len(m) = 1 => Retain(m, S) = IF m[1] \in S THEN <<m[1]>> ELSE <<>>
         /\ Len(m) = 2 => Retain(m, S) = IF m[1] \in S
                                         THEN IF m[2] \in S THEN <<m[1], m[2]>> ELSE <<m[1]>>
                                         ELSE IF m[2] \in S THEN <<m[2]>> ELSE <<>>
<1>1. m \in Seq(Generation) /\ Len(m) \in Nat /\ Len(m) =< 2 /\ DOMAIN m = 1..Len(m)
  BY LenProperties DEF Manifest
<1>2. /\ Len(m) \in 0..2 /\ (m = <<>> <=> Len(m) = 0)
      /\ Len(m) >= 1 => m[1] \in Generation
      /\ Len(m) = 2 => m[2] \in Generation
  BY <1>1, EmptySeq
<1>3. /\ Len(m) = 1 => m = <<m[1]>>
      /\ Len(m) = 2 => m = <<m[1], m[2]>>
  BY <1>1
<1>4. \A x, y : <<>> \o <<>> = <<>> /\ <<x>> \o <<>> = <<x>> /\ <<>> \o <<y>> = <<y>>
  OBVIOUS
<1>5. \A x, y : <<x>> \o <<y>> = <<x, y>>
  <2> TAKE x, y
  <2>1. <<x>> \in Seq({x, y}) /\ <<y>> \in Seq({x, y})
    OBVIOUS
  <2>2. /\ <<x>> \o <<y>> \in Seq({x, y}) /\ Len(<<x>> \o <<y>>) = 2
        /\ (<<x>> \o <<y>>)[1] = x /\ (<<x>> \o <<y>>)[2] = y
    BY <2>1, ConcatProperties
  <2>3. \A s \in Seq({x, y}) : Len(s) = 2 => s = <<s[1], s[2]>>
    OBVIOUS
  <2> QED
    BY <2>2, <2>3
<1>6. CASE Len(m) = 0
  <2>1. RetainAt(m, 1, S) = <<>> /\ RetainAt(m, 2, S) = <<>>
    BY <1>1, <1>6 DEF RetainAt
  <2> QED
    BY <1>2, <1>3, <1>4, <1>6, <2>1 DEF Retain
<1>7. CASE Len(m) = 1
  <2>1. /\ RetainAt(m, 1, S) = (IF m[1] \in S THEN <<m[1]>> ELSE <<>>)
        /\ RetainAt(m, 2, S) = <<>>
    BY <1>1, <1>7 DEF RetainAt
  <2>2. Retain(m, S) = (IF m[1] \in S THEN <<m[1]>> ELSE <<>>)
    BY <1>4, <2>1 DEF Retain
  <2> QED
    BY <1>2, <1>3, <1>7, <2>2
<1>8. CASE Len(m) = 2
  <2>1. /\ RetainAt(m, 1, S) = (IF m[1] \in S THEN <<m[1]>> ELSE <<>>)
        /\ RetainAt(m, 2, S) = (IF m[2] \in S THEN <<m[2]>> ELSE <<>>)
    BY <1>1, <1>8 DEF RetainAt
  <2>2. Retain(m, S) = IF m[1] \in S
                       THEN IF m[2] \in S THEN <<m[1], m[2]>> ELSE <<m[1]>>
                       ELSE IF m[2] \in S THEN <<m[2]>> ELSE <<>>
    BY <1>4, <1>5, <2>1 DEF Retain
  <2> QED
    BY <1>2, <1>3, <1>8, <2>2
<1> QED
  BY <1>2, <1>6, <1>7, <1>8

(***************************************************************************)
(* The generations that a manifest names.                                  *)
(***************************************************************************)
LEMMA NamedCases ==
  ASSUME NEW files \in Files
  PROVE  /\ Named(files) \subseteq Generation
         /\ Len(files.manifest) = 0 => Named(files) = {}
         /\ Len(files.manifest) = 1 => Named(files) = {files.manifest[1]}
         /\ Len(files.manifest) = 2 => Named(files) = {files.manifest[1], files.manifest[2]}
<1>1. /\ files.manifest \in Seq(Generation) /\ Len(files.manifest) \in Nat
      /\ Len(files.manifest) =< 2 /\ DOMAIN files.manifest = 1..Len(files.manifest)
  BY LenProperties DEF Files, Manifest
<1> QED
  BY <1>1 DEF Named

\* Retain yields a manifest.
LEMMA RetainTyped ==
  ASSUME NEW m \in Manifest, NEW S
  PROVE  Retain(m, S) \in Manifest
<1>1. \A x, y \in Generation : <<>> \in Manifest /\ <<x>> \in Manifest /\ <<x, y>> \in Manifest
  BY DEF Manifest
<1>2. CASE Len(m) = 0
  <2>1. <<>> \in Manifest
    BY DEF Manifest
  <2> QED
    BY <1>2, <2>1, RetainCases
<1>3. CASE Len(m) = 1
  <2>1. m[1] \in Generation /\ Retain(m, S) = (IF m[1] \in S THEN <<m[1]>> ELSE <<>>)
    BY <1>3, RetainCases
  <2> QED
    BY <1>1, <2>1
<1>4. CASE Len(m) = 2
  <2>1. /\ m[1] \in Generation /\ m[2] \in Generation
        /\ Retain(m, S) = IF m[1] \in S
                          THEN IF m[2] \in S THEN <<m[1], m[2]>> ELSE <<m[1]>>
                          ELSE IF m[2] \in S THEN <<m[2]>> ELSE <<>>
    BY <1>4, RetainCases
  <2> QED
    BY <1>1, <2>1
<1> QED
  BY <1>2, <1>3, <1>4, RetainCases

(***************************************************************************)
(* A manifest that holds can be loaded from any files that lie between     *)
(* the certain and the possible, and yields what is owed.                  *)
(***************************************************************************)
LEMMA HoldingLoads ==
  ASSUME NEW files \in Files, Holds(files.manifest),
         Certain \subseteq files.blobs, files.blobs \subseteq Possible
  PROVE  CanLoad(files) /\ Load(files) \in Owed
<1> DEFINE m == files.manifest
<1>1. m \in Manifest
  BY DEF Files
<1> HIDE DEF m
<1>2. CASE Len(m) = 0
  BY <1>1, <1>2, RetainCases DEF Holds, CanLoad, Load, m
<1>3. CASE Len(m) = 1
  <2>1. m[1] \in Certain \cap Owed
    BY <1>1, <1>3, RetainCases DEF Holds, m
  <2>2. Readable(files) = <<m[1]>> /\ m # <<>>
    BY <1>1, <1>3, <2>1, RetainCases DEF Readable, m
  <2> QED
    BY <2>1, <2>2 DEF CanLoad, Load, m
<1>4. CASE Len(m) = 2 /\ m[1] \in files.blobs
  <2>1. m[1] \in Owed
    BY <1>1, <1>4, RetainCases DEF Holds, m
  <2>2. Readable(files) # <<>> /\ Head(Readable(files)) = m[1] /\ m # <<>>
    BY <1>1, <1>4, RetainCases DEF Readable, m
  <2> QED
    BY <2>1, <2>2 DEF CanLoad, Load, m
<1>5. CASE Len(m) = 2 /\ m[1] \notin files.blobs
  <2>1. m[2] \in Certain \cap Owed
    BY <1>1, <1>5, RetainCases DEF Holds, m
  <2>2. Readable(files) # <<>> /\ Head(Readable(files)) = m[2] /\ m # <<>>
    BY <1>1, <1>5, <2>1, RetainCases DEF Readable, m
  <2> QED
    BY <2>1, <2>2 DEF CanLoad, Load, m
<1> QED
  BY <1>1, <1>2, <1>3, <1>4, <1>5, RetainCases

-----------------------------------------------------------------------------
(***************************************************************************)
(* A job does the first of its steps and keeps the others.                 *)
(***************************************************************************)
LEMMA OpenOrder ==
  /\ Head(OpenSteps) = "recover" /\ Tail(OpenSteps) = Retaining
  /\ Head(Retaining) = "retain" /\ Tail(Retaining) = Committing
  /\ Head(Committing) = "sync_committed" /\ Tail(Committing) = Pruning
  /\ Head(Pruning) = "prune" /\ Tail(Pruning) = <<>>
BY DEF OpenSteps, Retaining, Committing, Pruning

\* The order of a publication's steps.
LEMMA PublishOrder ==
  /\ Head(PublishSteps) = "blob" /\ Tail(PublishSteps) = Syncing
  /\ Head(Syncing) = "sync_generations" /\ Tail(Syncing) = Exporting
  /\ Head(Exporting) = "export" /\ Tail(Exporting) = Resyncing
  /\ Head(Resyncing) = "sync_generations" /\ Tail(Resyncing) = Renaming
  /\ Head(Renaming) = "manifest" /\ Tail(Renaming) = Confirming
  /\ Head(Confirming) = "sync_manifest" /\ Tail(Confirming) = Pruning
  /\ Head(Pruning) = "prune" /\ Tail(Pruning) = <<>>
BY DEF Pruning, PublishSteps, Syncing, Exporting, Resyncing, Renaming, Confirming

\* The order of an export's steps.
LEMMA ExportOrder ==
  /\ Head(ExportSteps) = "sync_committed" /\ Tail(ExportSteps) = <<"read">>
  /\ Head(<<"read">>) = "read" /\ Tail(<<"read">>) = <<>>
BY DEF ExportSteps

\* The empty generation and the absent job are well typed.
LEMMA EmptyTyped ==
  /\ Empty \in Generation /\ NoJob \in Job
  /\ NoJob.process = NoProcess /\ NoJob.kind = "none" /\ NoJob.steps = <<>> /\ NoJob.ok
BY CertificateAssumption DEF Empty, Generation, NoJob, Job, Remaining, Certificates

\* What a job has still to do tells how far it has come.
LEMMA StepsDiffer ==
  /\ OpenSteps # Retaining /\ OpenSteps # Committing /\ OpenSteps # Pruning /\ OpenSteps # <<>>
  /\ Retaining # Committing /\ Retaining # Pruning /\ Retaining # <<>>
  /\ Committing # Pruning /\ Committing # <<>> /\ Pruning # <<>>
  /\ ExportSteps # <<>> /\ <<"read">> # <<>>
  /\ PublishSteps # Syncing /\ PublishSteps # Exporting /\ PublishSteps # Resyncing
  /\ PublishSteps # Renaming /\ PublishSteps # Confirming /\ PublishSteps # Pruning /\ PublishSteps # <<>>
  /\ Syncing # Exporting /\ Syncing # Resyncing /\ Syncing # Renaming /\ Syncing # Confirming
  /\ Syncing # Pruning /\ Syncing # <<>>
  /\ Exporting # Resyncing /\ Exporting # Renaming /\ Exporting # Confirming /\ Exporting # Pruning
  /\ Exporting # <<>>
  /\ Resyncing # Renaming /\ Resyncing # Confirming /\ Resyncing # Pruning /\ Resyncing # <<>>
  /\ Renaming # Confirming /\ Renaming # Pruning /\ Renaming # <<>>
  /\ Confirming # Pruning /\ Confirming # <<>>
BY DEF OpenSteps, Retaining, Committing, Pruning, PublishSteps, Syncing, Exporting, Resyncing,
       Renaming, Confirming, ExportSteps

(***************************************************************************)
(* What each step does to the files, field by field.                       *)
(***************************************************************************)
LEMMA SeenFields ==
  ASSUME seen \in Files, NEW g \in Generation
  PROVE  /\ \A step \in {"recover", "sync_committed", "sync_generations", "export", "sync_manifest",
                         "read"} :
              /\ Seen(step, g).manifest = seen.manifest /\ Seen(step, g).blobs = seen.blobs
              /\ Seen(step, g) \in Files
         /\ \A step \in {"sync_committed", "sync_generations", "sync_manifest", "read"} :
              Seen(step, g) = seen
         /\ /\ Seen("retain", g).manifest = Readable(seen)
            /\ Seen("retain", g).blobs = seen.blobs /\ Seen("retain", g) \in Files
         /\ /\ Seen("prune", g).manifest = seen.manifest
            /\ Seen("prune", g).blobs = seen.blobs \cap Named(seen) /\ Seen("prune", g) \in Files
         /\ /\ Seen("blob", g).manifest = seen.manifest
            /\ Seen("blob", g).blobs = (seen.blobs \cap Named(seen)) \cup {g}
            /\ Seen("blob", g) \in Files
         /\ /\ Seen("manifest", g).manifest = PublishedManifest(g)
            /\ Seen("manifest", g).blobs = seen.blobs /\ Seen("manifest", g) \in Files
<1> USE DEF Files
<1>1. Named(seen) \subseteq Generation /\ Readable(seen) \in Manifest
  BY NamedCases, RetainTyped DEF Readable
<1>2. PublishedManifest(g) \in Manifest
  <2> DEFINE previous == Retain(seen.manifest, seen.blobs \ {g})
  <2>1. previous \in Manifest
    BY RetainTyped
  <2>2. previous # <<>> => Head(previous) \in Generation
    BY <2>1 DEF Manifest
  <2>3. \A x \in Generation : <<g>> \in Manifest /\ <<g, x>> \in Manifest
    BY DEF Manifest
  <2> HIDE DEF previous
  <2> QED
    BY <2>2, <2>3 DEF PublishedManifest, previous
<1>3. /\ Seen("recover", g).manifest = seen.manifest /\ Seen("recover", g).blobs = seen.blobs
      /\ Seen("recover", g) \in Files
  BY <1>1 DEF Seen
<1>4. \A step \in {"sync_committed", "sync_generations", "sync_manifest", "read"} :
        Seen(step, g) = seen
  BY DEF Seen
<1>5. /\ Seen("export", g).manifest = seen.manifest /\ Seen("export", g).blobs = seen.blobs
      /\ Seen("export", g) \in Files
  BY DEF Seen
<1>6. /\ Seen("retain", g).manifest = Readable(seen)
      /\ Seen("retain", g).blobs = seen.blobs /\ Seen("retain", g) \in Files
  BY <1>1 DEF Seen
<1>7. /\ Seen("prune", g).manifest = seen.manifest
      /\ Seen("prune", g).blobs = seen.blobs \cap Named(seen) /\ Seen("prune", g) \in Files
  BY DEF Seen, Pruned
<1>8. /\ Seen("blob", g).manifest = seen.manifest
      /\ Seen("blob", g).blobs = (seen.blobs \cap Named(seen)) \cup {g}
      /\ Seen("blob", g) \in Files
  BY DEF Seen, Pruned
<1>9. /\ Seen("manifest", g).manifest = PublishedManifest(g)
      /\ Seen("manifest", g).blobs = seen.blobs /\ Seen("manifest", g) \in Files
  BY <1>2 DEF Seen
<1> QED
  BY <1>3, <1>4, <1>5, <1>6, <1>7, <1>8, <1>9

\* What each step of a job leaves on the disk for certain.
LEMMA DiskFields ==
  ASSUME seen \in Files, disk \in Files
  PROVE  /\ \A step \in {"recover", "sync_generations"} :
              /\ Disk(step).manifest = disk.manifest /\ Disk(step).blobs = seen.blobs
              /\ Disk(step) \in Files
         /\ \A step \in {"retain", "export", "manifest", "read"} : Disk(step) = disk
         /\ \A step \in {"prune", "blob"} :
              /\ Disk(step).manifest = disk.manifest
              /\ Disk(step).blobs = disk.blobs \cap Named(seen) /\ Disk(step) \in Files
         /\ Disk("sync_committed") = seen
         /\ /\ Disk("sync_manifest").manifest = seen.manifest
            /\ Disk("sync_manifest").blobs = disk.blobs /\ Disk("sync_manifest") \in Files
<1>1. Empty \in Generation
  BY CertificateAssumption DEF Empty, Generation
<1>2. ASSUME NEW step \in {"recover", "sync_generations"}
      PROVE  /\ Disk(step).manifest = disk.manifest /\ Disk(step).blobs = seen.blobs
             /\ Disk(step) \in Files
  <2>1. /\ Seen(step, Empty).blobs = seen.blobs /\ Seen(step, Empty) \in Files
    BY <1>1, SeenFields
  <2>2. Disk(step) = [disk EXCEPT !.blobs = Seen(step, Empty).blobs, !.exports = Seen(step, Empty).exports]
    BY DEF Disk
  <2> QED
    BY <2>1, <2>2 DEF Files
<1>3. \A step \in {"retain", "export", "manifest", "read"} : Disk(step) = disk
  BY DEF Disk
<1>4. ASSUME NEW step \in {"prune", "blob"}
      PROVE  /\ Disk(step).manifest = disk.manifest
             /\ Disk(step).blobs = disk.blobs \cap Named(seen) /\ Disk(step) \in Files
  BY DEF Disk, Pruned, Files
<1>5. Disk("sync_committed") = seen
  BY DEF Disk
<1>6. /\ Disk("sync_manifest").manifest = seen.manifest
      /\ Disk("sync_manifest").blobs = disk.blobs /\ Disk("sync_manifest") \in Files
  BY DEF Disk, Files
<1> QED
  BY <1>2, <1>3, <1>4, <1>5, <1>6

(***************************************************************************)
(* The manifest that a publication writes, and what a load finds.          *)
(***************************************************************************)
LEMMA PublishedCases ==
  ASSUME seen \in Files, NEW g \in Generation
  PROVE  \/ PublishedManifest(g) = <<g>>
         \/ \E x \in (Named(seen) \cap seen.blobs) \ {g} : PublishedManifest(g) = <<g, x>>
<1> DEFINE m == seen.manifest
           previous == Retain(m, seen.blobs \ {g})
<1>1. m \in Manifest
  BY DEF Files
<1>2. previous # <<>> => Head(previous) \in (Named(seen) \cap seen.blobs) \ {g}
  <2>1. CASE Len(m) = 0
    BY <1>1, <2>1, RetainCases
  <2>2. CASE Len(m) = 1
    BY <1>1, <2>2, RetainCases, NamedCases
  <2>3. CASE Len(m) = 2
    <3>1. Named(seen) = {m[1], m[2]}
      BY <2>3, NamedCases
    <3> QED
      BY <1>1, <2>3, <3>1, RetainCases
  <2> QED
    BY <1>1, <2>1, <2>2, <2>3, RetainCases
<1> HIDE DEF previous
<1> QED
  BY <1>2 DEF PublishedManifest, previous

\* What Store::load yields: nothing from no manifest, or the first readable
\* generation.
LEMMA LoadCases ==
  ASSUME NEW files \in Files, CanLoad(files)
  PROVE  /\ Load(files) \in Generation
         /\ files.manifest = <<>> => Load(files) = Empty
         /\ files.manifest # <<>> => Load(files) \in Named(files) \cap files.blobs
         /\ files.manifest # <<>> /\ files.manifest[1] \in files.blobs => Load(files) = files.manifest[1]
<1> DEFINE m == files.manifest
<1>1. m \in Manifest /\ Readable(files) = Retain(m, files.blobs)
  BY DEF Files, Readable
<1>2. CASE Len(m) = 0
  BY <1>1, <1>2, RetainCases, EmptyTyped DEF Load
<1>3. CASE Len(m) = 1
  <2>1. m # <<>> /\ Readable(files) = <<m[1]>> /\ m[1] \in files.blobs
    BY <1>1, <1>3, RetainCases DEF CanLoad
  <2> QED
    BY <1>1, <1>3, <2>1, RetainCases, NamedCases DEF Load
<1>4. CASE Len(m) = 2 /\ m[1] \in files.blobs
  <2>1. m # <<>> /\ Head(Readable(files)) = m[1] /\ Load(files) = Head(Readable(files))
    BY <1>1, <1>4, RetainCases DEF Load
  <2>2. m[1] \in Generation /\ m[1] \in Named(files)
    BY <1>1, <1>4, RetainCases, NamedCases
  <2> QED
    BY <1>4, <2>1, <2>2
<1>5. CASE Len(m) = 2 /\ m[1] \notin files.blobs
  <2>1. m # <<>> /\ Readable(files) = <<m[2]>> /\ m[2] \in files.blobs
    BY <1>1, <1>5, RetainCases DEF CanLoad
  <2>2. m[2] \in Generation /\ m[2] \in Named(files)
    BY <1>1, <1>5, RetainCases, NamedCases
  <2> QED
    BY <1>5, <2>1, <2>2 DEF Load
<1> QED
  BY <1>1, <1>2, <1>3, <1>4, <1>5, RetainCases

\* A snapshot that is read without the lock is a certificate.
LEMMA SnapshotTyped ==
  ASSUME seen \in Files
  PROVE  ReadSnapshot \in Certificates
<1>1. Exports(seen) \in Manifest
  BY RetainTyped DEF Exports, Files
<1>2. Exports(seen) # <<>> => Head(Exports(seen)) \in Generation
  BY <1>1 DEF Manifest
<1> QED
  BY <1>2, CertificateAssumption DEF ReadSnapshot, Generation, Certificates

(***************************************************************************)
(* A step of a job keeps the job in its order.                             *)
(***************************************************************************)
LEMMA JobAdvances ==
  ASSUME StoreTypes, JobInv, JobStep
  PROVE  /\ job' \in Job /\ JobInv'
         /\ job'.process = job.process /\ job'.kind = job.kind /\ job'.generation = job.generation
         /\ job'.ok /\ job.ok /\ job'.steps = Tail(job.steps) /\ job.kind # "none"
         /\ job'.awaited = job.awaited
         /\ job' # NoJob /\ job # NoJob
<1> USE EmptyTyped
<1>1. job \in Job /\ job.steps # <<>> /\ job # NoJob /\ job.ok /\ job.kind # "none"
  BY DEF StoreTypes, JobInv, JobStep
<1>2. /\ job' = [job EXCEPT !.steps = Tail(@),
                            !.found = IF Head(job.steps) = "read" THEN ReadSnapshot ELSE 0]
  BY DEF JobStep
<1>3. ReadSnapshot \in Certificates /\ 0 \in Certificates
  BY SnapshotTyped, CertificateAssumption DEF StoreTypes, Certificates
<1>4. /\ job'.process = job.process /\ job'.kind = job.kind /\ job'.generation = job.generation
      /\ job'.ok = job.ok /\ job'.steps = Tail(job.steps) /\ job'.awaited = job.awaited
  BY <1>1, <1>2 DEF Job
<1>5. job.kind \in {"open", "export"} \cup Publishing
  BY <1>1 DEF Job
<1>6. /\ job.kind = "open" => job'.steps \in {Retaining, Committing, Pruning, <<>>}
      /\ job.kind = "export" => job'.steps \in {<<"read">>, <<>>}
      /\ job.kind \in Publishing =>
           job'.steps \in {Syncing, Exporting, Resyncing, Renaming, Confirming, Pruning, <<>>}
  <2>1. ASSUME job.kind = "open" PROVE job'.steps \in {Retaining, Committing, Pruning, <<>>}
    <3>1. job.steps \in {OpenSteps, Retaining, Committing, Pruning}
      BY <1>1, <2>1 DEF JobInv
    <3> QED
      BY <1>4, <3>1, OpenOrder
  <2>2. ASSUME job.kind = "export" PROVE job'.steps \in {<<"read">>, <<>>}
    <3>1. job.steps \in {ExportSteps, <<"read">>}
      BY <1>1, <2>2 DEF JobInv
    <3> QED
      BY <1>4, <3>1, ExportOrder
  <2>3. ASSUME job.kind \in Publishing
        PROVE  job'.steps \in {Syncing, Exporting, Resyncing, Renaming, Confirming, Pruning, <<>>}
    <3>1. job.steps \in {PublishSteps, Syncing, Exporting, Resyncing, Renaming, Confirming, Pruning}
      BY <1>1, <2>3 DEF JobInv
    <3>2. CASE job.steps \in {PublishSteps, Syncing, Exporting}
      BY <1>4, <3>2, PublishOrder
    <3>3. CASE job.steps \in {Resyncing, Renaming}
      BY <1>4, <3>3, PublishOrder
    <3>4. CASE job.steps = Confirming
      BY <1>4, <3>4, PublishOrder
    <3>5. CASE job.steps = Pruning
      BY <1>4, <3>5, PublishOrder
    <3> QED
      BY <3>1, <3>2, <3>3, <3>4, <3>5
  <2> QED
    BY <2>1, <2>2, <2>3
<1>7. Tail(job.steps) \in Remaining
  BY <1>4, <1>5, <1>6 DEF Remaining
<1>8. job' \in Job
  BY <1>1, <1>2, <1>3, <1>7 DEF Job
<1>9. job'.process # NoProcess /\ job' # NoJob
  BY <1>1, <1>4 DEF JobInv
<1>10. JobInv'
  BY <1>1, <1>4, <1>5, <1>6, <1>9 DEF JobInv, Publishing
<1> QED
  BY <1>1, <1>4, <1>8, <1>9, <1>10

(***************************************************************************)
(* Every step of a job keeps what the store owes, whether it is the last   *)
(* one that happens or not.                                                *)
(***************************************************************************)
LEMMA JobStepKept ==
  ASSUME StoreInv, JobStep
  PROVE  StoreInv'
<1> DEFINE g == job.generation
           m == seen.manifest
           d == disk.manifest
           step == Head(job.steps)
<1>1. /\ StoreTypes /\ JobInv /\ DurableInv /\ PublishInv /\ OpenInv /\ QuietInv
      /\ seen \in Files /\ disk \in Files /\ g \in Generation
      /\ m \in Manifest /\ d \in Manifest
      /\ seen' = Seen(step, g) /\ disk' = Disk(step)
      /\ failed' = failed
  BY DEF StoreInv, StoreTypes, Job, Files, JobStep
<1>2. /\ job' \in Job /\ JobInv' /\ job'.kind = job.kind /\ job'.generation = g
      /\ job'.ok /\ job.ok /\ job'.steps = Tail(job.steps) /\ job.kind # "none"
  BY <1>1, JobAdvances
<1>3. /\ Len(m) \in 0..2 /\ (m = <<>> <=> Len(m) = 0) /\ DOMAIN m = 1..Len(m)
      /\ Len(d) \in 0..2 /\ (d = <<>> <=> Len(d) = 0) /\ DOMAIN d = 1..Len(d)
  BY <1>1, RetainCases, LenProperties DEF Manifest
<1>4. ASSUME job'.steps # <<>>
      PROVE  UNCHANGED <<acked, doubt, past>>
  BY <1>2, <1>4 DEF JobStep
<1>5. ASSUME job'.steps = <<>>
      PROVE  Settle(job.kind, g)
  BY <1>2, <1>5 DEF JobStep
<1> DEFINE Same == UNCHANGED <<acked, doubt, past>>
           Fields(sm, sb, dm, db) ==
             /\ seen'.manifest = sm /\ seen'.blobs = sb /\ disk'.manifest = dm /\ disk'.blobs = db
             /\ seen' \in Files /\ disk' \in Files
<1>10. CASE job.kind = "open" /\ job.steps = OpenSteps
  <2>0. seen' = Seen("recover", g) /\ disk' = Disk("recover")
    BY <1>1, <1>10, OpenOrder
  <2>1. job'.steps = Retaining
    BY <1>2, <1>10, OpenOrder
  <2>2. Fields(m, seen.blobs, d, seen.blobs)
    BY <1>1, <2>0, SeenFields, DiskFields
  <2>3. Same
    BY <1>4, <2>1, StepsDiffer
  <2>4. DurableInv'
    BY <1>1, <1>2, <1>3, <1>10, <2>1, <2>2, <2>3, StepsDiffer DEF DurableInv, Holds, Traced, Owed,
       Certain, Possible
  <2>5. PublishInv'
    BY <1>1, <1>2, <1>3, <1>10, <2>1, <2>2, <2>3, StepsDiffer DEF PublishInv, Synced, Leads, Publishing
  <2>6. OpenInv'
    BY <1>1, <1>2, <1>3, <1>10, <2>1, <2>2, <2>3, StepsDiffer DEF OpenInv, Synced, Publishing, Named
  <2>7. QuietInv'
    BY <1>1, <1>2, <1>3, <1>10, <2>1, <2>2, <2>3, StepsDiffer DEF QuietInv, Synced, Named
  <2>8. StoreTypes'
    BY <1>1, <1>2, <2>2, <2>3 DEF StoreTypes
  <2> QED
    BY <1>2, <2>4, <2>5, <2>6, <2>7, <2>8 DEF StoreInv
<1>11. CASE job.kind = "open" /\ job.steps = Retaining
  <2>0. seen' = Seen("retain", g) /\ disk' = Disk("retain")
    BY <1>1, <1>11, OpenOrder
  <2>1. job'.steps = Committing
    BY <1>2, <1>11, OpenOrder
  <2>2. Fields(Readable(seen), seen.blobs, d, disk.blobs)
    BY <1>1, <2>0, SeenFields, DiskFields
  <2>3. Same
    BY <1>4, <2>1, StepsDiffer
  <2>9. /\ disk.blobs = seen.blobs /\ Readable(seen) = Retain(m, seen.blobs)
        /\ Named(seen)' \subseteq seen.blobs
        /\ Len(Readable(seen)) = 2 => Len(m) = 2 /\ Readable(seen) = m
    <3>1. disk.blobs = seen.blobs /\ Readable(seen) = Retain(m, seen.blobs)
      BY <1>1, <1>11 DEF OpenInv, Readable
    <3>2. CASE Len(m) = 0
      BY <1>1, <2>2, <3>1, <3>2, RetainCases DEF Named
    <3>3. CASE Len(m) = 1
      BY <1>1, <2>2, <3>1, <3>3, RetainCases, SMTT(30) DEF Named
    <3>4. CASE Len(m) = 2
      BY <1>1, <2>2, <3>1, <3>4, RetainCases DEF Named
    <3> QED
      BY <1>3, <3>1, <3>2, <3>3, <3>4
  <2>4. DurableInv'
    <3>0. CASE Len(m) = 0
      BY <1>1, <1>2, <1>3, <1>11, <2>1, <2>2, <2>3, <2>9, <3>0, StepsDiffer, RetainCases
         DEF DurableInv, Holds, Traced, Owed, Certain, Possible
    <3>1. CASE Len(m) = 1
      BY <1>1, <1>2, <1>3, <1>11, <2>1, <2>2, <2>3, <2>9, <3>1, StepsDiffer, RetainCases
         DEF DurableInv, Holds, Traced, Owed, Certain, Possible
    <3>2. CASE Len(m) = 2
      <4>1. CASE m[1] \in seen.blobs /\ m[2] \in seen.blobs
        <5>1. seen'.manifest = <<m[1], m[2]>>
          BY <1>1, <2>2, <2>9, <3>2, <4>1, RetainCases DEF DurableInv, Holds, Certain
        <5>2. Len(seen'.manifest) = 2 /\ seen'.manifest # <<>> /\ seen'.manifest[1] = m[1] /\ seen'.manifest[2] = m[2]
          BY <5>1
        <5> QED
          BY <1>1, <1>3, <2>2, <2>3, <2>9, <3>2, <4>1, <5>2 DEF DurableInv, Holds, Traced, Owed,
             Certain, Possible
      <4>2. CASE m[1] \in seen.blobs /\ m[2] \notin seen.blobs
        <5>1. seen'.manifest = <<m[1]>>
          BY <1>1, <2>2, <2>9, <3>2, <4>2, RetainCases DEF DurableInv, Holds, Certain
        <5>2. Len(seen'.manifest) = 1 /\ seen'.manifest # <<>> /\ seen'.manifest[1] = m[1]
          BY <5>1
        <5> QED
          BY <1>1, <1>3, <2>2, <2>3, <2>9, <3>2, <4>2, <5>2 DEF DurableInv, Holds, Traced, Owed,
             Certain, Possible
      <4>3. CASE m[1] \notin seen.blobs
        <5>1. seen'.manifest = <<m[2]>>
          BY <1>1, <2>2, <2>9, <3>2, <4>3, RetainCases DEF DurableInv, Holds, Certain
        <5>2. m[2] \in Certain \cap Owed /\ m[2] \in past
          BY <1>1, <1>3, <2>9, <3>2, <4>3 DEF DurableInv, Holds, Traced, Certain
        <5>3. Len(seen'.manifest) = 1 /\ seen'.manifest[1] = m[2] /\ seen'.manifest # <<>>
          BY <5>1
        <5> QED
          BY <1>1, <1>3, <2>2, <2>3, <2>9, <3>2, <4>3, <5>2, <5>3 DEF DurableInv, Holds, Traced,
             Owed, Certain, Possible
      <4> QED
        BY <4>1, <4>2, <4>3
    <3> QED
      BY <1>3, <3>0, <3>1, <3>2
  <2>5. PublishInv'
    BY <1>1, <1>2, <1>3, <1>11, <2>1, <2>2, <2>3, StepsDiffer DEF PublishInv, Synced, Leads, Publishing
  <2>6. OpenInv'
    BY <1>1, <1>2, <1>3, <1>11, <2>1, <2>2, <2>3, StepsDiffer, <2>9 DEF OpenInv, Publishing
  <2>7. QuietInv'
    BY <1>1, <1>2, <1>3, <1>11, <2>1, <2>2, <2>3, StepsDiffer, <2>9 DEF QuietInv, Synced
  <2>8. StoreTypes'
    BY <1>1, <1>2, <2>2, <2>3 DEF StoreTypes
  <2> QED
    BY <1>2, <2>4, <2>5, <2>6, <2>7, <2>8 DEF StoreInv
<1>12. CASE job.kind = "open" /\ job.steps = Committing
  <2>0. seen' = Seen("sync_committed", g) /\ disk' = Disk("sync_committed")
    BY <1>1, <1>12, OpenOrder
  <2>1. job'.steps = Pruning
    BY <1>2, <1>12, OpenOrder
  <2>2. Fields(m, seen.blobs, m, seen.blobs)
    BY <1>1, <2>0, SeenFields, DiskFields
  <2>3. Same
    BY <1>4, <2>1, StepsDiffer
  <2>9. Named(seen)' = Named(seen)
    BY <2>2 DEF Named
  <2>4. DurableInv'
    BY <1>1, <1>2, <1>3, <1>12, <2>1, <2>2, <2>3, StepsDiffer DEF DurableInv, Holds, Traced, Owed,
       Certain, Possible
  <2>5. PublishInv'
    BY <1>1, <1>2, <1>3, <1>12, <2>1, <2>2, <2>3, StepsDiffer DEF PublishInv, Synced, Leads, Publishing
  <2>6. OpenInv'
    BY <1>1, <1>2, <1>3, <1>12, <2>1, <2>2, <2>3, StepsDiffer, <2>9 DEF OpenInv, Synced, Publishing
  <2>7. QuietInv'
    BY <1>1, <1>2, <1>3, <1>12, <2>1, <2>2, <2>3, StepsDiffer DEF QuietInv, Synced, Named
  <2>8. StoreTypes'
    BY <1>1, <1>2, <2>2, <2>3 DEF StoreTypes
  <2> QED
    BY <1>2, <2>4, <2>5, <2>6, <2>7, <2>8 DEF StoreInv
<1>13. CASE job.kind = "open" /\ job.steps = Pruning
  <2>0. seen' = Seen("prune", g) /\ disk' = Disk("prune")
    BY <1>1, <1>13, OpenOrder
  <2>1. job'.steps = <<>>
    BY <1>2, <1>13, OpenOrder
  <2>2. Fields(m, seen.blobs \cap Named(seen), d, disk.blobs \cap Named(seen))
    BY <1>1, <2>0, SeenFields, DiskFields
  <2>3. acked' = Load(seen) /\ doubt' = {} /\ past' = past \cup {Load(seen)}
    BY <1>5, <1>13, <2>1 DEF Settle, Publishing
  <2>9. /\ Named(seen) \subseteq seen.blobs /\ disk.blobs = seen.blobs /\ d = m
        /\ Load(seen) \in Generation /\ (m = <<>> => Load(seen) = Empty) /\ (m # <<>> => Load(seen) = m[1])
        /\ m # <<>> => m[1] \in Named(seen)
    <3>1. Named(seen) \subseteq seen.blobs /\ disk.blobs = seen.blobs /\ d = m
      BY <1>1, <1>13 DEF OpenInv, Synced
    <3>2. CanLoad(seen)
      BY <1>1, HoldingLoads DEF DurableInv, Certain, Possible
    <3>3. m # <<>> => m[1] \in Named(seen)
      BY <1>3 DEF Named
    <3> QED
      BY <1>1, <3>1, <3>2, <3>3, LoadCases
  <2>4. DurableInv'
    BY <1>1, <1>2, <1>3, <1>13, <2>1, <2>2, <2>3, StepsDiffer, <2>9 DEF DurableInv, Holds, Traced,
       Owed, Certain, Possible
  <2>5. PublishInv'
    BY <1>1, <1>2, <1>3, <1>13, <2>1, <2>2, <2>3, StepsDiffer DEF PublishInv, Publishing
  <2>6. OpenInv'
    BY <1>1, <1>2, <1>3, <1>13, <2>1, <2>2, <2>3, StepsDiffer, <2>9 DEF OpenInv, Synced, Publishing
  <2>7. QuietInv'
    BY <1>1, <1>2, <1>3, <1>13, <2>1, <2>2, <2>3, StepsDiffer, <2>9 DEF QuietInv, Synced, Named
  <2>8. StoreTypes'
    BY <1>1, <1>2, <2>2, <2>3, <2>9 DEF StoreTypes
  <2> QED
    BY <1>2, <2>4, <2>5, <2>6, <2>7, <2>8 DEF StoreInv
<1>14. CASE job.kind = "export" /\ job.steps = ExportSteps
  <2>0. seen' = Seen("sync_committed", g) /\ disk' = Disk("sync_committed")
    BY <1>1, <1>14, ExportOrder
  <2>1. job'.steps = <<"read">>
    BY <1>2, <1>14, ExportOrder
  <2>2. Fields(m, seen.blobs, m, seen.blobs)
    BY <1>1, <2>0, SeenFields, DiskFields
  <2>3. Same
    BY <1>4, <2>1, StepsDiffer
  <2>4. DurableInv'
    BY <1>1, <1>2, <1>3, <1>14, <2>1, <2>2, <2>3, StepsDiffer DEF DurableInv, Holds, Traced, Owed,
       Certain, Possible
  <2>5. PublishInv'
    BY <1>1, <1>2, <1>3, <1>14, <2>1, <2>2, <2>3, StepsDiffer DEF PublishInv, Synced, Leads, Publishing
  <2>6. OpenInv'
    BY <1>1, <1>2, <1>3, <1>14, <2>1, <2>2, <2>3, StepsDiffer DEF OpenInv, Synced, Publishing, Named
  <2>7. QuietInv'
    BY <1>1, <1>2, <1>3, <1>14, <2>1, <2>2, <2>3, StepsDiffer DEF QuietInv, Synced, Named
  <2>8. StoreTypes'
    BY <1>1, <1>2, <2>2, <2>3 DEF StoreTypes
  <2> QED
    BY <1>2, <2>4, <2>5, <2>6, <2>7, <2>8 DEF StoreInv
<1>15. CASE job.kind = "export" /\ job.steps = <<"read">>
  <2>0. seen' = Seen("read", g) /\ disk' = Disk("read")
    BY <1>1, <1>15, ExportOrder
  <2>1. job'.steps = <<>>
    BY <1>2, <1>15, ExportOrder
  <2>2. Fields(m, seen.blobs, d, disk.blobs)
    BY <1>1, <2>0, SeenFields, DiskFields
  <2>3. Same
    BY <1>5, <1>15, <2>1 DEF Settle, Publishing
  <2>4. DurableInv'
    BY <1>1, <1>2, <1>3, <1>15, <2>1, <2>2, <2>3, StepsDiffer DEF DurableInv, Holds, Traced, Owed,
       Certain, Possible
  <2>5. PublishInv'
    BY <1>1, <1>2, <1>3, <1>15, <2>1, <2>2, <2>3, StepsDiffer DEF PublishInv, Synced, Leads, Publishing
  <2>6. OpenInv'
    BY <1>1, <1>2, <1>3, <1>15, <2>1, <2>2, <2>3, StepsDiffer DEF OpenInv, Synced, Publishing, Named
  <2>7. QuietInv'
    BY <1>1, <1>2, <1>3, <1>15, <2>1, <2>2, <2>3, StepsDiffer DEF QuietInv, Synced, Named
  <2>8. StoreTypes'
    BY <1>1, <1>2, <2>2, <2>3 DEF StoreTypes
  <2> QED
    BY <1>2, <2>4, <2>5, <2>6, <2>7, <2>8 DEF StoreInv
<1>20. CASE job.kind \in Publishing /\ job.steps = PublishSteps
  <2>0. seen' = Seen("blob", g) /\ disk' = Disk("blob")
    BY <1>1, <1>20, PublishOrder
  <2>1. job'.steps = Syncing
    BY <1>2, <1>20, PublishOrder
  <2>2. Fields(m, (seen.blobs \cap Named(seen)) \cup {g}, d, disk.blobs \cap Named(seen))
    BY <1>1, <2>0, SeenFields, DiskFields
  <2>3. Same
    BY <1>4, <2>1, StepsDiffer
  <2>4. DurableInv'
    BY <1>1, <1>2, <1>3, <1>20, <2>1, <2>2, <2>3, StepsDiffer, NamedCases DEF DurableInv, Holds,
       Traced, Owed, Certain, Possible, PublishInv, Synced
  <2>5. PublishInv'
    BY <1>1, <1>2, <1>3, <1>20, <2>1, <2>2, <2>3, StepsDiffer DEF PublishInv, Synced, Leads, Publishing
  <2>6. OpenInv'
    BY <1>1, <1>2, <1>3, <1>20, <2>1, <2>2, <2>3, StepsDiffer DEF OpenInv, Synced, Publishing, Named
  <2>7. QuietInv'
    BY <1>1, <1>2, <1>3, <1>20, <2>1, <2>2, <2>3, StepsDiffer DEF QuietInv, PublishInv
  <2>8. StoreTypes'
    BY <1>1, <1>2, <2>2, <2>3 DEF StoreTypes
  <2> QED
    BY <1>2, <2>4, <2>5, <2>6, <2>7, <2>8 DEF StoreInv
<1>21. CASE job.kind \in Publishing /\ job.steps = Syncing
  <2>0. seen' = Seen("sync_generations", g) /\ disk' = Disk("sync_generations")
    BY <1>1, <1>21, PublishOrder
  <2>1. job'.steps = Exporting
    BY <1>2, <1>21, PublishOrder
  <2>2. Fields(m, seen.blobs, d, seen.blobs)
    BY <1>1, <2>0, SeenFields, DiskFields
  <2>3. Same
    BY <1>4, <2>1, StepsDiffer
  <2>4. DurableInv'
    BY <1>1, <1>2, <1>3, <1>21, <2>1, <2>2, <2>3, StepsDiffer DEF DurableInv, Holds, Traced, Owed,
       Certain, Possible
  <2>5. PublishInv'
    BY <1>1, <1>2, <1>3, <1>21, <2>1, <2>2, <2>3, StepsDiffer DEF PublishInv, Synced, Leads, Publishing
  <2>6. OpenInv'
    BY <1>1, <1>2, <1>3, <1>21, <2>1, <2>2, <2>3, StepsDiffer DEF OpenInv, Synced, Publishing, Named
  <2>7. QuietInv'
    BY <1>1, <1>2, <1>3, <1>21, <2>1, <2>2, <2>3, StepsDiffer DEF QuietInv, PublishInv
  <2>8. StoreTypes'
    BY <1>1, <1>2, <2>2, <2>3 DEF StoreTypes
  <2> QED
    BY <1>2, <2>4, <2>5, <2>6, <2>7, <2>8 DEF StoreInv
<1>22. CASE job.kind \in Publishing /\ job.steps = Exporting
  <2>0. seen' = Seen("export", g) /\ disk' = Disk("export")
    BY <1>1, <1>22, PublishOrder
  <2>1. job'.steps = Resyncing
    BY <1>2, <1>22, PublishOrder
  <2>2. Fields(m, seen.blobs, d, disk.blobs)
    BY <1>1, <2>0, SeenFields, DiskFields
  <2>3. Same
    BY <1>4, <2>1, StepsDiffer
  <2>4. DurableInv'
    BY <1>1, <1>2, <1>3, <1>22, <2>1, <2>2, <2>3, StepsDiffer DEF DurableInv, Holds, Traced, Owed,
       Certain, Possible
  <2>5. PublishInv'
    BY <1>1, <1>2, <1>3, <1>22, <2>1, <2>2, <2>3, StepsDiffer DEF PublishInv, Synced, Leads, Publishing
  <2>6. OpenInv'
    BY <1>1, <1>2, <1>3, <1>22, <2>1, <2>2, <2>3, StepsDiffer DEF OpenInv, Synced, Publishing, Named
  <2>7. QuietInv'
    BY <1>1, <1>2, <1>3, <1>22, <2>1, <2>2, <2>3, StepsDiffer DEF QuietInv, PublishInv
  <2>8. StoreTypes'
    BY <1>1, <1>2, <2>2, <2>3 DEF StoreTypes
  <2> QED
    BY <1>2, <2>4, <2>5, <2>6, <2>7, <2>8 DEF StoreInv
<1>23. CASE job.kind \in Publishing /\ job.steps = Resyncing
  <2>0. seen' = Seen("sync_generations", g) /\ disk' = Disk("sync_generations")
    BY <1>1, <1>23, PublishOrder
  <2>1. job'.steps = Renaming
    BY <1>2, <1>23, PublishOrder
  <2>2. Fields(m, seen.blobs, d, seen.blobs)
    BY <1>1, <2>0, SeenFields, DiskFields
  <2>3. Same
    BY <1>4, <2>1, StepsDiffer
  <2>4. DurableInv'
    BY <1>1, <1>2, <1>3, <1>23, <2>1, <2>2, <2>3, StepsDiffer DEF DurableInv, Holds, Traced, Owed,
       Certain, Possible
  <2>5. PublishInv'
    BY <1>1, <1>2, <1>3, <1>23, <2>1, <2>2, <2>3, StepsDiffer DEF PublishInv, Synced, Leads, Publishing
  <2>6. OpenInv'
    BY <1>1, <1>2, <1>3, <1>23, <2>1, <2>2, <2>3, StepsDiffer DEF OpenInv, Synced, Publishing, Named
  <2>7. QuietInv'
    BY <1>1, <1>2, <1>3, <1>23, <2>1, <2>2, <2>3, StepsDiffer DEF QuietInv, PublishInv
  <2>8. StoreTypes'
    BY <1>1, <1>2, <2>2, <2>3 DEF StoreTypes
  <2> QED
    BY <1>2, <2>4, <2>5, <2>6, <2>7, <2>8 DEF StoreInv
<1>24. CASE job.kind \in Publishing /\ job.steps = Renaming
  <2>0. seen' = Seen("manifest", g) /\ disk' = Disk("manifest")
    BY <1>1, <1>24, PublishOrder
  <2>1. job'.steps = Confirming
    BY <1>2, <1>24, PublishOrder
  <2>2. Fields(PublishedManifest(g), seen.blobs, d, disk.blobs)
    BY <1>1, <2>0, SeenFields, DiskFields
  <2>3. Same
    BY <1>4, <2>1, StepsDiffer
  <2>9. /\ disk.blobs = seen.blobs /\ g \in seen.blobs /\ doubt = {g} /\ d = m
        /\ Len(seen'.manifest) \in 1..2 /\ seen'.manifest[1] = g /\ seen'.manifest # <<>>
        /\ DOMAIN seen'.manifest = 1..Len(seen'.manifest)
        /\ Len(seen'.manifest) = 2 => \E i \in DOMAIN m : seen'.manifest[2] = m[i] /\ m[i] # g
    <3>1. disk.blobs = seen.blobs /\ g \in seen.blobs /\ doubt = {g} /\ d = m
      BY <1>1, <1>24, StepsDiffer DEF PublishInv, Synced
    <3>2. CASE seen'.manifest = <<g>>
      BY <3>1, <3>2
    <3>3. CASE \E x \in (Named(seen) \cap seen.blobs) \ {g} : seen'.manifest = <<g, x>>
      <4>1. PICK x \in (Named(seen) \cap seen.blobs) \ {g} : seen'.manifest = <<g, x>>
        BY <3>3
      <4>2. PICK i \in DOMAIN m : x = m[i]
        BY <4>1 DEF Named
      <4> QED
        BY <3>1, <4>1, <4>2
    <3> QED
      BY <1>1, <2>2, <3>2, <3>3, PublishedCases
  <2>4. DurableInv'
    BY <1>1, <1>2, <1>3, <1>24, <2>1, <2>2, <2>3, StepsDiffer, <2>9 DEF DurableInv, Holds, Traced,
       Owed, Certain, Possible
  <2>5. PublishInv'
    BY <1>1, <1>2, <1>3, <1>24, <2>1, <2>2, <2>3, StepsDiffer, <2>9 DEF PublishInv, Synced, Leads,
       Publishing
  <2>6. OpenInv'
    BY <1>1, <1>2, <1>3, <1>24, <2>1, <2>2, <2>3, StepsDiffer DEF OpenInv, Synced, Publishing, Named
  <2>7. QuietInv'
    BY <1>1, <1>2, <1>3, <1>24, <2>1, <2>2, <2>3, StepsDiffer, <2>9 DEF QuietInv
  <2>8. StoreTypes'
    BY <1>1, <1>2, <2>2, <2>3 DEF StoreTypes
  <2> QED
    BY <1>2, <2>4, <2>5, <2>6, <2>7, <2>8 DEF StoreInv
<1>25. CASE job.kind \in Publishing /\ job.steps = Confirming
  <2>0. seen' = Seen("sync_manifest", g) /\ disk' = Disk("sync_manifest")
    BY <1>1, <1>25, PublishOrder
  <2>1. job'.steps = Pruning
    BY <1>2, <1>25, PublishOrder
  <2>2. Fields(m, seen.blobs, m, disk.blobs)
    BY <1>1, <2>0, SeenFields, DiskFields
  <2>3. Same
    BY <1>4, <2>1, StepsDiffer
  <2>4. DurableInv'
    BY <1>1, <1>2, <1>3, <1>25, <2>1, <2>2, <2>3, StepsDiffer DEF DurableInv, Holds, Traced, Owed,
       Certain, Possible
  <2>5. PublishInv'
    BY <1>1, <1>2, <1>3, <1>25, <2>1, <2>2, <2>3, StepsDiffer DEF PublishInv, Synced, Leads, Publishing
  <2>6. OpenInv'
    BY <1>1, <1>2, <1>3, <1>25, <2>1, <2>2, <2>3, StepsDiffer DEF OpenInv, Synced, Publishing, Named
  <2>7. QuietInv'
    BY <1>1, <1>2, <1>3, <1>25, <2>1, <2>2, <2>3, StepsDiffer DEF QuietInv, PublishInv
  <2>8. StoreTypes'
    BY <1>1, <1>2, <2>2, <2>3 DEF StoreTypes
  <2> QED
    BY <1>2, <2>4, <2>5, <2>6, <2>7, <2>8 DEF StoreInv
<1>26. CASE job.kind \in Publishing /\ job.steps = Pruning
  <2>0. seen' = Seen("prune", g) /\ disk' = Disk("prune")
    BY <1>1, <1>26, PublishOrder
  <2>1. job'.steps = <<>>
    BY <1>2, <1>26, PublishOrder
  <2>2. Fields(m, seen.blobs \cap Named(seen), d, disk.blobs \cap Named(seen))
    BY <1>1, <2>0, SeenFields, DiskFields
  <2>3. acked' = g /\ doubt' = {} /\ past' = past \cup {g}
    BY <1>5, <1>26, <2>1 DEF Settle, Publishing
  <2>4. DurableInv'
    BY <1>1, <1>2, <1>3, <1>26, <2>1, <2>2, <2>3, StepsDiffer, NamedCases DEF DurableInv, Holds,
       Traced, Owed, Certain, Possible, PublishInv, Synced, Leads
  <2>5. PublishInv'
    BY <1>1, <1>2, <1>3, <1>26, <2>1, <2>2, <2>3, StepsDiffer DEF PublishInv, Synced, Leads, Publishing
  <2>6. OpenInv'
    BY <1>1, <1>2, <1>3, <1>26, <2>1, <2>2, <2>3, StepsDiffer DEF OpenInv, Synced, Publishing, Named
  <2>7. QuietInv'
    BY <1>1, <1>2, <1>3, <1>26, <2>1, <2>2, <2>3, StepsDiffer DEF QuietInv, PublishInv, Synced, Named
  <2>8. StoreTypes'
    BY <1>1, <1>2, <2>2, <2>3, EmptyTyped DEF StoreTypes
  <2> QED
    BY <1>2, <2>4, <2>5, <2>6, <2>7, <2>8 DEF StoreInv
<1>30. job.kind \in {"open", "export"} \cup Publishing /\ job.steps # <<>>
  BY <1>1, <1>2 DEF StoreTypes, Job, JobStep
<1> QED
  BY <1>1, <1>30, <1>10, <1>11, <1>12, <1>13, <1>14, <1>15, <1>20, <1>21, <1>22, <1>23, <1>24, <1>25,
     <1>26 DEF JobInv

(***************************************************************************)
(* What changes only the job.                                              *)
(***************************************************************************)
LEMMA FilesKept ==
  ASSUME StoreInv, UNCHANGED <<seen, disk, acked, doubt, past>>
  PROVE  /\ DurableInv' /\ QuietInv'
         /\ job' \in Job /\ failed' \in BOOLEAN => StoreTypes'
BY DEF StoreInv, StoreTypes, DurableInv, QuietInv, Holds, Traced, Owed, Certain, Possible, Synced, Named

\* A job starts from a settled store, unless it is the one that settles it.
LEMMA JobStarted ==
  ASSUME StoreInv, NEW p \in Processes, NEW kind, NEW steps, NEW g \in Generation,
         NEW awaited \in BOOLEAN, StartJob(p, kind, steps, g, awaited),
         \/ kind = "open" /\ steps = OpenSteps
         \/ kind = "export" /\ steps = ExportSteps
         \/ kind \in Publishing /\ steps = PublishSteps /\ doubt = {} /\ Synced
  PROVE  StoreInv'
<1>1. /\ job' = [process |-> p, kind |-> kind, steps |-> steps, generation |-> g, ok |-> TRUE,
                 awaited |-> awaited, found |-> 0]
      /\ doubt' = IF kind \in Publishing THEN {g} ELSE doubt
      /\ failed' = (failed /\ kind # "open")
      /\ UNCHANGED <<seen, disk, acked, past>>
  BY DEF StartJob, fileVars
<1>2. job' \in Job
  BY <1>1, CertificateAssumption DEF Job, Remaining, Publishing, Certificates
<1>3. job' # NoJob /\ job'.process # NoProcess
  BY <1>1, ProcessesAssumption, EmptyTyped
<1>4. JobInv'
  BY <1>1, <1>3, StepsDiffer DEF JobInv, Publishing
<1>5. StoreTypes'
  BY <1>1, <1>2 DEF StoreInv, StoreTypes
<1>10. doubt \subseteq doubt'
  BY <1>1 DEF Publishing
<1>6. DurableInv'
  BY <1>1, <1>10 DEF StoreInv, DurableInv, Holds, Traced, Owed, Certain, Possible
<1>7. PublishInv'
  BY <1>1, StepsDiffer DEF PublishInv, Synced, Publishing
<1>8. OpenInv'
  BY <1>1, StepsDiffer DEF OpenInv, Publishing
<1>9. QuietInv'
  BY <1>1 DEF StoreInv, QuietInv, Synced, Named
<1> QED
  BY <1>4, <1>5, <1>6, <1>7, <1>8, <1>9 DEF StoreInv

\* A step of a job that fails leaves the files as they were and the job with
\* its owner.
LEMMA JobFailsKept ==
  ASSUME StoreInv, JobFails
  PROVE  StoreInv' /\ job'.process = job.process /\ job'.kind = job.kind /\ job'.awaited = job.awaited
         /\ job # NoJob /\ job' # NoJob
<1>1. /\ job.steps # <<>> /\ job' = [job EXCEPT !.steps = <<>>, !.ok = FALSE]
      /\ failed' = (failed \/ job.kind \in Publishing)
      /\ UNCHANGED <<seen, disk, acked, doubt, past>>
  BY DEF JobFails, fileVars, historyVars
<1>2. job \in Job /\ failed \in BOOLEAN /\ JobInv
  BY DEF StoreInv, StoreTypes
<1>3. /\ job'.process = job.process /\ job'.kind = job.kind /\ job'.generation = job.generation
      /\ job'.steps = <<>> /\ ~job'.ok /\ job'.awaited = job.awaited /\ job' \in Job
  BY <1>1, <1>2 DEF Job, Remaining
<1>4. job # NoJob /\ job.kind # "none" /\ job' # NoJob /\ job.process # NoProcess
  BY <1>1, <1>2, <1>3, EmptyTyped DEF JobInv
<1>5. JobInv'
  BY <1>2, <1>3, <1>4 DEF JobInv
<1>6. PublishInv' /\ OpenInv'
  BY <1>1, <1>3, StepsDiffer DEF StoreInv, PublishInv, OpenInv
<1>7. failed' \in BOOLEAN
  BY <1>1, <1>2
<1> QED
  BY <1>1, <1>3, <1>4, <1>5, <1>6, <1>7, FilesKept DEF StoreInv

\* A job whose result is taken, or whose process stops, leaves the files
\* behind.
LEMMA JobDropped ==
  ASSUME StoreInv, job' = NoJob, UNCHANGED <<seen, disk, failed, acked, doubt, past>>
  PROVE  StoreInv'
<1>1. job' \in Job /\ JobInv' /\ PublishInv' /\ OpenInv'
  BY EmptyTyped DEF JobInv, PublishInv, OpenInv, Publishing
<1>2. failed' \in BOOLEAN
  BY DEF StoreInv, StoreTypes
<1> QED
  BY <1>1, <1>2, FilesKept DEF StoreInv

\* A caller that is dropped leaves its job running.
LEMMA JobAbandoned ==
  ASSUME StoreInv, NEW p \in Processes, AbandonJob(p)
  PROVE  /\ StoreInv' /\ UNCHANGED <<seen, disk, failed, acked, doubt, past>>
         /\ job'.process = job.process /\ job'.kind = job.kind
         /\ job.process # p => job' = job
         /\ job.process = p => ~job'.awaited /\ job # NoJob /\ job' # NoJob
<1>1. /\ job' = (IF job.process = p THEN [job EXCEPT !.awaited = FALSE] ELSE job)
      /\ UNCHANGED <<seen, disk, failed, acked, doubt, past>>
  BY DEF AbandonJob, fileVars, historyVars
<1>2. job \in Job /\ failed' \in BOOLEAN
  BY <1>1 DEF StoreInv, StoreTypes
<1>3. CASE job.process = p
  <2>1. /\ job'.process = job.process /\ job'.kind = job.kind /\ job'.generation = job.generation
        /\ job'.steps = job.steps /\ job'.ok = job.ok /\ ~job'.awaited /\ job' \in Job
    BY <1>1, <1>2, <1>3 DEF Job
  <2>2. job # NoJob /\ job' # NoJob /\ job.process # NoProcess /\ job.kind # "none"
    BY <1>2, <1>3, <2>1, ProcessesAssumption, EmptyTyped DEF StoreInv, JobInv
  <2>3. JobInv'
    BY <1>2, <2>1, <2>2 DEF StoreInv, JobInv
  <2>4. PublishInv' /\ OpenInv'
    BY <1>1, <2>1 DEF StoreInv, PublishInv, OpenInv, Synced, Leads, Named
  <2> QED
    BY <1>1, <1>2, <1>3, <2>1, <2>2, <2>3, <2>4, FilesKept DEF StoreInv
<1>4. CASE job.process # p
  <2>1. job' = job
    BY <1>1, <1>4
  <2>2. JobInv' /\ PublishInv' /\ OpenInv'
    BY <1>1, <2>1 DEF StoreInv, JobInv, PublishInv, OpenInv, Synced, Leads, Named
  <2> QED
    BY <1>1, <1>2, <1>4, <2>1, <2>2, FilesKept DEF StoreInv
<1> QED
  BY <1>3, <1>4

\* A publication that is done goes on with its export.
LEMMA JobExports ==
  ASSUME StoreInv, NEW p \in Processes, job.process = p,
         job' = [job EXCEPT !.kind = "export", !.steps = ExportSteps, !.generation = Empty], job.ok,
         UNCHANGED <<seen, disk, failed, acked, doubt, past>>
  PROVE  StoreInv' /\ job'.process = p /\ job'.kind = "export" /\ job' # NoJob /\ job'.awaited = job.awaited
<1>1. job \in Job /\ failed' \in BOOLEAN
  BY DEF StoreInv, StoreTypes
<1>2. /\ job'.process = p /\ job'.kind = "export" /\ job'.steps = ExportSteps /\ job'.ok
      /\ job'.awaited = job.awaited /\ job' \in Job
  BY <1>1, EmptyTyped DEF Job, Remaining
<1>3. job' # NoJob /\ p # NoProcess
  BY <1>2, ProcessesAssumption, EmptyTyped
<1>4. JobInv' /\ PublishInv' /\ OpenInv'
  BY <1>2, <1>3 DEF JobInv, PublishInv, OpenInv, Publishing
<1> QED
  BY <1>1, <1>2, <1>3, <1>4, FilesKept DEF StoreInv

\* A step that leaves the store alone keeps its invariant.
LEMMA StoreKept ==
  ASSUME StoreInv, UNCHANGED storeVars
  PROVE  StoreInv'
<1>1. UNCHANGED <<seen, disk, job, failed, acked, doubt, past>>
  BY DEF storeVars, fileVars, historyVars
<1>2. JobInv' /\ PublishInv' /\ OpenInv'
  BY <1>1 DEF StoreInv, JobInv, PublishInv, OpenInv, Synced, Leads, Named
<1>3. job' \in Job /\ failed' \in BOOLEAN
  BY <1>1 DEF StoreInv, StoreTypes
<1> QED
  BY <1>1, <1>2, <1>3, FilesKept DEF StoreInv

(***************************************************************************)
(* A power loss, and a rotten file.                                        *)
(***************************************************************************)
LEMMA PowerLost ==
  ASSUME StoreInv, LosePower, job' = NoJob, UNCHANGED <<failed, acked, doubt, past>>
  PROVE  /\ StoreInv'
         /\ CanLoad(seen)' /\ Load(seen)' \in Owed
<1>1. PICK m \in {seen.manifest, disk.manifest}, b \in Survives(seen.blobs, disk.blobs),
           e \in Survives(seen.exports, disk.exports) :
             seen' = [manifest |-> m, blobs |-> b, exports |-> e] /\ disk' = seen'
  BY DEF LosePower
<1>2. seen \in Files /\ disk \in Files /\ m \in Manifest
  BY DEF StoreInv, StoreTypes, Files
<1>3. Certain \subseteq b /\ b \subseteq Possible /\ b \subseteq Generation /\ e \subseteq Generation
  BY <1>2 DEF Survives, Certain, Possible, Files
<1>4. seen' \in Files /\ disk' \in Files
  BY <1>1, <1>2, <1>3 DEF Files
<1>5. Holds(m) /\ Traced(m)
  BY DEF StoreInv, DurableInv
<1>6. seen'.manifest = m /\ seen'.blobs = b /\ disk'.manifest = m /\ disk'.blobs = b
  BY <1>1
<1>7. DurableInv'
  <2>1. Len(m) \in Nat
    BY <1>2 DEF Manifest
  <2> QED
    BY <1>3, <1>5, <1>6, <2>1 DEF DurableInv, Holds, Traced, Owed, Certain, Possible
<1>8. QuietInv'
  BY <1>6 DEF QuietInv, Synced
<1>9. JobInv' /\ PublishInv' /\ OpenInv' /\ job' \in Job
  BY EmptyTyped DEF JobInv, PublishInv, OpenInv, Publishing
<1>10. StoreTypes'
  BY <1>4, <1>9 DEF StoreInv, StoreTypes
<1>11. CanLoad(seen') /\ Load(seen') \in Owed
  BY <1>3, <1>4, <1>5, <1>6, HoldingLoads
<1> QED
  BY <1>7, <1>8, <1>9, <1>10, <1>11 DEF StoreInv, CanLoad, Load, Readable

\* A rotten file leaves a store that can be loaded, with an acknowledged
\* generation.
LEMMA Rotted ==
  ASSUME StoreInv, NEW g \in Generation, CorruptBlob(g)
  PROVE  /\ StoreInv' /\ UNCHANGED <<job, doubt, past>> /\ (Synced => Synced')
         /\ doubt = {} /\ CanLoad(seen)' /\ acked' = Load(seen)' /\ acked' \in past
<1> DEFINE m == seen.manifest
<1>1. /\ job = NoJob /\ doubt = {} /\ g \in Named(seen) \cap seen.blobs /\ Len(Readable(seen)) = 2
      /\ seen' = [seen EXCEPT !.blobs = @ \ {g}] /\ disk' = [disk EXCEPT !.blobs = @ \ {g}]
      /\ acked' = Load(seen') /\ UNCHANGED <<job, failed, doubt, past>>
  BY DEF CorruptBlob
<1>2. seen \in Files /\ disk \in Files /\ m \in Manifest
  BY DEF StoreInv, StoreTypes, Files
<1>3. /\ Len(m) = 2 /\ m[1] \in seen.blobs /\ m[2] \in seen.blobs /\ m # <<>>
      /\ Named(seen) = {m[1], m[2]}
  BY <1>1, <1>2, RetainCases, NamedCases DEF Readable
<1>4. disk.manifest = m /\ m[1] \in disk.blobs /\ m[2] \in disk.blobs /\ m[1] # m[2]
      /\ m[1] \in past /\ m[2] \in past
  BY <1>1, <1>3 DEF StoreInv, QuietInv, Synced, DurableInv, Traced
<1>5. /\ seen' \in Files /\ disk' \in Files /\ seen'.manifest = m /\ disk'.manifest = disk.manifest
      /\ seen'.blobs = seen.blobs \ {g} /\ disk'.blobs = disk.blobs \ {g}
  BY <1>1, <1>2 DEF Files
<1>6. CanLoad(seen')
  <2>1. Readable(seen') = Retain(m, seen.blobs \ {g})
    BY <1>5 DEF Readable
  <2>2. m[1] \in seen.blobs \ {g} \/ m[2] \in seen.blobs \ {g}
    BY <1>3, <1>4
  <2>3. Readable(seen') \in {<<m[1], m[2]>>, <<m[1]>>, <<m[2]>>}
    BY <1>2, <1>3, <2>1, <2>2, RetainCases
  <2> QED
    BY <2>3 DEF CanLoad
<1>7. acked' \in Generation /\ acked' \in {m[1], m[2]} /\ acked' # g
  <2>1. Named(seen') = Named(seen)
    BY <1>5 DEF Named
  <2> QED
    BY <1>1, <1>3, <1>5, <1>6, <2>1, LoadCases
<1>8. DurableInv'
  <2>1. /\ acked' \in seen'.blobs \cap disk'.blobs
        /\ acked' = m[1] \/ (acked' = m[2] /\ m[1] \notin seen'.blobs \cup disk'.blobs)
    BY <1>1, <1>3, <1>4, <1>5, <1>7
  <2> QED
    BY <1>1, <1>3, <1>4, <1>5, <2>1 DEF DurableInv, Holds, Traced, Owed, Certain, Possible
<1>9. QuietInv'
  BY <1>1, <1>3, <1>4, <1>5, NamedCases DEF QuietInv, Synced
<1>10. JobInv' /\ PublishInv' /\ OpenInv' /\ job' \in Job
  BY <1>1, EmptyTyped DEF JobInv, PublishInv, OpenInv, Publishing
<1>11. StoreTypes'
  BY <1>1, <1>5, <1>7, <1>10 DEF StoreInv, StoreTypes
<1>12. Synced => Synced'
  BY <1>5 DEF Synced
<1>13. CanLoad(seen)' /\ acked' = Load(seen)'
  BY <1>1, <1>6 DEF CanLoad, Load, Readable
<1> QED
  BY <1>1, <1>4, <1>7, <1>8, <1>9, <1>10, <1>11, <1>12, <1>13 DEF StoreInv

-----------------------------------------------------------------------------
(***************************************************************************)
(* One controller changes.  The store and the job change with it only when *)
(* it is the owner's.                                                      *)
(***************************************************************************)
ClockTypes == clock \in 0..MaxClock /\ issued \in Certificates /\ legacy \in Legacies

\* What the other controllers rely on, when p's task has moved.
OthersKept(p) ==
  lock = p \/ (job' = job /\ (doubt = {} => doubt' = {}) /\ (Synced => Synced'))

\* One process steps, the others keep their state.
LEMMA OneController ==
  ASSUME ctl \in [Processes -> Controller], NEW p \in Processes, NEW c \in Controller,
         ctl' = [ctl EXCEPT ![p] = c]
  PROVE  /\ ctl' \in [Processes -> Controller] /\ ctl'[p] = c
         /\ \A q \in Processes : q # p => ctl'[q] = ctl[q]
OBVIOUS

\* A job has a process.
LEMMA JobOwner ==
  ASSUME StoreInv
  PROVE  job # NoJob <=> job.process \in Processes
BY ProcessesAssumption, EmptyTyped DEF StoreInv, StoreTypes, JobInv, Job

\* A step of one process keeps what holds of all of them, if it keeps what
\* holds of that one.
LEMMA ControllerMoves ==
  ASSUME Inv, StoreInv', NEW p \in Processes, NEW c \in Controller, ctl' = [ctl EXCEPT ![p] = c],
         lock' = lock, ClockTypes', OthersKept(p), job' = job \/ job' = NoJob \/ job'.process = p,
         OwnerOf(c, p, lock), WakeOf(c),
         job'.process = p => AwaitOf(job'.kind, job'.awaited, c.stage),
         c.stage \in Opened /\ (job' = NoJob \/ job'.kind = "export") => doubt' = {} /\ Synced'
  PROVE  ControlInv'
<1>1. /\ CtlTypes /\ OwnerInv /\ WakeInv /\ AwaitInv /\ SettledInv /\ StoreInv
      /\ ctl \in [Processes -> Controller]
  BY DEF Inv, ControlInv, CtlTypes
<1>2. /\ ctl' \in [Processes -> Controller] /\ ctl'[p] = c
      /\ \A q \in Processes : q # p => ctl'[q] = ctl[q]
  BY <1>1, OneController
<1>3. CtlTypes'
  BY <1>1, <1>2 DEF CtlTypes, ClockTypes
<1>4. /\ job # NoJob <=> job.process \in Processes
      /\ job' # NoJob <=> job'.process \in Processes
  <2>1. job # NoJob <=> job.process \in Processes
    BY <1>1, JobOwner
  <2>2. (job # NoJob <=> job.process \in Processes)'
    BY JobOwner, PTL
  <2> QED
    BY <2>1, <2>2 DEF NoJob, Empty
<1>5. OwnerInv'
  <2>1. \A q \in Processes : OwnerOf(ctl'[q], q, lock)
    BY <1>1, <1>2 DEF OwnerInv
  <2>2. job' # NoJob => lock = job'.process
    BY <1>1, <1>4 DEF OwnerInv, OthersKept
  <2> QED
    BY <2>1, <2>2 DEF OwnerInv, NoJob, Empty
<1>6. WakeInv'
  <2>1. \A q \in Processes : WakeOf(ctl'[q])
    BY <1>1, <1>2 DEF WakeInv
  <2> QED
    BY <2>1 DEF WakeInv
<1>7. AwaitInv'
  <2>1. job' # NoJob => AwaitOf(job'.kind, job'.awaited, ctl'[job'.process].stage)
    <3>1. CASE job'.process = p
      BY <1>2, <3>1
    <3>2. CASE job'.process # p
      BY <1>1, <1>2, <1>4, <3>2 DEF AwaitInv
    <3> QED
      BY <3>1, <3>2
  <2> QED
    BY <2>1 DEF AwaitInv, NoJob, Empty
<1>8. SettledInv'
  <2>1. ASSUME NEW q \in Processes, ctl'[q].stage \in Opened, job' = NoJob \/ job'.kind = "export"
        PROVE  doubt' = {} /\ Synced'
    <3>1. CASE q = p
      BY <1>2, <2>1, <3>1
    <3>2. CASE q # p
      <4>1. lock = q /\ ctl[q].stage \in Opened
        BY <1>1, <1>2, <2>1, <3>2 DEF OwnerInv, OwnerOf, Acquired
      <4> QED
        BY <1>1, <2>1, <3>2, <4>1 DEF OthersKept, SettledInv
    <3> QED
      BY <3>1, <3>2
  <2> QED
    BY <2>1 DEF SettledInv, NoJob, Empty
<1> QED
  BY <1>3, <1>5, <1>6, <1>7, <1>8 DEF ControlInv

\* The tasks stay where they are, and a job advances, fails or ends.
LEMMA TasksKept ==
  ASSUME Inv, UNCHANGED <<ctl, lock>>, ClockTypes',
         \/ /\ job # NoJob <=> job' # NoJob
            /\ job'.process = job.process /\ job'.kind = job.kind /\ job'.awaited = job.awaited
         \/ job' = NoJob /\ ~job.awaited,
         job = NoJob \/ job.kind = "export" => (doubt = {} => doubt' = {}) /\ (Synced => Synced')
  PROVE  ControlInv'
<1>1. /\ CtlTypes /\ OwnerInv /\ WakeInv /\ AwaitInv /\ SettledInv /\ StoreInv
  BY DEF Inv, ControlInv
<1>2. job # NoJob <=> job.process \in Processes
  BY <1>1, JobOwner
<1>3. CtlTypes'
  BY <1>1 DEF CtlTypes, ClockTypes
<1>4. OwnerInv'
  <2>1. job' # NoJob => lock = job'.process
    BY <1>1 DEF OwnerInv
  <2> QED
    BY <1>1, <2>1 DEF OwnerInv, NoJob, Empty
<1>5. WakeInv'
  BY <1>1 DEF WakeInv
<1>6. AwaitInv'
  <2>1. job' # NoJob => AwaitOf(job'.kind, job'.awaited, ctl[job'.process].stage)
    BY <1>1 DEF AwaitInv
  <2> QED
    BY <2>1 DEF AwaitInv, NoJob, Empty
<1>7. SettledInv'
  <2>1. ASSUME NEW q \in Processes, ctl[q].stage \in Opened, job' = NoJob \/ job'.kind = "export"
        PROVE  doubt' = {} /\ Synced'
    <3>1. CASE job = NoJob \/ job.kind = "export"
      BY <1>1, <2>1, <3>1 DEF SettledInv
    <3>2. CASE job # NoJob /\ job.kind # "export"
      <4>1. job' = NoJob /\ ~job.awaited
        BY <2>1, <3>2
      <4>2. lock = q /\ lock = job.process
        BY <1>1, <2>1, <3>2 DEF OwnerInv, OwnerOf, Acquired
      <4>3. ctl[q].stage \in {"sleep", "open", "ended"}
        BY <1>1, <3>2, <4>1, <4>2 DEF AwaitInv, AwaitOf
      <4> QED
        BY <2>1, <4>3 DEF Opened, Loops
    <3> QED
      BY <3>1, <3>2
  <2> QED
    BY <2>1 DEF SettledInv, NoJob, Empty
<1> QED
  BY <1>3, <1>4, <1>5, <1>6, <1>7 DEF ControlInv

(***************************************************************************)
(* The steps that leave the store alone.                                   *)
(***************************************************************************)
\* What the invariant says of one task.
Task(p) ==
  /\ ctl \in [Processes -> Controller] /\ ctl[p] \in Controller
  /\ OwnerOf(ctl[p], p, lock) /\ WakeOf(ctl[p])
  /\ job.process = p => AwaitOf(job.kind, job.awaited, ctl[p].stage)
  /\ StoreInv /\ ClockTypes

\* The invariant, read for one process.
LEMMA TaskOf ==
  ASSUME Inv, NEW p \in Processes
  PROVE  Task(p)
<1>1. CtlTypes /\ OwnerInv /\ WakeInv /\ AwaitInv /\ StoreInv
  BY DEF Inv, ControlInv
<1>2. job.process = p => AwaitOf(job.kind, job.awaited, ctl[p].stage)
  BY <1>1, JobOwner DEF AwaitInv
<1> QED
  BY <1>1, <1>2 DEF CtlTypes, OwnerInv, WakeInv, Task, ClockTypes

\* A step that touches neither store nor lock only has to keep what holds of
\* its own process.
LEMMA TaskMoves ==
  ASSUME Inv, NEW p \in Processes, NEW c \in Controller, ctl' = [ctl EXCEPT ![p] = c],
         UNCHANGED <<storeVars, lock, clock, issued, legacy>>, OwnerOf(c, p, lock), WakeOf(c),
         job.process = p => AwaitOf(job.kind, job.awaited, c.stage),
         c.stage \in Opened => ctl[p].stage \in Opened
  PROVE  Inv'
<1>1. StoreInv'
  BY StoreKept DEF Inv
<1>2. UNCHANGED <<seen, disk, job, doubt>>
  BY DEF storeVars, fileVars, historyVars
<1>3. OthersKept(p)
  BY <1>2 DEF OthersKept, Synced
<1>4. ClockTypes'
  BY TaskOf DEF Task, ClockTypes
<1>5. c.stage \in Opened /\ (job' = NoJob \/ job'.kind = "export") => doubt' = {} /\ Synced'
  BY <1>2 DEF Inv, ControlInv, SettledInv, Synced
<1>6. ControlInv'
  BY <1>1, <1>2, <1>3, <1>4, <1>5, ControllerMoves
<1> QED
  BY <1>1, <1>6 DEF Inv

\* A task that neither owns nor waits for a job; a job that it may still have is
\* an export that another thread asked for.
Unattached ==
  {"down", "reading", "check", "parking", "idle", "import_account", "import_certificate", "load",
   "proving", "observing", "starting"}

\* A task that no job waits for can go anywhere.
LEMMA Elsewhere ==
  ASSUME NEW kind, NEW awaited, NEW s \in Unattached, AwaitOf(kind, awaited, s), NEW t
  PROVE  AwaitOf(kind, awaited, t)
BY DEF AwaitOf, Unattached, Loops

\* A process that starts takes no lock and reads what is there.
LEMMA StartingKept ==
  ASSUME Inv, NEW p \in Processes, StartProcess(p) \/ ReadManifest(p) \/ ReadExport(p)
  PROVE  Inv'
<1>1. Task(p)
  BY TaskOf
<1>2. CASE StartProcess(p)
  <2> DEFINE c == [ctl[p] EXCEPT !.stage = "reading", !.requested = p \notin Controlled,
                                 !.recovery = p \notin Controlled]
  <2>1. c \in Controller /\ ctl' = [ctl EXCEPT ![p] = c]
    BY <1>1, <1>2, ZenonT(30) DEF Task, StartProcess, Controller, Stages
  <2>2. OwnerOf(c, p, lock) /\ WakeOf(c) /\ c.stage \notin Opened
    BY <1>1, <1>2 DEF Task, StartProcess, Controller, OwnerOf, WakeOf, Opened, Acquired, Loops
  <2>3. job.process = p => AwaitOf(job.kind, job.awaited, c.stage)
    BY <1>1, <1>2, Elsewhere DEF Task, StartProcess, Unattached
  <2>4. UNCHANGED <<storeVars, lock, clock, issued, legacy>>
    BY <1>2 DEF StartProcess
  <2> HIDE DEF c
  <2> QED
    BY <2>1, <2>2, <2>3, <2>4, TaskMoves
<1>3. CASE ReadManifest(p)
  <2> DEFINE r == ctl[p].reader
             had == IF r.attempt = 0 THEN ReadSnapshot ELSE r.had
             c == IF r.attempt = MaxAttempts \/ seen.manifest = <<>>
                  THEN [ctl[p] EXCEPT !.stage = "check", !.reader = NoReader]
                  ELSE [ctl[p] EXCEPT !.reader =
                          [left |-> seen.manifest, attempt |-> r.attempt + 1, had |-> had]]
  <2>1. had \in Nat /\ seen.manifest \in Seq(Generation)
    <3>1. seen \in Files /\ ReadSnapshot \in Certificates
      BY <1>1, SnapshotTyped DEF Task, StoreInv, StoreTypes
    <3> QED
      BY <1>1, <3>1 DEF Task, Controller, Files, Manifest, Certificates
  <2> HIDE DEF had
  <2>2. NoReader \in [left : Seq(Generation), attempt : Nat, had : Nat]
    BY DEF NoReader
  <2>3. c \in Controller /\ ctl' = [ctl EXCEPT ![p] = c]
    <3>1. c \in Controller
      <4>1. r.attempt \in Nat
        BY <1>1 DEF Task, Controller
      <4>2. [left |-> seen.manifest, attempt |-> r.attempt + 1, had |-> had]
              \in [left : Seq(Generation), attempt : Nat, had : Nat]
        BY <2>1, <4>1
      <4> QED
        BY <1>1, <2>2, <4>2, ZenonT(30) DEF Task, Controller, Stages
    <3>2. ctl' = [ctl EXCEPT ![p] = c]
      BY <1>1, <1>3 DEF Task, ReadManifest, had
    <3> QED
      BY <3>1, <3>2
  <2>4. /\ c.stage \in {"reading", "check"} /\ ctl[p].stage = "reading"
        /\ OwnerOf(c, p, lock) /\ WakeOf(c)
    BY <1>1, <1>3 DEF Task, ReadManifest, Controller, OwnerOf, WakeOf, Acquired, Opened, Loops
  <2>5. job.process = p => AwaitOf(job.kind, job.awaited, c.stage)
    BY <1>1, <2>4, Elsewhere DEF Task, Unattached
  <2>6. UNCHANGED <<storeVars, lock, clock, issued, legacy>> /\ c.stage \notin Opened
    BY <1>3, <2>4 DEF ReadManifest, Opened, Loops
  <2> HIDE DEF c
  <2> QED
    BY <2>3, <2>4, <2>5, <2>6, TaskMoves
<1>4. CASE ReadExport(p)
  <2> DEFINE g == Head(ctl[p].reader.left)
             c == IF g \in seen.exports /\ Fresh(g.certificate)
                  THEN [ctl[p] EXCEPT !.stage = "check", !.snap = g.certificate, !.ready = TRUE,
                                      !.reader = NoReader]
                  ELSE [ctl[p] EXCEPT !.reader.left = Tail(@)]
  <2>1. ctl[p].reader.left \in Seq(Generation) /\ ctl[p].reader.left # <<>>
    BY <1>1, <1>4 DEF Task, ReadExport, Controller
  <2>2. g \in Generation /\ g.certificate \in Certificates /\ Tail(ctl[p].reader.left) \in Seq(Generation)
    <3>1. g \in Generation /\ Tail(ctl[p].reader.left) \in Seq(Generation)
      BY <2>1, HeadTailProperties
    <3> QED
      BY <3>1 DEF Generation, Certificates
  <2>3. NoReader \in [left : Seq(Generation), attempt : Nat, had : Nat]
    BY DEF NoReader
  <2>4. c \in Controller /\ ctl' = [ctl EXCEPT ![p] = c]
    BY <1>1, <1>4, <2>2, <2>3, ZenonT(30) DEF Task, ReadExport, Controller, Stages
  <2>5. /\ c.stage \in {"reading", "check"} /\ ctl[p].stage = "reading"
        /\ OwnerOf(c, p, lock) /\ WakeOf(c)
    BY <1>1, <1>4 DEF Task, ReadExport, Controller, OwnerOf, WakeOf, Acquired, Opened, Loops
  <2>6. job.process = p => AwaitOf(job.kind, job.awaited, c.stage)
    BY <1>1, <2>5, Elsewhere DEF Task, Unattached
  <2>7. UNCHANGED <<storeVars, lock, clock, issued, legacy>> /\ c.stage \notin Opened
    BY <1>4, <2>5 DEF ReadExport, Opened, Loops
  <2> HIDE DEF c
  <2> QED
    BY <2>4, <2>5, <2>6, <2>7, TaskMoves
<1> QED
  BY <1>2, <1>3, <1>4

\* A task that ends its round of drive owns nothing but the lock.
LEMMA EndedSound ==
  ASSUME NEW c \in Controller, NEW p, NEW holder, NEW later, OwnerOf(c, p, holder), c.stage # "ended"
  PROVE  /\ Ended(c) \in Controller /\ Ended(c).stage = "sleep"
         /\ OwnerOf(Ended(c), p, later) /\ WakeOf(Ended(c))
         /\ Ended(c).requested = c.requested /\ Ended(c).recovery /\ ~Ended(c).driving
         /\ Ended(c).maintenance = c.maintenance /\ ~Ended(c).maintenance
<1>1. Ended(c) \in Controller
  BY DEF Ended, Controller, Stages
<1>2. /\ Ended(c).stage = "sleep" /\ Ended(c).challenge = "none" /\ ~Ended(c).driving
      /\ ~Ended(c).store /\ Ended(c).recovery /\ Ended(c).requested = c.requested
      /\ Ended(c).maintenance = c.maintenance /\ ~c.maintenance
  BY DEF Ended, Controller, OwnerOf
<1> QED
  BY <1>1, <1>2 DEF OwnerOf, WakeOf, Acquired, Opened, Loops

\* Nothing to import: the activation goes on.
LEMMA GotoKept ==
  ASSUME Inv, NEW p \in Processes, NEW t \in {"import_certificate", "load"},
         At(p, "import_account") \/ At(p, "import_certificate"), Goto(p, t),
         UNCHANGED <<storeVars, lock, clock, issued, legacy>>
  PROVE  Inv'
<1>1. Task(p)
  BY TaskOf
<1> DEFINE c == [ctl[p] EXCEPT !.stage = t]
<1>2. c \in Controller /\ ctl' = [ctl EXCEPT ![p] = c]
  BY <1>1 DEF Task, Goto, Controller, Stages
<1>3. OwnerOf(c, p, lock) /\ WakeOf(c) /\ ctl[p].stage \in Opened
  BY <1>1 DEF Task, At, Controller, OwnerOf, WakeOf, Opened, Acquired, Loops
<1>4. job.process = p => AwaitOf(job.kind, job.awaited, c.stage)
  BY <1>1, Elsewhere DEF Task, At, Unattached
<1> HIDE DEF c
<1> QED
  BY <1>2, <1>3, <1>4, TaskMoves

\* The wait for a request: the permit is taken and the flag read again.
LEMMA WaitingKept ==
  ASSUME Inv, NEW p \in Processes, AwaitRequest(p) \/ Notified(p)
  PROVE  Inv'
<1>1. Task(p)
  BY TaskOf
<1>2. CASE AwaitRequest(p)
  <2> DEFINE c == [ctl[p] EXCEPT !.stage = IF ctl[p].stage = "check" THEN "parking" ELSE "idle"]
  <2>1. c \in Controller /\ ctl' = [ctl EXCEPT ![p] = c]
    BY <1>1, <1>2 DEF Task, AwaitRequest, At, Goto, Controller, Stages
  <2>2. /\ OwnerOf(c, p, lock) /\ WakeOf(c)
        /\ c.stage \in Opened => ctl[p].stage \in Opened
    BY <1>1, <1>2 DEF Task, AwaitRequest, At, Controller, OwnerOf, WakeOf, Opened, Acquired, Loops
  <2>3. job.process = p => AwaitOf(job.kind, job.awaited, c.stage)
    BY <1>1, <1>2, Elsewhere DEF Task, AwaitRequest, At, Unattached
  <2>4. UNCHANGED <<storeVars, lock, clock, issued, legacy>>
    BY <1>2 DEF AwaitRequest
  <2> HIDE DEF c
  <2> QED
    BY <2>1, <2>2, <2>3, <2>4, TaskMoves
<1>3. CASE Notified(p)
  <2> DEFINE c == [ctl[p] EXCEPT !.permit = FALSE, !.stage = "check"]
  <2>1. c \in Controller /\ ctl' = [ctl EXCEPT ![p] = c]
    BY <1>1, <1>3, ZenonT(30) DEF Task, Notified, At, Controller, Stages
  <2>2. /\ OwnerOf(c, p, lock) /\ WakeOf(c)
        /\ c.stage \in Opened => ctl[p].stage \in Opened
    BY <1>1, <1>3 DEF Task, Notified, At, Controller, OwnerOf, WakeOf, Opened, Acquired, Loops
  <2>3. job.process = p => AwaitOf(job.kind, job.awaited, c.stage)
    BY <1>1, <1>3, Elsewhere DEF Task, Notified, At, Unattached
  <2>4. UNCHANGED <<storeVars, lock, clock, issued, legacy>>
    BY <1>3 DEF Notified
  <2> HIDE DEF c
  <2> QED
    BY <2>1, <2>2, <2>3, <2>4, TaskMoves
<1> QED
  BY <1>2, <1>3

\* Activation past the store: the proof, the route, the start of ACME.
LEMMA ActivationKept ==
  ASSUME Inv, NEW p \in Processes,
         OfferProof(p) \/ ObserveRoute(p) \/ StartAcme(p)
  PROVE  Inv'
<1>1. Task(p)
  BY TaskOf
<1>2. CASE OfferProof(p)
  <2> DEFINE c == [ctl[p] EXCEPT !.stage = "observing", !.store = TRUE, !.routeLost = FALSE,
                                 !.challenge = "proof"]
  <2>1. c \in Controller /\ ctl' = [ctl EXCEPT ![p] = c]
    BY <1>1, <1>2 DEF Task, OfferProof, At, Controller, Stages
  <2>2. /\ OwnerOf(c, p, lock) /\ WakeOf(c)
        /\ c.stage \in Opened => ctl[p].stage \in Opened
    BY <1>1, <1>2 DEF Task, OfferProof, At, Controller, OwnerOf, WakeOf, Opened, Acquired, Loops
  <2>3. job.process = p => AwaitOf(job.kind, job.awaited, c.stage)
    BY <1>1, <1>2, Elsewhere DEF Task, OfferProof, At, Unattached
  <2>4. UNCHANGED <<storeVars, lock, clock, issued, legacy>>
    BY <1>2 DEF OfferProof
  <2> HIDE DEF c
  <2> QED
    BY <2>1, <2>2, <2>3, <2>4, TaskMoves
<1>3. CASE ObserveRoute(p)
  <2>1. PICK c \in {Ended(ctl[p]), [ctl[p] EXCEPT !.stage = "starting"]} : ctl' = [ctl EXCEPT ![p] = c]
    <3>1. CASE Proceed(p, FALSE, "starting")
      BY <1>1, <3>1 DEF Task, Proceed
    <3>2. CASE Goto(p, "starting")
      BY <1>1, <3>2 DEF Task, Goto
    <3> QED
      BY <1>3, <3>1, <3>2 DEF ObserveRoute
  <2>2. ctl[p].stage = "observing" /\ ctl[p].stage \in Opened
    BY <1>3 DEF ObserveRoute, At, Opened
  <2>3. c \in Controller /\ OwnerOf(c, p, lock) /\ WakeOf(c)
    <3>1. CASE c = Ended(ctl[p])
      BY <1>1, <2>2, <3>1, EndedSound DEF Task
    <3>2. CASE c = [ctl[p] EXCEPT !.stage = "starting"]
      BY <1>1, <2>2, <3>2 DEF Task, Controller, Stages, OwnerOf, WakeOf, Opened, Acquired, Loops
    <3> QED
      BY <2>1, <3>1, <3>2
  <2>4. job.process = p => AwaitOf(job.kind, job.awaited, c.stage)
    BY <1>1, <2>2, Elsewhere DEF Task, Unattached
  <2>5. UNCHANGED <<storeVars, lock, clock, issued, legacy>>
    BY <1>3 DEF ObserveRoute
  <2> QED
    BY <2>1, <2>2, <2>3, <2>4, <2>5, TaskMoves
<1>4. CASE StartAcme(p)
  <2> DEFINE c == [ctl[p] EXCEPT !.stage = "acme_check", !.challenge = "acme", !.driving = TRUE]
  <2>1. c \in Controller /\ ctl' = [ctl EXCEPT ![p] = c]
    BY <1>1, <1>4 DEF Task, StartAcme, At, Controller, Stages
  <2>2. /\ OwnerOf(c, p, lock) /\ WakeOf(c)
        /\ c.stage \in Opened => ctl[p].stage \in Opened
    BY <1>1, <1>4 DEF Task, StartAcme, At, Controller, OwnerOf, WakeOf, Opened, Acquired, Loops
  <2>3. job.process = p => AwaitOf(job.kind, job.awaited, c.stage)
    BY <1>1, <1>4, Elsewhere DEF Task, StartAcme, At, Unattached
  <2>4. UNCHANGED <<storeVars, lock, clock, issued, legacy>>
    BY <1>4 DEF StartAcme
  <2> HIDE DEF c
  <2> QED
    BY <2>1, <2>2, <2>3, <2>4, TaskMoves
<1> QED
  BY <1>2, <1>3, <1>4

\* The watchdog looks at the status and acts on it, short of an expiry.
LEMMA WatchdogKept ==
  ASSUME Inv, NEW p \in Processes,
         WatchdogLook(p) \/ (WatchdogAct(p) /\ ctl[p].tick # "expired")
  PROVE  Inv'
<1>1. Task(p)
  BY TaskOf
<1>2. CASE WatchdogLook(p)
  <2> DEFINE c == [ctl[p] EXCEPT !.tick =
                    IF Usable(ctl[p]) THEN "serving"
                    ELSE IF ctl[p].snap = 0 THEN "bare" ELSE "expired"]
  <2>1. c \in Controller /\ ctl' = [ctl EXCEPT ![p] = c]
    BY <1>1, <1>2 DEF Task, WatchdogLook, Awaits, Controller, Stages
  <2>2. /\ OwnerOf(c, p, lock) /\ WakeOf(c)
        /\ c.stage \in Opened => ctl[p].stage \in Opened
    BY <1>1, <1>2 DEF Task, WatchdogLook, Awaits, Controller, OwnerOf, WakeOf, Opened, Acquired, Loops
  <2>3. job.process = p => AwaitOf(job.kind, job.awaited, c.stage)
    BY <1>1, <1>2 DEF Task, WatchdogLook, Awaits, AwaitOf, Controller, Loops
  <2>4. UNCHANGED <<storeVars, lock, clock, issued, legacy>>
    BY <1>2 DEF WatchdogLook
  <2> HIDE DEF c
  <2> QED
    BY <2>1, <2>2, <2>3, <2>4, TaskMoves
<1>3. CASE WatchdogAct(p) /\ ctl[p].tick # "expired"
  <2> DEFINE c == [ctl[p] EXCEPT !.tick = "none", !.ready = (ctl[p].tick = "serving")]
  <2>1. c \in Controller /\ ctl' = [ctl EXCEPT ![p] = c]
    BY <1>1, <1>3, ZenonT(30) DEF Task, WatchdogAct, Controller, Stages
  <2>2. /\ OwnerOf(c, p, lock) /\ WakeOf(c)
        /\ c.stage \in Opened => ctl[p].stage \in Opened
    BY <1>1, <1>3 DEF Task, WatchdogAct, Controller, OwnerOf, WakeOf, Opened, Acquired, Loops
  <2>3. job.process = p => AwaitOf(job.kind, job.awaited, c.stage)
    BY <1>1, <1>3 DEF Task, WatchdogAct, AwaitOf, Controller, Loops
  <2>4. UNCHANGED <<storeVars, lock, clock, issued, legacy>>
    BY <1>3 DEF WatchdogAct
  <2> HIDE DEF c
  <2> QED
    BY <2>1, <2>2, <2>3, <2>4, TaskMoves
<1> QED
  BY <1>2, <1>3

\* Calls of the embedder set a flag first and notify later.
LEMMA CallsKept ==
  ASSUME Inv, NEW p \in Processes,
         InstallHandoff(p) \/ RequestOwnership(p) \/ OwnershipRequested(p)
           \/ ChallengeRouteLost(p) \/ RouteRevoked(p)
  PROVE  Inv'
<1>1. Task(p)
  BY TaskOf
<1>2. CASE InstallHandoff(p)
  <2>1. PICK g \in past : CanInstall(p, g.certificate) /\ ctl' = [ctl EXCEPT ![p] = Installed(@, g.certificate)]
    BY <1>2 DEF InstallHandoff
  <2>2. g.certificate \in Certificates
    BY <1>1, <2>1 DEF Task, StoreInv, StoreTypes, Generation, Certificates
  <2> DEFINE c == [ctl[p] EXCEPT !.snap = g.certificate, !.ready = TRUE]
  <2>3. c \in Controller /\ ctl' = [ctl EXCEPT ![p] = c]
    BY <1>1, <2>1, <2>2 DEF Task, Installed, Controller
  <2>4. /\ OwnerOf(c, p, lock) /\ WakeOf(c)
        /\ c.stage \in Opened => ctl[p].stage \in Opened
    BY <1>1, <2>1 DEF Task, CanInstall, Controller, OwnerOf, WakeOf
  <2>5. job.process = p => AwaitOf(job.kind, job.awaited, c.stage)
    BY <1>1 DEF Task, Controller
  <2>6. UNCHANGED <<storeVars, lock, clock, issued, legacy>>
    BY <1>2 DEF InstallHandoff
  <2> HIDE DEF c
  <2> QED
    BY <2>3, <2>4, <2>5, <2>6, TaskMoves
<1>3. CASE RequestOwnership(p)
  <2> DEFINE c == [ctl[p] EXCEPT !.requested = TRUE, !.asking = TRUE, !.recovery = @ \/ ~ctl[p].driving]
  <2>1. c \in Controller /\ ctl' = [ctl EXCEPT ![p] = c]
    BY <1>1, <1>3, ZenonT(30) DEF Task, RequestOwnership, Alive, Controller, Stages
  <2>2. /\ OwnerOf(c, p, lock) /\ WakeOf(c)
        /\ c.stage \in Opened => ctl[p].stage \in Opened
    BY <1>1, <1>3 DEF Task, RequestOwnership, Alive, Controller, OwnerOf, WakeOf, Opened, Acquired,
       Loops
  <2>3. job.process = p => AwaitOf(job.kind, job.awaited, c.stage)
    BY <1>1, <1>3 DEF Task, RequestOwnership, Alive, AwaitOf, Controller, Loops
  <2>4. UNCHANGED <<storeVars, lock, clock, issued, legacy>>
    BY <1>3 DEF RequestOwnership
  <2> HIDE DEF c
  <2> QED
    BY <2>1, <2>2, <2>3, <2>4, TaskMoves
<1>4. CASE OwnershipRequested(p)
  <2> DEFINE c == [ctl[p] EXCEPT !.permit = TRUE, !.asking = FALSE]
  <2>1. c \in Controller /\ ctl' = [ctl EXCEPT ![p] = c]
    BY <1>1, <1>4 DEF Task, OwnershipRequested, NotifyOne, Controller, Stages
  <2>2. /\ OwnerOf(c, p, lock) /\ WakeOf(c)
        /\ c.stage \in Opened => ctl[p].stage \in Opened
    BY <1>1, <1>4 DEF Task, OwnershipRequested, NotifyOne, Controller, OwnerOf, WakeOf, Opened,
       Acquired, Loops
  <2>3. job.process = p => AwaitOf(job.kind, job.awaited, c.stage)
    BY <1>1, <1>4 DEF Task, OwnershipRequested, NotifyOne, AwaitOf, Controller, Loops
  <2>4. UNCHANGED <<storeVars, lock, clock, issued, legacy>>
    BY <1>4 DEF OwnershipRequested
  <2> HIDE DEF c
  <2> QED
    BY <2>1, <2>2, <2>3, <2>4, TaskMoves
<1>5. CASE ChallengeRouteLost(p)
  <2> DEFINE c == [ctl[p] EXCEPT !.routeLost = TRUE, !.losing = TRUE]
  <2>1. c \in Controller /\ ctl' = [ctl EXCEPT ![p] = c]
    BY <1>1, <1>5 DEF Task, ChallengeRouteLost, Alive, Controller, Stages
  <2>2. /\ OwnerOf(c, p, lock) /\ WakeOf(c)
        /\ c.stage \in Opened => ctl[p].stage \in Opened
    BY <1>1, <1>5 DEF Task, ChallengeRouteLost, Alive, Controller, OwnerOf, WakeOf, Opened, Acquired,
       Loops
  <2>3. job.process = p => AwaitOf(job.kind, job.awaited, c.stage)
    BY <1>1, <1>5 DEF Task, ChallengeRouteLost, Alive, AwaitOf, Controller, Loops
  <2>4. UNCHANGED <<storeVars, lock, clock, issued, legacy>>
    BY <1>5 DEF ChallengeRouteLost
  <2> HIDE DEF c
  <2> QED
    BY <2>1, <2>2, <2>3, <2>4, TaskMoves
<1>6. CASE RouteRevoked(p)
  <2> DEFINE c == [ctl[p] EXCEPT !.permit = TRUE, !.losing = FALSE, !.challenge = "none",
                                 !.driving = FALSE, !.recovery = TRUE]
  <2>1. c \in Controller /\ ctl' = [ctl EXCEPT ![p] = c]
    <3>1. c \in Controller
      BY <1>1 DEF Task, Controller, Stages
    <3>2. ctl'[p] = [ctl[p] EXCEPT !.permit = TRUE, !.losing = FALSE, !.challenge = "none",
                                   !.driving = FALSE, !.recovery = TRUE]
      BY <1>1, <1>6 DEF Task, RouteRevoked, NotifyOne, Controller
    <3> QED
      BY <1>1, <1>6, <3>1, <3>2 DEF Task, RouteRevoked
  <2>2. /\ OwnerOf(c, p, lock) /\ WakeOf(c)
        /\ c.stage \in Opened => ctl[p].stage \in Opened
    BY <1>1, <1>6 DEF Task, RouteRevoked, NotifyOne, Controller, OwnerOf, WakeOf, Opened, Acquired,
       Loops
  <2>3. job.process = p => AwaitOf(job.kind, job.awaited, c.stage)
    BY <1>1, <1>6 DEF Task, RouteRevoked, NotifyOne, AwaitOf, Controller, Loops
  <2>4. UNCHANGED <<storeVars, lock, clock, issued, legacy>>
    BY <1>6 DEF RouteRevoked
  <2> HIDE DEF c
  <2> QED
    BY <2>1, <2>2, <2>3, <2>4, TaskMoves
<1> QED
  BY <1>2, <1>3, <1>4, <1>5, <1>6

-----------------------------------------------------------------------------
(***************************************************************************)
(* The steps that start, take or abandon a job.                            *)
(***************************************************************************)
LEMMA SeenLoads ==
  ASSUME StoreInv
  PROVE  /\ CanLoad(seen) /\ Load(seen) \in Owed /\ Load(seen) \in Generation
         /\ seen \in Files
<1>1. seen \in Files /\ Holds(seen.manifest)
  BY DEF StoreInv, StoreTypes, DurableInv
<1>2. Certain \subseteq seen.blobs /\ seen.blobs \subseteq Possible
  BY DEF Certain, Possible
<1> QED
  BY <1>1, <1>2, HoldingLoads, LoadCases

\* Time, issues and the older directory are left alone.
LEMMA ClockKept ==
  ASSUME Inv, UNCHANGED <<clock, issued, legacy>>
  PROVE  ClockTypes /\ ClockTypes'
BY DEF Inv, ControlInv, CtlTypes, ClockTypes

\* A task that submits a job waits for it in a stage that only the owner
\* reaches.
LEMMA Submitted ==
  ASSUME Inv, NEW p \in Processes, NEW from \in Acquired, NEW to \in Acquired,
         NEW kind, NEW steps, NEW g \in Generation,
         At(p, from), Goto(p, to), StartJob(p, kind, steps, g, TRUE), lock' = lock, ClockTypes',
         \/ kind = "open" /\ steps = OpenSteps
         \/ kind = "export" /\ steps = ExportSteps /\ from \in Opened
         \/ kind \in Publishing /\ steps = PublishSteps /\ from \in Opened,
         to = from \/ (from \notin {"active_check", "active", "renewing"} /\ to \notin {"acme", "active"}),
         AwaitOf(kind, TRUE, to)
  PROVE  Inv'
<1>1. Task(p)
  BY TaskOf
<1>2. /\ job = NoJob /\ job' # NoJob /\ job'.process = p /\ job'.kind = kind /\ job'.awaited
      /\ kind \notin Publishing => doubt' = doubt
      /\ UNCHANGED <<seen, disk>>
  BY ProcessesAssumption DEF StartJob, NoJob, fileVars
<1>3. lock = p /\ ctl[p].stage = from
  BY <1>1 DEF Task, At, OwnerOf
<1>4. from \in Opened => doubt = {} /\ Synced
  BY <1>2, <1>3 DEF Inv, ControlInv, SettledInv
<1>5. StoreInv'
  BY <1>1, <1>4, JobStarted DEF Task
<1> DEFINE c == [ctl[p] EXCEPT !.stage = to]
<1>6. c \in Controller /\ ctl' = [ctl EXCEPT ![p] = c] /\ c.stage = to
  BY <1>1, ZenonT(30) DEF Task, Goto, Controller, Stages, Acquired, Opened, Loops
<1>7. OwnerOf(c, p, lock) /\ WakeOf(c)
  <2>1. to \notin {"parking", "idle", "ended", "down"}
    BY DEF Acquired, Opened, Loops
  <2>2. from \notin {"ended"}
    BY DEF Acquired, Opened, Loops
  <2> QED
    BY <1>1, <1>3, <1>6, <2>1, <2>2 DEF Task, Controller, OwnerOf, WakeOf
<1>8. job'.process = p => AwaitOf(job'.kind, job'.awaited, c.stage)
  BY <1>2, <1>6 DEF AwaitOf
<1>9. c.stage \in Opened /\ (job' = NoJob \/ job'.kind = "export") => doubt' = {} /\ Synced'
  BY <1>2, <1>4 DEF Synced, Publishing
<1> HIDE DEF c
<1>10. ControlInv'
  BY <1>2, <1>3, <1>5, <1>6, <1>7, <1>8, <1>9, ControllerMoves DEF OthersKept
<1> QED
  BY <1>5, <1>10 DEF Inv

\* A task that takes the result of its job.
LEMMA ResultTaken ==
  ASSUME Inv, NEW p \in Processes, NEW c \in Controller, TakeResult(p), ctl' = [ctl EXCEPT ![p] = c],
         OwnerOf(c, p, lock), WakeOf(c),
         c.stage \in Opened => job.ok \/ job.kind = "export"
  PROVE  Inv'
<1>1. Task(p)
  BY TaskOf
<1>2. /\ job.process = p /\ job.awaited /\ job.steps = <<>> /\ job' = NoJob
      /\ UNCHANGED <<seen, disk, failed, acked, doubt, past, clock, lock, issued, legacy>>
  BY DEF TakeResult, JobReturned, fileVars, historyVars
<1>3. StoreInv'
  BY <1>1, <1>2, JobDropped DEF Task
<1>4. job # NoJob /\ lock = p
  BY <1>1, <1>2, JobOwner DEF Task, Inv, ControlInv, OwnerInv
<1>5. c.stage \in Opened => doubt = {} /\ Synced
  <2>1. CASE job.kind = "export"
    <3>1. ctl[p].stage \in Opened
      BY <1>1, <1>2, <2>1 DEF Task, AwaitOf, Opened, Publishing
    <3> QED
      BY <2>1, <3>1 DEF Inv, ControlInv, SettledInv
  <2>2. CASE job.kind # "export" /\ job.ok
    <3>1. job.kind \in Publishing \cup {"open"}
      BY <1>1, <1>2, <2>2 DEF Task, AwaitOf, Publishing
    <3> QED
      BY <1>1, <1>2, <2>2, <3>1 DEF Task, StoreInv, PublishInv, OpenInv
  <2> QED
    BY <2>1, <2>2
<1>6. ClockTypes'
  BY <1>2, ClockKept
<1>7. job'.process # p
  BY <1>2, ProcessesAssumption DEF NoJob
<1>8. c.stage \in Opened => doubt' = {} /\ Synced'
  BY <1>2, <1>5 DEF Synced
<1>9. OthersKept(p) /\ lock' = lock
  BY <1>2, <1>4 DEF OthersKept
<1>10. ControlInv'
  BY <1>2, <1>3, <1>6, <1>7, <1>8, <1>9, ControllerMoves
<1> QED
  BY <1>3, <1>10 DEF Inv

\* A task that gives up while its job runs.
LEMMA Abandoned ==
  ASSUME Inv, NEW p \in Processes, NEW c \in Controller, AbandonJob(p), ctl' = [ctl EXCEPT ![p] = c],
         UNCHANGED <<clock, lock, issued, legacy>>, OwnerOf(c, p, lock), WakeOf(c),
         c.stage \in {"sleep", "ended"}
  PROVE  Inv'
<1>1. Task(p)
  BY TaskOf
<1>2. /\ StoreInv' /\ UNCHANGED <<seen, disk, failed, acked, doubt, past>>
      /\ job'.process = job.process /\ job'.kind = job.kind
      /\ job.process # p => job' = job
      /\ job.process = p => ~job'.awaited /\ job # NoJob /\ job' # NoJob
  BY <1>1, JobAbandoned DEF Task
<1>3. ClockTypes'
  BY ClockKept
<1>4. OthersKept(p)
  BY <1>2 DEF OthersKept, Inv, ControlInv, OwnerInv, Synced
<1>5. job'.process = p => AwaitOf(job'.kind, job'.awaited, c.stage)
  BY <1>2 DEF AwaitOf
<1>6. c.stage \notin Opened
  BY DEF Opened, Loops
<1>7. ControlInv'
  BY <1>2, <1>3, <1>4, <1>5, <1>6, ControllerMoves
<1> QED
  BY <1>2, <1>7 DEF Inv

\* What a publication writes is a generation.
LEMMA WrittenTyped ==
  ASSUME StoreInv
  PROVE  /\ WithAccount \in Generation
         /\ \A c \in Certificates : WithCertificate(c) \in Generation
BY SeenLoads DEF WithAccount, WithCertificate, Generation, Certificates

\* Every step that submits a job keeps the invariant.
LEMMA SubmitKept ==
  ASSUME Inv, NEW p \in Processes,
         OpenStore(p) \/ ImportAccount(p) \/ ImportCertificate(p) \/ LoadSnapshot(p)
           \/ AcmeCached(p) \/ AcmeAccount(p) \/ AcmeIssue(p)
  PROVE  Inv'
<1>1. Task(p) /\ StoreInv
  BY TaskOf DEF Task
<1>2. WithAccount \in Generation /\ \A c \in Certificates : WithCertificate(c) \in Generation
  BY <1>1, WrittenTyped
<1>3. Empty \in Generation
  BY EmptyTyped
<1>4. CASE OpenStore(p)
  <2>1. /\ At(p, "open") /\ Goto(p, "opening") /\ StartJob(p, "open", OpenSteps, Empty, TRUE)
        /\ UNCHANGED <<clock, lock, issued, legacy>>
    BY <1>4 DEF OpenStore, Submit
  <2>2. AwaitOf("open", TRUE, "opening") /\ "open" \in Acquired /\ "opening" \in Acquired
    BY DEF AwaitOf, Acquired
  <2> QED
    BY <1>3, <2>1, <2>2, ClockKept, Submitted
<1>5. CASE ImportAccount(p)
  <2>1. CASE Submit(p, "import_account", "importing_account", "account", PublishSteps, WithAccount)
    <3>1. /\ At(p, "import_account") /\ Goto(p, "importing_account")
          /\ StartJob(p, "account", PublishSteps, WithAccount, TRUE)
          /\ UNCHANGED <<clock, lock, issued, legacy>>
      BY <2>1 DEF Submit
    <3>2. /\ AwaitOf("account", TRUE, "importing_account") /\ "importing_account" \in Acquired
          /\ "import_account" \in Acquired \cap Opened /\ "account" \in Publishing
      BY DEF AwaitOf, Acquired, Opened, Publishing
    <3> QED
      BY <1>2, <3>1, <3>2, ClockKept, Submitted
  <2>2. CASE /\ At(p, "import_account")
             /\ Goto(p, IF seen.manifest = <<>> THEN "import_certificate" ELSE "load")
             /\ UNCHANGED <<storeVars, clock, lock, issued, legacy, faults>>
    BY <2>2, GotoKept
  <2> QED
    BY <1>5, <2>1, <2>2 DEF ImportAccount
<1>6. CASE ImportCertificate(p)
  <2> DEFINE g == WithCertificate(legacy.certificate)
  <2>1. CASE Submit(p, "import_certificate", "importing_certificate", "certificate", PublishSteps, g)
    <3>1. /\ At(p, "import_certificate") /\ Goto(p, "importing_certificate")
          /\ StartJob(p, "certificate", PublishSteps, g, TRUE)
          /\ UNCHANGED <<clock, lock, issued, legacy>>
      BY <2>1 DEF Submit
    <3>2. /\ AwaitOf("certificate", TRUE, "importing_certificate") /\ "importing_certificate" \in Acquired
          /\ "import_certificate" \in Acquired \cap Opened /\ "certificate" \in Publishing
      BY DEF AwaitOf, Acquired, Opened, Publishing
    <3>3. g \in Generation
      BY <1>1, <1>2, ProcessesAssumption DEF Task, ClockTypes, Generation, Certificates
    <3> HIDE DEF g
    <3> QED
      BY <3>1, <3>2, <3>3, ClockKept, Submitted
  <2>2. CASE /\ At(p, "import_certificate") /\ Goto(p, "load")
             /\ UNCHANGED <<storeVars, clock, lock, issued, legacy, faults>>
    BY <2>2, GotoKept
  <2> QED
    BY <1>6, <2>1, <2>2 DEF ImportCertificate
<1>7. CASE LoadSnapshot(p)
  <2>1. /\ At(p, "load") /\ Goto(p, "loading") /\ StartJob(p, "export", ExportSteps, Empty, TRUE)
        /\ UNCHANGED <<clock, lock, issued, legacy>>
    BY <1>7 DEF LoadSnapshot, Submit
  <2>2. /\ AwaitOf("export", TRUE, "loading") /\ "loading" \in Acquired
        /\ "load" \in Acquired \cap Opened
    BY DEF AwaitOf, Acquired, Opened
  <2> QED
    BY <1>3, <2>1, <2>2, ClockKept, Submitted
<1>8. CASE AcmeCached(p)
  <2>1. /\ At(p, "acme") /\ Goto(p, "confirming_cached")
        /\ StartJob(p, "export", ExportSteps, Empty, TRUE)
        /\ UNCHANGED <<clock, lock, issued, legacy>>
    BY <1>8 DEF AcmeCached, Submit
  <2>2. /\ AwaitOf("export", TRUE, "confirming_cached") /\ "confirming_cached" \in Acquired
        /\ "acme" \in Acquired \cap Opened
    BY DEF AwaitOf, Acquired, Opened, Loops
  <2> QED
    BY <1>3, <2>1, <2>2, ClockKept, Submitted
<1>9. CASE AcmeAccount(p)
  <2>1. PICK loop \in {"acme", "active"} : Submit(p, loop, loop, "account", PublishSteps, WithAccount)
    BY <1>9 DEF AcmeAccount
  <2>2. /\ At(p, loop) /\ Goto(p, loop) /\ StartJob(p, "account", PublishSteps, WithAccount, TRUE)
        /\ UNCHANGED <<clock, lock, issued, legacy>>
    BY <2>1 DEF Submit
  <2>3. /\ AwaitOf("account", TRUE, loop) /\ loop \in Acquired \cap Opened /\ "account" \in Publishing
    BY DEF AwaitOf, Acquired, Opened, Loops, Publishing
  <2> QED
    BY <1>2, <2>2, <2>3, ClockKept, Submitted
<1>10. CASE AcmeIssue(p)
  <2>1. PICK loop \in {"acme", "active"}, c \in issued + 1..MaxCertificate :
          /\ At(p, loop) /\ Goto(p, loop) /\ issued' = c
          /\ StartJob(p, "certificate", PublishSteps, WithCertificate(c), TRUE)
    BY <1>10 DEF AcmeIssue, Due, Polls
  <2>2. c \in Certificates /\ UNCHANGED <<clock, lock, legacy>>
    BY <1>1, <1>10, CertificateAssumption DEF AcmeIssue, Task, ClockTypes, Certificates
  <2>3. /\ AwaitOf("certificate", TRUE, loop) /\ loop \in Acquired \cap Opened /\ "certificate" \in Publishing
    BY DEF AwaitOf, Acquired, Opened, Loops, Publishing
  <2>4. ClockTypes' /\ WithCertificate(c) \in Generation
    BY <1>1, <1>2, <2>1, <2>2 DEF Task, ClockTypes
  <2> QED
    BY <2>1, <2>2, <2>3, <2>4, Submitted
<1> QED
  BY <1>4, <1>5, <1>6, <1>7, <1>8, <1>9, <1>10

(***************************************************************************)
(* What becomes of a task that takes a result.                             *)
(***************************************************************************)
LEMMA ProceedSound ==
  ASSUME NEW p \in Processes, Task(p), NEW ok \in BOOLEAN, NEW t \in Opened \ Loops, Proceed(p, ok, t),
         ctl[p].stage \in Acquired \ {"active_check", "active", "renewing"},
         NEW c, c = IF ok THEN [ctl[p] EXCEPT !.stage = t] ELSE Ended(ctl[p])
  PROVE  /\ c \in Controller /\ ctl' = [ctl EXCEPT ![p] = c]
         /\ OwnerOf(c, p, lock) /\ WakeOf(c)
         /\ c.stage \in Opened => ok
<1>1. ctl' = [ctl EXCEPT ![p] = c]
  BY DEF Task, Proceed
<1>2. CASE ok
  <2>1. c \in Controller /\ c.stage = t
    BY <1>2, ZenonT(30) DEF Task, Controller, Stages, Opened, Loops
  <2>2. t \notin {"parking", "idle", "acme", "active", "down"} /\ t \in Acquired /\ ctl[p].stage # "ended"
    BY DEF Opened, Loops, Acquired
  <2>3. OwnerOf(c, p, lock) /\ WakeOf(c)
    BY <1>2, <2>1, <2>2 DEF Task, Controller, OwnerOf, WakeOf
  <2> QED
    BY <1>1, <1>2, <2>1, <2>3
<1>3. CASE ~ok
  <2>1. c = Ended(ctl[p]) /\ ctl[p].stage # "ended" /\ "sleep" \notin Opened
    BY <1>3 DEF Acquired, Opened, Loops
  <2> QED
    BY <1>1, <2>1, EndedSound DEF Task
<1> QED
  BY <1>2, <1>3

\* A controller after an install, and after an error of its loop.
InstalledAt(c, snap, t) == [c EXCEPT !.snap = snap, !.ready = TRUE, !.stage = t]

\* Installing a certificate keeps what holds of a process.
LEMMA InstalledSound ==
  ASSUME NEW c \in Controller, NEW p, NEW holder, OwnerOf(c, p, holder), NEW snap \in Certificates,
         ~c.maintenance, NEW t \in {"proving", "active_check"}, c.stage \in Opened,
         c.recovery \/ t = "active_check"
  PROVE  /\ InstalledAt(c, snap, t) \in Controller /\ InstalledAt(c, snap, t).stage = t
         /\ OwnerOf(InstalledAt(c, snap, t), p, holder) /\ WakeOf(InstalledAt(c, snap, t))
<1> DEFINE d == InstalledAt(c, snap, t)
<1>1. d \in Controller /\ d.stage = t
  BY DEF InstalledAt, Controller, Stages
<1>2. /\ d.requested = c.requested /\ d.store = c.store /\ d.challenge = c.challenge
      /\ d.driving = c.driving /\ d.recovery = c.recovery /\ d.maintenance = c.maintenance
  BY DEF InstalledAt, Controller
<1> HIDE DEF d
<1>3. OwnerOf(d, p, holder)
  <2>1. holder = p /\ c.requested /\ t # "down"
    BY DEF OwnerOf, Acquired
  <2> QED
    BY <1>1, <1>2, <2>1 DEF OwnerOf
<1>4. WakeOf(d)
  BY <1>1 DEF WakeOf
<1> QED
  BY <1>1, <1>3, <1>4 DEF d

\* An error of the loop gives up challenge and store with the activation.
LEMMA LoopErrorSound ==
  ASSUME NEW c \in Controller, NEW p, NEW holder, OwnerOf(c, p, holder), c.stage # "ended"
  PROVE  /\ LoopError(c) \in Controller /\ OwnerOf(LoopError(c), p, holder) /\ WakeOf(LoopError(c))
         /\ LoopError(c).stage = "sleep"
<1> DEFINE e == Ended(c)
<1>1. /\ e \in Controller /\ e.stage = "sleep" /\ OwnerOf(e, p, holder) /\ WakeOf(e)
  BY EndedSound
<1> HIDE DEF e
<1> DEFINE r == [e EXCEPT !.failedRenewal = c.snap]
<1>2. r \in Controller /\ r.stage = "sleep" /\ OwnerOf(r, p, holder) /\ WakeOf(r)
  <2>1. r \in Controller /\ r.stage = "sleep"
    BY <1>1 DEF Controller
  <2>2. /\ r.requested = e.requested /\ r.store = e.store /\ r.challenge = e.challenge
        /\ r.driving = e.driving /\ r.recovery = e.recovery /\ r.maintenance = e.maintenance
        /\ r.stage = e.stage /\ r.tick = e.tick /\ r.ready = e.ready
    BY <1>1 DEF Controller
  <2> HIDE DEF r
  <2> QED
    BY <1>1, <2>1, <2>2 DEF OwnerOf, WakeOf
<1>3. LoopError(c) = r \/ LoopError(c) = e
  BY DEF LoopError, RenewalFailed, e
<1> HIDE DEF r
<1> QED
  BY <1>1, <1>2, <1>3

\* The result that a task takes is that of the job it waits for.
LEMMA ResultOf ==
  ASSUME Inv, NEW p \in Processes, TakeResult(p)
  PROVE  /\ job.process = p /\ job.awaited /\ job.ok \in BOOLEAN /\ Exported \in Certificates
         /\ AwaitOf(job.kind, TRUE, ctl[p].stage)
<1>1. job.process = p /\ job.awaited /\ Task(p)
  BY TaskOf DEF TakeResult, JobReturned
<1>2. job \in Job
  BY <1>1 DEF Task, StoreInv, StoreTypes
<1>3. job.ok \in BOOLEAN /\ job.awaited = TRUE /\ job.found \in Certificates
  BY <1>1, <1>2 DEF Job
<1>4. Exported \in Certificates
  BY <1>3, CertificateAssumption DEF Exported, Certificates
<1>5. AwaitOf(job.kind, job.awaited, ctl[p].stage)
  BY <1>1 DEF Task
<1> QED
  BY <1>1, <1>3, <1>4, <1>5

\* Results of the jobs of an activation keep the invariant.
LEMMA ActivationResultKept ==
  ASSUME Inv, NEW p \in Processes,
         StoreOpened(p) \/ Imported(p) \/ SnapshotLoaded(p)
  PROVE  Inv'
<1>1. Task(p)
  BY TaskOf
<1>2. ASSUME NEW s \in Acquired \ {"active_check", "active", "renewing"}, NEW t \in Opened \ Loops,
             At(p, s), TakeResult(p), Proceed(p, job.ok, t)
      PROVE  Inv'
  <2> DEFINE c == IF job.ok THEN [ctl[p] EXCEPT !.stage = t] ELSE Ended(ctl[p])
  <2>1. job.ok \in BOOLEAN /\ ctl[p].stage = s
    BY <1>2, ResultOf DEF At
  <2>2. /\ c \in Controller /\ ctl' = [ctl EXCEPT ![p] = c] /\ OwnerOf(c, p, lock) /\ WakeOf(c)
        /\ c.stage \in Opened => job.ok
    BY <1>1, <1>2, <2>1, ProceedSound
  <2> HIDE DEF c
  <2> QED
    BY <1>2, <2>2, ResultTaken
<1>3. CASE StoreOpened(p)
  <2>1. "opening" \in Acquired \ {"active_check", "active", "renewing"} /\ "import_account" \in Opened \ Loops
    BY DEF Acquired, Opened, Loops
  <2> QED
    BY <1>2, <1>3, <2>1 DEF StoreOpened
<1>4. CASE Imported(p)
  <2>1. /\ {"importing_account", "importing_certificate"} \subseteq Acquired \ {"active_check", "active", "renewing"}
        /\ {"import_certificate", "load"} \subseteq Opened \ Loops
    BY DEF Acquired, Opened, Loops
  <2> QED
    BY <1>2, <1>4, <2>1 DEF Imported
<1>5. CASE SnapshotLoaded(p)
  <2>1. At(p, "loading") /\ TakeResult(p) /\ ctl[p].stage = "loading"
    BY <1>5 DEF SnapshotLoaded, At
  <2>2. Exported \in Certificates /\ job.kind = "export"
    BY <2>1, ResultOf DEF AwaitOf, Loops
  <2>3. ctl[p].stage \in Opened /\ "loading" \in Acquired /\ "proving" \in Opened \ Loops
    BY <2>1 DEF Acquired, Opened, Loops
  <2>4. CASE CanInstall(p, Exported)
    <3> DEFINE c == InstalledAt(ctl[p], Exported, "proving")
    <3>1. ctl' = [ctl EXCEPT ![p] = c]
      BY <1>1, <1>5, <2>4 DEF SnapshotLoaded, Installed, InstalledAt, Task, Controller
    <3>2. ctl[p].recovery /\ ~ctl[p].maintenance
      BY <1>1, <2>1, <2>4 DEF Task, OwnerOf, Acquired, Opened, CanInstall
    <3>3. ctl[p] \in Controller /\ OwnerOf(ctl[p], p, lock) /\ "proving" \in {"proving", "active_check"}
      BY <1>1 DEF Task
    <3>4. c \in Controller /\ OwnerOf(c, p, lock) /\ WakeOf(c)
      BY <2>2, <2>3, <3>2, <3>3, InstalledSound
    <3> HIDE DEF c
    <3> QED
      BY <2>1, <2>2, <3>1, <3>4, ResultTaken
  <2>5. CASE ~CanInstall(p, Exported)
    <3> DEFINE ok == Exported = 0
               c == IF ok THEN [ctl[p] EXCEPT !.stage = "proving"] ELSE Ended(ctl[p])
    <3>1. Proceed(p, ok, "proving") /\ ok \in BOOLEAN
      BY <1>5, <2>5 DEF SnapshotLoaded
    <3> HIDE DEF ok
    <3>2. /\ c \in Controller /\ ctl' = [ctl EXCEPT ![p] = c] /\ OwnerOf(c, p, lock) /\ WakeOf(c)
      BY <1>1, <2>1, <2>3, <3>1, ProceedSound
    <3> HIDE DEF c
    <3> QED
      BY <2>1, <2>2, <3>2, ResultTaken
  <2> QED
    BY <2>4, <2>5
<1> QED
  BY <1>3, <1>4, <1>5

\* An event of the recovery deadline changes nothing else of a process.
LEMMA RecoveredSound ==
  ASSUME NEW c \in Controller, NEW snap, NEW event,
         NEW r, r = Recovered(c, snap, event) \/ r = c
  PROVE  /\ r \in Controller
         /\ r.stage = c.stage /\ r.challenge = c.challenge /\ r.store = c.store
         /\ r.driving = c.driving /\ r.requested = c.requested /\ r.maintenance = c.maintenance
         /\ r.tick = c.tick /\ r.ready = c.ready
<1>1. 0 \in Certificates
  BY CertificateAssumption DEF Certificates
<1>2. CASE r = [c EXCEPT !.recovery = FALSE, !.failedRenewal = 0]
  BY <1>1, <1>2 DEF Controller
<1>3. CASE r = c
  BY <1>3
<1> QED
  BY <1>2, <1>3 DEF Recovered

\* In the loops: what the storage jobs of ACME and the exports return.
LEMMA LoopResultKept ==
  ASSUME Inv, NEW p \in Processes, AcmeStored(p) \/ Confirmed(p) \/ Renewed(p)
  PROVE  Inv'
<1>1. /\ Task(p) /\ ctl[p] \in Controller /\ OwnerOf(ctl[p], p, lock) /\ WakeOf(ctl[p])
      /\ ctl \in [Processes -> Controller]
  BY TaskOf DEF Task
<1>2. TakeResult(p)
  BY DEF AcmeStored, Confirmed, Renewed
<1>3. /\ job.process = p /\ job.awaited /\ job.ok \in BOOLEAN /\ Exported \in Certificates
      /\ AwaitOf(job.kind, TRUE, ctl[p].stage)
  BY <1>2, ResultOf
<1>4. ASSUME ctl' = [ctl EXCEPT ![p] = LoopError(@)], ctl[p].stage # "ended"
      PROVE  Inv'
  <2> DEFINE c == LoopError(ctl[p])
  <2>1. /\ c \in Controller /\ ctl' = [ctl EXCEPT ![p] = c] /\ OwnerOf(c, p, lock) /\ WakeOf(c)
        /\ c.stage \notin Opened
    BY <1>1, <1>4, LoopErrorSound DEF Opened, Loops
  <2> HIDE DEF c
  <2> QED
    BY <1>2, <2>1, ResultTaken
<1>5. CASE AcmeStored(p)
  <2>1. CASE job.ok
    <3>1. ctl' = [ctl EXCEPT ![p] = ctl[p]]
      BY <1>1, <1>5, <2>1 DEF AcmeStored
    <3> QED
      BY <1>1, <1>2, <2>1, <3>1, ResultTaken
  <2>2. CASE ~job.ok
    BY <1>4, <1>5, <2>2 DEF AcmeStored, Polls, At
  <2> QED
    BY <2>1, <2>2
<1>6. CASE Confirmed(p)
  <2>1. PICK event \in {"cached", "stored"} :
          /\ At(p, IF event = "cached" THEN "confirming_cached" ELSE "confirming_new")
          /\ LET recovered == IF Exported # 0 THEN Recovered(ctl[p], Exported, event) ELSE ctl[p]
             IN  ctl' = [ctl EXCEPT ![p] =
                           IF CanInstall(p, Exported)
                           THEN [Installed(recovered, Exported) EXCEPT !.stage = "active_check"]
                           ELSE Ended(recovered)]
    BY <1>6 DEF Confirmed
  <2>2. ctl[p].stage \in {"confirming_cached", "confirming_new"} /\ ctl[p].stage \in Opened
    BY <2>1 DEF At, Opened
  <2>3. job.kind = "export" /\ ctl[p].stage # "ended"
    BY <1>3, <2>2 DEF AwaitOf, Loops
  <2> DEFINE r == IF Exported # 0 THEN Recovered(ctl[p], Exported, event) ELSE ctl[p]
  <2>4. /\ r \in Controller
        /\ r.stage = ctl[p].stage /\ r.challenge = ctl[p].challenge /\ r.store = ctl[p].store
        /\ r.driving = ctl[p].driving /\ r.requested = ctl[p].requested
        /\ r.maintenance = ctl[p].maintenance /\ r.tick = ctl[p].tick /\ r.ready = ctl[p].ready
    BY <1>1, RecoveredSound
  <2>5. CASE CanInstall(p, Exported)
    <3> DEFINE c == [r EXCEPT !.snap = Exported, !.ready = TRUE, !.stage = "active_check"]
    <3>1. ctl' = [ctl EXCEPT ![p] = c]
      <4>1. ctl' = [ctl EXCEPT ![p] = [Installed(r, Exported) EXCEPT !.stage = "active_check"]]
        BY <2>1, <2>5
      <4> HIDE DEF r
      <4>2. [Installed(r, Exported) EXCEPT !.stage = "active_check"] = c
        BY <2>4 DEF Installed, Controller
      <4> QED
        BY <4>1, <4>2
    <3> HIDE DEF r
    <3>2. c \in Controller /\ c.stage = "active_check"
      BY <1>3, <2>4 DEF Controller, Stages
    <3>3. /\ c.challenge = r.challenge /\ c.store = r.store /\ c.driving = r.driving
          /\ c.requested = r.requested /\ c.maintenance = r.maintenance
      BY <2>4 DEF Controller
    <3> HIDE DEF c
    <3>4. OwnerOf(c, p, lock) /\ WakeOf(c)
      <4>1. lock = p /\ ctl[p].requested /\ ~ctl[p].maintenance
        BY <1>1, <2>2, <2>5 DEF OwnerOf, Acquired, CanInstall
      <4> QED
        BY <2>4, <3>2, <3>3, <4>1 DEF OwnerOf, WakeOf
    <3> QED
      BY <1>2, <2>3, <3>1, <3>2, <3>4, ResultTaken
  <2>6. CASE ~CanInstall(p, Exported)
    <3> DEFINE c == Ended(r)
    <3>1. ctl' = [ctl EXCEPT ![p] = c]
      BY <2>1, <2>6
    <3> HIDE DEF r
    <3>2. c \in Controller /\ c.stage = "sleep"
      BY <2>4 DEF Ended, Controller, Stages
    <3>3. /\ c.challenge = "none" /\ ~c.store /\ ~c.driving /\ c.recovery
          /\ c.requested = r.requested /\ c.maintenance = r.maintenance
      BY <2>4 DEF Ended, Controller
    <3> HIDE DEF c
    <3>4. OwnerOf(c, p, lock) /\ WakeOf(c) /\ c.stage \notin Opened
      <4>1. ~ctl[p].maintenance
        BY <1>1, <2>3 DEF OwnerOf
      <4> QED
        BY <2>4, <3>2, <3>3, <4>1 DEF OwnerOf, WakeOf, Acquired, Opened, Loops
    <3> QED
      BY <1>2, <3>1, <3>2, <3>4, ResultTaken
  <2> QED
    BY <2>5, <2>6
<1>7. CASE Renewed(p)
  <2>1. ctl[p].stage = "renewing" /\ ctl[p].stage \in Opened /\ ctl[p].stage # "ended"
    BY <1>7 DEF Renewed, At, Opened
  <2>2. job.kind = "export"
    BY <1>3, <2>1 DEF AwaitOf, Loops
  <2>3. CASE CanInstall(p, Exported)
    <3> DEFINE c == [ctl[p] EXCEPT !.snap = Exported, !.ready = TRUE, !.stage = "active_check",
                                   !.recovery = FALSE, !.failedRenewal = 0]
    <3>1. 0 \in Certificates
      BY CertificateAssumption DEF Certificates
    <3>2. c \in Controller /\ c.stage = "active_check"
      <4> DEFINE d == InstalledAt(ctl[p], Exported, "active_check")
      <4>1. d \in Controller /\ d.stage = "active_check"
        <5>1. ~ctl[p].maintenance
          BY <2>3 DEF CanInstall
        <5> QED
          BY <1>1, <1>3, <2>1, <5>1, InstalledSound
      <4>2. c = [d EXCEPT !.recovery = FALSE, !.failedRenewal = 0]
        BY DEF InstalledAt
      <4> HIDE DEF c, d
      <4> QED
        BY <3>1, <4>1, <4>2 DEF Controller
    <3>3. ctl' = [ctl EXCEPT ![p] = c]
      <4>1. ctl'[p] = c
        BY <1>1, <1>7, <2>3 DEF Renewed, Installed, Controller
      <4> QED
        BY <1>1, <1>7, <2>3, <4>1 DEF Renewed
    <3>4. OwnerOf(c, p, lock) /\ WakeOf(c)
      <4>1. lock = p /\ ctl[p].requested /\ ~ctl[p].maintenance
        BY <1>1, <2>1, <2>3 DEF OwnerOf, Acquired, CanInstall
      <4> QED
        BY <1>1, <4>1 DEF OwnerOf, WakeOf, Controller
    <3> HIDE DEF c
    <3> QED
      BY <1>2, <2>2, <3>2, <3>3, <3>4, ResultTaken
  <2>4. CASE ~CanInstall(p, Exported)
    BY <1>4, <1>7, <2>1, <2>4 DEF Renewed
  <2> QED
    BY <2>3, <2>4
<1> QED
  BY <1>5, <1>6, <1>7

\* A certificate or an account that was published keeps the invariant.
LEMMA PublishedKept ==
  ASSUME Inv, NEW p \in Processes, AcmePublished(p)
  PROVE  Inv'
<1>1. /\ Task(p) /\ ctl[p] \in Controller /\ OwnerOf(ctl[p], p, lock) /\ StoreInv
      /\ ctl \in [Processes -> Controller]
  BY TaskOf DEF Task
<1>2. /\ job.process = p /\ job.awaited /\ job.steps = <<>> /\ job.ok /\ job.kind = "certificate"
      /\ job' = [job EXCEPT !.kind = "export", !.steps = ExportSteps, !.generation = Empty]
      /\ UNCHANGED <<seen, disk, failed, acked, doubt, past, clock, lock, issued, legacy>>
  BY DEF AcmePublished, JobReturned, fileVars, historyVars
<1>3. StoreInv' /\ job'.process = p /\ job'.kind = "export" /\ job' # NoJob /\ job'.awaited = job.awaited
  BY <1>1, <1>2, JobExports
<1>4. doubt' = {} /\ Synced'
  BY <1>1, <1>2 DEF StoreInv, PublishInv, Publishing, Synced
<1>5. ctl[p].stage \in {"acme", "active"}
  BY DEF AcmePublished, Polls, At
<1> DEFINE t == IF ctl[p].stage = "acme" THEN "confirming_new" ELSE "renewing"
           c == [ctl[p] EXCEPT !.stage = t]
<1>6. c \in Controller /\ c.stage = t /\ ctl' = [ctl EXCEPT ![p] = c]
  BY <1>1 DEF AcmePublished, Goto, Controller, Stages
<1>7. OwnerOf(c, p, lock) /\ WakeOf(c) /\ lock = p
  BY <1>1, <1>5 DEF OwnerOf, WakeOf, Controller, Acquired, Opened, Loops
<1>8. AwaitOf(job'.kind, job'.awaited, c.stage)
  BY <1>2, <1>3, <1>6 DEF AwaitOf
<1> HIDE DEF c
<1>9. OthersKept(p) /\ ClockTypes'
  BY <1>2, <1>7, ClockKept DEF OthersKept
<1>10. ControlInv'
  BY <1>2, <1>3, <1>4, <1>6, <1>7, <1>8, <1>9, ControllerMoves
<1> QED
  BY <1>3, <1>10 DEF Inv

\* So does an order that fails.
LEMMA AcmeFailsKept ==
  ASSUME Inv, NEW p \in Processes, AcmeFails(p)
  PROVE  Inv'
<1>1. /\ Task(p) /\ ctl[p] \in Controller /\ OwnerOf(ctl[p], p, lock)
  BY TaskOf DEF Task
<1> DEFINE c == LoopError(ctl[p])
<1>2. ctl' = [ctl EXCEPT ![p] = c] /\ UNCHANGED <<storeVars, lock, clock, issued, legacy>>
  BY DEF AcmeFails
<1>3. job.process # p /\ ctl[p].stage # "ended"
  BY DEF AcmeFails, Polls, At
<1>4. c \in Controller /\ OwnerOf(c, p, lock) /\ WakeOf(c) /\ c.stage \notin Opened
  BY <1>1, <1>3, LoopErrorSound DEF Opened, Loops
<1> HIDE DEF c
<1> QED
  BY <1>2, <1>3, <1>4, TaskMoves

\* So does the loop that looks at the route again, told or by itself.
LEMMA RouteKept ==
  ASSUME Inv, NEW p \in Processes, CheckRoute(p) \/ LoopNotified(p)
  PROVE  Inv'
<1>1. /\ Task(p) /\ ctl[p] \in Controller /\ OwnerOf(ctl[p], p, lock) /\ WakeOf(ctl[p])
      /\ ctl \in [Processes -> Controller]
      /\ job.process = p => AwaitOf(job.kind, job.awaited, ctl[p].stage)
  BY TaskOf DEF Task
<1>2. /\ ctl[p].stage \in Loops /\ ctl[p].stage \in Opened /\ ctl[p].stage # "ended"
      /\ UNCHANGED <<clock, lock, issued, legacy>>
  BY DEF CheckRoute, LoopNotified, At, Opened, Loops
<1> DEFINE e == Ended(ctl[p])
<1>3. e \in Controller /\ e.stage = "sleep" /\ OwnerOf(e, p, lock) /\ WakeOf(e)
  BY <1>1, <1>2, EndedSound
<1> HIDE DEF e
<1>4. CASE ctl[p].routeLost
  <2>1. AbandonJob(p)
    BY <1>4 DEF CheckRoute, LoopNotified
  <2>2. PICK c \in {e, [e EXCEPT !.permit = FALSE]} : ctl' = [ctl EXCEPT ![p] = c]
    <3>1. CASE CheckRoute(p)
      BY <1>1, <1>4, <3>1 DEF CheckRoute, Proceed, e
    <3>2. CASE LoopNotified(p)
      BY <1>1, <1>4, <3>2 DEF LoopNotified, e
    <3> QED
      BY <3>1, <3>2
  <2>3. c \in Controller /\ c.stage = "sleep" /\ OwnerOf(c, p, lock) /\ WakeOf(c)
    <3>1. CASE c = e
      BY <1>3, <3>1
    <3>2. CASE c = [e EXCEPT !.permit = FALSE]
      <4>1. c \in Controller /\ c.stage = "sleep"
        BY <1>3, <3>2 DEF Controller
      <4>2. /\ c.requested = e.requested /\ c.store = e.store /\ c.challenge = e.challenge
            /\ c.driving = e.driving /\ c.recovery = e.recovery /\ c.maintenance = e.maintenance
            /\ c.tick = e.tick /\ c.ready = e.ready
        BY <1>3, <3>2 DEF Controller
      <4> QED
        BY <1>3, <4>1, <4>2 DEF OwnerOf, WakeOf
    <3> QED
      BY <2>2, <3>1, <3>2
  <2> QED
    BY <1>2, <2>1, <2>2, <2>3, Abandoned
<1>5. CASE ~ctl[p].routeLost
  <2>1. UNCHANGED storeVars
    BY <1>5 DEF CheckRoute, LoopNotified
  <2>2. PICK t \in Loops, b \in BOOLEAN :
          /\ ctl' = [ctl EXCEPT ![p] = [ctl[p] EXCEPT !.permit = b, !.stage = t]]
          /\ t \in {"acme", "acme_check"} <=> ctl[p].stage \in {"acme", "acme_check"}
    <3>1. CASE CheckRoute(p)
      <4>1. PICK loop \in {"acme", "active"} :
              /\ ctl[p].stage = IF loop = "acme" THEN "acme_check" ELSE "active_check"
              /\ ctl' = [ctl EXCEPT ![p] = [ctl[p] EXCEPT !.stage = loop]]
        BY <1>1, <1>5, <3>1 DEF CheckRoute, Proceed, At
      <4>2. [ctl[p] EXCEPT !.stage = loop] = [ctl[p] EXCEPT !.permit = ctl[p].permit, !.stage = loop]
        BY <1>1 DEF Controller
      <4>3. ctl[p].permit \in BOOLEAN /\ loop \in Loops
        BY <1>1 DEF Controller, Loops
      <4> QED
        BY <4>1, <4>2, <4>3
    <3>2. CASE LoopNotified(p)
      <4> DEFINE t == IF ctl[p].stage = "acme" THEN "acme_check" ELSE "active_check"
      <4>1. ctl' = [ctl EXCEPT ![p] = [ctl[p] EXCEPT !.permit = FALSE, !.stage = t]]
        <5>1. t = IF At(p, "acme") THEN "acme_check" ELSE "active_check"
          BY <3>2 DEF LoopNotified, At
        <5> HIDE DEF t
        <5> QED
          BY <1>1, <1>5, <3>2, <5>1 DEF LoopNotified
      <4>2. ctl[p].stage \in {"acme", "active"}
        BY <3>2 DEF LoopNotified, At
      <4> QED
        BY <4>1, <4>2 DEF Loops
    <3> QED
      BY <3>1, <3>2
  <2> DEFINE c == [ctl[p] EXCEPT !.permit = b, !.stage = t]
  <2>3. c \in Controller /\ c.stage = t /\ c.routeLost = ctl[p].routeLost
    BY <1>1 DEF Controller, Stages, Loops
  <2>4. OwnerOf(c, p, lock) /\ WakeOf(c) /\ c.stage \in Opened
    BY <1>1, <1>2, <1>5, <2>2 DEF OwnerOf, WakeOf, Controller, Acquired, Opened, Loops
  <2>5. job.process = p => AwaitOf(job.kind, job.awaited, c.stage)
    BY <1>1, <1>2, <2>3 DEF AwaitOf, Loops
  <2> HIDE DEF c
  <2> QED
    BY <1>2, <2>1, <2>2, <2>3, <2>4, <2>5, TaskMoves DEF c
<1> QED
  BY <1>1, <1>4, <1>5

\* Maintenance gives up ownership for good.
LEMMA MaintenanceKept ==
  ASSUME Inv, NEW p \in Processes, (WatchdogAct(p) /\ ctl[p].tick = "expired") \/ WatchdogOverdue(p)
  PROVE  Inv'
<1>1. /\ Task(p) /\ ctl[p] \in Controller /\ OwnerOf(ctl[p], p, lock)
      /\ ctl \in [Processes -> Controller]
  BY TaskOf DEF Task
<1>2. Maintenance(p) /\ UNCHANGED <<clock, lock, issued, legacy>>
  BY DEF WatchdogAct, WatchdogOverdue
<1> DEFINE c == [ctl[p] EXCEPT !.stage = "ended", !.tick = "none", !.maintenance = TRUE,
                               !.challenge = "none", !.driving = FALSE, !.ready = FALSE]
<1>3. c \in Controller
  BY <1>1 DEF Controller, Stages
<1>4. /\ c.stage = "ended" /\ c.tick = "none" /\ c.challenge = "none" /\ ~c.driving /\ ~c.ready
      /\ c.store = ctl[p].store
  BY <1>1 DEF Controller
<1>5. ctl' = [ctl EXCEPT ![p] = c]
  <2>1. ctl'[p] = c
    BY <1>1, <1>2 DEF Maintenance, Controller
  <2> QED
    BY <1>1, <1>2, <2>1 DEF Maintenance
<1> HIDE DEF c
<1>6. OwnerOf(c, p, lock) /\ WakeOf(c)
  BY <1>1, <1>4 DEF OwnerOf, WakeOf, Acquired, Opened, Loops
<1>7. AbandonJob(p) /\ c.stage \in {"sleep", "ended"}
  BY <1>2, <1>4 DEF Maintenance
<1> QED
  BY <1>2, <1>3, <1>5, <1>6, <1>7, Abandoned

\* An export that the embedder asks for runs beside the task and waits for no
\* one.
LEMMA ExportKept ==
  ASSUME Inv, NEW p \in Processes, ExportSnapshot(p)
  PROVE  Inv'
<1>1. /\ Task(p) /\ ctl[p] \in Controller /\ OwnerOf(ctl[p], p, lock) /\ WakeOf(ctl[p]) /\ StoreInv
      /\ ctl \in [Processes -> Controller]
  BY TaskOf DEF Task
<1>2. /\ StartJob(p, "export", ExportSteps, Empty, FALSE)
      /\ UNCHANGED <<clock, ctl, lock, issued, legacy>> /\ ctl[p].store
  BY DEF ExportSnapshot
<1>3. StoreInv'
  BY <1>1, <1>2, EmptyTyped, JobStarted
<1>4. /\ job = NoJob /\ job'.process = p /\ job'.kind = "export" /\ job'.awaited = FALSE
      /\ doubt' = doubt /\ UNCHANGED <<seen, disk>>
  BY <1>2 DEF StartJob, fileVars, Publishing
<1>5. ctl' = [ctl EXCEPT ![p] = ctl[p]] /\ lock = p
  BY <1>1, <1>2 DEF OwnerOf
<1>6. OthersKept(p) /\ ClockTypes'
  BY <1>2, <1>5, ClockKept DEF OthersKept
<1>7. AwaitOf(job'.kind, job'.awaited, ctl[p].stage)
  BY <1>4 DEF AwaitOf
<1>8. ctl[p].stage \in Opened => doubt' = {} /\ Synced'
  BY <1>4 DEF Inv, ControlInv, SettledInv, Synced
<1>9. ControlInv'
  BY <1>1, <1>2, <1>3, <1>4, <1>5, <1>6, <1>7, <1>8, ControllerMoves
<1> QED
  BY <1>3, <1>9 DEF Inv

-----------------------------------------------------------------------------
(***************************************************************************)
(* The lock, the storage and the faults.                                   *)
(***************************************************************************)
LEMMA AcquireKept ==
  ASSUME Inv, NEW p \in Processes, TryAcquire(p)
  PROVE  Inv'
<1>1. /\ Task(p) /\ ctl[p] \in Controller /\ OwnerOf(ctl[p], p, lock) /\ ctl[p].requested
      /\ ctl \in [Processes -> Controller] /\ StoreInv
      /\ job.process = p => AwaitOf(job.kind, job.awaited, ctl[p].stage)
      /\ ctl[p].stage \in {"check", "sleep"}
      /\ UNCHANGED <<storeVars, clock, issued, legacy>>
  BY TaskOf DEF Task, TryAcquire, At
<1>2. CASE lock \in {NoProcess, p}
  <2> DEFINE c == [ctl[p] EXCEPT !.stage = "open"]
  <2>1. c \in Controller /\ ctl' = [ctl EXCEPT ![p] = c] /\ lock' = p
    BY <1>1, <1>2 DEF TryAcquire, Goto, Controller, Stages
  <2>2. OwnerOf(c, p, p) /\ WakeOf(c) /\ c.stage = "open"
    BY <1>1, <1>2 DEF OwnerOf, WakeOf, Controller
  <2> HIDE DEF c
  <2>3. /\ ctl' \in [Processes -> Controller] /\ ctl'[p] = c
        /\ \A q \in Processes : q # p => ctl'[q] = ctl[q]
    BY <1>1, <2>1, OneController
  <2>4. UNCHANGED <<seen, disk, job, doubt>>
    BY <1>1 DEF storeVars, fileVars, historyVars
  <2>5. /\ CtlTypes /\ OwnerInv /\ WakeInv /\ AwaitInv /\ SettledInv
    BY DEF Inv, ControlInv
  <2>6. job # NoJob <=> job.process \in Processes
    BY <1>1, JobOwner
  <2>7. CtlTypes'
    BY <1>1, <2>1, <2>3, <2>5 DEF CtlTypes
  <2>8. OwnerInv'
    <3>1. \A q \in Processes : OwnerOf(ctl'[q], q, p)
      <4>1. ASSUME NEW q \in Processes, q # p
            PROVE  OwnerOf(ctl'[q], q, p)
        <5>1. OwnerOf(ctl[q], q, lock) /\ lock # q /\ ctl'[q] = ctl[q]
          BY <1>2, <2>3, <2>5, <4>1, ProcessesAssumption DEF OwnerInv
        <5> QED
          BY <5>1 DEF OwnerOf
      <4> QED
        BY <2>2, <2>3, <4>1
    <3>2. job # NoJob => p = job.process
      BY <1>2, <2>5, <2>6, ProcessesAssumption DEF OwnerInv
    <3> QED
      BY <2>1, <2>4, <3>1, <3>2 DEF OwnerInv, NoJob, Empty
  <2>9. WakeInv'
    <3>1. \A q \in Processes : WakeOf(ctl'[q])
      BY <2>2, <2>3, <2>5 DEF WakeInv
    <3> QED
      BY <3>1 DEF WakeInv
  <2>10. AwaitInv'
    <3>1. job # NoJob => AwaitOf(job.kind, job.awaited, ctl'[job.process].stage)
      <4>1. CASE job.process = p
        <5>1. AwaitOf(job.kind, job.awaited, "open")
          BY <1>1, <4>1 DEF AwaitOf, Loops
        <5> QED
          BY <2>2, <2>3, <4>1, <5>1
      <4>2. CASE job.process # p
        BY <2>3, <2>5, <2>6, <4>2 DEF AwaitInv
      <4> QED
        BY <4>1, <4>2
    <3> QED
      BY <2>4, <3>1 DEF AwaitInv, NoJob, Empty
  <2>11. SettledInv'
    BY <2>2, <2>3, <2>4, <2>5 DEF SettledInv, Synced, Opened, Loops, NoJob, Empty
  <2>12. StoreInv'
    BY <1>1, StoreKept
  <2> QED
    BY <2>7, <2>8, <2>9, <2>10, <2>11, <2>12 DEF Inv, ControlInv
<1>3. CASE lock \notin {NoProcess, p}
  <2> DEFINE c == Ended(ctl[p])
  <2>1. c \in Controller /\ c.stage = "sleep" /\ OwnerOf(c, p, lock) /\ WakeOf(c)
    BY <1>1, EndedSound
  <2>2. ctl' = [ctl EXCEPT ![p] = c] /\ lock' = lock
    BY <1>1, <1>3 DEF TryAcquire
  <2> HIDE DEF c
  <2>3. job.process # p
    BY <1>1, <1>3, JobOwner DEF Inv, ControlInv, OwnerInv
  <2>4. c.stage \notin Opened
    BY <2>1 DEF Opened, Loops
  <2> QED
    BY <1>1, <2>1, <2>2, <2>3, <2>4, TaskMoves
<1> QED
  BY <1>2, <1>3

\* A process that is down owns nothing and waits for nothing.
LEMMA StoppedSound ==
  /\ Stopped \in Controller /\ Stopped.stage = "down"
  /\ \A p, holder : OwnerOf(Stopped, p, holder)
  /\ WakeOf(Stopped)
<1>1. NoReader \in [left : Seq(Generation), attempt : Nat, had : Nat]
  BY DEF NoReader
<1>2. 0 \in Certificates
  BY CertificateAssumption DEF Certificates
<1>3. Stopped \in Controller
  BY <1>1, <1>2 DEF Stopped, Controller, Stages
<1> QED
  BY <1>3 DEF Stopped, OwnerOf, WakeOf, Acquired, Opened, Loops

\* A crash ends one process, with its lock and its job.
LEMMA CrashKept ==
  ASSUME Inv, NEW p \in Processes, Crash(p)
  PROVE  Inv'
<1>1. /\ Task(p) /\ ctl \in [Processes -> Controller] /\ StoreInv
      /\ CtlTypes /\ OwnerInv /\ WakeInv /\ AwaitInv /\ SettledInv
  BY TaskOf DEF Task, Inv, ControlInv
<1>2. /\ ctl' = [ctl EXCEPT ![p] = Stopped]
      /\ lock' = IF lock = p THEN NoProcess ELSE lock
      /\ job' = IF job.process = p THEN NoJob ELSE job
      /\ UNCHANGED <<seen, disk, failed, acked, doubt, past, corrupted, clock, issued, legacy>>
  BY DEF Crash, fileVars, historyVars
<1>3. StoreInv'
  <2>1. CASE job.process = p
    BY <1>1, <1>2, <2>1, JobDropped
  <2>2. CASE job.process # p
    BY <1>1, <1>2, <2>2, StoreKept DEF storeVars, fileVars, historyVars
  <2> QED
    BY <2>1, <2>2
<1>4. /\ ctl' \in [Processes -> Controller] /\ ctl'[p] = Stopped
      /\ \A q \in Processes : q # p => ctl'[q] = ctl[q]
  BY <1>1, <1>2, StoppedSound, OneController
<1>5. job # NoJob <=> job.process \in Processes
  BY <1>1, JobOwner
<1>6. CtlTypes'
  BY <1>1, <1>2, <1>4 DEF CtlTypes
<1>7. OwnerInv'
  <2>1. ASSUME NEW q \in Processes
        PROVE  OwnerOf(ctl'[q], q, lock')
    <3>1. CASE q = p
      BY <1>4, <3>1, StoppedSound
    <3>2. CASE q # p
      <4>1. OwnerOf(ctl[q], q, lock) /\ (lock = q => lock' = q) /\ ctl'[q] = ctl[q]
        BY <1>1, <1>2, <1>4, <3>2 DEF OwnerInv
      <4> QED
        BY <4>1 DEF OwnerOf
    <3> QED
      BY <3>1, <3>2
  <2>2. job' # NoJob => lock' = job'.process
    BY <1>1, <1>2 DEF OwnerInv
  <2> QED
    BY <2>1, <2>2 DEF OwnerInv, NoJob, Empty
<1>8. WakeInv'
  <2>1. \A q \in Processes : WakeOf(ctl'[q])
    BY <1>1, <1>4, StoppedSound DEF WakeInv
  <2> QED
    BY <2>1 DEF WakeInv
<1>9. AwaitInv'
  <2>1. job' # NoJob => AwaitOf(job'.kind, job'.awaited, ctl'[job'.process].stage)
    BY <1>1, <1>2, <1>4, <1>5 DEF AwaitInv
  <2> QED
    BY <2>1 DEF AwaitInv, NoJob, Empty
<1>10. SettledInv'
  <2>1. ASSUME NEW q \in Processes, ctl'[q].stage \in Opened, job' = NoJob \/ job'.kind = "export"
        PROVE  doubt = {} /\ Synced
    <3>1. q # p /\ ctl[q].stage \in Opened
      BY <1>4, <2>1, StoppedSound DEF Opened, Loops
    <3>2. lock = q
      BY <1>1, <3>1 DEF OwnerInv, OwnerOf, Acquired
    <3>3. job.process # p
      BY <1>1, <1>5, <3>1, <3>2 DEF OwnerInv
    <3> QED
      BY <1>1, <1>2, <2>1, <3>1, <3>3 DEF SettledInv
  <2> QED
    BY <1>2, <2>1 DEF SettledInv, Synced, NoJob, Empty
<1> QED
  BY <1>3, <1>6, <1>7, <1>8, <1>9, <1>10 DEF Inv, ControlInv

\* When every process is down, nothing more is to be shown of them.
LEMMA StoppedAll ==
  ASSUME StoreInv, ctl = [p \in Processes |-> Stopped], lock = NoProcess, job = NoJob, ClockTypes
  PROVE  ControlInv
<1>1. ctl \in [Processes -> Controller] /\ \A q \in Processes : ctl[q] = Stopped
  BY StoppedSound
<1>2. CtlTypes
  BY <1>1 DEF CtlTypes, ClockTypes
<1>3. OwnerInv /\ WakeInv /\ AwaitInv
  BY <1>1, StoppedSound DEF OwnerInv, WakeInv, AwaitInv
<1>4. SettledInv
  BY <1>1, StoppedSound DEF SettledInv, Opened, Loops
<1> QED
  BY <1>2, <1>3, <1>4 DEF ControlInv

\* A power loss leaves what was synced, and any part of the rest.
LEMMA PowerKept ==
  ASSUME Inv, PowerLoss
  PROVE  Inv'
<1>1. /\ StoreInv /\ LosePower /\ ctl' = [p \in Processes |-> Stopped] /\ lock' = NoProcess
      /\ job' = NoJob /\ UNCHANGED <<failed, acked, doubt, past, clock, issued, legacy>>
  BY DEF Inv, PowerLoss, historyVars
<1>2. StoreInv'
  BY <1>1, PowerLost
<1>3. ClockTypes'
  BY <1>1, ClockKept
<1>4. /\ ctl' \in [Processes -> Controller] /\ \A q \in Processes : ctl'[q] = Stopped
  BY <1>1, StoppedSound
<1>5. CtlTypes'
  BY <1>1, <1>3, <1>4 DEF CtlTypes, ClockTypes
<1>6. OwnerInv'
  BY <1>1, <1>4, StoppedSound DEF OwnerInv, NoJob, Empty
<1>7. WakeInv'
  BY <1>4, StoppedSound DEF WakeInv
<1>8. AwaitInv'
  BY <1>1 DEF AwaitInv, NoJob, Empty
<1>9. SettledInv'
  BY <1>4, StoppedSound DEF SettledInv, Opened, Loops
<1> QED
  BY <1>2, <1>5, <1>6, <1>7, <1>8, <1>9 DEF Inv, ControlInv

\* A step of a storage job concerns the task that waits for it only by its
\* result.
LEMMA StorageKept ==
  ASSUME Inv, Storage
  PROVE  Inv'
<1>1. StoreInv /\ UNCHANGED <<clock, ctl, lock, issued, legacy>>
  BY DEF Inv, Storage
<1>2. ClockTypes'
  BY <1>1, ClockKept
<1>3. CASE JobStep
  <2>1. StoreInv'
    BY <1>1, <1>3, JobStepKept
  <2>2. /\ job'.process = job.process /\ job'.kind = job.kind /\ job'.awaited = job.awaited
        /\ job' # NoJob /\ job # NoJob
    BY <1>1, <1>3, JobAdvances DEF StoreInv
  <2>3. job.kind = "export" => (doubt = {} => doubt' = {}) /\ (Synced => Synced')
    <3>1. SUFFICES ASSUME job.kind = "export"
                   PROVE  doubt' = doubt /\ (Synced => Synced')
      OBVIOUS
    <3>2. /\ seen \in Files /\ disk \in Files /\ job.generation \in Generation
          /\ job.steps \in {ExportSteps, <<"read">>} /\ job.steps # <<>>
      BY <1>1, <1>3, <3>1 DEF StoreInv, StoreTypes, JobInv, Job, JobStep
    <3>3. doubt' = doubt
      BY <1>3, <3>1 DEF JobStep, Settle, Publishing
    <3>4. Head(job.steps) \in {"sync_committed", "read"}
      BY <3>2, ExportOrder
    <3>5. seen' = seen
      BY <1>3, <3>2, <3>4, SeenFields DEF JobStep
    <3>6. disk' = seen \/ disk' = disk
      BY <1>3, <3>2, <3>4, DiskFields DEF JobStep
    <3> QED
      BY <3>3, <3>5, <3>6 DEF Synced
  <2>4. ControlInv'
    BY <1>1, <1>2, <2>2, <2>3, TasksKept
  <2> QED
    BY <2>1, <2>4 DEF Inv
<1>4. CASE JobFails
  <2>1. /\ StoreInv' /\ job'.process = job.process /\ job'.kind = job.kind
        /\ job'.awaited = job.awaited /\ job # NoJob /\ job' # NoJob
    BY <1>1, <1>4, JobFailsKept
  <2>2. UNCHANGED <<seen, disk, doubt>>
    BY <1>4 DEF JobFails, fileVars, historyVars
  <2>3. ControlInv'
    BY <1>1, <1>2, <2>1, <2>2, TasksKept DEF Synced
  <2> QED
    BY <2>1, <2>3 DEF Inv
<1>5. CASE JobReaped
  <2>1. job' = NoJob /\ ~job.awaited /\ UNCHANGED <<seen, disk, failed, acked, doubt, past>>
    BY <1>5 DEF JobReaped, fileVars, historyVars
  <2>2. StoreInv'
    BY <1>1, <2>1, JobDropped
  <2>3. ControlInv'
    BY <1>1, <1>2, <2>1, TasksKept DEF Synced
  <2> QED
    BY <2>2, <2>3 DEF Inv
<1> QED
  BY <1>3, <1>4, <1>5 DEF Storage

\* Rotten files and the passing of time keep the invariant.
LEMMA EnvironmentKept ==
  ASSUME Inv, FileRots \/ PassTime
  PROVE  Inv'
<1>1. StoreInv /\ ClockTypes /\ UNCHANGED <<ctl, lock>>
  BY DEF Inv, ControlInv, CtlTypes, ClockTypes, FileRots, PassTime
<1>2. CASE FileRots
  <2>1. PICK g \in Generation : CorruptBlob(g)
    BY <1>2 DEF FileRots
  <2>2. StoreInv' /\ UNCHANGED <<job, doubt, past>> /\ (Synced => Synced')
    BY <1>1, <2>1, Rotted
  <2>3. ClockTypes'
    BY <1>2, ClockKept DEF FileRots
  <2>4. ControlInv'
    BY <1>1, <2>2, <2>3, TasksKept
  <2> QED
    BY <2>2, <2>4 DEF Inv
<1>3. CASE PassTime
  <2>1. StoreInv' /\ UNCHANGED <<seen, disk, job, doubt>>
    BY <1>1, <1>3, StoreKept DEF PassTime, storeVars, fileVars, historyVars
  <2>2. ClockTypes'
    BY <1>1, <1>3, ProcessesAssumption DEF PassTime, ClockTypes
  <2>3. ControlInv'
    BY <1>1, <2>1, <2>2, TasksKept DEF Synced
  <2> QED
    BY <2>1, <2>3 DEF Inv
<1> QED
  BY <1>2, <1>3

-----------------------------------------------------------------------------
\* The directory is empty to begin with, and every process is down.
LEMMA InitInv == Init => Inv
<1> SUFFICES ASSUME Init PROVE Inv
  OBVIOUS
<1>1. /\ seen = NoFiles /\ disk = NoFiles /\ job = NoJob /\ failed = FALSE
      /\ acked = Empty /\ doubt = {} /\ past = {Empty} /\ clock = 0
      /\ ctl = [p \in Processes |-> Stopped] /\ lock = NoProcess
      /\ legacy \in Legacies /\ issued = legacy.certificate
  BY DEF Init, StoreInit
<1>2. /\ NoFiles \in Files /\ NoFiles.manifest = <<>> /\ NoFiles.blobs = {} /\ Len(NoFiles.manifest) = 0
      /\ Named(NoFiles) = {}
  BY DEF NoFiles, Files, Manifest, Named
<1>3. StoreTypes /\ JobInv
  BY <1>1, <1>2, EmptyTyped DEF StoreTypes, JobInv, Publishing
<1>4. DurableInv
  BY <1>1, <1>2 DEF DurableInv, Holds, Traced, Owed
<1>5. PublishInv /\ OpenInv /\ QuietInv
  BY <1>1, <1>2, EmptyTyped DEF PublishInv, OpenInv, QuietInv, Publishing, Synced
<1>6. StoreInv
  BY <1>3, <1>4, <1>5 DEF StoreInv
<1>7. ClockTypes
  BY <1>1, ProcessesAssumption DEF ClockTypes, Generation, Certificates
<1> QED
  BY <1>1, <1>6, <1>7, StoppedAll DEF Inv

\* Every step of Next keeps the invariant.
LEMMA NextInv ==
  ASSUME Inv, Next
  PROVE  Inv'
<1>1. ASSUME NEW p \in Processes, Drive(p)
      PROVE  Inv'
  BY <1>1, StartingKept, WaitingKept, AcquireKept, SubmitKept, ActivationResultKept, ActivationKept,
     RouteKept, AcmeFailsKept, LoopResultKept, PublishedKept DEF Drive
<1>2. ASSUME NEW p \in Processes, WatchdogLook(p) \/ WatchdogAct(p) \/ WatchdogOverdue(p)
      PROVE  Inv'
  BY <1>2, WatchdogKept, MaintenanceKept
<1>3. ASSUME NEW p \in Controlled,
             InstallHandoff(p) \/ RequestOwnership(p) \/ OwnershipRequested(p)
               \/ ChallengeRouteLost(p) \/ RouteRevoked(p) \/ ExportSnapshot(p)
      PROVE  Inv'
  BY <1>3, CallsKept, ExportKept, ProcessesAssumption
<1> QED
  BY <1>1, <1>2, <1>3, CrashKept, StorageKept, EnvironmentKept, PowerKept DEF Next

\* Every step, a stutter included, keeps the invariant.
LEMMA InvKept == Inv /\ [Next]_vars => Inv'
<1> SUFFICES ASSUME Inv, [Next]_vars PROVE Inv'
  OBVIOUS
<1>1. CASE Next
  BY <1>1, NextInv
<1>2. CASE UNCHANGED vars
  <2>1. UNCHANGED storeVars /\ UNCHANGED <<clock, ctl, lock, issued, legacy>>
    BY <1>2 DEF vars
  <2>2. StoreInv' /\ UNCHANGED <<seen, disk, job, doubt>>
    BY <2>1, StoreKept DEF Inv, storeVars, fileVars, historyVars
  <2>3. ControlInv'
    BY <2>1, <2>2, ClockKept, TasksKept DEF Synced
  <2> QED
    BY <2>2, <2>3 DEF Inv
<1> QED
  BY <1>1, <1>2

\* The inductive invariant holds in every reachable state.
LEMMA InvAlways == Spec => []Inv
BY InitInv, InvKept, PTL DEF Spec

(***************************************************************************)
(* Only the holder of owner.lock writes to the store or answers the        *)
(* challenge, also while the job of a dropped activation still runs;       *)
(* maintenance is final; and an ownership that was asked for is under its  *)
(* deadline until it is served (CertificateOwner, drive, activate,         *)
(* maintenance).                                                           *)
(***************************************************************************)
THEOREM CertificateOwnership == Spec => []OwnershipSound
<1>1. Inv => OwnershipSound
  <2> SUFFICES ASSUME Inv PROVE OwnershipSound
    OBVIOUS
  <2>1. /\ StoreInv /\ CtlTypes /\ OwnerInv
    BY DEF Inv, ControlInv
  <2>2. StoreTypeOK
    <3>1. seen \in Files /\ disk \in Files /\ job \in Job
      BY <2>1 DEF StoreInv, StoreTypes
    <3>2. \A files \in {seen, disk} :
            /\ Len(files.manifest) =< 2 /\ Named(files) \subseteq Generation
            /\ files.blobs \subseteq Generation /\ files.exports \subseteq Generation
      BY <3>1, NamedCases DEF Files, Manifest
    <3> QED
      BY <2>1, <3>1, <3>2 DEF StoreTypeOK, StoreInv, StoreTypes, Job
  <2>3. TypeOK
    BY <2>1, <2>2 DEF TypeOK, CtlTypes, Controller, Certificates
  <2>4. OnlyOwnerActs /\ MaintenanceNotReady /\ TakeoverIsBounded
    BY <2>1 DEF OnlyOwnerActs, MaintenanceNotReady, TakeoverIsBounded, OwnerInv, OwnerOf
  <2> QED
    BY <2>3, <2>4 DEF OwnershipSound
<1> QED
  BY <1>1, InvAlways, PTL

(***************************************************************************)
(* No request and no lost route falls between the check of its flag and    *)
(* the wait for the permit (request_ownership, challenge_route_lost).      *)
(***************************************************************************)
THEOREM CertificateWakeups == Spec => []NoWakeupLost
<1>1. Inv => NoWakeupLost
  BY DEF Inv, ControlInv, WakeInv, WakeOf, NoWakeupLost
<1> QED
  BY <1>1, InvAlways, PTL

(***************************************************************************)
(* After every crash, power loss, failed write and rotten file the         *)
(* manifest names a generation that can be read (Store::load).             *)
(***************************************************************************)
THEOREM CertificateRecovers == Spec => []StoreRecovers
<1>1. Inv => StoreRecovers
  BY SeenLoads DEF Inv, StoreRecovers
<1> QED
  BY <1>1, InvAlways, PTL

-----------------------------------------------------------------------------
(***************************************************************************)
(* The store is a register.                                                *)
(***************************************************************************)
\* Whatever a step does to the files, they yield what is owed.
LEMMA RegisterWavers ==
  ASSUME StoreInv', UNCHANGED <<acked, doubt, past>>
  PROVE  Register!Waver
<1>1. (CanLoad(seen) /\ Load(seen) \in Owed)'
  BY SeenLoads, PTL
<1> QED
  BY <1>1 DEF Register!Waver, Owed

\* A publication changes the account or the certificate and keeps the other.
LEMMA RegisterWrites ==
  ASSUME StoreInv, NEW p, NEW kind \in Publishing, NEW steps, NEW g, doubt = {},
         StartJob(p, kind, steps, g, TRUE),
         g = WithAccount \/ \E c \in Certificates : g = WithCertificate(c)
  PROVE  Register!Write
<1> DEFINE v == Load(seen)
<1>1. CanLoad(seen) /\ v \in Generation
  BY SeenLoads
<1>2. UNCHANGED <<seen, acked, past>> /\ doubt' = {g}
  BY DEF StartJob, fileVars
<1>3. v.account \in 0..MaxCertificate /\ v.certificate \in 0..MaxCertificate /\ 1 \in 0..MaxCertificate
  BY <1>1, CertificateAssumption DEF Generation
<1>4. PICK account \in 0..MaxCertificate, certificate \in 0..MaxCertificate :
        /\ g = [account |-> account, certificate |-> certificate]
        /\ account = v.account \/ certificate = v.certificate
  <2>1. CASE g = WithAccount
    BY <1>1, <1>3, <2>1 DEF WithAccount, Generation
  <2>2. CASE \E c \in Certificates : g = WithCertificate(c)
    <3>1. PICK c \in Certificates : g = WithCertificate(c)
      BY <2>2
    <3> QED
      BY <1>1, <1>3, <3>1 DEF WithCertificate, Generation, Certificates
  <2> QED
    BY <2>1, <2>2
<1>5. Register!KeepsRest(g, v)
  BY <1>4 DEF Register!KeepsRest
<1>6. CanLoad(seen)' = CanLoad(seen) /\ Load(seen)' = Load(seen)
  BY <1>2 DEF CanLoad, Load, Readable
<1> HIDE DEF v
<1> QED
  BY <1>1, <1>2, <1>4, <1>5, <1>6 DEF Register!Write, v

\* The last step of a publication or of an open acknowledges what the files yield.
LEMMA RegisterAcknowledges ==
  ASSUME StoreInv, StoreInv', JobStep, ~UNCHANGED <<acked, doubt, past>>
  PROVE  Register!Acknowledge
<1>1. /\ CanLoad(seen) /\ Load(seen) \in Generation /\ seen \in Files
      /\ StoreTypes /\ JobInv /\ PublishInv
  BY SeenLoads DEF StoreInv
<1>2. (CanLoad(seen) /\ Load(seen) \in Owed)'
  BY SeenLoads, PTL
<1>3. job.steps # <<>> /\ Tail(job.steps) = <<>> /\ Settle(job.kind, job.generation)
  BY DEF JobStep
<1>4. \/ job.kind = "open" /\ acked' = Load(seen)
      \/ job.kind \in Publishing /\ acked' = job.generation
  BY <1>3 DEF Settle, Publishing
<1>5. doubt' = {} /\ past' = past \cup {acked'}
  BY <1>3, <1>4 DEF Settle, Publishing
<1>6. acked' = Load(seen)
  <2>1. CASE job.kind = "open"
    BY <1>4, <2>1 DEF Publishing
  <2>2. CASE job.kind \in Publishing
    <3>1. job.steps = Pruning
      BY <1>1, <1>3, <2>2, PublishOrder, StepsDiffer DEF JobInv
    <3>2. job.generation \in seen.blobs /\ Leads(job.generation)
      BY <1>1, <2>2, <3>1, StepsDiffer DEF PublishInv
    <3>3. Load(seen) = job.generation
      BY <1>1, <3>2, LoadCases DEF Leads
    <3> QED
      BY <1>4, <2>2, <3>3 DEF Publishing
  <2> QED
    BY <1>4, <2>1, <2>2
<1>7. Load(seen)' = Load(seen)
  BY <1>2, <1>5, <1>6 DEF Owed
<1> QED
  BY <1>1, <1>2, <1>5, <1>6, <1>7 DEF Register!Acknowledge

\* A file that rots damages the register.
LEMMA RegisterDamaged ==
  ASSUME StoreInv, NEW g \in Generation, CorruptBlob(g)
  PROVE  Register!Damage
BY Rotted DEF Register!Damage

\* The steps of a task that neither start a publication nor settle one.
LEMMA DriveHistory ==
  ASSUME NEW p, Drive(p)
  PROVE  \/ UNCHANGED <<acked, doubt, past>>
         \/ ImportAccount(p) \/ ImportCertificate(p) \/ AcmeAccount(p) \/ AcmeIssue(p)
<1> USE DEF storeVars, historyVars
<1>1. CASE StartProcess(p) \/ ReadManifest(p) \/ ReadExport(p) \/ AwaitRequest(p) \/ Notified(p) \/ TryAcquire(p)
  BY <1>1 DEF StartProcess, ReadManifest, ReadExport, AwaitRequest, Notified, TryAcquire
<1>2. CASE OpenStore(p) \/ LoadSnapshot(p) \/ AcmeCached(p)
  <2>1. CASE OpenStore(p)
    BY <2>1 DEF OpenStore, Submit, StartJob, Publishing
  <2>2. CASE LoadSnapshot(p)
    BY <2>2 DEF LoadSnapshot, Submit, StartJob, Publishing
  <2>3. CASE AcmeCached(p)
    BY <2>3 DEF AcmeCached, Submit, StartJob, Publishing
  <2> QED
    BY <1>2, <2>1, <2>2, <2>3
<1>3. CASE StoreOpened(p) \/ Imported(p) \/ SnapshotLoaded(p) \/ AcmeStored(p) \/ Confirmed(p) \/ Renewed(p)
  <2>1. TakeResult(p)
    BY <1>3 DEF StoreOpened, Imported, SnapshotLoaded, AcmeStored, Confirmed, Renewed
  <2> QED
    BY <2>1 DEF TakeResult
<1>4. CASE OfferProof(p) \/ ObserveRoute(p) \/ StartAcme(p) \/ AcmeFails(p) \/ AcmePublished(p)
  BY <1>4 DEF OfferProof, ObserveRoute, StartAcme, AcmeFails, AcmePublished
<1>5. CASE CheckRoute(p) \/ LoopNotified(p)
  BY <1>5 DEF CheckRoute, LoopNotified, AbandonJob
<1> QED
  BY <1>1, <1>2, <1>3, <1>4, <1>5 DEF Drive

\* Only a submission, a step of a job and a rotten file move the register.
LEMMA NextHistory ==
  ASSUME Next
  PROVE  \/ UNCHANGED <<acked, doubt, past>>
         \/ \E p \in Processes :
              ImportAccount(p) \/ ImportCertificate(p) \/ AcmeAccount(p) \/ AcmeIssue(p)
         \/ JobStep
         \/ \E g \in Generation : CorruptBlob(g)
<1> USE DEF storeVars, historyVars
<1>1. ASSUME NEW p, WatchdogLook(p) \/ WatchdogAct(p) \/ WatchdogOverdue(p) \/ Crash(p)
      PROVE  UNCHANGED <<acked, doubt, past>>
  BY <1>1 DEF WatchdogLook, WatchdogAct, WatchdogOverdue, Maintenance, AbandonJob, Crash
<1>2. ASSUME NEW p, \/ InstallHandoff(p) \/ RequestOwnership(p) \/ OwnershipRequested(p)
                    \/ ChallengeRouteLost(p) \/ RouteRevoked(p) \/ ExportSnapshot(p)
      PROVE  UNCHANGED <<acked, doubt, past>>
  BY <1>2 DEF InstallHandoff, RequestOwnership, OwnershipRequested, ChallengeRouteLost, RouteRevoked,
              ExportSnapshot, StartJob, Publishing
<1>3. Storage => UNCHANGED <<acked, doubt, past>> \/ JobStep
  BY DEF Storage, JobFails, JobReaped
<1>4. FileRots => \E g \in Generation : CorruptBlob(g)
  BY DEF FileRots
<1>5. PassTime \/ PowerLoss => UNCHANGED <<acked, doubt, past>>
  BY DEF PassTime, PowerLoss
<1> QED
  BY <1>1, <1>2, <1>3, <1>4, <1>5, DriveHistory DEF Next

\* Every step of the store is a step of the register or a stutter.
LEMMA RegisterSteps ==
  ASSUME Inv, Inv', [Next]_vars
  PROVE  [Register!RegisterNext]_(Register!registerVars)
<1>1. StoreInv /\ StoreInv' /\ SettledInv
  BY DEF Inv, ControlInv
<1>2. CASE UNCHANGED <<acked, doubt, past>>
  BY <1>1, <1>2, RegisterWavers DEF Register!RegisterNext
<1>3. ASSUME NEW p \in Processes,
             ImportAccount(p) \/ ImportCertificate(p) \/ AcmeAccount(p) \/ AcmeIssue(p),
             ~UNCHANGED <<acked, doubt, past>>
      PROVE  Register!Write
  <2>1. Task(p)
    BY TaskOf
  <2>2. /\ ctl[p].stage \in {"import_account", "import_certificate", "acme", "active"}
        /\ \E kind \in Publishing : \E g :
             /\ StartJob(p, kind, PublishSteps, g, TRUE)
             /\ g = WithAccount \/ \E c \in Certificates : g = WithCertificate(c)
    <3>1. CASE ImportAccount(p)
      BY <1>3, <3>1 DEF ImportAccount, Submit, At, Publishing, storeVars, historyVars
    <3>2. CASE ImportCertificate(p)
      <4>1. legacy.certificate \in Certificates
        BY <2>1, ProcessesAssumption DEF Task, ClockTypes, Generation, Certificates
      <4> QED
        BY <1>3, <3>2, <4>1 DEF ImportCertificate, Submit, At, Publishing, storeVars, historyVars
    <3>3. CASE AcmeAccount(p)
      BY <3>3 DEF AcmeAccount, Submit, At, Publishing
    <3>4. CASE AcmeIssue(p)
      <4>1. PICK c \in issued + 1..MaxCertificate :
              StartJob(p, "certificate", PublishSteps, WithCertificate(c), TRUE)
        BY <3>4 DEF AcmeIssue
      <4>2. c \in Certificates
        BY <2>1, CertificateAssumption DEF Task, ClockTypes, Certificates
      <4>3. ctl[p].stage \in {"acme", "active"} /\ "certificate" \in Publishing
        BY <3>4 DEF AcmeIssue, Due, Polls, At, Publishing
      <4> QED
        BY <4>1, <4>2, <4>3
    <3> QED
      BY <1>3, <3>1, <3>2, <3>3, <3>4
  <2>3. doubt = {}
    BY <1>1, <2>2 DEF SettledInv, Opened, Loops, StartJob
  <2> QED
    BY <1>1, <2>2, <2>3, RegisterWrites
<1>4. CASE UNCHANGED vars
  BY <1>1, <1>4, RegisterWavers DEF Register!RegisterNext, vars, storeVars, historyVars
<1>5. CASE Next /\ ~UNCHANGED <<acked, doubt, past>>
  <2>1. CASE JobStep
    BY <1>1, <1>5, <2>1, RegisterAcknowledges DEF Register!RegisterNext
  <2>2. CASE \E g \in Generation : CorruptBlob(g)
    BY <1>1, <2>2, RegisterDamaged DEF Register!RegisterNext
  <2>3. CASE \E p \in Processes :
               ImportAccount(p) \/ ImportCertificate(p) \/ AcmeAccount(p) \/ AcmeIssue(p)
    BY <1>3, <1>5, <2>3 DEF Register!RegisterNext
  <2> QED
    BY <1>5, <2>1, <2>2, <2>3, NextHistory
<1> QED
  BY <1>2, <1>4, <1>5

(***************************************************************************)
(* The files implement the register: whatever stops in the middle of a     *)
(* publication, they hold the last acknowledged account and certificate or *)
(* the ones being written, and what was acknowledged survives              *)
(* (Store::publish, recover_manifest, sync_committed).                     *)
(***************************************************************************)
THEOREM CertificateRegistered == Spec => StoreIsRegister
<1>1. Init => Register!RegisterInit
  <2> SUFFICES ASSUME Init PROVE Register!RegisterInit
    OBVIOUS
  <2>1. seen = NoFiles /\ acked = Empty /\ doubt = {} /\ past = {Empty}
    BY DEF Init, StoreInit
  <2>2. CanLoad(seen) /\ Load(seen) = Empty
    BY <2>1 DEF NoFiles, CanLoad, Load
  <2> QED
    BY <2>1, <2>2 DEF Register!RegisterInit
<1>2. Inv /\ Inv' /\ [Next]_vars => [Register!RegisterNext]_(Register!registerVars)
  BY RegisterSteps
<1> QED
  BY <1>1, <1>2, InvAlways, PTL DEF Spec, StoreIsRegister, Register!RegisterSpec

-----------------------------------------------------------------------------
(***************************************************************************)
(* A failed renewal is not mistaken for a recovery: the first part of      *)
(* CertificateKept.  The certificates are numbered as they are issued, so  *)
(* newer is greater; the invariant follows a new one from its order        *)
(* through the files to the task that announces it.                        *)
(***************************************************************************)

(***************************************************************************)
(* Where the task awaits the certificate it announces as a new one (the    *)
(* export read behind a stored or renewed event).                          *)
(***************************************************************************)
Announcing == {"confirming_new", "renewing"}

(***************************************************************************)
(* Of n certificates issued, a controller names none beyond; a stopped     *)
(* process remembers no failed renewal.                                    *)
(***************************************************************************)
KnownTo(c, n) ==
  /\ c.snap <= n /\ c.failedRenewal <= n
  /\ \A i \in DOMAIN c.reader.left : c.reader.left[i].certificate <= n
  /\ c.stage = "down" => c.failedRenewal = 0

(***************************************************************************)
(* No file, acknowledged generation, blocking task or imported certificate *)
(* names one that was not issued.                                          *)
(***************************************************************************)
StoreKnown ==
  /\ \A g \in Named(seen) \cup Named(disk) \cup past : g.certificate <= issued
  /\ job.generation.certificate <= issued /\ legacy.certificate <= issued
  /\ job.found <= issued

(***************************************************************************)
(* No file names a newer certificate than g.                               *)
(***************************************************************************)
Newest(g) == \A x \in Named(seen) : x = g \/ x.certificate < g.certificate

(***************************************************************************)
(* A certificate that the ACME loop publishes is newer than every other    *)
(* the manifest names, and than the one whose renewal failed; from its     *)
(* export on it is readable, and published it leads the manifest.          *)
(***************************************************************************)
IssueOf(c) ==
  job.awaited /\ job.kind = "certificate" /\ c.stage \in Loops =>
    /\ job.generation.certificate > c.failedRenewal
    /\ Newest(job.generation)
    /\ job.ok /\ job.steps \in {Resyncing, Renaming, Confirming, Pruning, <<>>}
         => job.generation \in seen.exports
    /\ job.ok /\ job.steps = <<>> => Leads(job.generation)

(***************************************************************************)
(* The export read behind such a publication finds nothing, or a           *)
(* certificate newer than the one whose renewal failed.                    *)
(***************************************************************************)
ExportOf(c) ==
  job.awaited /\ job.kind = "export" /\ c.stage \in Announcing /\ job.ok =>
    IF job.steps = <<>> THEN job.found = 0 \/ job.found > c.failedRenewal
    ELSE \E g \in seen.exports : Leads(g) /\ Newest(g) /\ g.certificate > c.failedRenewal

(***************************************************************************)
(* What the process that runs a blocking task may count on.                *)
(***************************************************************************)
RenewalOf(c) == IssueOf(c) /\ ExportOf(c)

(***************************************************************************)
(* The inductive invariant behind RenewalRemembered.                       *)
(***************************************************************************)
RenewInv ==
  /\ StoreKnown
  /\ \A p \in Processes : KnownTo(ctl[p], issued) /\ (job.process = p => RenewalOf(ctl[p]))

(***************************************************************************)
(* A step of one process keeps the invariant when it keeps its own part    *)
(* and hands the blocking task over or leaves it alone.                    *)
(***************************************************************************)
LEMMA RenewMoves ==
  ASSUME Inv, RenewInv, StoreKnown', issued' \in Nat, issued <= issued', NEW p \in Processes,
         \A q \in Processes : q # p => ctl'[q] = ctl[q],
         KnownTo(ctl[p], issued)',
         job' = NoJob \/ job'.process = p \/ (job' = job /\ seen' = seen),
         job'.process = p => RenewalOf(ctl[p])'
  PROVE  RenewInv'
<1>1. ASSUME NEW q \in Processes, q # p PROVE KnownTo(ctl[q], issued)'
  <2>1. KnownTo(ctl[q], issued) /\ ctl'[q] = ctl[q] /\ ctl[q] \in Controller /\ issued \in Nat
    BY <1>1 DEF RenewInv, Inv, ControlInv, CtlTypes, Certificates
  <2>2. ctl[q].snap \in Nat /\ ctl[q].failedRenewal \in Nat
        /\ \A i \in DOMAIN ctl[q].reader.left : ctl[q].reader.left[i].certificate \in Nat
    <3>1. ctl[q].reader.left \in Seq(Generation)
      BY <2>1 DEF Controller
    <3>2. \A i \in DOMAIN ctl[q].reader.left : ctl[q].reader.left[i] \in Generation
      BY <3>1
    <3>3. \A g \in Generation : g.certificate \in Nat
      BY DEF Generation
    <3>4. ctl[q].snap \in Nat /\ ctl[q].failedRenewal \in Nat
      BY <2>1 DEF Controller, Certificates
    <3> QED BY <3>2, <3>3, <3>4
  <2> QED BY <2>1, <2>2 DEF KnownTo
<1>2. ASSUME NEW q \in Processes, q # p, job'.process = q PROVE RenewalOf(ctl[q])'
  <2>1. job' = job /\ seen' = seen /\ ctl'[q] = ctl[q]
    <3>1. NoJob.process = NoProcess /\ q # NoProcess
      BY EmptyTyped, ProcessesAssumption
    <3> QED BY <1>2, <3>1
  <2>2. RenewalOf(ctl[q])
    BY <1>2, <2>1 DEF RenewInv
  <2> QED BY <2>1, <2>2 DEF RenewalOf, IssueOf, ExportOf, Newest, Leads, Named
<1> QED BY <1>1, <1>2 DEF RenewInv

(***************************************************************************)
(* Leaving the files alone issues nothing.                                 *)
(***************************************************************************)
LEMMA StoreStillKnown ==
  ASSUME Inv, StoreKnown, UNCHANGED <<seen, disk, past, legacy, issued>>,
         job' = job \/ job' = NoJob \/
         (job'.generation = job.generation /\ job'.found = job.found)
  PROVE  StoreKnown' /\ issued' \in Nat /\ issued <= issued'
<1>1. issued \in Nat
  BY DEF Inv, ControlInv, CtlTypes, Certificates
<1>2. NoJob.generation.certificate = 0 /\ NoJob.found = 0
  BY DEF NoJob, Empty
<1>3. job'.generation.certificate <= issued /\ job'.found <= issued
  BY <1>1, <1>2 DEF StoreKnown
<1> QED BY <1>1, <1>3 DEF StoreKnown, Named

\* Where the task goes
(***************************************************************************)
(* A change of stage that does not begin to announce, nor enters the ACME  *)
(* loop under a blocking task.                                             *)
(***************************************************************************)
Passes(s, t) ==
  /\ t \in Loops \cup Announcing => t = s \/ s \in Unattached \/ (s \in Loops /\ t \in Loops)
  /\ t = "down" => s = "down"

(***************************************************************************)
(* A step that keeps the certificate installed, the failed renewal and the *)
(* position of the reader.                                                 *)
(***************************************************************************)
Carried(p) ==
  /\ ctl'[p].snap = ctl[p].snap /\ ctl'[p].failedRenewal = ctl[p].failedRenewal
  /\ ctl'[p].reader = ctl[p].reader

(***************************************************************************)
(* Such a step keeps what is known of the process's blocking task.         *)
(***************************************************************************)
LEMMA RenewalStays ==
  ASSUME Inv, RenewInv, NEW p \in Processes, UNCHANGED <<seen, job>>, job.process = p,
         ctl'[p].failedRenewal = ctl[p].failedRenewal, Passes(ctl[p].stage, ctl'[p].stage)
  PROVE  RenewalOf(ctl[p])'
<1>1. RenewalOf(ctl[p]) /\ AwaitOf(job.kind, job.awaited, ctl[p].stage)
  BY TaskOf DEF RenewInv, Task
<1>2. CASE ctl'[p].stage \notin Loops \cup Announcing
  BY <1>2 DEF RenewalOf, IssueOf, ExportOf
<1>3. CASE ctl[p].stage \in Unattached
  BY <1>1, <1>3 DEF AwaitOf, Unattached, Loops, RenewalOf, IssueOf, ExportOf
<1>4. CASE ctl'[p].stage = ctl[p].stage \/ (ctl[p].stage \in Loops /\ ctl'[p].stage \in Loops)
  BY <1>1, <1>4 DEF RenewalOf, IssueOf, ExportOf, Newest, Leads, Named, Loops, Announcing
<1> QED BY <1>2, <1>3, <1>4 DEF Passes

(***************************************************************************)
(* Such a step keeps the invariant, whether it goes on waiting for its     *)
(* blocking task or abandons it.                                           *)
(***************************************************************************)
LEMMA CarriedKept ==
  ASSUME Inv, RenewInv, NEW p \in Processes, UNCHANGED <<seen, disk, past, legacy, issued>>,
         \A q \in Processes : q # p => ctl'[q] = ctl[q], Carried(p),
         Passes(ctl[p].stage, ctl'[p].stage),
         job' = job \/ job' = NoJob \/
         (job'.generation = job.generation /\ job'.found = job.found /\ job'.process = p /\ ~job'.awaited)
  PROVE  RenewInv'
<1>1. StoreKnown' /\ issued' \in Nat /\ issued <= issued'
  BY StoreStillKnown DEF RenewInv
<1>2. KnownTo(ctl[p], issued)'
  BY DEF RenewInv, KnownTo, Carried, Passes
<1>3. job'.process = p => RenewalOf(ctl[p])'
  <2>1. CASE job' = job
    BY <2>1, RenewalStays DEF Carried
  <2>2. CASE job' = NoJob
    BY <2>2, EmptyTyped, ProcessesAssumption
  <2>3. CASE ~job'.awaited
    BY <2>3 DEF RenewalOf, IssueOf, ExportOf
  <2> QED BY <2>1, <2>2, <2>3
<1> QED BY <1>1, <1>2, <1>3, RenewMoves

(***************************************************************************)
(* An activation that ends keeps the certificate and the memory of the     *)
(* failed renewal (drive).                                                 *)
(***************************************************************************)
LEMMA EndedCarries ==
  ASSUME NEW c \in Controller
  PROVE  /\ Ended(c).stage = "sleep" /\ Ended(c).snap = c.snap
         /\ Ended(c).failedRenewal = c.failedRenewal /\ Ended(c).reader = c.reader
         /\ Ended(c) \in Controller
<1>1. "sleep" \in Stages
  BY DEF Stages
<1> QED BY <1>1 DEF Ended, Controller

(***************************************************************************)
(* The steps of the task, the watchdog and the embedding process that      *)
(* touch neither certificates nor files.                                   *)
(***************************************************************************)
LEMMA QuietRenewal ==
  ASSUME Inv, RenewInv, NEW p \in Processes,
         \/ StartProcess(p) \/ AwaitRequest(p) \/ Notified(p) \/ TryAcquire(p)
         \/ OfferProof(p) \/ ObserveRoute(p) \/ StartAcme(p)
         \/ WatchdogLook(p) \/ (WatchdogAct(p) /\ ctl[p].tick # "expired")
         \/ RequestOwnership(p) \/ OwnershipRequested(p) \/ ChallengeRouteLost(p) \/ RouteRevoked(p)
  PROVE  RenewInv'
<1>1. ctl \in [Processes -> Controller] /\ ctl[p] \in Controller
  BY TaskOf DEF Task
<1>2. UNCHANGED <<seen, disk, past, legacy, issued, job>>
  BY DEF StartProcess, AwaitRequest, Notified, TryAcquire, OfferProof, ObserveRoute, StartAcme,
         WatchdogLook, WatchdogAct, RequestOwnership, OwnershipRequested, ChallengeRouteLost,
         RouteRevoked, storeVars, fileVars, historyVars, Maintenance
<1>3. /\ \A q \in Processes : q # p => ctl'[q] = ctl[q]
      /\ Carried(p) /\ Passes(ctl[p].stage, ctl'[p].stage)
  <2>1. CASE StartProcess(p)
    BY <1>1, <2>1 DEF StartProcess, Carried, Passes, Controller, Loops, Announcing
  <2>2. CASE AwaitRequest(p) \/ Notified(p)
    BY <1>1, <2>2 DEF AwaitRequest, Notified, Goto, At, Carried, Passes, Controller, Loops, Announcing
  <2>3. CASE TryAcquire(p)
    <3>1. CASE Goto(p, "open")
      BY <1>1, <3>1 DEF Goto, Carried, Passes, Controller, Loops, Announcing
    <3>2. CASE ctl' = [ctl EXCEPT ![p] = Ended(@)]
      BY <1>1, <3>2, EndedCarries DEF Carried, Passes, Loops, Announcing
    <3> QED BY <2>3, <3>1, <3>2 DEF TryAcquire
  <2>4. CASE OfferProof(p)
    BY <1>1, <2>4 DEF OfferProof, Carried, Passes, Controller, Loops, Announcing
  <2>5. CASE ObserveRoute(p)
    <3>1. CASE Goto(p, "starting")
      BY <1>1, <3>1 DEF Goto, Carried, Passes, Controller, Loops, Announcing
    <3>2. CASE ctl' = [ctl EXCEPT ![p] = Ended(@)]
      BY <1>1, <3>2, EndedCarries DEF Carried, Passes, Loops, Announcing
    <3> QED BY <2>5, <3>1, <3>2 DEF ObserveRoute, Proceed
  <2>6. CASE StartAcme(p)
    BY <1>1, <2>6 DEF StartAcme, At, Carried, Passes, Controller, Loops, Announcing, Unattached
  <2>7. CASE WatchdogLook(p)
    BY <1>1, <2>7 DEF WatchdogLook, Carried, Passes, Controller
  <2>8. CASE WatchdogAct(p) /\ ctl[p].tick # "expired"
    BY <1>1, <2>8 DEF WatchdogAct, Carried, Passes, Controller
  <2>9. CASE RequestOwnership(p)
    BY <1>1, <2>9 DEF RequestOwnership, Carried, Passes, Controller
  <2>10. CASE OwnershipRequested(p)
    BY <1>1, <2>10 DEF OwnershipRequested, NotifyOne, Carried, Passes, Controller
  <2>11. CASE ChallengeRouteLost(p)
    BY <1>1, <2>11 DEF ChallengeRouteLost, Carried, Passes, Controller
  <2>12. CASE RouteRevoked(p)
    BY <1>1, <2>12 DEF RouteRevoked, NotifyOne, Carried, Passes, Controller
  <2> QED BY <2>1, <2>2, <2>3, <2>4, <2>5, <2>6, <2>7, <2>8, <2>9, <2>10, <2>11, <2>12
<1> QED BY <1>2, <1>3, CarriedKept

(***************************************************************************)
(* A lost route, a notification in the loop or maintenance abandons the    *)
(* blocking task; its generation stays the same.                           *)
(***************************************************************************)
LEMMA AbandonedRenewal ==
  ASSUME Inv, RenewInv, NEW p \in Processes,
         \/ CheckRoute(p) \/ LoopNotified(p) \/ WatchdogOverdue(p)
         \/ (WatchdogAct(p) /\ ctl[p].tick = "expired")
  PROVE  RenewInv'
<1>1. ctl \in [Processes -> Controller] /\ ctl[p] \in Controller /\ job \in Job
  BY TaskOf DEF Task, StoreInv, StoreTypes
<1>2. UNCHANGED <<seen, disk, past, legacy, issued>>
  BY DEF CheckRoute, LoopNotified, WatchdogOverdue, WatchdogAct, Maintenance, AbandonJob,
         storeVars, fileVars, historyVars
<1>3. \/ job' = job
      \/ job'.generation = job.generation /\ job'.found = job.found /\ job'.process = p /\ ~job'.awaited
  BY <1>1 DEF CheckRoute, LoopNotified, WatchdogOverdue, WatchdogAct, Maintenance, AbandonJob,
         storeVars, fileVars, historyVars, Job
<1>4. /\ \A q \in Processes : q # p => ctl'[q] = ctl[q]
      /\ Carried(p) /\ Passes(ctl[p].stage, ctl'[p].stage)
  <2>1. CASE CheckRoute(p)
    BY <1>1, <2>1 DEF CheckRoute, At, Proceed, Ended, Carried, Passes, Controller, Loops, Announcing
  <2>2. CASE LoopNotified(p)
    BY <1>1, <2>2 DEF LoopNotified, At, Ended, Carried, Passes, Controller, Loops, Announcing
  <2>3. CASE WatchdogOverdue(p) \/ (WatchdogAct(p) /\ ctl[p].tick = "expired")
    BY <1>1, <2>3 DEF WatchdogOverdue, WatchdogAct, Maintenance, Carried, Passes, Controller, Loops, Announcing
  <2> QED BY <2>1, <2>2, <2>3
<1> QED BY <1>2, <1>3, <1>4, CarriedKept

(***************************************************************************)
(* The reader of a starting process takes its certificates from the        *)
(* manifest it read (read_snapshot).                                       *)
(***************************************************************************)
LEMMA ReadingRenewal ==
  ASSUME Inv, RenewInv, NEW p \in Processes, ReadManifest(p) \/ ReadExport(p)
  PROVE  RenewInv'
<1>1. /\ ctl \in [Processes -> Controller] /\ ctl[p] \in Controller /\ issued \in Nat
      /\ StoreKnown /\ KnownTo(ctl[p], issued) /\ seen \in Files
  BY TaskOf DEF Task, RenewInv, StoreInv, StoreTypes, ClockTypes, Certificates
<1>2. UNCHANGED <<seen, disk, past, legacy, issued, job>> /\ ctl[p].stage = "reading"
  BY DEF ReadManifest, ReadExport, storeVars, fileVars, historyVars
<1> DEFINE left == ctl[p].reader.left
<1>3. left \in Seq(Generation) /\ seen.manifest \in Seq(Generation)
  BY <1>1 DEF Controller, Files, Manifest
<1>4. \A i \in DOMAIN left : left[i].certificate <= issued
  BY <1>1 DEF KnownTo
<1>5. \A i \in DOMAIN seen.manifest : seen.manifest[i].certificate <= issued
  BY <1>1 DEF StoreKnown, Named
<1>6. left # <<>> => /\ Head(left).certificate <= issued
                     /\ \A i \in DOMAIN Tail(left) : Tail(left)[i].certificate <= issued
  <2> HIDE DEF left
  <2> SUFFICES ASSUME left # <<>> PROVE /\ Head(left).certificate <= issued
                     /\ \A i \in DOMAIN Tail(left) : Tail(left)[i].certificate <= issued
    OBVIOUS
  <2>1. Len(left) \in Nat /\ Len(left) > 0 /\ DOMAIN left = 1..Len(left)
    BY <1>3
  <2>2. Head(left) = left[1] /\ DOMAIN Tail(left) = 1..(Len(left) - 1)
        /\ \A i \in 1..(Len(left) - 1) : Tail(left)[i] = left[i + 1]
    BY <1>3, <2>1
  <2> QED BY <1>4, <2>1, <2>2
<1>7. \A q \in Processes : q # p => ctl'[q] = ctl[q]
  BY <1>1 DEF ReadManifest, ReadExport
<1>8. /\ ctl'[p].stage \in {"reading", "check"} /\ ctl'[p].failedRenewal = ctl[p].failedRenewal
      /\ ctl'[p].snap = ctl[p].snap \/ (left # <<>> /\ ctl'[p].snap = Head(left).certificate)
      /\ \/ ctl'[p].reader.left \in {<<>>, seen.manifest}
         \/ left # <<>> /\ ctl'[p].reader.left = Tail(left)
  <2>1. CASE ReadManifest(p)
    BY <1>1, <1>2, <2>1 DEF ReadManifest, Controller, NoReader
  <2>2. CASE ReadExport(p)
    <3>1. left # <<>>
      BY <2>2 DEF ReadExport
    <3>2. CASE ctl' = [ctl EXCEPT ![p].stage = "check", ![p].snap = Head(left).certificate,
                                  ![p].ready = TRUE, ![p].reader = NoReader]
      BY <1>1, <3>1, <3>2 DEF Controller, NoReader
    <3>3. CASE ctl' = [ctl EXCEPT ![p].reader.left = Tail(@)]
      <4> DEFINE r == [ctl[p].reader EXCEPT !.left = Tail(left)]
      <4>1. ctl' = [ctl EXCEPT ![p] = [ctl[p] EXCEPT !.reader = r]]
        BY <3>3
      <4>2. r.left = Tail(left)
        BY <1>1 DEF Controller
      <4> HIDE DEF r
      <4>3. /\ ctl'[p].reader = r /\ ctl'[p].stage = ctl[p].stage /\ ctl'[p].snap = ctl[p].snap
            /\ ctl'[p].failedRenewal = ctl[p].failedRenewal
        BY <1>1, <4>1 DEF Controller
      <4> QED BY <1>2, <3>1, <4>2, <4>3
    <3> QED BY <2>2, <3>2, <3>3 DEF ReadExport
  <2> QED BY <2>1, <2>2
<1>9. KnownTo(ctl[p], issued)'
  <2>1. ctl'[p].snap <= issued /\ ctl'[p].failedRenewal <= issued
    BY <1>1, <1>6, <1>8 DEF KnownTo
  <2>2. \A i \in DOMAIN ctl'[p].reader.left : ctl'[p].reader.left[i].certificate <= issued
    <3> HIDE DEF left
    <3>1. DOMAIN <<>> = {}
      OBVIOUS
    <3> QED BY <1>5, <1>6, <1>8, <3>1
  <2> QED BY <1>2, <1>8, <2>1, <2>2 DEF KnownTo
<1>10. StoreKnown' /\ issued' \in Nat /\ issued <= issued'
  BY <1>1, <1>2, StoreStillKnown
<1>11. Passes(ctl[p].stage, ctl'[p].stage)
  BY <1>8 DEF Passes, Loops, Announcing
<1>12. job'.process = p => RenewalOf(ctl[p])'
  BY <1>2, <1>8, <1>11, RenewalStays
<1> QED BY <1>2, <1>7, <1>9, <1>10, <1>12, RenewMoves

(***************************************************************************)
(* A handed-over certificate was exported, so issued (install_handoff).    *)
(***************************************************************************)
LEMMA HandoffRenewal ==
  ASSUME Inv, RenewInv, NEW p \in Processes, InstallHandoff(p)
  PROVE  RenewInv'
<1>1. /\ ctl \in [Processes -> Controller] /\ ctl[p] \in Controller
      /\ StoreKnown /\ KnownTo(ctl[p], issued)
  BY TaskOf DEF Task, RenewInv
<1>2. UNCHANGED <<seen, disk, past, legacy, issued, job>>
  BY DEF InstallHandoff, storeVars, fileVars, historyVars
<1>3. PICK g \in past : ctl' = [ctl EXCEPT ![p] = Installed(@, g.certificate)]
  BY DEF InstallHandoff
<1>4. /\ \A q \in Processes : q # p => ctl'[q] = ctl[q]
      /\ ctl'[p].snap = g.certificate /\ ctl'[p].failedRenewal = ctl[p].failedRenewal
      /\ ctl'[p].reader = ctl[p].reader /\ ctl'[p].stage = ctl[p].stage
  BY <1>1, <1>3 DEF Installed, Controller
<1>5. KnownTo(ctl[p], issued)'
  BY <1>1, <1>2, <1>4 DEF KnownTo, StoreKnown
<1>6. StoreKnown' /\ issued' \in Nat /\ issued <= issued'
  BY <1>1, <1>2, StoreStillKnown
<1>7. job'.process = p => RenewalOf(ctl[p])'
  BY <1>2, <1>4, RenewalStays DEF Passes
<1> QED BY <1>2, <1>4, <1>5, <1>6, <1>7, RenewMoves

\* A job is started, taken or given up.
(***************************************************************************)
(* Starting a blocking task.                                               *)
(***************************************************************************)
LEMMA StartedKnown ==
  ASSUME Inv, StoreKnown, NEW p \in Processes, NEW kind, NEW steps, NEW g \in Generation,
         NEW awaited, StartJob(p, kind, steps, g, awaited), legacy' = legacy,
         issued' \in Nat, issued <= issued', g.certificate <= issued'
  PROVE  StoreKnown' /\ job'.process = p /\ job'.kind = kind /\ job'.steps = steps /\ job'.ok
         /\ job'.generation = g /\ job'.awaited = awaited /\ seen' = seen
<1>1. /\ job'.process = p /\ job'.kind = kind /\ job'.steps = steps /\ job'.ok
      /\ job'.generation = g /\ job'.awaited = awaited /\ job'.found = 0
      /\ UNCHANGED <<seen, disk, past>>
  BY DEF StartJob, fileVars
<1>2. /\ issued \in Nat /\ past \in SUBSET Generation /\ legacy \in Generation
      /\ Named(seen) \subseteq Generation /\ Named(disk) \subseteq Generation
  BY NamedCases, ProcessesAssumption DEF Inv, StoreInv, StoreTypes, ControlInv, CtlTypes, Certificates
<1>3. \A x \in Generation : x.certificate \in Nat
  BY DEF Generation
<1>4. \A x \in Named(seen) \cup Named(disk) \cup past : x.certificate <= issued'
  BY <1>2, <1>3 DEF StoreKnown
<1>5. legacy.certificate <= issued'
  BY <1>2, <1>3 DEF StoreKnown
<1> QED BY <1>1, <1>4, <1>5 DEF StoreKnown, Named

(***************************************************************************)
(* A bare change of stage.                                                 *)
(***************************************************************************)
LEMMA GotoCarries ==
  ASSUME ctl \in [Processes -> Controller], NEW p \in Processes, NEW t, Goto(p, t)
  PROVE  /\ \A q \in Processes : q # p => ctl'[q] = ctl[q]
         /\ Carried(p) /\ ctl'[p].stage = t
<1>1. ctl[p] \in Controller
  OBVIOUS
<1> QED BY <1>1 DEF Goto, Carried, Controller

(***************************************************************************)
(* Starting a blocking task that is no publication of the loop and no      *)
(* announcement.                                                           *)
(***************************************************************************)
LEMMA SubmittedRenewal ==
  ASSUME Inv, RenewInv, NEW p \in Processes, NEW from, NEW to, NEW kind, NEW steps,
         NEW g \in Generation, Submit(p, from, to, kind, steps, g), g.certificate <= issued,
         to # "down",
         \/ kind \in {"open", "account"}
         \/ to \notin Loops \cup Announcing
  PROVE  RenewInv'
<1>1. /\ ctl \in [Processes -> Controller] /\ issued \in Nat
      /\ StoreKnown /\ KnownTo(ctl[p], issued)
  BY TaskOf DEF Task, RenewInv, ClockTypes, Certificates
<1>2. /\ Goto(p, to) /\ StartJob(p, kind, steps, g, TRUE) /\ legacy' = legacy /\ issued' = issued
  BY DEF Submit
<1>3. /\ \A q \in Processes : q # p => ctl'[q] = ctl[q]
      /\ Carried(p) /\ ctl'[p].stage = to
  BY <1>1, <1>2, GotoCarries
<1>4. KnownTo(ctl[p], issued)'
  BY <1>1, <1>2, <1>3 DEF KnownTo, Carried
<1>5. StoreKnown' /\ job'.process = p /\ job'.kind = kind
  <2>1. issued' \in Nat /\ issued <= issued' /\ g.certificate <= issued'
    BY <1>1, <1>2
  <2> QED BY <1>1, <1>2, <2>1, StartedKnown
<1>6. RenewalOf(ctl[p])'
  BY <1>3, <1>5 DEF RenewalOf, IssueOf, ExportOf
<1> QED BY <1>1, <1>2, <1>3, <1>4, <1>5, <1>6, RenewMoves

(***************************************************************************)
(* What is loaded from the files is one of the generations named there, or *)
(* the empty one.                                                          *)
(***************************************************************************)
LEMMA LoadKnown ==
  ASSUME Inv, StoreKnown
  PROVE  /\ Load(seen).certificate <= issued /\ Load(seen) \in Generation
         /\ WithAccount.certificate <= issued
         /\ \A c \in Certificates : WithCertificate(c).certificate = c
         /\ Load(seen) \in Named(seen) \cup {Empty}
<1>1. CanLoad(seen) /\ Load(seen) \in Generation /\ seen \in Files /\ issued \in Nat
  BY SeenLoads DEF Inv, ControlInv, CtlTypes, Certificates
<1>2. Load(seen) \in Named(seen) \cup {Empty}
  BY <1>1, LoadCases
<1>3. Load(seen).certificate <= issued
  BY <1>1, <1>2 DEF StoreKnown, Empty
<1>4. WithAccount.certificate = Load(seen).certificate
  BY <1>1 DEF WithAccount, Generation
<1>5. \A c \in Certificates : WithCertificate(c).certificate = c
  BY <1>1 DEF WithCertificate, Generation
<1> QED BY <1>1, <1>2, <1>3, <1>4, <1>5

(***************************************************************************)
(* Opening, importing, loading, and storing the account.                   *)
(***************************************************************************)
LEMMA SubmitRenewal ==
  ASSUME Inv, RenewInv, NEW p \in Processes,
         \/ OpenStore(p) \/ ImportAccount(p) \/ ImportCertificate(p) \/ LoadSnapshot(p)
         \/ AcmeCached(p) \/ AcmeAccount(p)
  PROVE  RenewInv'
<1>1. /\ issued \in Nat /\ StoreKnown /\ StoreInv /\ legacy \in Generation
      /\ ctl \in [Processes -> Controller]
  BY TaskOf, ProcessesAssumption DEF Task, RenewInv, ClockTypes, Certificates
<1>2. /\ Empty \in Generation /\ Empty.certificate <= issued
  BY <1>1, EmptyTyped DEF Empty
<1>3. /\ WithAccount \in Generation /\ WithAccount.certificate <= issued
  BY <1>1, LoadKnown, WrittenTyped
<1>4. /\ WithCertificate(legacy.certificate) \in Generation
      /\ WithCertificate(legacy.certificate).certificate <= issued
  <2>1. legacy.certificate \in Certificates /\ legacy.certificate <= issued
    BY <1>1 DEF StoreKnown, Generation, Certificates
  <2> QED BY <1>1, <2>1, LoadKnown, WrittenTyped
<1>5. ASSUME NEW s, NEW t, At(p, s), Goto(p, t), UNCHANGED <<storeVars, legacy, issued>>,
             t \notin Loops \cup Announcing, t # "down"
      PROVE  RenewInv'
  <2>1. UNCHANGED <<seen, disk, past, legacy, issued, job>>
    BY <1>5 DEF storeVars, fileVars, historyVars
  <2>2. /\ \A q \in Processes : q # p => ctl'[q] = ctl[q]
        /\ Carried(p) /\ ctl'[p].stage = t
    BY <1>1, <1>5, GotoCarries
  <2>3. Passes(ctl[p].stage, ctl'[p].stage)
    BY <1>5, <2>2 DEF Passes
  <2> QED BY <2>1, <2>2, <2>3, CarriedKept
<1>6. CASE OpenStore(p)
  BY <1>2, <1>6, SubmittedRenewal DEF OpenStore
<1>7. CASE ImportAccount(p)
  <2>1. CASE Submit(p, "import_account", "importing_account", "account", PublishSteps, WithAccount)
    BY <1>3, <2>1, SubmittedRenewal
  <2>2. CASE /\ At(p, "import_account")
             /\ Goto(p, IF seen.manifest = <<>> THEN "import_certificate" ELSE "load")
             /\ UNCHANGED <<storeVars, legacy, issued>>
    BY <1>5, <2>2 DEF Loops, Announcing
  <2> QED BY <1>7, <2>1, <2>2 DEF ImportAccount
<1>8. CASE ImportCertificate(p)
  <2>1. CASE Submit(p, "import_certificate", "importing_certificate", "certificate", PublishSteps,
                    WithCertificate(legacy.certificate))
    BY <1>4, <2>1, SubmittedRenewal DEF Loops, Announcing
  <2>2. CASE /\ At(p, "import_certificate") /\ Goto(p, "load")
             /\ UNCHANGED <<storeVars, legacy, issued>>
    BY <1>5, <2>2 DEF Loops, Announcing
  <2> QED BY <1>8, <2>1, <2>2 DEF ImportCertificate
<1>9. CASE LoadSnapshot(p)
  BY <1>2, <1>9, SubmittedRenewal DEF LoadSnapshot, Loops, Announcing
<1>10. CASE AcmeCached(p)
  BY <1>2, <1>10, SubmittedRenewal DEF AcmeCached, Loops, Announcing
<1>11. CASE AcmeAccount(p)
  BY <1>3, <1>11, SubmittedRenewal DEF AcmeAccount
<1> QED BY <1>6, <1>7, <1>8, <1>9, <1>10, <1>11

(***************************************************************************)
(* A new certificate is newer than all: only issue_certificate starts the  *)
(* publication of one.                                                     *)
(***************************************************************************)
LEMMA IssueRenewal ==
  ASSUME Inv, RenewInv, NEW p \in Processes, AcmeIssue(p)
  PROVE  RenewInv'
<1>1. /\ ctl \in [Processes -> Controller] /\ ctl[p] \in Controller /\ issued \in Nat
      /\ StoreKnown /\ KnownTo(ctl[p], issued) /\ StoreInv /\ seen \in Files
  BY TaskOf DEF Task, RenewInv, ClockTypes, Certificates, StoreInv, StoreTypes
<1>2. PICK loop \in {"acme", "active"} : Goto(p, loop)
  BY DEF AcmeIssue
<1>3. PICK c \in issued + 1..MaxCertificate :
        issued' = c /\ StartJob(p, "certificate", PublishSteps, WithCertificate(c), TRUE)
  BY DEF AcmeIssue
<1>4. c \in Certificates /\ c \in Nat /\ c > issued /\ legacy' = legacy
  BY <1>1, <1>3, CertificateAssumption DEF Certificates, AcmeIssue
<1>5. /\ \A q \in Processes : q # p => ctl'[q] = ctl[q]
      /\ Carried(p) /\ ctl'[p].stage = loop
  BY <1>1, <1>2, GotoCarries
<1> DEFINE g == WithCertificate(c)
<1>6. g \in Generation /\ g.certificate = c
  BY <1>1, <1>4, LoadKnown, WrittenTyped
<1> HIDE DEF g
<1>7. StoreKnown' /\ job'.process = p /\ job'.kind = "certificate" /\ job'.steps = PublishSteps
      /\ job'.generation = g /\ seen' = seen
  <2>1. issued' \in Nat /\ issued <= issued' /\ g.certificate <= issued'
    BY <1>1, <1>3, <1>4, <1>6
  <2>2. StartJob(p, "certificate", PublishSteps, g, TRUE)
    BY <1>3 DEF g
  <2> QED BY <1>1, <1>4, <1>6, <2>1, <2>2, StartedKnown
<1>8. ctl[p].failedRenewal \in Nat /\ ctl[p].snap \in Nat /\ \A x \in Generation : x.certificate \in Nat
  BY <1>1 DEF Controller, Certificates, Generation
<1>9. KnownTo(ctl[p], issued)'
  <2>1. \A i \in DOMAIN ctl[p].reader.left : ctl[p].reader.left[i] \in Generation
    <3>1. ctl[p].reader.left \in Seq(Generation)
      BY <1>1 DEF Controller
    <3> QED BY <3>1
  <2>2. \A i \in DOMAIN ctl[p].reader.left : ctl[p].reader.left[i].certificate <= c
    BY <1>1, <1>4, <1>8, <2>1 DEF KnownTo
  <2>3. ctl[p].snap <= c /\ ctl[p].failedRenewal <= c
    BY <1>1, <1>4, <1>8 DEF KnownTo
  <2> QED BY <1>3, <1>5, <2>2, <2>3 DEF KnownTo, Carried
<1>10. RenewalOf(ctl[p])'
  <2>1. g.certificate > ctl[p].failedRenewal
    BY <1>1, <1>4, <1>6, <1>8 DEF KnownTo
  <2>2. Newest(g)
    <3>1. \A x \in Named(seen) : x \in Generation /\ x.certificate <= issued
      BY <1>1, NamedCases DEF StoreKnown
    <3> QED BY <1>1, <1>4, <1>6, <1>8, <3>1 DEF Newest
  <2>3. Newest(job.generation)'
    BY <1>7, <2>2 DEF Newest, Named
  <2>4. PublishSteps \notin {Resyncing, Renaming, Confirming, Pruning, <<>>}
    BY StepsDiffer
  <2> QED BY <1>5, <1>7, <2>1, <2>3, <2>4 DEF RenewalOf, IssueOf, ExportOf, Carried
<1> QED BY <1>1, <1>3, <1>4, <1>5, <1>7, <1>9, <1>10, RenewMoves

(***************************************************************************)
(* A failed activation names no other certificate; a failed renewal is     *)
(* remembered under the one installed.                                     *)
(***************************************************************************)
LEMMA LoopErrorKnown ==
  ASSUME NEW c \in Controller, NEW n \in Nat, KnownTo(c, n)
  PROVE  KnownTo(LoopError(c), n) /\ KnownTo(Ended(c), n)
<1>1. KnownTo(Ended(c), n)
  BY EndedCarries DEF KnownTo
<1>2. /\ RenewalFailed(c).stage = "sleep" /\ RenewalFailed(c).snap = c.snap
      /\ RenewalFailed(c).failedRenewal = c.snap /\ RenewalFailed(c).reader = c.reader
  BY EndedCarries DEF RenewalFailed, Controller
<1>3. KnownTo(RenewalFailed(c), n)
  BY <1>2 DEF KnownTo
<1> QED BY <1>1, <1>3 DEF LoopError

(***************************************************************************)
(* Taking the result of a blocking task leaves no task.                    *)
(***************************************************************************)
LEMMA TakenRenewal ==
  ASSUME Inv, RenewInv, NEW p \in Processes, TakeResult(p), NEW c, ctl' = [ctl EXCEPT ![p] = c],
         KnownTo(c, issued)
  PROVE  RenewInv'
<1>1. /\ ctl \in [Processes -> Controller] /\ StoreKnown
  BY TaskOf DEF Task, RenewInv
<1>2. job' = NoJob /\ UNCHANGED <<seen, disk, past, legacy, issued>>
  BY DEF TakeResult, fileVars, historyVars
<1>3. ctl'[p] = c /\ \A q \in Processes : q # p => ctl'[q] = ctl[q]
  BY <1>1
<1>4. StoreKnown' /\ issued' \in Nat /\ issued <= issued'
  BY <1>1, <1>2, StoreStillKnown
<1>5. KnownTo(ctl[p], issued)'
  BY <1>2, <1>3 DEF KnownTo
<1>6. job'.process # p
  BY <1>2, EmptyTyped, ProcessesAssumption
<1> QED BY <1>2, <1>3, <1>4, <1>5, <1>6, RenewMoves

(***************************************************************************)
(* Installing an issued certificate.                                       *)
(***************************************************************************)
LEMMA InstalledKnown ==
  ASSUME NEW c \in Controller, NEW n \in Nat, KnownTo(c, n), NEW snap \in Nat, snap <= n, NEW t, t # "down"
  PROVE  KnownTo([Installed(c, snap) EXCEPT !.stage = t], n)
<1> DEFINE i == Installed(c, snap)
           d == [i EXCEPT !.stage = t]
<1>1. i.snap = snap /\ i.failedRenewal = c.failedRenewal /\ i.reader = c.reader
      /\ d.snap = i.snap /\ d.failedRenewal = i.failedRenewal /\ d.reader = i.reader /\ d.stage = t
  BY DEF Installed, Controller
<1> QED BY <1>1 DEF KnownTo

(***************************************************************************)
(* Going on, or ending the activation.                                     *)
(***************************************************************************)
LEMMA ProceedKnown ==
  ASSUME NEW c \in Controller, NEW n \in Nat, KnownTo(c, n), NEW ok \in BOOLEAN, NEW t, t # "down"
  PROVE  KnownTo(IF ok THEN [c EXCEPT !.stage = t] ELSE Ended(c), n)
<1>1. KnownTo([c EXCEPT !.stage = t], n)
  BY DEF KnownTo, Controller
<1> QED BY <1>1, LoopErrorKnown

(***************************************************************************)
(* Recovery clears the memory or keeps it.                                 *)
(***************************************************************************)
LEMMA RecoveredKnown ==
  ASSUME NEW c \in Controller, NEW n \in Nat, KnownTo(c, n), NEW snap, NEW event
  PROVE  Recovered(c, snap, event) \in Controller /\ KnownTo(Recovered(c, snap, event), n)
<1>1. KnownTo([c EXCEPT !.recovery = FALSE, !.failedRenewal = 0], n)
  BY DEF KnownTo, Controller
<1> QED BY <1>1, RecoveredSound DEF Recovered

(***************************************************************************)
(* Every result of a blocking task is taken with the invariant intact.     *)
(***************************************************************************)
LEMMA ResultRenewal ==
  ASSUME Inv, RenewInv, NEW p \in Processes,
         \/ StoreOpened(p) \/ Imported(p) \/ SnapshotLoaded(p)
         \/ AcmeStored(p) \/ Confirmed(p) \/ Renewed(p)
  PROVE  RenewInv'
<1>1. /\ ctl \in [Processes -> Controller] /\ ctl[p] \in Controller /\ issued \in Nat
      /\ KnownTo(ctl[p], issued) /\ job \in Job
  BY TaskOf DEF Task, RenewInv, ClockTypes, Certificates, StoreInv, StoreTypes
<1>2. TakeResult(p)
  BY DEF StoreOpened, Imported, SnapshotLoaded, AcmeStored, Confirmed, Renewed
<1>3. job.ok \in BOOLEAN /\ Exported \in Nat /\ Exported <= issued
  <2>1. job.ok \in BOOLEAN /\ Exported \in Certificates
    BY <1>2, ResultOf
  <2> QED BY <1>1, <2>1 DEF Exported, RenewInv, StoreKnown, Certificates
<1>4. ASSUME NEW ok \in BOOLEAN, NEW t, t # "down", Proceed(p, ok, t) PROVE RenewInv'
  <2> DEFINE c == IF ok THEN [ctl[p] EXCEPT !.stage = t] ELSE Ended(ctl[p])
  <2>1. KnownTo(c, issued)
    BY <1>1, <1>4, ProceedKnown
  <2>2. ctl' = [ctl EXCEPT ![p] = c]
    BY <1>4 DEF Proceed
  <2> HIDE DEF c
  <2> QED BY <1>2, <2>1, <2>2, TakenRenewal
<1>5. CASE StoreOpened(p) \/ Imported(p)
  BY <1>3, <1>4, <1>5 DEF StoreOpened, Imported
<1>6. CASE SnapshotLoaded(p)
  <2>1. CASE CanInstall(p, Exported)
    <3> DEFINE c == [Installed(ctl[p], Exported) EXCEPT !.stage = "proving"]
    <3>1. KnownTo(c, issued)
      BY <1>1, <1>3, InstalledKnown
    <3>2. ctl' = [ctl EXCEPT ![p] = c]
      BY <1>6, <2>1 DEF SnapshotLoaded
    <3> HIDE DEF c
    <3> QED BY <1>2, <3>1, <3>2, TakenRenewal
  <2>2. CASE ~CanInstall(p, Exported)
    <3>1. Proceed(p, Exported = 0, "proving") /\ (Exported = 0) \in BOOLEAN
      BY <1>6, <2>2 DEF SnapshotLoaded
    <3> QED BY <1>4, <3>1
  <2> QED BY <2>1, <2>2
<1>7. CASE AcmeStored(p)
  <2> DEFINE c == IF job.ok THEN ctl[p] ELSE LoopError(ctl[p])
  <2>1. KnownTo(c, issued)
    BY <1>1, LoopErrorKnown
  <2>2. ctl' = [ctl EXCEPT ![p] = c]
    BY <1>1, <1>7 DEF AcmeStored
  <2> HIDE DEF c
  <2> QED BY <1>2, <2>1, <2>2, TakenRenewal
<1>8. CASE Confirmed(p)
  <2>1. PICK event \in {"cached", "stored"} :
          LET r == IF Exported # 0 THEN Recovered(ctl[p], Exported, event) ELSE ctl[p]
          IN  ctl' = [ctl EXCEPT ![p] =
                        IF CanInstall(p, Exported)
                        THEN [Installed(r, Exported) EXCEPT !.stage = "active_check"]
                        ELSE Ended(r)]
    BY <1>8 DEF Confirmed
  <2> DEFINE r == IF Exported # 0 THEN Recovered(ctl[p], Exported, event) ELSE ctl[p]
             c == IF CanInstall(p, Exported)
                  THEN [Installed(r, Exported) EXCEPT !.stage = "active_check"]
                  ELSE Ended(r)
  <2>2. r \in Controller /\ KnownTo(r, issued)
    BY <1>1, RecoveredKnown
  <2>3. ctl' = [ctl EXCEPT ![p] = c]
    BY <2>1
  <2> HIDE DEF r
  <2>4. KnownTo(c, issued)
    BY <1>1, <1>3, <2>2, InstalledKnown, LoopErrorKnown
  <2> HIDE DEF c
  <2> QED BY <1>2, <2>3, <2>4, TakenRenewal
<1>9. CASE Renewed(p)
  <2> DEFINE i == [Installed(ctl[p], Exported) EXCEPT !.stage = "active_check"]
             d == [Installed(ctl[p], Exported) EXCEPT !.stage = "active_check", !.recovery = FALSE,
                                                      !.failedRenewal = 0]
             c == IF CanInstall(p, Exported) THEN d ELSE LoopError(ctl[p])
  <2>1. KnownTo(i, issued)
    BY <1>1, <1>3, InstalledKnown
  <2>2. d.snap = i.snap /\ d.reader = i.reader /\ d.stage = i.stage /\ d.failedRenewal = 0
    BY <1>1 DEF Installed, Controller
  <2>3. KnownTo(d, issued)
    <3> HIDE DEF i, d
    <3> QED BY <1>1, <2>1, <2>2 DEF KnownTo
  <2>4. ctl' = [ctl EXCEPT ![p] = c]
    BY <1>9 DEF Renewed
  <2> HIDE DEF d
  <2>5. KnownTo(c, issued)
    BY <1>1, <2>3, LoopErrorKnown
  <2> HIDE DEF c
  <2> QED BY <1>2, <2>4, <2>5, TakenRenewal
<1> QED BY <1>5, <1>6, <1>7, <1>8, <1>9

(***************************************************************************)
(* The export read starts behind the publication, whose certificate then   *)
(* leads the manifest and is readable.                                     *)
(***************************************************************************)
LEMMA PublishedRenewal ==
  ASSUME Inv, RenewInv, NEW p \in Processes, AcmePublished(p)
  PROVE  RenewInv'
<1>1. /\ ctl \in [Processes -> Controller] /\ issued \in Nat /\ StoreKnown
      /\ KnownTo(ctl[p], issued) /\ job \in Job
  BY TaskOf DEF Task, RenewInv, ClockTypes, Certificates, StoreInv, StoreTypes
<1>2. /\ job.process = p /\ job.awaited /\ job.steps = <<>> /\ job.ok /\ job.kind = "certificate"
      /\ ctl[p].stage \in Loops
      /\ job' = [job EXCEPT !.kind = "export", !.steps = ExportSteps, !.generation = Empty]
      /\ UNCHANGED <<seen, disk, past, legacy, issued>>
  BY DEF AcmePublished, JobReturned, Polls, At, Loops, fileVars, historyVars
<1>3. PICK t \in Announcing : Goto(p, t)
  BY DEF AcmePublished, Announcing
<1>4. /\ \A q \in Processes : q # p => ctl'[q] = ctl[q]
      /\ Carried(p) /\ ctl'[p].stage = t
  BY <1>1, <1>3, GotoCarries
<1>5. /\ job'.process = p /\ job'.kind = "export" /\ job'.steps = ExportSteps
      /\ job'.generation = Empty /\ job'.found = job.found
  BY <1>1, <1>2 DEF Job
<1>6. StoreKnown' /\ issued' \in Nat /\ issued <= issued'
  <2>1. job'.generation.certificate <= issued /\ job'.found <= issued
    BY <1>1, <1>5 DEF Empty, StoreKnown
  <2> QED BY <1>1, <1>2, <2>1 DEF StoreKnown, Named
<1>7. KnownTo(ctl[p], issued)'
  BY <1>1, <1>2, <1>4 DEF KnownTo, Carried, Announcing
<1>8. RenewalOf(ctl[p])'
  <2>1. PICK g \in seen.exports : Leads(g) /\ Newest(g) /\ g.certificate > ctl[p].failedRenewal
    <3>1. /\ job.generation \in seen.exports /\ Leads(job.generation) /\ Newest(job.generation)
          /\ job.generation.certificate > ctl[p].failedRenewal
      BY <1>2 DEF RenewInv, RenewalOf, IssueOf
    <3> QED BY <3>1
  <2>2. \E x \in seen'.exports :
          Leads(x)' /\ Newest(x)' /\ x.certificate > ctl'[p].failedRenewal
    <3>1. g \in seen'.exports /\ Leads(g)' /\ Newest(g)' /\ g.certificate > ctl'[p].failedRenewal
      BY <1>2, <1>4, <2>1 DEF Leads, Newest, Named, Carried
    <3> QED BY <3>1
  <2>3. ExportSteps # <<>>
    BY StepsDiffer
  <2> QED BY <1>5, <2>2, <2>3 DEF RenewalOf, IssueOf, ExportOf
<1> QED BY <1>4, <1>5, <1>6, <1>7, <1>8, RenewMoves

(***************************************************************************)
(* An ACME error remembers the installed certificate as the one whose      *)
(* renewal failed.                                                         *)
(***************************************************************************)
LEMMA FailsRenewal ==
  ASSUME Inv, RenewInv, NEW p \in Processes, AcmeFails(p)
  PROVE  RenewInv'
<1>1. /\ ctl \in [Processes -> Controller] /\ ctl[p] \in Controller /\ issued \in Nat /\ StoreKnown
      /\ KnownTo(ctl[p], issued)
  BY TaskOf DEF Task, RenewInv, ClockTypes, Certificates
<1>2. /\ UNCHANGED <<seen, disk, past, legacy, issued, job>> /\ job.process # p
      /\ ctl' = [ctl EXCEPT ![p] = LoopError(@)]
  BY DEF AcmeFails, storeVars, fileVars, historyVars
<1>3. ctl'[p] = LoopError(ctl[p]) /\ \A q \in Processes : q # p => ctl'[q] = ctl[q]
  BY <1>1, <1>2
<1>4. KnownTo(LoopError(ctl[p]), issued)
  BY <1>1, LoopErrorKnown
<1>5. KnownTo(ctl[p], issued)'
  BY <1>2, <1>3, <1>4 DEF KnownTo
<1>6. StoreKnown' /\ issued' \in Nat /\ issued <= issued'
  BY <1>1, <1>2, StoreStillKnown
<1> QED BY <1>2, <1>3, <1>5, <1>6, RenewMoves

\* What nobody's task does: storage, time and faults.
(***************************************************************************)
(* A step that moves no controller.                                        *)
(***************************************************************************)
LEMMA UnmovedRenewal ==
  ASSUME Inv, RenewInv, UNCHANGED <<ctl, issued>>, StoreKnown',
         job' = NoJob \/ (job'.process = job.process /\
           \A p \in Processes : job.process = p /\ RenewalOf(ctl[p]) => RenewalOf(ctl[p])')
  PROVE  RenewInv'
<1>1. ASSUME NEW p \in Processes PROVE KnownTo(ctl[p], issued)'
  BY <1>1 DEF RenewInv, KnownTo
<1>2. ASSUME NEW p \in Processes, job'.process = p PROVE RenewalOf(ctl[p])'
  <2>1. NoJob.process = NoProcess /\ p # NoProcess
    BY EmptyTyped, ProcessesAssumption
  <2>2. job.process = p /\ RenewalOf(ctl[p])
    BY <1>2, <2>1 DEF RenewInv
  <2> QED BY <1>2, <2>1, <2>2
<1> QED BY <1>1, <1>2 DEF RenewInv

(***************************************************************************)
(* A file that rots loses names, and time passes.                          *)
(***************************************************************************)
LEMMA EnvironmentRenewal ==
  ASSUME Inv, RenewInv, FileRots \/ PassTime
  PROVE  RenewInv'
<1>1. UNCHANGED <<ctl, issued, legacy, past, job>>
  BY DEF FileRots, PassTime, CorruptBlob, storeVars, fileVars, historyVars
<1>2. CASE PassTime
  <2>1. UNCHANGED <<seen, disk>>
    BY <1>2 DEF PassTime, storeVars, fileVars
  <2>2. StoreKnown'
    BY <1>1, <2>1, StoreStillKnown DEF RenewInv
  <2>3. \A p \in Processes : RenewalOf(ctl[p]) => RenewalOf(ctl[p])'
    BY <1>1, <2>1 DEF RenewalOf, IssueOf, ExportOf, Newest, Leads, Named
  <2> QED BY <1>1, <2>2, <2>3, UnmovedRenewal
<1>3. CASE FileRots
  <2>1. PICK g \in Generation : CorruptBlob(g)
    BY <1>3 DEF FileRots
  <2>2. /\ job = NoJob /\ seen' = [seen EXCEPT !.blobs = @ \ {g}] /\ disk' = [disk EXCEPT !.blobs = @ \ {g}]
        /\ seen \in Files /\ disk \in Files
    BY <2>1 DEF CorruptBlob, Inv, StoreInv, StoreTypes
  <2>3. seen'.manifest = seen.manifest /\ disk'.manifest = disk.manifest
    BY <2>2 DEF Files
  <2>4. StoreKnown'
    BY <1>1, <2>3 DEF StoreKnown, RenewInv, Named
  <2>5. job' = NoJob
    BY <1>1, <2>2
  <2> QED BY <1>1, <2>4, <2>5, UnmovedRenewal
<1> QED BY <1>2, <1>3

(***************************************************************************)
(* A stopped process names nothing.                                        *)
(***************************************************************************)
LEMMA StoppedKnown ==
  ASSUME NEW n \in Nat
  PROVE  KnownTo(Stopped, n)
BY DEF KnownTo, Stopped, NoReader

(***************************************************************************)
(* A crash stops the process and its blocking task.                        *)
(***************************************************************************)
LEMMA CrashRenewal ==
  ASSUME Inv, RenewInv, NEW p \in Processes, Crash(p)
  PROVE  RenewInv'
<1>1. /\ ctl \in [Processes -> Controller] /\ issued \in Nat /\ StoreKnown
  BY TaskOf DEF Task, RenewInv, ClockTypes, Certificates
<1>2. /\ UNCHANGED <<seen, disk, past, legacy, issued>> /\ ctl' = [ctl EXCEPT ![p] = Stopped]
      /\ job' = IF job.process = p THEN NoJob ELSE job
  BY DEF Crash, fileVars, historyVars
<1>3. ctl'[p] = Stopped /\ \A q \in Processes : q # p => ctl'[q] = ctl[q]
  BY <1>1, <1>2
<1>4. KnownTo(Stopped, issued)
  BY <1>1, StoppedKnown
<1>5. KnownTo(ctl[p], issued)'
  BY <1>2, <1>3, <1>4 DEF KnownTo
<1>6. StoreKnown' /\ issued' \in Nat /\ issued <= issued'
  BY <1>1, <1>2, StoreStillKnown
<1>7. job'.process # p
  BY <1>2, EmptyTyped, ProcessesAssumption
<1> QED BY <1>2, <1>3, <1>5, <1>6, <1>7, RenewMoves

(***************************************************************************)
(* A power loss leaves what the disk held.                                 *)
(***************************************************************************)
LEMMA PowerRenewal ==
  ASSUME Inv, RenewInv, PowerLoss
  PROVE  RenewInv'
<1>1. issued \in Nat /\ StoreKnown
  BY DEF Inv, ControlInv, CtlTypes, Certificates, RenewInv
<1>2. /\ UNCHANGED <<past, legacy, issued>> /\ ctl' = [p \in Processes |-> Stopped]
      /\ job' = NoJob /\ LosePower
  BY DEF PowerLoss, historyVars
<1>3. seen'.manifest \in {seen.manifest, disk.manifest} /\ disk'.manifest = seen'.manifest
  BY <1>2 DEF LosePower
<1>4. StoreKnown'
  <2>1. NoJob.generation.certificate = 0 /\ NoJob.found = 0
    BY DEF NoJob, Empty
  <2>2. Named(seen)' \subseteq Named(seen) \cup Named(disk) /\ Named(disk)' \subseteq Named(seen) \cup Named(disk)
    BY <1>3 DEF Named
  <2> QED BY <1>1, <1>2, <2>1, <2>2 DEF StoreKnown
<1>5. ASSUME NEW p \in Processes PROVE KnownTo(ctl[p], issued)' /\ job'.process # p
  <2>1. ctl'[p] = Stopped /\ issued' = issued /\ KnownTo(Stopped, issued)
    BY <1>1, <1>2, <1>5, StoppedKnown
  <2>2. job'.process # p
    BY <1>2, <1>5, EmptyTyped, ProcessesAssumption
  <2> QED BY <2>1, <2>2 DEF KnownTo
<1> QED BY <1>4, <1>5 DEF RenewInv

(***************************************************************************)
(* export_snapshot only reads.                                             *)
(***************************************************************************)
LEMMA ExportSnapshotRenewal ==
  ASSUME Inv, RenewInv, NEW p \in Processes, ExportSnapshot(p)
  PROVE  RenewInv'
<1>1. issued \in Nat /\ StoreKnown /\ Empty \in Generation /\ Empty.certificate = 0
  BY EmptyTyped DEF Inv, ControlInv, CtlTypes, Certificates, RenewInv, Empty
<1>2. StartJob(p, "export", ExportSteps, Empty, FALSE) /\ UNCHANGED <<ctl, issued, legacy>>
  BY DEF ExportSnapshot
<1>3. issued' \in Nat /\ issued <= issued' /\ Empty.certificate <= issued'
  BY <1>1, <1>2
<1>4. StoreKnown' /\ job'.process = p /\ job'.awaited = FALSE
  BY <1>1, <1>2, <1>3, StartedKnown
<1>5. KnownTo(ctl[p], issued)' /\ \A q \in Processes : q # p => ctl'[q] = ctl[q]
  BY <1>2 DEF RenewInv, KnownTo
<1>6. RenewalOf(ctl[p])'
  BY <1>4 DEF RenewalOf, IssueOf, ExportOf
<1> QED BY <1>3, <1>4, <1>5, <1>6, RenewMoves

(***************************************************************************)
(* The steps of Store that a blocking task takes.                          *)
(***************************************************************************)
StepNames ==
  {"recover", "retain", "sync_committed", "prune", "blob", "sync_generations", "export", "manifest",
   "sync_manifest", "read"}

(***************************************************************************)
(* A blocking task at work stands before one of them.                      *)
(***************************************************************************)
LEMMA StepNamed ==
  ASSUME StoreTypes, JobInv, job.steps # <<>>
  PROVE  Head(job.steps) \in StepNames
<1>1. job.steps \in Remaining
  BY DEF StoreTypes, Job
<1>2. CASE job.steps \in {OpenSteps, Retaining, Committing, Pruning}
  BY <1>2, OpenOrder DEF StepNames
<1>3. CASE job.steps \in {ExportSteps, <<"read">>}
  BY <1>3, ExportOrder DEF StepNames
<1>4. CASE job.steps \in {PublishSteps, Syncing, Exporting}
  BY <1>4, PublishOrder DEF StepNames
<1>5. CASE job.steps \in {Resyncing, Renaming, Confirming}
  BY <1>5, PublishOrder DEF StepNames
<1> QED BY <1>1, <1>2, <1>3, <1>4, <1>5 DEF Remaining

(***************************************************************************)
(* recover_manifest only drops names.                                      *)
(***************************************************************************)
LEMMA RetainNames ==
  ASSUME NEW files \in Files, NEW S
  PROVE  /\ \A i \in DOMAIN Retain(files.manifest, S) :
              Retain(files.manifest, S)[i] \in Named(files) \cap S
         /\ Retain(files.manifest, S) # <<>> =>
              Head(Retain(files.manifest, S)) \in Named(files) \cap S
<1> DEFINE m == files.manifest
           r == Retain(m, S)
<1>1. m \in Manifest
  BY DEF Files
<1>2. Len(m) \in 0..2
  BY <1>1, RetainCases
<1>3. CASE Len(m) = 0
  BY <1>1, <1>3, RetainCases
<1>4. CASE Len(m) = 1
  <2>1. r = (IF m[1] \in S THEN <<m[1]>> ELSE <<>>) /\ Named(files) = {m[1]}
    BY <1>1, <1>4, RetainCases, NamedCases
  <2> HIDE DEF m, r
  <2> QED BY <2>1 DEF r, m
<1>5. CASE Len(m) = 2
  <2>1. /\ r = IF m[1] \in S
               THEN IF m[2] \in S THEN <<m[1], m[2]>> ELSE <<m[1]>>
               ELSE IF m[2] \in S THEN <<m[2]>> ELSE <<>>
        /\ Named(files) = {m[1], m[2]}
    BY <1>1, <1>5, RetainCases, NamedCases
  <2> HIDE DEF m, r
  <2>2. \A i \in DOMAIN r : r[i] \in Named(files) \cap S
    BY <2>1
  <2>3. r # <<>> => Head(r) \in Named(files) \cap S
    BY <2>1
  <2> QED BY <2>2, <2>3 DEF r, m
<1> QED BY <1>2, <1>3, <1>4, <1>5

(***************************************************************************)
(* A step writes no name but the task's own generation.                    *)
(***************************************************************************)
LEMMA SeenNames ==
  ASSUME StoreInv, JobStep
  PROVE  /\ Named(seen)' \subseteq Named(seen) \cup {job.generation}
         /\ Named(disk)' \subseteq Named(seen) \cup Named(disk)
<1> DEFINE g == job.generation
           step == Head(job.steps)
<1>1. /\ seen \in Files /\ disk \in Files /\ g \in Generation /\ step \in StepNames
      /\ seen' = Seen(step, g) /\ disk' = Disk(step)
  BY StepNamed DEF StoreInv, StoreTypes, Job, JobStep
<1>2. seen'.manifest \in {seen.manifest, Readable(seen), PublishedManifest(g)}
  BY <1>1, SeenFields DEF StepNames
<1>3. disk'.manifest \in {seen.manifest, disk.manifest}
  BY <1>1, DiskFields DEF StepNames
<1> HIDE DEF g
<1>4. \A i \in DOMAIN Readable(seen) : Readable(seen)[i] \in Named(seen)
  BY <1>1, RetainNames DEF Readable
<1>5. \A i \in DOMAIN PublishedManifest(g) : PublishedManifest(g)[i] \in Named(seen) \cup {g}
  <2>1. CASE PublishedManifest(g) = <<g>>
    BY <2>1
  <2>2. ASSUME NEW x \in Named(seen), PublishedManifest(g) = <<g, x>>
        PROVE  \A i \in DOMAIN PublishedManifest(g) : PublishedManifest(g)[i] \in Named(seen) \cup {g}
    BY <2>2
  <2> QED BY <1>1, <2>1, <2>2, PublishedCases
<1>6. Named(seen)' \subseteq Named(seen) \cup {g}
  BY <1>2, <1>4, <1>5 DEF Named
<1>7. Named(disk)' \subseteq Named(seen) \cup Named(disk)
  BY <1>3 DEF Named
<1> QED BY <1>6, <1>7 DEF g

(***************************************************************************)
(* read_snapshot finds nothing, or the certificate of a readable           *)
(* generation the manifest names.                                          *)
(***************************************************************************)
LEMMA SnapshotKnown ==
  ASSUME Inv, StoreKnown
  PROVE  /\ ReadSnapshot <= issued /\ ReadSnapshot \in Nat
         /\ ReadSnapshot # 0 => \E x \in Named(seen) \cap seen.exports :
                                   Fresh(x.certificate) /\ ReadSnapshot = x.certificate
<1>1. seen \in Files /\ issued \in Nat
  BY DEF Inv, StoreInv, StoreTypes, ControlInv, CtlTypes, Certificates
<1>2. ReadSnapshot # 0 => \E x \in Named(seen) \cap seen.exports :
                            Fresh(x.certificate) /\ ReadSnapshot = x.certificate
  <2>1. Exports(seen) # <<>> =>
          Head(Exports(seen)) \in Named(seen) \cap {g \in seen.exports : Fresh(g.certificate)}
    BY <1>1, RetainNames DEF Exports
  <2> QED BY <2>1 DEF ReadSnapshot
<1>3. ReadSnapshot \in Nat
  BY <1>1, SnapshotTyped DEF Certificates
<1> QED BY <1>1, <1>2, <1>3 DEF StoreKnown

(***************************************************************************)
(* When the newest certificate leads the manifest and is readable,         *)
(* read_snapshot finds it or nothing: older ones are stale before it is.   *)
(***************************************************************************)
LEMMA NewestRead ==
  ASSUME Inv, StoreKnown, NEW g \in seen.exports, Leads(g), Newest(g), NEW n \in Nat, g.certificate > n
  PROVE  ReadSnapshot = 0 \/ ReadSnapshot > n
<1> SUFFICES ASSUME ReadSnapshot # 0 PROVE ReadSnapshot > n
  OBVIOUS
<1>1. /\ seen \in Files /\ seen.manifest \in Manifest /\ clock \in Nat
      /\ seen.exports \subseteq Generation /\ Named(seen) \subseteq Generation
  BY NamedCases DEF Inv, StoreInv, StoreTypes, Files, ControlInv, CtlTypes
<1>2. PICK x \in Named(seen) : Fresh(x.certificate) /\ ReadSnapshot = x.certificate
  BY SnapshotKnown
<1>3. \A y \in Generation : y.certificate \in Nat
  BY DEF Generation
<1>4. x.certificate \in Nat /\ g.certificate \in Nat
  BY <1>1, <1>2, <1>3
<1>5. Fresh(g.certificate)
  <2>1. CASE x = g
    BY <1>2, <2>1
  <2>2. CASE x.certificate < g.certificate
    BY <1>1, <1>2, <1>4, <2>2 DEF Fresh
  <2> QED BY <1>2, <2>1, <2>2 DEF Newest
<1>6. Exports(seen) # <<>> /\ Head(Exports(seen)) = g
  <2> DEFINE m == seen.manifest
             S == {y \in seen.exports : Fresh(y.certificate)}
  <2>1. m # <<>> /\ m[1] = g /\ m[1] \in S
    BY <1>5 DEF Leads
  <2>2. Exports(seen) = Retain(m, S) /\ m \in Manifest
    BY <1>1 DEF Exports
  <2> HIDE DEF m, S
  <2>3. Len(m) \in 1..2
    BY <2>1, <2>2, RetainCases
  <2>4. Retain(m, S) \in {<<m[1]>>, <<m[1], m[2]>>}
    BY <2>1, <2>2, <2>3, RetainCases
  <2>5. Retain(m, S) # <<>> /\ Head(Retain(m, S)) = m[1]
    BY <2>4
  <2> QED BY <2>1, <2>2, <2>5
<1>7. ReadSnapshot = g.certificate
  BY <1>6 DEF ReadSnapshot
<1> QED BY <1>7

(***************************************************************************)
(* A step names no certificate that was not issued.                        *)
(***************************************************************************)
LEMMA SteppedKnown ==
  ASSUME Inv, StoreKnown, JobStep, UNCHANGED <<issued, legacy>>
  PROVE  StoreKnown'
<1>1. /\ StoreInv /\ StoreTypes /\ JobInv /\ issued \in Nat /\ job \in Job
  BY DEF Inv, StoreInv, StoreTypes, ControlInv, CtlTypes, Certificates
<1>2. job'.generation = job.generation
  BY <1>1, JobAdvances
<1>3. \A g \in Named(seen)' \cup Named(disk)' : g.certificate <= issued
  BY <1>1, SeenNames DEF StoreKnown
<1>4. past' \subseteq past \cup {job.generation, Load(seen)}
  BY DEF JobStep, Settle
<1>5. job'.found <= issued
  <2>1. job'.found \in {0, ReadSnapshot}
    BY <1>1 DEF JobStep, Job
  <2> QED BY <1>1, <2>1, SnapshotKnown
<1>6. \A g \in past' : g.certificate <= issued
  BY <1>4, LoadKnown DEF StoreKnown
<1> QED BY <1>2, <1>3, <1>5, <1>6 DEF StoreKnown

(***************************************************************************)
(* The steps of an export read.                                            *)
(***************************************************************************)
LEMMA ExportStepRenewal ==
  ASSUME Inv, RenewInv, JobStep, UNCHANGED ctl, NEW p \in Processes, RenewalOf(ctl[p]), job.kind = "export"
  PROVE  RenewalOf(ctl[p])'
<1>1. /\ StoreInv /\ StoreTypes /\ JobInv /\ job \in Job /\ seen \in Files /\ job.generation \in Generation
      /\ StoreKnown /\ ctl[p].failedRenewal \in Nat
  BY TaskOf DEF Inv, StoreInv, StoreTypes, Job, RenewInv, Task, Controller, Certificates
<1>2. /\ job'.kind = "export" /\ job'.awaited = job.awaited /\ job'.ok /\ job.ok
      /\ job'.steps = Tail(job.steps) /\ job.steps # <<>>
  BY <1>1, JobAdvances DEF JobStep
<1>3. job.steps \in {ExportSteps, <<"read">>}
  BY <1>1, <1>2 DEF JobInv
<1>4. Head(job.steps) \in {"sync_committed", "read"}
  BY <1>3, ExportOrder
<1>5. seen' = seen
  BY <1>1, <1>4, SeenFields DEF JobStep
<1> SUFFICES ASSUME job.awaited, ctl[p].stage \in Announcing PROVE ExportOf(ctl[p])'
  BY <1>2 DEF RenewalOf, IssueOf, ExportOf
<1>6. PICK g \in seen.exports : Leads(g) /\ Newest(g) /\ g.certificate > ctl[p].failedRenewal
  BY <1>2 DEF RenewalOf, ExportOf
<1>7. CASE job.steps = ExportSteps
  <2>1. job'.steps = <<"read">> /\ <<"read">> # <<>>
    BY <1>2, <1>7, ExportOrder, StepsDiffer
  <2>2. g \in seen'.exports /\ Leads(g)' /\ Newest(g)' /\ g.certificate > ctl'[p].failedRenewal
    BY <1>5, <1>6 DEF Leads, Newest, Named
  <2> QED BY <2>1, <2>2 DEF ExportOf
<1>8. CASE job.steps = <<"read">>
  <2>1. job'.steps = <<>> /\ Head(job.steps) = "read"
    BY <1>2, <1>8, ExportOrder
  <2>2. job'.found = ReadSnapshot
    BY <1>1, <2>1 DEF JobStep, Job
  <2>3. ReadSnapshot = 0 \/ ReadSnapshot > ctl[p].failedRenewal
    BY <1>1, <1>6, NewestRead
  <2> QED BY <2>1, <2>2, <2>3 DEF ExportOf
<1> QED BY <1>3, <1>7, <1>8

(***************************************************************************)
(* Which exports a step of a publication writes, keeps and prunes.         *)
(***************************************************************************)
LEMMA ExportsKept ==
  ASSUME seen \in Files, NEW g \in Generation
  PROVE  /\ g.certificate # 0 => g \in Seen("export", g).exports
         /\ \A step \in {"sync_generations", "manifest", "sync_manifest"} :
              Seen(step, g).exports = seen.exports
         /\ Seen("prune", g).exports = seen.exports \cap Named(seen)
<1>1. g.certificate # 0 => g \in Seen("export", g).exports
  BY DEF Seen, Files
<1>2. Seen("sync_generations", g) = seen /\ Seen("sync_manifest", g) = seen
  BY SeenFields
<1>3. Seen("manifest", g).exports = seen.exports
  <2>1. Seen("manifest", g) = [seen EXCEPT !.manifest = PublishedManifest(g)]
    BY DEF Seen
  <2> QED BY <2>1 DEF Files
<1>4. Seen("prune", g).exports = seen.exports \cap Named(seen)
  <2>1. Seen("prune", g) = Pruned(seen)
    BY DEF Seen
  <2> QED BY <2>1 DEF Pruned, Files
<1> QED BY <1>1, <1>2, <1>3, <1>4

(***************************************************************************)
(* The steps of a publication: the export is written before the manifest   *)
(* names it, and pruning spares what is named.                             *)
(***************************************************************************)
LEMMA PublishStepRenewal ==
  ASSUME Inv, RenewInv, JobStep, UNCHANGED ctl, NEW p \in Processes, RenewalOf(ctl[p]), job.kind = "certificate"
  PROVE  RenewalOf(ctl[p])'
<1> DEFINE g == job.generation
<1>1. /\ StoreInv /\ StoreTypes /\ JobInv /\ PublishInv /\ seen \in Files /\ g \in Generation
      /\ ctl[p].failedRenewal \in Nat /\ g.certificate \in Nat
  BY TaskOf DEF Inv, StoreInv, StoreTypes, Job, Task, Controller, Certificates, Generation
<1>2. /\ job'.kind = "certificate" /\ job'.awaited = job.awaited /\ job'.ok /\ job.ok
      /\ job'.steps = Tail(job.steps) /\ job.steps # <<>> /\ job'.generation = g
      /\ seen' = Seen(Head(job.steps), g)
  BY <1>1, JobAdvances DEF JobStep
<1>3. job.steps \in {PublishSteps, Syncing, Exporting, Resyncing, Renaming, Confirming, Pruning}
  BY <1>1, <1>2 DEF JobInv, Publishing
<1> SUFFICES ASSUME job.awaited, ctl[p].stage \in Loops PROVE IssueOf(ctl[p])'
  BY <1>2 DEF RenewalOf, IssueOf, ExportOf
<1>4. /\ g.certificate > ctl[p].failedRenewal /\ Newest(g)
      /\ job.steps \in {Resyncing, Renaming, Confirming, Pruning} => g \in seen.exports
  BY <1>2 DEF RenewalOf, IssueOf
<1>5. Newest(job.generation)'
  BY <1>1, <1>2, <1>4, SeenNames DEF Newest
<1>6. g.certificate # 0
  BY <1>1, <1>4
<1>7. job.steps = Pruning => Leads(g) /\ g \in Named(seen) /\ seen'.manifest = seen.manifest
  <2> SUFFICES ASSUME job.steps = Pruning PROVE Leads(g) /\ g \in Named(seen) /\ seen'.manifest = seen.manifest
    OBVIOUS
  <2>1. Leads(g)
    BY <1>1 DEF PublishInv, Publishing
  <2>2. seen.manifest \in Manifest
    BY <1>1 DEF Files
  <2>3. Len(seen.manifest) \in 1..2
    <3>1. Len(seen.manifest) \in 0..2 /\ (seen.manifest = <<>> <=> Len(seen.manifest) = 0)
      BY <2>2, RetainCases
    <3>2. seen.manifest # <<>>
      BY <2>1 DEF Leads
    <3> QED BY <3>1, <3>2
  <2>4. g \in Named(seen)
    BY <1>1, <2>1, <2>3, NamedCases DEF Leads
  <2>5. seen'.manifest = seen.manifest
    BY <1>1, <1>2, PublishOrder, SeenFields
  <2> QED BY <2>1, <2>4, <2>5
<1> HIDE DEF g
<1>8. job'.steps \in {Resyncing, Renaming, Confirming, Pruning, <<>>} => g \in seen'.exports
  <2>1. CASE job.steps = PublishSteps
    BY <1>2, <2>1, PublishOrder, StepsDiffer
  <2>2. CASE job.steps = Syncing
    BY <1>2, <2>2, PublishOrder, StepsDiffer
  <2>3. CASE job.steps = Exporting
    BY <1>1, <1>2, <1>6, <2>3, PublishOrder, ExportsKept
  <2>4. CASE job.steps \in {Resyncing, Renaming, Confirming}
    BY <1>1, <1>2, <1>4, <2>4, PublishOrder, ExportsKept, SMTT(30)
  <2>5. CASE job.steps = Pruning
    BY <1>1, <1>2, <1>4, <1>7, <2>5, PublishOrder, ExportsKept, SMTT(30)
  <2> QED BY <1>3, <2>1, <2>2, <2>3, <2>4, <2>5
<1>9. job'.steps = <<>> => Leads(job.generation)'
  <2> SUFFICES ASSUME job'.steps = <<>> PROVE Leads(job.generation)'
    OBVIOUS
  <2>1. job.steps = Pruning
    <3>1. /\ Tail(PublishSteps) # <<>> /\ Tail(Syncing) # <<>> /\ Tail(Exporting) # <<>>
          /\ Tail(Resyncing) # <<>> /\ Tail(Renaming) # <<>> /\ Tail(Confirming) # <<>>
      BY PublishOrder, StepsDiffer
    <3> QED BY <1>2, <1>3, <3>1
  <2> QED BY <1>2, <1>7, <2>1 DEF Leads
<1> QED BY <1>2, <1>4, <1>5, <1>8, <1>9 DEF IssueOf

(***************************************************************************)
(* Every step of the blocking tasks, done or failed, keeps the invariant.  *)
(***************************************************************************)
LEMMA StorageRenewal ==
  ASSUME Inv, RenewInv, Storage
  PROVE  RenewInv'
<1>1. UNCHANGED <<ctl, issued, legacy>> /\ StoreKnown /\ StoreInv /\ StoreTypes /\ JobInv /\ job \in Job
  BY DEF Storage, Inv, StoreInv, StoreTypes, RenewInv
<1>2. CASE JobStep
  <2>1. StoreKnown'
    BY <1>1, <1>2, SteppedKnown
  <2>2. job'.process = job.process /\ job'.kind = job.kind
    BY <1>1, <1>2, JobAdvances
  <2>3. ASSUME NEW p \in Processes, RenewalOf(ctl[p]) PROVE RenewalOf(ctl[p])'
    <3>1. CASE job.kind = "export"
      BY <1>1, <1>2, <2>3, <3>1, ExportStepRenewal
    <3>2. CASE job.kind = "certificate"
      BY <1>1, <1>2, <2>3, <3>2, PublishStepRenewal
    <3>3. CASE job.kind \notin {"export", "certificate"}
      BY <2>2, <3>3 DEF RenewalOf, IssueOf, ExportOf
    <3> QED BY <3>1, <3>2, <3>3
  <2> QED BY <1>1, <2>1, <2>2, <2>3, UnmovedRenewal
<1>3. CASE JobFails
  <2>1. /\ job' = [job EXCEPT !.steps = <<>>, !.ok = FALSE] /\ UNCHANGED <<seen, disk, past>>
    BY <1>3 DEF JobFails, fileVars, historyVars
  <2>2. /\ job'.process = job.process /\ job'.kind = job.kind /\ job'.generation = job.generation
        /\ job'.found = job.found /\ job'.awaited = job.awaited /\ ~job'.ok
    BY <1>1, <2>1 DEF Job
  <2>3. StoreKnown'
    BY <1>1, <2>1, <2>2, StoreStillKnown
  <2>4. ASSUME NEW p \in Processes, RenewalOf(ctl[p]) PROVE RenewalOf(ctl[p])'
    BY <1>1, <2>1, <2>2, <2>4 DEF RenewalOf, IssueOf, ExportOf, Newest, Named
  <2> QED BY <1>1, <2>2, <2>3, <2>4, UnmovedRenewal
<1>4. CASE JobReaped
  <2>1. job' = NoJob /\ UNCHANGED <<seen, disk, past>>
    BY <1>4 DEF JobReaped, fileVars, historyVars
  <2>2. StoreKnown'
    BY <1>1, <2>1, StoreStillKnown
  <2> QED BY <1>1, <2>1, <2>2, UnmovedRenewal
<1> QED BY <1>2, <1>3, <1>4 DEF Storage

(***************************************************************************)
(* Initially nothing was issued.                                           *)
(***************************************************************************)
LEMMA InitRenewal == Init => RenewInv
<1> SUFFICES ASSUME Init PROVE RenewInv
  OBVIOUS
<1>1. /\ seen = NoFiles /\ disk = NoFiles /\ job = NoJob /\ past = {Empty}
      /\ ctl = [p \in Processes |-> Stopped] /\ legacy \in Legacies /\ issued = legacy.certificate
  BY DEF Init, StoreInit
<1>2. issued \in Nat /\ Named(NoFiles) = {} /\ Empty.certificate = 0
  BY <1>1, ProcessesAssumption DEF Generation, Named, NoFiles, Empty
<1>3. NoJob.generation.certificate = 0 /\ NoJob.found = 0 /\ NoJob.process = NoProcess
  BY DEF NoJob, Empty
<1>4. StoreKnown
  BY <1>1, <1>2, <1>3 DEF StoreKnown
<1>5. ASSUME NEW p \in Processes PROVE KnownTo(ctl[p], issued) /\ job.process # p
  BY <1>1, <1>2, <1>3, StoppedKnown, ProcessesAssumption
<1> QED BY <1>4, <1>5 DEF RenewInv

(***************************************************************************)
(* Every action keeps the invariant.                                       *)
(***************************************************************************)
LEMMA NextRenewal ==
  ASSUME Inv, RenewInv, Next
  PROVE  RenewInv'
<1>1. ASSUME NEW p \in Processes, Drive(p) PROVE RenewInv'
  BY <1>1, QuietRenewal, AbandonedRenewal, ReadingRenewal, SubmitRenewal, IssueRenewal,
     ResultRenewal, PublishedRenewal, FailsRenewal DEF Drive
<1>2. ASSUME NEW p \in Processes, WatchdogLook(p) \/ WatchdogAct(p) \/ WatchdogOverdue(p)
      PROVE  RenewInv'
  BY <1>2, QuietRenewal, AbandonedRenewal
<1>3. ASSUME NEW p \in Controlled,
             InstallHandoff(p) \/ RequestOwnership(p) \/ OwnershipRequested(p)
               \/ ChallengeRouteLost(p) \/ RouteRevoked(p) \/ ExportSnapshot(p)
      PROVE  RenewInv'
  BY <1>3, HandoffRenewal, QuietRenewal, ExportSnapshotRenewal, ProcessesAssumption
<1> QED BY <1>1, <1>2, <1>3, CrashRenewal, StorageRenewal, EnvironmentRenewal, PowerRenewal DEF Next

(***************************************************************************)
(* Every step does.                                                        *)
(***************************************************************************)
LEMMA RenewKept == Inv /\ RenewInv /\ [Next]_vars => RenewInv'
<1> SUFFICES ASSUME Inv, RenewInv, UNCHANGED vars PROVE RenewInv'
  BY NextRenewal
<1>1. UNCHANGED <<seen, disk, past, legacy, issued, job, ctl>>
  BY DEF vars, storeVars, fileVars, historyVars
<1>2. StoreKnown'
  BY <1>1, StoreStillKnown DEF RenewInv
<1>3. \A p \in Processes : RenewalOf(ctl[p]) => RenewalOf(ctl[p])'
  BY <1>1 DEF RenewalOf, IssueOf, ExportOf, Newest, Leads, Named
<1> QED BY <1>1, <1>2, <1>3, UnmovedRenewal

(***************************************************************************)
(* The recovery deadline runs, or the process does not.                    *)
(***************************************************************************)
Armed(c) == c.recovery \/ c.stage = "down"

(***************************************************************************)
(* An activation that ends arms the deadline (drive).                      *)
(***************************************************************************)
LEMMA EndedArmed ==
  ASSUME NEW c \in Controller
  PROVE  Ended(c).recovery /\ LoopError(c).recovery
<1>1. Ended(c).recovery
  BY DEF Ended, Controller
<1>2. RenewalFailed(c).recovery
  BY <1>1, EndedCarries DEF RenewalFailed, Controller
<1> QED BY <1>1, <1>2 DEF LoopError

(***************************************************************************)
(* No step of the task but the two that take an exported certificate       *)
(* disarms a deadline.                                                     *)
(***************************************************************************)
LEMMA TaskArmed ==
  ASSUME Inv, NEW p \in Processes, Drive(p), ~Confirmed(p), ~Renewed(p), NEW q \in Processes,
         ctl[q].recovery, ctl[q].stage # "down"
  PROVE  Armed(ctl'[q])
<1>1. ctl \in [Processes -> Controller] /\ ctl[p] \in Controller
  BY TaskOf DEF Task
<1>2. CASE q # p
  <2>1. ctl'[q] = ctl[q]
    BY <1>1, <1>2 DEF Drive, StartProcess, ReadManifest, ReadExport, AwaitRequest, Notified, TryAcquire,
       OpenStore, StoreOpened, ImportAccount, ImportCertificate, Imported, LoadSnapshot, SnapshotLoaded,
       OfferProof, ObserveRoute, StartAcme, CheckRoute, LoopNotified, AcmeCached, AcmeAccount, AcmeIssue,
       AcmeFails, AcmeStored, AcmePublished, Submit, Goto, Proceed
  <2> QED BY <2>1 DEF Armed
<1>3. CASE q = p
  <2>1. ASSUME NEW t, Goto(p, t) PROVE ctl'[p].recovery
    BY <1>1, <1>3, <2>1 DEF Goto, Controller
  <2>2. ASSUME NEW ok \in BOOLEAN, NEW t, Proceed(p, ok, t) PROVE ctl'[p].recovery
    <3>1. CASE ok
      BY <1>1, <1>3, <2>2, <3>1 DEF Proceed, Controller
    <3>2. CASE ~ok
      BY <1>1, <2>2, <3>2, EndedArmed DEF Proceed
    <3> QED BY <3>1, <3>2
  <2>3. job.ok \in BOOLEAN
    BY DEF Inv, StoreInv, StoreTypes, Job
  <2>4. CASE StartProcess(p)
    BY <1>3, <2>4 DEF StartProcess
  <2>5. CASE ReadManifest(p) \/ ReadExport(p)
    <3>1. ASSUME NEW x, ctl' = [ctl EXCEPT ![p].reader = x] PROVE ctl'[p].recovery
      BY <1>1, <1>3, <3>1 DEF Controller
    <3>2. ASSUME NEW x, ctl' = [ctl EXCEPT ![p].stage = "check", ![p].reader = x] PROVE ctl'[p].recovery
      BY <1>1, <1>3, <3>2 DEF Controller
    <3>3. ASSUME NEW s, NEW x, ctl' = [ctl EXCEPT ![p].stage = "check", ![p].snap = s,
                                                  ![p].ready = TRUE, ![p].reader = x]
          PROVE  ctl'[p].recovery
      BY <1>1, <1>3, <3>3 DEF Controller
    <3>4. ASSUME ReadManifest(p) PROVE ctl'[p].recovery
      BY <3>1, <3>2, <3>4 DEF ReadManifest
    <3>5. ASSUME ReadExport(p) PROVE ctl'[p].recovery
      <4>1. CASE ctl' = [ctl EXCEPT ![p].reader.left = Tail(@)]
        <5>1. ctl' = [ctl EXCEPT ![p].reader = [ctl[p].reader EXCEPT !.left = Tail(ctl[p].reader.left)]]
          BY <4>1
        <5> QED BY <3>1, <5>1
      <4> QED BY <3>3, <3>5, <4>1 DEF ReadExport
    <3>6. ctl'[p].recovery
      BY <2>5, <3>4, <3>5
    <3> QED BY <1>3, <3>6 DEF Armed
  <2>6. CASE AwaitRequest(p) \/ OpenStore(p) \/ ImportAccount(p) \/ ImportCertificate(p)
              \/ LoadSnapshot(p) \/ AcmeCached(p) \/ AcmeAccount(p) \/ AcmeIssue(p) \/ AcmePublished(p)
    <3>1. \E t : Goto(p, t)
      BY <2>6 DEF AwaitRequest, OpenStore, ImportAccount, ImportCertificate, LoadSnapshot, AcmeCached,
                  AcmeAccount, AcmeIssue, AcmePublished, Submit
    <3> QED BY <1>3, <2>1, <3>1 DEF Armed
  <2>7. CASE Notified(p)
    BY <1>1, <1>3, <2>7 DEF Notified, Controller, Armed
  <2>8. CASE TryAcquire(p)
    <3>1. CASE Goto(p, "open")
      BY <1>3, <2>1, <3>1 DEF Armed
    <3>2. CASE ctl' = [ctl EXCEPT ![p] = Ended(@)]
      BY <1>1, <1>3, <3>2, EndedArmed DEF Armed
    <3> QED BY <2>8, <3>1, <3>2 DEF TryAcquire
  <2>9. CASE StoreOpened(p) \/ Imported(p)
    BY <1>3, <2>2, <2>3, <2>9 DEF StoreOpened, Imported, Armed
  <2>10. CASE SnapshotLoaded(p)
    <3>1. CASE CanInstall(p, Exported)
      <4>1. ctl' = [ctl EXCEPT ![p] = [Installed(@, Exported) EXCEPT !.stage = "proving"]]
        BY <2>10, <3>1 DEF SnapshotLoaded
      <4> QED BY <1>1, <1>3, <4>1 DEF Installed, Controller, Armed
    <3>2. CASE ~CanInstall(p, Exported)
      <4>1. Proceed(p, Exported = 0, "proving") /\ (Exported = 0) \in BOOLEAN
        BY <2>10, <3>2 DEF SnapshotLoaded
      <4> QED BY <1>3, <2>2, <4>1 DEF Armed
    <3> QED BY <3>1, <3>2
  <2>11. CASE OfferProof(p) \/ StartAcme(p)
    <3>1. OfferProof(p) => ctl'[p].recovery
      BY <1>1, <1>3 DEF OfferProof, Controller
    <3>2. StartAcme(p) => ctl'[p].recovery
      BY <1>1, <1>3 DEF StartAcme, Controller
    <3> QED BY <1>3, <2>11, <3>1, <3>2 DEF Armed
  <2>12. CASE ObserveRoute(p)
    BY <1>3, <2>1, <2>2, <2>12 DEF ObserveRoute, Armed
  <2>13. CASE CheckRoute(p)
    BY <1>3, <2>2, <2>13 DEF CheckRoute, Armed
  <2>14. CASE LoopNotified(p)
    <3>1. CASE ctl[p].routeLost
      <4>1. ctl' = [ctl EXCEPT ![p] = [Ended(@) EXCEPT !.permit = FALSE]]
        BY <2>14, <3>1 DEF LoopNotified
      <4>2. Ended(ctl[p]) \in Controller /\ Ended(ctl[p]).recovery
        BY <1>1, EndedCarries, EndedArmed
      <4> QED BY <1>1, <1>3, <4>1, <4>2 DEF Controller, Armed
    <3>2. CASE ~ctl[p].routeLost
      <4>1. \E t : ctl' = [ctl EXCEPT ![p] = [@ EXCEPT !.permit = FALSE, !.stage = t]]
        BY <2>14, <3>2 DEF LoopNotified
      <4> QED BY <1>1, <1>3, <4>1 DEF Controller, Armed
    <3> QED BY <3>1, <3>2
  <2>15. CASE AcmeFails(p)
    BY <1>1, <1>3, <2>15, EndedArmed DEF AcmeFails, Armed
  <2>16. CASE AcmeStored(p)
    BY <1>1, <1>3, <2>16, EndedArmed DEF AcmeStored, Armed
  <2> QED BY <1>3, <2>4, <2>5, <2>6, <2>7, <2>8, <2>9, <2>10, <2>11, <2>12, <2>13, <2>14, <2>15, <2>16 DEF Drive
<1> QED BY <1>2, <1>3

(***************************************************************************)
(* Neither does the watchdog, a call of the embedding process or a crash.  *)
(***************************************************************************)
LEMMA OthersArmed ==
  ASSUME Inv, NEW p \in Processes, NEW q \in Processes, ctl[q].recovery,
         \/ WatchdogLook(p) \/ WatchdogAct(p) \/ WatchdogOverdue(p) \/ Crash(p)
         \/ InstallHandoff(p) \/ RequestOwnership(p) \/ OwnershipRequested(p)
         \/ ChallengeRouteLost(p) \/ RouteRevoked(p) \/ ExportSnapshot(p)
  PROVE  Armed(ctl'[q])
<1>1. ctl \in [Processes -> Controller] /\ ctl[p] \in Controller
  BY TaskOf DEF Task
<1>2. CASE q # p
  <2>1. ctl'[q] = ctl[q]
    BY <1>1, <1>2 DEF WatchdogLook, WatchdogAct, WatchdogOverdue, Maintenance, Crash, InstallHandoff,
       RequestOwnership, OwnershipRequested, ChallengeRouteLost, RouteRevoked, ExportSnapshot
  <2> QED BY <2>1 DEF Armed
<1>3. CASE q = p
  <2>1. CASE WatchdogLook(p) \/ WatchdogAct(p) \/ WatchdogOverdue(p)
    <3>1. WatchdogLook(p) => ctl'[p].recovery
      BY <1>1, <1>3 DEF WatchdogLook, Controller
    <3>2. WatchdogAct(p) => ctl'[p].recovery
      <4>1. ASSUME Maintenance(p) PROVE ctl'[p].recovery
        BY <1>1, <1>3, <4>1 DEF Maintenance, Controller
      <4>2. ASSUME NEW r, ctl' = [ctl EXCEPT ![p].tick = "none", ![p].ready = r] PROVE ctl'[p].recovery
        BY <1>1, <1>3, <4>2 DEF Controller
      <4> QED BY <4>1, <4>2 DEF WatchdogAct
    <3>3. WatchdogOverdue(p) => ctl'[p].recovery
      BY <1>1, <1>3 DEF WatchdogOverdue, Maintenance, Controller
    <3> QED BY <1>3, <2>1, <3>1, <3>2, <3>3 DEF Armed
  <2>2. CASE Crash(p)
    BY <1>1, <1>3, <2>2 DEF Crash, Stopped, Armed
  <2>3. CASE InstallHandoff(p)
    <3>1. PICK g \in past : ctl' = [ctl EXCEPT ![p] = Installed(@, g.certificate)]
      BY <2>3 DEF InstallHandoff
    <3>2. ctl'[p].recovery
      BY <1>1, <1>3, <3>1 DEF Installed, Controller
    <3> QED BY <1>3, <3>2 DEF Armed
  <2>4. CASE RequestOwnership(p) \/ OwnershipRequested(p)
    <3>1. RequestOwnership(p) => ctl'[p].recovery
      BY <1>1, <1>3 DEF RequestOwnership, Controller
    <3>2. OwnershipRequested(p) => ctl'[p].recovery
      BY <1>1, <1>3 DEF OwnershipRequested, NotifyOne, Controller
    <3> QED BY <1>3, <2>4, <3>1, <3>2 DEF Armed
  <2>5. CASE ChallengeRouteLost(p) \/ RouteRevoked(p) \/ ExportSnapshot(p)
    <3>1. ChallengeRouteLost(p) => ctl'[p].recovery
      BY <1>1, <1>3 DEF ChallengeRouteLost, Controller
    <3>2. RouteRevoked(p) => ctl'[p].recovery
      BY <1>1, <1>3 DEF RouteRevoked, NotifyOne, Controller
    <3>3. ExportSnapshot(p) => ctl'[p].recovery
      BY <1>1, <1>3 DEF ExportSnapshot, Controller
    <3> QED BY <1>3, <2>5, <3>1, <3>2, <3>3 DEF Armed
  <2> QED BY <2>1, <2>2, <2>3, <2>4, <2>5
<1> QED BY <1>2, <1>3

(***************************************************************************)
(* Where a confirmed or renewed certificate disarms the deadline, it is    *)
(* not the one whose renewal failed.                                       *)
(***************************************************************************)
LEMMA DisarmedByAnother ==
  ASSUME Inv, RenewInv, NEW p \in Processes, Confirmed(p) \/ Renewed(p), NEW q \in Processes,
         ctl[q].failedRenewal # 0, ctl[q].recovery, ~ctl'[q].recovery
  PROVE  ctl'[q].snap # ctl[q].failedRenewal
<1>1. /\ ctl \in [Processes -> Controller] /\ ctl[p] \in Controller /\ ctl[p].failedRenewal \in Nat
      /\ AwaitOf(job.kind, job.awaited, ctl[p].stage) \/ job.process # p
  BY TaskOf DEF Task, Controller, Certificates
<1>2. q = p
  <2>1. q # p => ctl'[q] = ctl[q]
    BY <1>1 DEF Confirmed, Renewed
  <2> QED BY <2>1
<1>3. TakeResult(p) /\ job.process = p /\ job.awaited /\ job.steps = <<>> /\ Exported \in Certificates
  BY ResultOf DEF Confirmed, Renewed, TakeResult, JobReturned
<1>4. ctl[p].stage \in Announcing => job.kind = "export"
  BY <1>1, <1>3 DEF AwaitOf, Announcing, Loops
<1>5. ctl[p].stage \in Announcing => Exported = 0 \/ Exported > ctl[p].failedRenewal
  <2>1. RenewalOf(ctl[p])
    BY <1>3 DEF RenewInv
  <2> QED BY <1>3, <1>4, <2>1 DEF RenewalOf, ExportOf, Exported
<1>6. CanInstall(p, Exported) => Exported > 0 /\ Exported \in Nat
  BY <1>3 DEF CanInstall, Fresh, Certificates
<1>7. CASE Renewed(p)
  <2>1. ctl[p].stage \in Announcing
    BY <1>7 DEF Renewed, At, Announcing
  <2>2. CASE CanInstall(p, Exported)
    <3>1. ctl'[p].snap = Exported
      BY <1>1, <1>7, <2>2 DEF Renewed, Installed, Controller
    <3> QED BY <1>1, <1>2, <1>5, <1>6, <2>1, <2>2, <3>1
  <2>3. CASE ~CanInstall(p, Exported)
    BY <1>1, <1>2, <1>7, <2>3, EndedArmed DEF Renewed
  <2> QED BY <2>2, <2>3
<1>8. CASE Confirmed(p)
  <2>1. PICK event \in {"cached", "stored"} :
          /\ At(p, IF event = "cached" THEN "confirming_cached" ELSE "confirming_new")
          /\ LET r == IF Exported # 0 THEN Recovered(ctl[p], Exported, event) ELSE ctl[p]
             IN  ctl' = [ctl EXCEPT ![p] =
                           IF CanInstall(p, Exported)
                           THEN [Installed(r, Exported) EXCEPT !.stage = "active_check"]
                           ELSE Ended(r)]
    BY <1>8 DEF Confirmed
  <2> DEFINE r == IF Exported # 0 THEN Recovered(ctl[p], Exported, event) ELSE ctl[p]
  <2>2. ctl' = [ctl EXCEPT ![p] = IF CanInstall(p, Exported)
                                  THEN [Installed(r, Exported) EXCEPT !.stage = "active_check"]
                                  ELSE Ended(r)]
    BY <2>1
  <2>3. r \in Controller
    BY <1>1, RecoveredSound
  <2>4. event = "stored" \/ ctl[p].failedRenewal # Exported \/ r = ctl[p]
    BY DEF Recovered
  <2> HIDE DEF r
  <2>5. CASE ~CanInstall(p, Exported)
    BY <1>1, <1>2, <2>2, <2>3, <2>5, EndedArmed
  <2>6. CASE CanInstall(p, Exported)
    <3>1. ctl'[p].snap = Exported /\ ctl'[p].recovery = r.recovery
      BY <1>1, <2>2, <2>3, <2>6 DEF Installed, Controller
    <3>2. CASE event = "stored"
      <4>1. ctl[p].stage \in Announcing
        BY <2>1, <3>2 DEF At, Announcing
      <4> QED BY <1>1, <1>2, <1>5, <1>6, <2>6, <3>1, <4>1
    <3>3. CASE ctl[p].failedRenewal # Exported
      BY <1>2, <3>1, <3>3
    <3>4. CASE r = ctl[p]
      BY <1>2, <3>1, <3>4
    <3> QED BY <2>4, <3>2, <3>3, <3>4
  <2> QED BY <2>5, <2>6
<1> QED BY <1>7, <1>8

(***************************************************************************)
(* After a failed renewal only another certificate disarms the recovery    *)
(* deadline (activate, drive_active), in every process, whatever crash,    *)
(* power loss, failed step of a publication or reopening of the same files *)
(* comes between: the running ACME state's certificates are told apart     *)
(* from the one it already served.                                         *)
(***************************************************************************)
THEOREM RenewalRemembered == Spec => FailedRenewalKept
<1> DEFINE Kept == \A p \in Processes :
                     /\ ctl[p].failedRenewal # 0 /\ ctl[p].recovery
                     /\ ~ctl'[p].recovery /\ ctl'[p].stage # "down"
                     => ctl'[p].snap # ctl[p].failedRenewal
<1>1. Inv /\ RenewInv /\ [Next]_vars => [Kept]_vars
  <2> SUFFICES ASSUME Inv, RenewInv, Next, NEW q \in Processes,
                      ctl[q].failedRenewal # 0, ctl[q].recovery,
                      ~ctl'[q].recovery, ctl'[q].stage # "down"
               PROVE  ctl'[q].snap # ctl[q].failedRenewal
    BY DEF Kept
  <2>1. ctl[q].stage # "down" /\ ~Armed(ctl'[q])
    BY DEF RenewInv, KnownTo, Armed
  <2>2. ASSUME NEW p \in Processes, Drive(p) PROVE ctl'[q].snap # ctl[q].failedRenewal
    BY <2>1, <2>2, TaskArmed, DisarmedByAnother
  <2>3. ASSUME NEW p \in Processes,
               \/ WatchdogLook(p) \/ WatchdogAct(p) \/ WatchdogOverdue(p) \/ Crash(p)
               \/ InstallHandoff(p) \/ RequestOwnership(p) \/ OwnershipRequested(p)
               \/ ChallengeRouteLost(p) \/ RouteRevoked(p) \/ ExportSnapshot(p)
        PROVE  FALSE
    BY <2>1, <2>3, OthersArmed
  <2>4. CASE Storage \/ FileRots \/ PassTime
    BY <2>4 DEF Storage, FileRots, PassTime
  <2>5. CASE PowerLoss
    BY <2>5 DEF PowerLoss, Stopped
  <2> QED BY <2>2, <2>3, <2>4, <2>5, ProcessesAssumption DEF Next
<1>2. Init => RenewInv
  BY InitRenewal
<1>3. Inv /\ RenewInv /\ [Next]_vars => RenewInv'
  BY RenewKept
<1> QED BY <1>1, <1>2, <1>3, InvAlways, PTL DEF Spec, FailedRenewalKept

=============================================================================
