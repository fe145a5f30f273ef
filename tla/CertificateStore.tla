---------------------------- MODULE CertificateStore ----------------------------
(***************************************************************************)
(* The committed Server certificate state (src/src/server_certificate/     *)
(* store.rs): generation files, their serving exports and the manifest     *)
(* that names the current and the prior generation.  `seen` is what        *)
(* processes read, `disk` what a power loss leaves for certain.            *)
(*                                                                         *)
(* The owner's storage work runs in one blocking job at a time, behind the *)
(* owner's `writing` mutex.  A job is the sequence of its remaining steps; *)
(* any step may fail, and the process or the machine may stop between two. *)
(* A file is named after the digest of its content, so a generation stands *)
(* for its own name.                                                       *)
(***************************************************************************)
EXTENDS Naturals, Sequences, FiniteSets

CONSTANTS
  NoProcess,
  MaxCertificate   \* certificates that the CA issues, in order

ASSUME CertificateAssumption == MaxCertificate \in Nat \ {0}

VARIABLES seen, disk, job, failed, acked, doubt, past, corrupted, clock

fileVars == <<seen, disk>>
historyVars == <<acked, doubt, past, corrupted>>
storeVars == <<fileVars, job, failed, historyVars>>

\* The account key and the certificate, 0 when there is none.
Generation == [account : 0..1, certificate : 0..MaxCertificate]
Empty == [account |-> 0, certificate |-> 0]

\* The manifest names at most two generations, the current one first.
NoFiles == [manifest |-> <<>>, blobs |-> {}, exports |-> {}]
Named(files) == {files.manifest[i] : i \in DOMAIN files.manifest}

\* The entries of a manifest that are in `kept`, in their order.
RetainAt(manifest, i, kept) ==
  IF i \in DOMAIN manifest /\ manifest[i] \in kept THEN <<manifest[i]>> ELSE <<>>
Retain(manifest, kept) == RetainAt(manifest, 1, kept) \o RetainAt(manifest, 2, kept)

\* A certificate has the lifetime that validation asks for, or it has more
\* than the safety margin left.
Fresh(c) == c > 0 /\ clock < c
BeyondMargin(c) == c > 0 /\ clock =< c

(***************************************************************************)
(* Store::load: the first generation of the manifest that can be read.     *)
(***************************************************************************)
Readable(files) == Retain(files.manifest, files.blobs)
CanLoad(files) == files.manifest = <<>> \/ Readable(files) # <<>>
Load(files) == IF files.manifest = <<>> THEN Empty ELSE Head(Readable(files))

-----------------------------------------------------------------------------
\* The steps of a job on the files.

NoJob ==
  [process |-> NoProcess, kind |-> "none", steps |-> <<>>, generation |-> Empty, ok |-> TRUE,
   awaited |-> FALSE, found |-> 0]
Publishing == {"account", "certificate"}

\* Removing the files that the manifest does not name, and syncing that, is one
\* step: a power loss that brings some of them back changes nothing.  The
\* candidate files never count, and their own sync precedes their rename.
OpenSteps == <<"recover", "retain", "sync_committed", "prune">>

\* Mutant: the manifest is renamed before the new generation's directory entry
\* is synced.
PublishStepsManifestFirst ==
  <<"blob", "export", "manifest", "sync_generations", "sync_manifest", "prune">>

\* Mutant: the renamed manifest is not synced.
PublishStepsUnsynced ==
  <<"blob", "sync_generations", "export", "sync_generations", "manifest", "prune">>

PublishSteps ==
  <<"blob", "sync_generations", "export", "sync_generations", "manifest", "sync_manifest",
    "prune">>
ExportSteps == <<"sync_committed", "read">>

\* Store::publish: the old generation that can be read stays behind the new one.
PublishedManifest(g) ==
  LET previous == Retain(seen.manifest, seen.blobs \ {g})
  IN  IF previous = <<>> THEN <<g>> ELSE <<g, Head(previous)>>

Pruned(files) ==
  [files EXCEPT !.blobs = @ \cap Named(seen), !.exports = @ \cap Named(seen)]

Seen(step, g) ==
  CASE step = "recover" ->
         [seen EXCEPT !.exports = @ \cup {r \in Named(seen) \cap seen.blobs : Fresh(r.certificate)}]
    [] step = "retain" -> [seen EXCEPT !.manifest = Readable(seen)]
    [] step = "prune" -> Pruned(seen)
    [] step = "blob" -> [Pruned(seen) EXCEPT !.blobs = @ \cup {g}]
    [] step = "export" ->
         IF g.certificate = 0 THEN seen ELSE [seen EXCEPT !.exports = @ \cup {g}]
    [] step = "manifest" -> [seen EXCEPT !.manifest = PublishedManifest(g)]
    [] OTHER -> seen

Disk(step) ==
  CASE step \in {"recover", "sync_generations"} ->
         [disk EXCEPT !.blobs = Seen(step, Empty).blobs, !.exports = Seen(step, Empty).exports]
    [] step \in {"prune", "blob"} -> Pruned(disk)
    [] step = "sync_committed" -> seen
    [] step = "sync_manifest" -> [disk EXCEPT !.manifest = seen.manifest]
    [] OTHER -> disk

\* The exports that CertificateStore::read_snapshot accepts, and the one that the
\* owner's own read returns; 0 when it finds none.
Exports(files) ==
  Retain(files.manifest, {g \in files.exports : Fresh(g.certificate)})
ReadSnapshot == IF Exports(seen) = <<>> THEN 0 ELSE Head(Exports(seen)).certificate

\* What the store owes its callers: `acked` once a job has succeeded; while a
\* publication is under way or was cut short, `doubt` as well.
Settle(kind, g) ==
  CASE kind \in Publishing -> acked' = g /\ doubt' = {} /\ past' = past \cup {g}
    [] kind = "open" ->
         /\ acked' = Load(seen) /\ doubt' = {} /\ past' = past \cup {Load(seen)}
    [] OTHER -> UNCHANGED <<acked, doubt, past>>

StartJob(p, kind, steps, g, awaited) ==
  /\ job = NoJob
  /\ job' = [process |-> p, kind |-> kind, steps |-> steps, generation |-> g, ok |-> TRUE,
             awaited |-> awaited, found |-> 0]
  /\ doubt' = IF kind \in Publishing THEN {g} ELSE doubt
  /\ failed' = (failed /\ kind # "open")
  /\ UNCHANGED <<fileVars, acked, past, corrupted>>

JobStep ==
  /\ job.steps # <<>>
  /\ LET step == Head(job.steps) IN
       /\ step = "recover" => CanLoad(seen)
       /\ seen' = Seen(step, job.generation)
       /\ disk' = Disk(step)
  /\ job' = [job EXCEPT !.steps = Tail(@),
                        !.found = IF Head(job.steps) = "read" THEN ReadSnapshot ELSE 0]
  /\ IF Tail(job.steps) = <<>> THEN Settle(job.kind, job.generation)
     ELSE UNCHANGED <<acked, doubt, past>>
  /\ UNCHANGED <<failed, corrupted>>

\* An I/O error, or state that cannot be recovered.
JobFails ==
  /\ job.steps # <<>>
  /\ job' = [job EXCEPT !.steps = <<>>, !.ok = FALSE]
  /\ failed' = (failed \/ job.kind \in Publishing)
  /\ UNCHANGED <<fileVars, historyVars>>

\* A job whose caller has gone away ends by itself.
JobReaped ==
  /\ job # NoJob /\ job.steps = <<>> /\ ~job.awaited
  /\ job' = NoJob
  /\ UNCHANGED <<fileVars, failed, historyVars>>

(***************************************************************************)
(* A power loss keeps what is on disk and, of what is not yet synced, any  *)
(* part.                                                                   *)
(***************************************************************************)
Survives(visible, durable) ==
  {s \in SUBSET (visible \cup durable) : visible \cap durable \subseteq s}

LosePower ==
  \E m \in {seen.manifest, disk.manifest},
     b \in Survives(seen.blobs, disk.blobs), e \in Survives(seen.exports, disk.exports) :
       /\ seen' = [manifest |-> m, blobs |-> b, exports |-> e]
       /\ disk' = seen'

\* A generation file rots while no one writes; the digest tells.  The current
\* one does so only when there is a prior one to fall back to.
CorruptBlob(g) ==
  /\ job = NoJob /\ doubt = {}
  /\ g \in Named(seen) \cap seen.blobs
  /\ Len(Readable(seen)) = 2
  /\ corrupted' = TRUE
  /\ seen' = [seen EXCEPT !.blobs = @ \ {g}]
  /\ disk' = [disk EXCEPT !.blobs = @ \ {g}]
  /\ acked' = Load(seen')
  /\ UNCHANGED <<job, failed, doubt, past>>

StoreTypeOK ==
  /\ \A files \in {seen, disk} :
       /\ Len(files.manifest) =< 2 /\ Named(files) \subseteq Generation
       /\ files.blobs \subseteq Generation /\ files.exports \subseteq Generation
  /\ job.kind \in {"none", "open", "export"} \cup Publishing
  /\ failed \in BOOLEAN
  /\ acked \in Generation /\ doubt \in SUBSET Generation /\ past \in SUBSET Generation

StoreInit ==
  /\ seen = NoFiles /\ disk = NoFiles
  /\ job = NoJob /\ failed = FALSE
  /\ acked = Empty /\ doubt = {} /\ past = {Empty}
  /\ corrupted = FALSE

-----------------------------------------------------------------------------
\* The register that the files implement.
Register ==
  INSTANCE CertificateRegister WITH value <- IF CanLoad(seen) THEN Load(seen) ELSE Empty
===============================================================================
