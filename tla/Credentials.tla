------------------------------ MODULE Credentials ------------------------------
(***************************************************************************)
(* The commands that write key material: `client identity init|rotate`,    *)
(* `server cert init|renew|rotate-ca` and `client public-cert              *)
(* init|renew|rotate-ca`.  Each writes several files one after the other,  *)
(* and may be killed between any two; a new file is created first and      *)
(* filled second, a replaced one changes at once (by rename).              *)
(*                                                                         *)
(* A file holds a key pair's number and, for a leaf certificate, its       *)
(* issuer's; Empty is a file created and not filled.  Files are named by   *)
(* their part and, for a Public hostname's leaf, the hostname.  A command  *)
(* for several hostnames is a series of these; only inits overlap, an      *)
(* operator renews or rotates alone.                                       *)
(***************************************************************************)
EXTENDS Naturals, Sequences, FiniteSets, SequencesExt

CONSTANTS
  NoFile,        \* no such file
  Hostnames,     \* the terminating Public hostnames
  Commands,      \* processes that may run a command at once
  MaxCommands    \* bound: commands in a behaviour

ASSUME MaterialAssumption ==
  /\ IsFiniteSet(Hostnames) /\ "" \notin Hostnames
  /\ NoFile \notin [key : Nat, issuer : Nat]

VARIABLES
  kind,     \* the directory: "identity", "server" or "public"
  files,    \* content of each file
  running,  \* each command: [op, todo, opened, sound], or its outcome
  keys,     \* key pairs generated so far
  begun,    \* commands started so far
  torn      \* history: a command was killed, or a replacement failed, and nothing was rotated since

materialVars == <<kind, files, running, keys, begun, torn>>

Empty == [key |-> 0, issuer |-> 0]
Key(k) == [key |-> k, issuer |-> 0]
Leaf(k, c) == [key |-> k, issuer |-> c]
File(part) == <<part, "">>

Files == [identity |-> {File("key"), File("crt"), File("id")},
          server   |-> {File("crt"), File("key"), File("ca"), File("ca-key"), File("hostname"), File("dir")},
          public   |-> {File("ca"), File("ca-key")} \cup ({"crt", "key", "dir"} \X Hostnames)]

Exists(f) == files[f] # NoFile
Parses(f) == Exists(f) /\ files[f] # Empty
Fresh(f, content) == [file |-> f, content |-> content, new |-> TRUE]
Replace(f, content) == [file |-> f, content |-> content, new |-> FALSE]
Busy(c) == running[c].todo # <<>>

-----------------------------------------------------------------------------
\* What the readers of a directory accept

\* A certificate matches its key.
Matches(crt, key) == Parses(crt) /\ Parses(key) /\ files[crt].key = files[key].key
\* load_client_identity_material
IdentityLoads == Matches(File("crt"), File("key")) /\ Matches(File("id"), File("key"))
\* validate_server_tls_material: the leaf matches its key and chains to the CA.
ServerLoads ==
  /\ Matches(File("crt"), File("key")) /\ Parses(File("ca"))
  /\ files[File("crt")].issuer = files[File("ca")].key
\* load_manual_termination_tls_configs; whether a leaf chains is its Visitors' business.
PublicLoads(h) == Matches(<<"crt", h>>, <<"key", h>>)

\* The private key in state/ is the published CA's.
AuthorityWhole ==
  Parses(File("ca")) /\ Parses(File("ca-key")) /\ files[File("ca")].key = files[File("ca-key")].key
Chains(h) == PublicLoads(h) /\ AuthorityWhole /\ files[<<"crt", h>>].issuer = files[File("ca")].key

-----------------------------------------------------------------------------
\* Commands: what each writes, and what it looks at first

Begin(c, op, todo, spent, sound) ==
  /\ running' = [running EXCEPT ![c] = [op |-> op, todo |-> todo, opened |-> FALSE, sound |-> sound, end |-> "none"]]
  /\ keys' = keys + spent /\ begun' = begun + 1
  /\ UNCHANGED <<kind, files, torn>>
\* A command that ends at its first look, well or badly
Answer(c, op, end) ==
  /\ running' = [running EXCEPT ![c] = [op |-> op, todo |-> <<>>, opened |-> FALSE, sound |-> FALSE, end |-> end]]
  /\ begun' = begun + 1 /\ UNCHANGED <<kind, files, keys, torn>>
Idle(c, over, op) ==
  /\ kind = over /\ ~Busy(c) /\ begun < MaxCommands
  /\ \A d \in Commands : Busy(d) => op = "init" /\ running[d].op = "init"

\* The files of an identity in the order they are written
IdentityFiles(k) == <<<<File("key"), Key(k)>>, <<File("crt"), Leaf(k, k)>>, <<File("id"), Key(k)>>>>
IdentityInit(c) ==
  /\ Idle(c, "identity", "init")
  /\ IF IdentityLoads THEN Answer(c, "init", "ok")
     ELSE IF \E f \in Files.identity : Exists(f) THEN Answer(c, "init", "failed")
     ELSE Begin(c, "init", [i \in 1..3 |-> Fresh(IdentityFiles(keys + 1)[i][1], IdentityFiles(keys + 1)[i][2])], 1, TRUE)
IdentityRotate(c) ==
  /\ Idle(c, "identity", "rotate")
  /\ IF ~IdentityLoads THEN Answer(c, "rotate", "failed")
     ELSE Begin(c, "rotate", [i \in 1..3 |-> Replace(IdentityFiles(keys + 1)[i][1], IdentityFiles(keys + 1)[i][2])], 1, TRUE)

\* A new CA, number k, and its leaf, number k + 1
ServerFiles(k) ==
  <<<<File("crt"), Leaf(k + 1, k)>>, <<File("key"), Key(k + 1)>>, <<File("ca"), Key(k)>>,
    <<File("ca-key"), Key(k)>>, <<File("hostname"), Key(1)>>>>
\* inspect_manual_server_certificate only reads what is there.
ServerInspects == \A part \in {"crt", "key", "ca", "hostname"} : Exists(File(part)) /\ Parses(File("ca-key"))
ServerCertInit(c) ==
  /\ Idle(c, "server", "init")
  /\ IF ServerInspects
     THEN Answer(c, "init", IF Parses(File("hostname")) /\ Parses(File("crt")) THEN "ok" ELSE "failed")
     ELSE IF \E f \in Files.server \ {File("dir")} : Exists(f) THEN Answer(c, "init", "failed")
     ELSE Begin(c, "init", <<Fresh(File("dir"), Key(1))>>
                           \o [i \in 1..5 |-> Fresh(ServerFiles(keys + 1)[i][1], ServerFiles(keys + 1)[i][2])], 2, TRUE)
\* The leaf is issued by the key in state/ for the stored hostname, be it empty.
ServerCertRenew(c) ==
  /\ Idle(c, "server", "renew")
  /\ IF ~(Exists(File("hostname")) /\ Parses(File("ca-key"))) THEN Answer(c, "renew", "failed")
     ELSE Begin(c, "renew", <<Replace(File("crt"), Leaf(keys + 1, IF Parses(File("hostname"))
                                                                 THEN files[File("ca-key")].key ELSE 0)),
                              Replace(File("key"), Key(keys + 1))>>,
                1, AuthorityWhole /\ Parses(File("hostname")))
ServerCertRotate(c) ==
  /\ Idle(c, "server", "rotate")
  /\ Begin(c, "rotate", [i \in 1..5 |-> Replace(ServerFiles(keys + 1)[i][1], ServerFiles(keys + 1)[i][2])], 2, TRUE)

LeafFiles(h, k, ca) == <<<<<<"crt", h>>, Leaf(k, ca)>>, <<<<"key", h>>, Key(k)>>>>
AuthorityFiles(k) == <<<<File("ca"), Key(k)>>, <<File("ca-key"), Key(k)>>>>
News(list) == [i \in DOMAIN list |-> Fresh(list[i][1], list[i][2])]
Replaces(list) == [i \in DOMAIN list |-> Replace(list[i][1], list[i][2])]
\* inspect_client_public_cert_init_state: what exists, whatever it holds
PublicComplete(h) == Exists(<<"crt", h>>) /\ Exists(<<"key", h>>)
PublicUntouched(h) == ~Exists(<<"crt", h>>) /\ ~Exists(<<"key", h>>)
AuthorityComplete == Exists(File("ca")) /\ Exists(File("ca-key"))
AuthorityUntouched == ~Exists(File("ca")) /\ ~Exists(File("ca-key"))
\* Mutant: the CA is taken for the whole material.
PublicInitByAuthority(c, h) ==
  /\ Idle(c, "public", "init")
  /\ IF AuthorityComplete THEN Answer(c, "init", "ok")
     ELSE Begin(c, "init", <<Fresh(<<"dir", h>>, Key(1))>>, 0, FALSE)
\* The inspection reads the four files one by one; each outcome is one that
\* reading them at once at some moment in between has too.
PublicInit(c, h) ==
  /\ Idle(c, "public", "init")
  /\ IF AuthorityComplete /\ PublicComplete(h)
     THEN Answer(c, "init", IF Parses(<<"crt", h>>) THEN "ok" ELSE "failed")
     ELSE IF ~(PublicUntouched(h) /\ (AuthorityComplete \/ AuthorityUntouched)) THEN Answer(c, "init", "failed")
     ELSE Begin(c, "init", <<Fresh(<<"dir", h>>, Key(1))>>, 0, FALSE)
PublicRenew(c, h) ==
  /\ Idle(c, "public", "renew")
  /\ IF ~(Parses(File("ca")) /\ Parses(File("ca-key"))) THEN Answer(c, "renew", "failed")
     ELSE Begin(c, "renew", Replaces(LeafFiles(h, keys + 1, files[File("ca-key")].key)), 1, AuthorityWhole)
\* Every configured hostname gets a leaf of the new CA, in some order.
PublicRotate(c) ==
  /\ Idle(c, "public", "rotate")
  /\ \E order \in {s \in [1..Cardinality(Hostnames) -> Hostnames] : ToSet(s) = Hostnames} :
       Begin(c, "rotate", Replaces(AuthorityFiles(keys + 1)
                                   \o FlattenSeq([i \in DOMAIN order |-> LeafFiles(order[i], keys + 1 + i, keys + 1)])),
             1 + Cardinality(Hostnames), TRUE)

-----------------------------------------------------------------------------
\* Steps of a command

\* A file cannot be put into a directory that is not there; create_directory
\* may find it there.
DirectoryThere(f) ==
  CASE kind = "server" -> Exists(File("dir"))
    [] kind = "public" -> \E h \in Hostnames : Exists(<<"dir", h>>) /\ f[2] \in {"", h}
    [] OTHER           -> TRUE
\* write_new_file_with_mode opens with create_new.
CanCreateAlways(f) == TRUE
CanCreate(f) == ~Exists(f)

Ended(c, end) == [running EXCEPT ![c].todo = <<>>, ![c].opened = FALSE, ![c].end = end]

\* initialize_manual_client_public_cert looks for the CA's key once more, after
\* it has made the directory: a CA that another init made meanwhile is used.
Proceeds(c, todo, sound) == [running EXCEPT ![c].todo = todo, ![c].sound = sound]
PublicPlan(c) ==
  LET h == Head(running[c].todo).file[2] IN
  /\ kind = "public" /\ Busy(c) /\ running[c].op = "init" /\ Head(running[c].todo).file[1] = "dir"
  /\ files' = [files EXCEPT ![<<"dir", h>>] = Key(1)]
  /\ IF ~Exists(File("ca-key"))
     THEN /\ running' = Proceeds(c, News(AuthorityFiles(keys + 1) \o LeafFiles(h, keys + 2, keys + 1)), TRUE)
          /\ keys' = keys + 2
     ELSE IF Parses(File("ca")) /\ Parses(File("ca-key"))
     THEN /\ running' = Proceeds(c, News(LeafFiles(h, keys + 1, files[File("ca-key")].key)), AuthorityWhole)
          /\ keys' = keys + 1
     ELSE running' = Ended(c, "failed") /\ UNCHANGED keys
  /\ UNCHANGED <<kind, begun, torn>>

\* After its last write a command reads the files back; they are all there.
Advanced(c) ==
  IF Len(running[c].todo) > 1
  THEN [running EXCEPT ![c].todo = Tail(running[c].todo), ![c].opened = FALSE]
  ELSE Ended(c, "ok")

WriteStep(c) ==
  LET write == Head(running[c].todo)
      f     == write.file
  IN  /\ Busy(c)
      /\ \/ /\ f[1] = "dir" /\ kind # "public"
            /\ files' = [files EXCEPT ![f] = write.content] /\ running' = Advanced(c)
         \/ /\ f[1] # "dir" /\ write.new /\ ~running[c].opened
            /\ IF CanCreate(f) THEN /\ files' = [files EXCEPT ![f] = Empty]
                                    /\ running' = [running EXCEPT ![c].opened = TRUE]
               ELSE running' = Ended(c, "failed") /\ UNCHANGED files
         \/ /\ f[1] # "dir" /\ write.new /\ running[c].opened
            /\ files' = [files EXCEPT ![f] = write.content] /\ running' = Advanced(c)
         \/ /\ ~write.new
            /\ IF DirectoryThere(f) THEN files' = [files EXCEPT ![f] = write.content] /\ running' = Advanced(c)
               ELSE running' = Ended(c, "failed") /\ UNCHANGED files
      /\ torn' = CASE running'[c].end = "failed" /\ ~write.new -> TRUE
                    [] running'[c].end = "ok" /\ running[c].op = "rotate" -> FALSE
                    [] OTHER -> torn
      /\ UNCHANGED <<kind, keys, begun>>

\* The process is killed; the files stay as they are.
Crash(c) ==
  /\ Busy(c)
  /\ running' = Ended(c, "killed") /\ torn' = TRUE
  /\ UNCHANGED <<kind, files, keys, begun>>

-----------------------------------------------------------------------------
MaterialInit ==
  /\ kind \in DOMAIN Files
  /\ files = [f \in Files[kind] |-> NoFile]
  /\ running = [c \in Commands |-> [op |-> "none", todo |-> <<>>, opened |-> FALSE, sound |-> FALSE, end |-> "none"]]
  /\ keys = 0 /\ begun = 0 /\ torn = FALSE
MaterialIdle ==
  /\ kind = "none" /\ files = <<>> /\ keys = 0 /\ begun = MaxCommands /\ torn = FALSE
  /\ running = [c \in Commands |-> [op |-> "none", todo |-> <<>>, opened |-> FALSE, sound |-> FALSE, end |-> "none"]]

MaterialNext ==
  \E c \in Commands :
    \/ IdentityInit(c) \/ IdentityRotate(c)
    \/ ServerCertInit(c) \/ ServerCertRenew(c) \/ ServerCertRotate(c)
    \/ \E h \in Hostnames : PublicInit(c, h) \/ PublicRenew(c, h)
    \/ PublicRotate(c)
    \/ PublicPlan(c) \/ WriteStep(c) \/ Crash(c)

-----------------------------------------------------------------------------
\* What the material is for: an identity that loads, a leaf that loads and
\* chains to the published CA, and a CA that can renew it
Usable(h) ==
  CASE kind = "identity" -> IdentityLoads
    [] kind = "server"   -> ServerLoads /\ AuthorityWhole
    [] kind = "public"   -> Chains(h)

\* A command that has written its files and reports success leaves usable
\* material, whatever was killed before it: a renewal, or an init under a CA
\* that is there, if it found that CA whole; a rotation always.
WrittenIsUsable(c) ==
  Busy(c) /\ running[c].sound /\ running'[c].end = "ok" =>
    IF running[c].op = "rotate" \/ kind # "public" THEN \A h \in Hostnames : Usable(h)'
    ELSE \A h \in Hostnames \cap {Head(running[c].todo).file[2]} : Usable(h)'
\* An init that answers that the material exists already: it only looks.
Vouches(c, h) == (IdentityInit(c) \/ ServerCertInit(c) \/ PublicInit(c, h)) /\ running'[c].end = "ok"

\* What `init`, `renew` and `rotate` report is true.  Success after writing
\* leaves usable material; "already exists" is said of usable material unless
\* a command was killed or a replacement failed since the last rotation
\* (inits look at names, not at what matches: see the README), or an init is
\* still at work.
WrittenUsable == [][\A c \in Commands : WrittenIsUsable(c)]_materialVars
VouchedUsable ==
  [][\A c \in Commands, h \in Hostnames :
       Vouches(c, h) => Usable(h)' \/ torn \/ \E d \in Commands : Busy(d)]_materialVars
SuccessIsUsable == WrittenUsable /\ VouchedUsable
================================================================================
