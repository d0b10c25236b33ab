----------------------------- MODULE ArtifactStore -----------------------------
(***************************************************************************)
(* The content-addressed artifact store and the attachments ingested into  *)
(* it (packages/artifact-store, packages/attachments).  A blob is named by *)
(* its digest and put in place by a rename; a manifest is named by its     *)
(* artifact and created, then written.  Nothing locks the store: commands  *)
(* of several terminals use it at once, a command may be killed at any     *)
(* step, and the files it ingests may change while it does.                *)
(*                                                                         *)
(* A digest stands for its contents, and contents for what the scanners    *)
(* find in them and how long they are.  An artifact id is a digest and a   *)
(* name; producer and classification follow from the two.                  *)
(***************************************************************************)
EXTENDS Naturals, FiniteSets

CONSTANTS
  Processes,    (* Commands, one ingestion each.                           *)
  Files,        (* The files of the folder, in the order of their numbers. *)
  Contents, Bad, Big, (* File contents; those a scanner blocks; the large. *)
  MaxChanges,   (* Bound on changes of the files.                          *)
  MaxDeaths,    (* Bound on commands killed.                               *)
  None

(* The theorems take it as hypothesis. *)
ArtifactAssumption ==
  /\ Files \subseteq Nat \ {0} /\ IsFiniteSet(Files)
  /\ {MaxChanges, MaxDeaths} \subseteq Nat /\ None \notin Nat

VARIABLES
  source,       (* The contents of the files, None if there is none.       *)
  blobs,        (* The digests in the store.                               *)
  manifests,    (* From the artifact ids that have a manifest file, to     *)
                (* "torn" or "whole".                                      *)
  call,         (* The ingestions.                                         *)
  receipts,     (* The receipts given out.                                 *)
  changes, deaths

vars == <<source, blobs, manifests, call, receipts, changes, deaths>>

(* The name of a folder's own artifact.                                    *)
Folder == 0
ManifestIds == (Contents \cup SUBSET (Files \X Contents)) \X (Files \cup {Folder})

Idle == [at |-> "idle", kind |-> None, todo |-> {}, file |-> None, bytes |-> None,
         blocked |-> FALSE, children |-> {}]

Init ==
  /\ source \in [Files -> Contents \ Big]
  /\ blobs = {} /\ manifests = [i \in {} |-> None]
  /\ call = [p \in Processes |-> Idle]
  /\ receipts = {} /\ changes = 0 /\ deaths = 0

At(p, place) == call[p].at = place
Id(p) == <<call[p].bytes, call[p].file>>

First(files) == CHOOSE f \in files : \A g \in files : f <= g

(* The loop over the files: the next one, or the folder's own manifest.    *)
Onward(c) ==
  IF c.todo # {}
  THEN [c EXCEPT !.at = "measure", !.file = First(c.todo), !.todo = @ \ {First(c.todo)}]
  ELSE IF c.kind = "folder" /\ c.file # Folder
  THEN [c EXCEPT !.at = "blob", !.file = Folder, !.bytes = c.children]
  ELSE [c EXCEPT !.at = "receipt"]

Step(p, c) == call' = [call EXCEPT ![p] = c]
Fail(p) == Step(p, [call[p] EXCEPT !.at = "failed"])

-----------------------------------------------------------------------------
(* ingestFile, and ingestDirectory with what walk finds, sorted.           *)
Begin(p) ==
  /\ At(p, "idle")
  /\ LET present == {f \in Files : source[f] # None}
         start == [Idle EXCEPT !.kind = "folder", !.todo = present]
     IN \/ Step(p, Onward(start))
        \/ \E f \in present : Step(p, Onward([start EXCEPT !.kind = "file", !.todo = {f}]))
  /\ UNCHANGED <<source, blobs, manifests, receipts, changes, deaths>>

(* lstat: too large a file is refused, or in a folder left out with a      *)
(* finding that blocks the folder; the files of a folder may together be   *)
(* too large, which fails the folder with some of it stored.               *)
Measure(p) ==
  /\ At(p, "measure")
  /\ LET c == call[p]
         now == source[c.file]
     IN CASE now = None \/ (now \in Big /\ c.kind # "folder") -> Fail(p)
          [] now \in Big /\ c.kind = "folder" ->
               Step(p, Onward([c EXCEPT !.blocked = TRUE])) \/ Fail(p)
          [] OTHER -> Step(p, [c EXCEPT !.at = "read"]) \/ (c.kind = "folder" /\ Fail(p))
  /\ UNCHANGED <<source, blobs, manifests, receipts, changes, deaths>>

(* Whether some scanner finds what blocks: a test virus, a secret.         *)
Blocks(contents) == contents \in Bad

(* readFile and scan.  ingestBytes measures again, ingestDirectory not.    *)
Read(p) ==
  /\ At(p, "read")
  /\ LET c == call[p]
         now == source[c.file]
     IN IF now = None \/ (now \in Big /\ c.kind # "folder") THEN Fail(p)
        ELSE Step(p, [c EXCEPT !.at = "blob", !.bytes = now, !.blocked = @ \/ Blocks(now)])
  /\ UNCHANGED <<source, blobs, manifests, receipts, changes, deaths>>

(* put: the blob is there, or a temporary file is renamed to it.           *)
PutBlob(p) ==
  /\ At(p, "blob")
  /\ blobs' = blobs \cup {call[p].bytes}
  /\ Step(p, [call[p] EXCEPT !.at = "manifest"])
  /\ UNCHANGED <<source, manifests, receipts, changes, deaths>>

Stored(p) == Onward([call[p] EXCEPT !.children = @ \cup {<<call[p].file, call[p].bytes>>}])

(* The manifest is read, before its creation or after that failed for its  *)
(* existence: half a manifest is not parsed.                               *)
ReadManifest(p) ==
  /\ At(p, "manifest") \/ At(p, "again")
  /\ CASE Id(p) \notin DOMAIN manifests -> Step(p, [call[p] EXCEPT !.at = "create"])
       [] Id(p) \in DOMAIN manifests /\ manifests[Id(p)] = "torn" -> Fail(p)
       [] OTHER -> Step(p, Stored(p))
  /\ UNCHANGED <<source, blobs, manifests, receipts, changes, deaths>>

SetManifest(p, state) ==
  manifests' = [i \in DOMAIN manifests \cup {Id(p)} |-> IF i = Id(p) THEN state ELSE manifests[i]]

(* Mutated: a file that exists is written over. *)
CreateOver(p) ==
  /\ At(p, "create")
  /\ SetManifest(p, "torn") /\ Step(p, [call[p] EXCEPT !.at = "write"])
  /\ UNCHANGED <<source, blobs, receipts, changes, deaths>>

(* writeFile with "wx": created, and then written.                         *)
CreateManifest(p) ==
  /\ At(p, "create")
  /\ IF Id(p) \in DOMAIN manifests
     THEN Step(p, [call[p] EXCEPT !.at = "again"]) /\ UNCHANGED manifests
     ELSE SetManifest(p, "torn") /\ Step(p, [call[p] EXCEPT !.at = "write"])
  /\ UNCHANGED <<source, blobs, receipts, changes, deaths>>

WriteManifest(p) ==
  /\ At(p, "write")
  /\ SetManifest(p, "whole") /\ Step(p, Stored(p))
  /\ UNCHANGED <<source, blobs, receipts, changes, deaths>>

(* READY, or else BLOCKED or QUARANTINED by what was found.                *)
Ready(c) == ~c.blocked

(* The receipt of a file, whose one artifact is its only child here, or of *)
(* a folder.                                                               *)
Receipt(p) ==
  /\ At(p, "receipt")
  /\ receipts' = receipts \cup {[kind |-> call[p].kind, ready |-> Ready(call[p]), children |-> call[p].children]}
  /\ Step(p, [call[p] EXCEPT !.at = "done"])
  /\ UNCHANGED <<source, blobs, manifests, changes, deaths>>

-----------------------------------------------------------------------------
(* The user's editor: a file is written or removed.                        *)
Change(f) ==
  /\ changes < MaxChanges /\ changes' = changes + 1
  /\ \E c \in (Contents \cup {None}) \ {source[f]} : source' = [source EXCEPT ![f] = c]
  /\ UNCHANGED <<blobs, manifests, call, receipts, deaths>>

Die(p) ==
  /\ deaths < MaxDeaths /\ deaths' = deaths + 1
  /\ call[p].at \notin {"idle", "done", "failed", "dead"}
  /\ Step(p, [call[p] EXCEPT !.at = "dead"])
  /\ UNCHANGED <<source, blobs, manifests, receipts, changes>>

Ingest(p) == Measure(p) \/ Read(p) \/ PutBlob(p) \/ ReadManifest(p) \/ CreateManifest(p) \/ WriteManifest(p) \/ Receipt(p)

Next ==
  \/ \E p \in Processes : Begin(p) \/ Ingest(p) \/ Die(p)
  \/ \E f \in Files : Change(f)

Spec == Init /\ [][Next]_vars

-----------------------------------------------------------------------------
Places == {"idle", "measure", "read", "blob", "manifest", "create", "again", "write", "receipt",
           "done", "failed", "dead"}

TypeOK ==
  /\ source \in [Files -> Contents \cup {None}]
  /\ blobs \subseteq Contents \cup SUBSET (Files \X Contents \cup {Folder} \X SUBSET (Files \X Contents))
  /\ DOMAIN manifests \subseteq ManifestIds /\ \A i \in DOMAIN manifests : manifests[i] \in {"torn", "whole"}
  /\ \A p \in Processes : call[p].at \in Places /\ call[p].todo \subseteq Files
  /\ changes \in 0 .. MaxChanges /\ deaths \in 0 .. MaxDeaths

(* What a receipt says is so, whatever happened to the files meanwhile and *)
(* whoever stored or died meanwhile: each artifact is in the store with a  *)
(* whole manifest, a READY receipt has no contents a scanner blocks, and   *)
(* the manifest of a folder lists just what was stored of it.              *)
ReceiptsHold ==
  \A r \in receipts :
    /\ \A child \in r.children :
         /\ child[2] \in blobs
         /\ <<child[2], child[1]>> \in DOMAIN manifests /\ manifests[<<child[2], child[1]>>] = "whole"
    /\ r.ready => \A child \in r.children : child[1] # Folder => ~Blocks(child[2])
    /\ r.kind = "folder" =>
         \E child \in r.children : child[1] = Folder /\ child[2] = r.children \ {child}

(* A manifest names a blob that is there, and once whole stays as it is.   *)
ManifestsStay ==
  [][/\ \A i \in DOMAIN manifests' : i[1] \in blobs'
     /\ \A i \in DOMAIN manifests : manifests[i] = "whole" =>
          i \in DOMAIN manifests' /\ manifests'[i] = "whole"]_vars

(* What an ingestion's receipt says is so and stays so, although files     *)
(* change, another ingestion runs and one is killed.                       *)
ReceiptsAreTrue == [](TypeOK /\ ReceiptsHold) /\ ManifestsStay

(* A list reads all manifests, and fails if one is not whole. *)
ListSucceeds == \A i \in DOMAIN manifests : manifests[i] = "whole"

(* The store can be listed unless a manifest is being written just now:    *)
(* not so after a command that died writing one.                           *)
StoreIsListable == (\E p \in Processes : At(p, "write")) \/ ListSucceeds
=============================================================================
