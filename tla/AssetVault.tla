----------------------------- MODULE AssetVault -----------------------------
(***************************************************************************)
(* The content-addressed vault of the files an approval covers             *)
(* (agent_contract/assets.py) and the private copies an execution hands to *)
(* a publisher (the materialization in scheduler/worker.py).               *)
(*                                                                         *)
(* Imports run in several processes at once, each in small file-system     *)
(* steps; people edit the sources meanwhile, entries are damaged, and a    *)
(* process or the machine stops between any two steps.  A file is a        *)
(* sequence of blocks, its digest the sequence itself: two contents with   *)
(* one digest do not exist.  Importer i makes one import, and its          *)
(* temporary file is inode i, which the digest path then names as well.    *)
(***************************************************************************)
EXTENDS Integers, Sequences, FiniteSets

CONSTANTS
    Importers,   \* imports, one inode each
    Executions,  \* executions of jobs with an exact approval
    Contents,    \* what a source or a damaged entry may hold
    Limit,       \* max_bytes, in blocks
    Shelves,     \* digest directories, sha256/aa/bb
    ShelfOf,     \* the directory a digest's path lies in
    MaxEdits,    \* bound: edits of the source
    MaxDamages   \* bound: entries damaged from outside

NoFile == "no file"

ASSUME AssetVaultAssumption ==
    /\ Importers \cap Executions = {} /\ NoFile \notin Importers
    /\ \A c \in Contents : c \in Seq({c[n] : n \in DOMAIN c}) /\ c # << >>
    /\ Limit \in Nat \ {0} /\ MaxEdits \in Nat /\ MaxDamages \in Nat

Readers == Importers \cup Executions

VARIABLES
    source,    \* the source file: its content and its change stamp
    inode,     \* each inode: content, change stamp, synced to disk or not
    entries,   \* the vault: digest -> the inode its path names
    durable,   \* digests whose entry in their own directory is on the disk
    shelf,     \* each digest directory: missing, made and not flushed above, kept
    import,    \* each import: its step and what it has established
    read,      \* the descriptor a reader holds: inode, stamp at open, bytes so far
    rows,      \* digests of the records returned: what approvals refer to
    job,       \* each execution: the task, its thread, its private directory
    spoiled,   \* history: inodes that damage changed or deleted
    withdrawn, \* history: inodes their importer took back unverified
    swept      \* history: digests lost with their directory and not recorded since

vars == <<source, inode, entries, durable, shelf, import, read, rows, job,
          spoiled, withdrawn, swept>>

vault == <<inode, entries, durable, shelf, spoiled, withdrawn, swept>>

(* A digest is any sequence an import may have read, a torn one included.  *)
Blocks == UNION {{c[n] : n \in 1..Len(c)} : c \in Contents}
Digests == UNION {[1..n -> Blocks] : n \in 1..Limit}

ASSUME ShelvesAssumption == ShelfOf \in [Digests -> Shelves]

Closed == [file |-> NoFile, stamp |-> 0, got |-> << >>]

Init ==
    /\ \E c \in Contents : source = [content |-> c, stamp |-> 0]
    /\ inode = [i \in Importers |-> [content |-> << >>, stamp |-> 0, synced |-> FALSE]]
    /\ entries = [d \in Digests |-> NoFile]
    /\ durable = {}
    /\ shelf \in [Shelves -> {"none", "kept"}]
    /\ import = [i \in Importers |-> [at |-> "idle", opened |-> [content |-> << >>, stamp |-> 0],
                                      temp |-> FALSE, digest |-> << >>,
                                      created |-> FALSE, verified |-> FALSE]]
    /\ read = [r \in Readers |-> Closed]
    /\ rows = {}
    /\ job = [e \in Executions |-> [at |-> "idle", thread |-> "none", approved |-> << >>,
                                    directory |-> FALSE, copy |-> << >>,
                                    cancelled |-> FALSE, stuck |-> FALSE]]
    /\ spoiled = {} /\ withdrawn = {} /\ swept = {}

Touched(file) == [file EXCEPT !.stamp = @ + 1]

Steps(i, at) == import' = [import EXCEPT ![i].at = at]

-----------------------------------------------------------------------------
(* One import (import_asset_to_vault)                                      *)

(* The source is opened and its metadata kept; a file over the limit is    *)
(* refused; the private temporary file is created.                         *)
OpenSource(i) ==
    /\ import[i].at = "idle"
    /\ IF Len(source.content) > Limit
       THEN Steps(i, "over")
       ELSE import' = [import EXCEPT ![i].at = "copying", ![i].opened = source, ![i].temp = TRUE]
    /\ UNCHANGED <<source, vault, read, rows, job>>

(* One chunk is read, hashed and written; the source may be another by now.*)
CopyBlock(i) ==
    /\ import[i].at = "copying"
    /\ Len(inode[i].content) < Len(source.content)
    /\ Len(inode[i].content) < Limit
    /\ inode' = [inode EXCEPT ![i].content = Append(@, source.content[Len(@) + 1])]
    /\ UNCHANGED <<source, entries, durable, shelf, swept, spoiled, withdrawn, import, read, rows, job>>

BugUnchanged(i, total) == total = Len(import[i].opened.content)

(* No chunk is left, and the descriptor's metadata is that of the opening  *)
(* (_same_open_file).                                                      *)
Unchanged(i, total) ==
    /\ total = Len(import[i].opened.content)
    /\ source.stamp = import[i].opened.stamp

BugSealCopy(i) ==
    /\ import[i].at = "copying"
    /\ Len(inode[i].content) >= Len(source.content)
    /\ Unchanged(i, Len(inode[i].content))
    /\ import' = [import EXCEPT ![i].at = "linking", ![i].digest = inode[i].content]
    /\ UNCHANGED <<source, vault, read, rows, job>>

(* The copy is flushed, closed to writing and checked by name; its hash is *)
(* the digest of the record.                                               *)
SealCopy(i) ==
    /\ import[i].at = "copying"
    /\ Len(inode[i].content) >= Len(source.content)
    /\ Unchanged(i, Len(inode[i].content))
    /\ inode' = [inode EXCEPT ![i].synced = TRUE, ![i].stamp = @ + 1]
    /\ import' = [import EXCEPT ![i].at = "linking", ![i].digest = inode[i].content]
    /\ UNCHANGED <<source, entries, durable, shelf, swept, spoiled, withdrawn, read, rows, job>>

(* The directories above the digest path that are missing are made, and    *)
(* not flushed (_ensure_digest_directory).                                 *)
MakeShelf(i) ==
    /\ import[i].at = "linking"
    /\ shelf[ShelfOf[import[i].digest]] = "none"
    /\ shelf' = [shelf EXCEPT ![ShelfOf[import[i].digest]] = "made"]
    /\ UNCHANGED <<source, inode, entries, durable, spoiled, withdrawn, swept,
                   import, read, rows, job>>

(* The digest path is given the temporary file's inode, or is found taken: *)
(* then the file that is there is verified like any other and reused.      *)
Link(i) ==
    /\ import[i].at = "linking"
    /\ shelf[ShelfOf[import[i].digest]] # "none"
    /\ IF entries[import[i].digest] = NoFile
       THEN /\ entries' = [entries EXCEPT ![import[i].digest] = i]
            /\ inode' = [inode EXCEPT ![i] = Touched(@)]
            /\ import' = [import EXCEPT ![i].at = "opening", ![i].created = TRUE]
       ELSE /\ Steps(i, "opening")
            /\ UNCHANGED <<entries, inode>>
    /\ UNCHANGED <<source, durable, shelf, swept, spoiled, withdrawn, read, rows, job>>

(* A reader opens what a digest path names and keeps its metadata.         *)
Opens(r, digest) ==
    /\ entries[digest] /= NoFile
    /\ read' = [read EXCEPT ![r] = [file |-> entries[digest],
                                    stamp |-> inode[entries[digest]].stamp, got |-> << >>]]

(* Every chunk is read once, from the open descriptor.                     *)
Reads(r) ==
    LET content == inode[read[r].file].content
        next == Len(read[r].got) + 1
    IN /\ next <= Len(content)
       /\ read' = [read EXCEPT ![r].got = Append(@, content[next])]

AtEnd(r) == Len(read[r].got) >= Len(inode[read[r].file].content)

BugGenuine(r, digest) ==
    /\ inode[read[r].file].stamp = read[r].stamp
    /\ Len(read[r].got) = Len(digest)

(* The verdict: the metadata stood still and the bytes hash to the digest. *)
Genuine(r, digest) ==
    /\ inode[read[r].file].stamp = read[r].stamp
    /\ read[r].got = digest

OpenEntry(i) ==
    /\ import[i].at = "opening"
    /\ Opens(i, import[i].digest)
    /\ import[i].created => entries[import[i].digest] = i
    /\ Steps(i, "reading")
    /\ UNCHANGED <<source, vault, rows, job>>

ReadEntry(i) ==
    /\ import[i].at = "reading"
    /\ Reads(i)
    /\ UNCHANGED <<source, vault, import, rows, job>>

(* An entry of its own is also looked up again under its path.             *)
AcceptEntry(i) ==
    /\ import[i].at = "reading"
    /\ AtEnd(i) /\ Genuine(i, import[i].digest)
    /\ import[i].created => entries[import[i].digest] = i
    /\ import' = [import EXCEPT ![i].at = "closing", ![i].verified = import[i].created]
    /\ read' = [read EXCEPT ![i] = Closed]
    /\ UNCHANGED <<source, vault, rows, job>>

(* The temporary name goes, which changes the inode's metadata under       *)
(* anyone who is reading it as the entry.                                  *)
RemoveTemp(i) ==
    /\ import[i].at = "closing"
    /\ import' = [import EXCEPT ![i].at = "syncing", ![i].temp = FALSE]
    /\ inode' = [inode EXCEPT ![i] = Touched(@)]
    /\ UNCHANGED <<source, entries, durable, shelf, swept, spoiled, withdrawn, read, rows, job>>

BugReturnRecord(i) ==
    /\ import[i].at = "syncing"
    /\ Steps(i, "returned")
    /\ rows' = rows \cup {import[i].digest}
    /\ swept' = swept \ {import[i].digest}
    /\ UNCHANGED <<source, inode, entries, durable, shelf, spoiled, withdrawn, read, job>>

(* The digest's own directory and the root of the vault are flushed before *)
(* the record is returned; directories between the two are not.            *)
ReturnRecord(i) ==
    /\ import[i].at = "syncing"
    /\ Steps(i, "returned")
    /\ durable' = durable \cup {d \in {import[i].digest} : entries[d] /= NoFile}
    /\ rows' = rows \cup {import[i].digest}
    /\ swept' = swept \ {import[i].digest}
    /\ UNCHANGED <<source, inode, entries, shelf, spoiled, withdrawn, read, job>>

(* A check refuses, the limit is passed or a call fails: at any step.      *)
ImportFails(i) ==
    /\ import[i].at \in {"copying", "linking", "opening", "reading", "closing", "syncing"}
    /\ Steps(i, "undoing")
    /\ read' = [read EXCEPT ![i] = Closed]
    /\ UNCHANGED <<source, vault, rows, job>>

BugTakesBack(i) == import[i].created /\ entries[import[i].digest] = i

(* The entry it made is taken back unless its read-back had succeeded.     *)
TakesBack(i) ==
    /\ import[i].created /\ ~import[i].verified
    /\ entries[import[i].digest] = i

Undo(i) ==
    /\ import[i].at = "undoing"
    /\ import' = [import EXCEPT ![i].at = "over", ![i].temp = FALSE]
    /\ inode' = IF import[i].temp \/ TakesBack(i) THEN [inode EXCEPT ![i] = Touched(@)] ELSE inode
    /\ IF TakesBack(i)
       THEN /\ entries' = [entries EXCEPT ![import[i].digest] = NoFile]
            /\ durable' = durable \ {import[i].digest}
            /\ withdrawn' = IF import[i].verified THEN withdrawn ELSE withdrawn \cup {i}
       ELSE UNCHANGED <<entries, durable, withdrawn>>
    /\ UNCHANGED <<source, shelf, swept, spoiled, read, rows, job>>

(* The process ends; the temporary file stays, nothing removes it.         *)
ImporterStops(i) ==
    /\ import[i].at \notin {"idle", "returned", "over"}
    /\ Steps(i, "over")
    /\ read' = [read EXCEPT ![i] = Closed]
    /\ UNCHANGED <<source, vault, rows, job>>

ImportStep(i) ==
    \/ OpenSource(i) \/ CopyBlock(i) \/ SealCopy(i) \/ MakeShelf(i) \/ Link(i)
    \/ OpenEntry(i) \/ ReadEntry(i) \/ AcceptEntry(i)
    \/ RemoveTemp(i) \/ ReturnRecord(i)
    \/ ImportFails(i) \/ Undo(i) \/ ImporterStops(i)

-----------------------------------------------------------------------------
(* One execution (_try_publishers_with_materialized_assets): a task of the *)
(* event loop, and a thread that makes the private copy                    *)

(* A job whose approval names a record is started; the copy is made in a   *)
(* thread, which nothing can interrupt.                                    *)
BeginExecution(e) ==
    /\ job[e].at = "idle"
    /\ \E d \in rows :
          job' = [job EXCEPT ![e].at = "entering", ![e].thread = "opening", ![e].approved = d]
    /\ UNCHANGED <<source, vault, import, read, rows>>

(* The private directory and the destination are created.                  *)
OpenApproved(e) ==
    /\ job[e].thread = "opening"
    /\ Opens(e, job[e].approved)
    /\ job' = [job EXCEPT ![e].thread = "copying", ![e].directory = TRUE]
    /\ UNCHANGED <<source, vault, import, rows>>

CopyApproved(e) ==
    /\ job[e].thread = "copying"
    /\ Reads(e)
    /\ UNCHANGED <<source, vault, import, rows, job>>

SealApproved(e) ==
    /\ job[e].thread = "copying"
    /\ AtEnd(e) /\ Genuine(e, job[e].approved)
    /\ job' = [job EXCEPT ![e].thread = "made", ![e].copy = read[e].got]
    /\ read' = [read EXCEPT ![e] = Closed]
    /\ UNCHANGED <<source, vault, import, rows>>

(* Nothing to open, a refused check or a failed call: the directory is     *)
(* removed; an error in that is logged and passed over.                    *)
CopyFails(e, removed) ==
    /\ job[e].thread \in {"opening", "copying"}
    /\ job' = [job EXCEPT ![e].thread = "failed", ![e].directory = @ /\ ~removed,
                          ![e].stuck = job[e].directory /\ ~removed]
    /\ read' = [read EXCEPT ![e] = Closed]
    /\ UNCHANGED <<source, vault, import, rows>>

BugCancel(e) ==
    /\ job[e].at \in {"entering", "publishing", "leaving"}
    /\ ~job[e].cancelled
    /\ job' = [job EXCEPT ![e].cancelled = TRUE,
                          ![e].at = CASE @ = "publishing" -> "leaving"
                                      [] @ = "entering" -> "over"
                                      [] OTHER -> @]
    /\ UNCHANGED <<source, vault, import, read, rows>>

(* The attempt's time limit, or a shutdown, cancels the task.  It is       *)
(* remembered while a thread works and ends a publication at its await.    *)
Cancel(e) ==
    /\ job[e].at \in {"entering", "publishing", "leaving"}
    /\ ~job[e].cancelled
    /\ job' = [job EXCEPT ![e].cancelled = TRUE,
                          ![e].at = IF @ = "publishing" THEN "leaving" ELSE @]
    /\ UNCHANGED <<source, vault, import, read, rows>>

(* The thread has ended: the task publishes with the copy, or goes to the  *)
(* cleanup when it was cancelled meanwhile, or fails with the thread.      *)
EndEntering(e) ==
    /\ job[e].at = "entering"
    /\ job[e].thread \in {"made", "failed"}
    /\ job' = [job EXCEPT ![e].at = IF job[e].thread = "failed" THEN "over"
                                   ELSE IF job[e].cancelled THEN "leaving"
                                   ELSE "publishing"]
    /\ UNCHANGED <<source, vault, import, read, rows>>

EndPublishing(e) ==
    /\ job[e].at = "publishing"
    /\ job' = [job EXCEPT ![e].at = "leaving"]
    /\ UNCHANGED <<source, vault, import, read, rows>>

Leave(e, removed) ==
    /\ job[e].at = "leaving"
    /\ job' = [job EXCEPT ![e].at = "over", ![e].directory = ~removed, ![e].stuck = ~removed]
    /\ UNCHANGED <<source, vault, import, read, rows>>

ExecutionStep(e) ==
    \/ BeginExecution(e) \/ OpenApproved(e) \/ CopyApproved(e) \/ SealApproved(e)
    \/ \E removed \in BOOLEAN : CopyFails(e, removed) \/ Leave(e, removed)
    \/ Cancel(e) \/ EndEntering(e) \/ EndPublishing(e)

-----------------------------------------------------------------------------
(* The surroundings                                                        *)

(* Someone saves another version over the source.                          *)
EditSource ==
    /\ source.stamp < MaxEdits
    /\ \E c \in Contents \ {source.content} :
          source' = [content |-> c, stamp |-> source.stamp + 1]
    /\ UNCHANGED <<vault, import, read, rows, job>>

(* An entry is overwritten or deleted from outside.                        *)
DamageEntry(d) ==
    /\ Cardinality(spoiled) < MaxDamages
    /\ entries[d] /= NoFile
    /\ spoiled' = spoiled \cup {entries[d]}
    /\ \/ /\ entries' = [entries EXCEPT ![d] = NoFile]
          /\ durable' = durable \ {d}
          /\ inode' = [inode EXCEPT ![entries[d]] = Touched(@)]
       \/ \E c \in Contents \ {d} :
             /\ inode' = [inode EXCEPT ![entries[d]].content = c, ![entries[d]].stamp = @ + 1]
             /\ UNCHANGED <<entries, durable>>
    /\ UNCHANGED <<source, shelf, swept, withdrawn, import, read, rows, job>>

Below(gone) == {d \in Digests : entries[d] /= NoFile /\ ShelfOf[d] \in gone}

(* The machine stops: what was not flushed is lost, an entry that was not  *)
(* flushed may be, and so may a directory, with all that is below it.      *)
PowerFails ==
    /\ \E gone \in SUBSET {s \in Shelves : shelf[s] = "made"},
          lost \in SUBSET {d \in Digests \ durable : entries[d] /= NoFile} :
          /\ entries' = [d \in Digests |->
                            IF d \in lost \cup Below(gone) THEN NoFile ELSE entries[d]]
          /\ shelf' = [s \in Shelves |-> IF s \in gone THEN "none"
                                         ELSE IF shelf[s] = "made" THEN "kept" ELSE shelf[s]]
          /\ swept' = swept \cup Below(gone)
    /\ inode' = [i \in Importers |->
                    IF inode[i].synced THEN inode[i] ELSE [inode[i] EXCEPT !.content = << >>]]
    /\ import' = [i \in Importers |->
                    IF import[i].at = "idle" THEN import[i] ELSE [import[i] EXCEPT !.at =
                       IF @ = "returned" THEN @ ELSE "over"]]
    /\ read' = [r \in Readers |-> Closed]
    /\ job' = [e \in Executions |->
                    IF job[e].at = "idle" THEN job[e]
                    ELSE [job[e] EXCEPT !.at = "over", !.thread = "none", !.stuck = @ \/ job[e].directory]]
    /\ durable' = {d \in Digests : entries'[d] /= NoFile}
    /\ UNCHANGED <<source, rows, spoiled, withdrawn>>

Next ==
    \/ \E i \in Importers : ImportStep(i)
    \/ \E e \in Executions : ExecutionStep(e)
    \/ \E d \in Digests : DamageEntry(d)
    \/ EditSource \/ PowerFails

Spec == Init /\ [][Next]_vars

-----------------------------------------------------------------------------
(* Properties                                                              *)

File == [content : Seq(Blocks), stamp : Nat]
Inode == [content : Seq(Blocks), stamp : Nat, synced : BOOLEAN]
Descriptor == [file : Importers \cup {NoFile}, stamp : Nat, got : Seq(Blocks)]
Import ==
    [at : {"idle", "copying", "linking", "opening", "reading", "closing", "syncing",
           "returned", "undoing", "over"},
     opened : File, temp : BOOLEAN, digest : Digests \cup {<< >>},
     created : BOOLEAN, verified : BOOLEAN]
Job ==
    [at : {"idle", "entering", "publishing", "leaving", "over"},
     thread : {"none", "opening", "copying", "made", "failed"},
     approved : Digests \cup {<< >>}, directory : BOOLEAN, copy : Seq(Blocks),
     cancelled : BOOLEAN, stuck : BOOLEAN]

TypeOK ==
    /\ source \in File /\ source.content \in Contents
    /\ inode \in [Importers -> Inode]
    /\ entries \in [Digests -> Importers \cup {NoFile}]
    /\ durable \subseteq Digests /\ rows \subseteq Digests
    /\ shelf \in [Shelves -> {"none", "made", "kept"}]
    /\ import \in [Importers -> Import]
    /\ read \in [Readers -> Descriptor]
    /\ job \in [Executions -> Job]
    /\ spoiled \subseteq Importers /\ withdrawn \subseteq Importers /\ swept \subseteq Digests

(* What an import returns is the file as it was when it was opened, never  *)
(* the start of one version and the end of the next, however often the     *)
(* source is saved while it is copied.                                     *)
ImportIsOneVersion ==
    \A i \in Importers : import[i].at = "returned" => import[i].digest = import[i].opened.content

(* A digest path never names a file of other or fewer bytes unless it was  *)
(* damaged from outside: not while an import runs or is abandoned, and not *)
(* after the machine stopped.                                              *)
EntriesAreWhole ==
    \A d \in Digests : entries[d] \in Importers \ spoiled => inode[entries[d]].content = d

(* A file that a returned record names stays in the vault whatever other   *)
(* imports of the same bytes do, fail at or leave undone, and across a     *)
(* power failure at any time.  The exceptions: damage from outside; an     *)
(* entry whose importer could not read it back and took it away while      *)
(* another import had already verified and recorded it; and an entry below *)
(* a directory made since the machine started, which only the directory's  *)
(* own flush and that of the root followed (import_asset_to_vault).        *)
RecordsAreKept ==
    \A d \in rows :
       \/ entries[d] /= NoFile
       \/ \E i \in spoiled \cup withdrawn : import[i].digest = d
       \/ d \in swept

(* A publisher is run only on a private copy that still exists and holds   *)
(* exactly the approved bytes, whatever happened to the vault since.       *)
ExecutedAsApproved ==
    \A e \in Executions :
       job[e].at = "publishing" => job[e].directory /\ job[e].copy = job[e].approved

(* When the task is over the private copy is gone, however the attempt was *)
(* cancelled: even while the thread was still making the copy.  Only an    *)
(* error of the removal itself, or a stop, leaves one.                     *)
CopiesAreRemoved ==
    \A e \in Executions : job[e].at = "over" /\ job[e].directory => job[e].stuck
=============================================================================
