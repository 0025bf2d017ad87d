--------------------------- MODULE AssetVaultProofs ---------------------------
(* Proofs about the vault and the private copies, for any number of imports, *)
(* executions, contents, edits and damages.                                  *)
EXTENDS AssetVault, TLAPS

\* An import has a digest from its sealing on, and is sure of its entry from
\* the moment it has opened it.
Sealed  == {"linking", "opening", "reading", "closing", "syncing", "returned"}
Holding == {"reading", "closing", "syncing"}

\* A copy in the making is the beginning of the source as it was opened, as
\* long as the source's stamp is the one of the opening.
CopyIsPrefix ==
    \A i \in Importers :
        /\ import[i].at = "idle" => inode[i].content = << >>
        /\ import[i].at = "copying" =>
              /\ Len(inode[i].content) <= Limit
              /\ import[i].opened.stamp <= source.stamp
              /\ import[i].opened.stamp = source.stamp =>
                    /\ import[i].opened = source
                    /\ Len(inode[i].content) <= Len(source.content)
                    /\ \A n \in 1..Len(inode[i].content) :
                          inode[i].content[n] = source.content[n]

\* What an import has sealed is what it opened, and only a sealed import makes
\* an entry.
SealedIsOpened ==
    \A i \in Importers :
        /\ import[i].at \in Sealed => import[i].digest = import[i].opened.content
        /\ import[i].at \in Sealed \/ import[i].created => import[i].digest \in Digests
        /\ import[i].created => import[i].at \notin {"idle", "copying", "linking"}
        /\ import[i].at = "linking" =>
              inode[i].content = import[i].digest /\ inode[i].synced

\* A digest path names the inode of the import that made it; nobody writes to
\* that inode any more, and it is on the disk.
EntriesAreSealed ==
    \A d \in Digests : entries[d] # NoFile =>
        /\ import[entries[d]].created /\ import[entries[d]].digest = d
        /\ entries[d] \notin spoiled =>
              inode[entries[d]].content = d /\ inode[entries[d]].synced

OnlyEntriesAreLost == \A i \in spoiled \cup withdrawn : import[i].created

\* Two of the ways in which a recorded file may be gone; the third is to be
\* swept away with its directory.
Lost(d) == \E i \in spoiled \cup withdrawn : import[i].digest = d

HeldOrLost ==
    /\ \A i \in Importers : import[i].at \in Holding =>
          entries[import[i].digest] # NoFile \/ Lost(import[i].digest)
    /\ \A d \in rows : (entries[d] # NoFile /\ d \in durable) \/ Lost(d) \/ d \in swept

\* A reader that reads has a file open.
ReadersHaveFiles ==
    /\ \A i \in Importers : import[i].at = "reading" => read[i].file \in Importers
    /\ \A e \in Executions : job[e].thread = "copying" => read[e].file \in Importers

\* The private copy, from the thread that makes it to the task that removes it.
Tracked(j) ==
    /\ j.thread = "opening" => j.approved \in Digests
    /\ j.thread \in {"opening", "copying"} => j.at = "entering"
    /\ j.at = "entering" =>
          /\ j.thread = "copying" => j.directory
          /\ j.thread = "made" => j.directory /\ j.copy = j.approved
          /\ j.thread = "failed" /\ j.directory => j.stuck
    /\ j.at = "publishing" => j.directory /\ j.copy = j.approved
    /\ j.at = "over" /\ j.directory => j.stuck

CopyIsTracked == \A e \in Executions : Tracked(job[e])

VaultInvariant ==
    /\ CopyIsPrefix /\ SealedIsOpened /\ EntriesAreSealed /\ OnlyEntriesAreLost
    /\ HeldOrLost /\ ReadersHaveFiles /\ CopyIsTracked

-----------------------------------------------------------------------------
(* Types.                                                                    *)

LEMMA ContentsAreBlocks ==
    ASSUME NEW c \in Contents
    PROVE  c \in Seq(Blocks) /\ Len(c) \in Nat \ {0}
<1> DEFINE B == {c[n] : n \in DOMAIN c}
<1>1. c \in Seq(B) /\ c # << >>
  BY AssetVaultAssumption
<1> HIDE DEF B
<1>2. Len(c) \in Nat \ {0} /\ DOMAIN c = 1..Len(c)
  BY <1>1
<1>3. B = {c[n] : n \in 1..Len(c)}
  BY <1>2 DEF B
<1>4. B \subseteq Blocks
  BY <1>3 DEF Blocks
<1> QED
  BY <1>1, <1>2, <1>4

LEMMA DigestsAreBlocks ==
    /\ Digests \subseteq Seq(Blocks)
    /\ \A s \in Seq(Blocks) : Len(s) # 0 /\ Len(s) <= Limit => s \in Digests
<1>1. Limit \in Nat
  BY AssetVaultAssumption
<1>2. Digests \subseteq Seq(Blocks)
  BY <1>1 DEF Digests
<1>3. ASSUME NEW s \in Seq(Blocks), Len(s) # 0, Len(s) <= Limit
      PROVE  s \in Digests
  <2>1. Len(s) \in 1..Limit /\ s \in [1..Len(s) -> Blocks]
    BY <1>1, <1>3
  <2> QED
    BY <2>1 DEF Digests
<1> QED
  BY <1>2, <1>3

\* What is read of a file is a sequence of blocks.
LEMMA ReadingTypes ==
    ASSUME TypeOK, NEW r \in Readers
    PROVE  /\ \A d \in Digests : Opens(r, d) => read' \in [Readers -> Descriptor]
           /\ Reads(r) /\ read[r].file \in Importers => read' \in [Readers -> Descriptor]
           /\ read' = [read EXCEPT ![r] = Closed] => read' \in [Readers -> Descriptor]
<1>1. read \in [Readers -> Descriptor] /\ << >> \in Seq(Blocks) /\ read[r].got \in Seq(Blocks)
      /\ \A i \in Importers : inode[i].stamp \in Nat /\ inode[i].content \in Seq(Blocks)
  BY DEF TypeOK, Descriptor, Inode
<1>2. ASSUME NEW d \in Digests, Opens(r, d)
      PROVE  read' \in [Readers -> Descriptor]
  <2>1. entries[d] \in Importers
    BY <1>2 DEF Opens, TypeOK
  <2>2. [file |-> entries[d], stamp |-> inode[entries[d]].stamp, got |-> << >>] \in Descriptor
    BY <1>1, <2>1 DEF Descriptor
  <2> QED
    BY <1>1, <1>2, <2>2 DEF Opens
<1>3. ASSUME Reads(r), read[r].file \in Importers
      PROVE  read' \in [Readers -> Descriptor]
  <2> DEFINE content == inode[read[r].file].content
             b == content[Len(read[r].got) + 1]
  <2>1. content \in Seq(Blocks) /\ Len(read[r].got) \in Nat /\ Len(read[r].got) + 1 <= Len(content)
    BY <1>1, <1>3 DEF Reads
  <2>2. b \in Blocks
    <3> HIDE DEF content
    <3> QED
      BY <2>1
  <2>3. read' = [read EXCEPT ![r].got = Append(@, b)]
    BY <1>3 DEF Reads
  <2> HIDE DEF b
  <2>4. Append(read[r].got, b) \in Seq(Blocks)
    BY <1>1, <2>2
  <2> QED
    BY <1>1, <2>3, <2>4 DEF Descriptor
<1>4. Closed \in Descriptor
  BY <1>1 DEF Closed, Descriptor
<1> QED
  BY <1>1, <1>2, <1>3, <1>4

\* Changes of one import.
LEMMA ImportTypes ==
    ASSUME TypeOK, NEW i \in Importers,
           \/ \E at \in {"over", "undoing", "opening", "reading", "returned"} : Steps(i, at)
           \/ import' = [import EXCEPT ![i].at = "copying", ![i].opened = source,
                                       ![i].temp = TRUE]
           \/ \E d \in Digests : import' = [import EXCEPT ![i].at = "linking", ![i].digest = d]
           \/ import' = [import EXCEPT ![i].at = "opening", ![i].created = TRUE]
           \/ import' = [import EXCEPT ![i].at = "closing", ![i].verified = import[i].created]
           \/ import' = [import EXCEPT ![i].at = "syncing", ![i].temp = FALSE]
           \/ import' = [import EXCEPT ![i].at = "over", ![i].temp = FALSE]
    PROVE  import' \in [Importers -> Import]
<1>1. import \in [Importers -> Import] /\ source \in File /\ import[i].created \in BOOLEAN
  BY DEF TypeOK, Import
<1> QED
  BY <1>1 DEF Steps, Import

\* Changes of one inode.
LEMMA InodeChanges ==
    ASSUME NEW f \in Inode, NEW c \in Seq(Blocks)
    PROVE  /\ [f EXCEPT !.content = c] \in Inode
           /\ [f EXCEPT !.content = c, !.stamp = @ + 1] \in Inode
           /\ [f EXCEPT !.synced = TRUE, !.stamp = @ + 1] \in Inode
           /\ Touched(f) \in Inode
<1> DEFINE S == Seq(Blocks)
<1>1. c \in S /\ Inode = [content : S, stamp : Nat, synced : BOOLEAN]
  BY DEF Inode
<1> HIDE DEF S
<1>2. f.stamp + 1 \in Nat
  BY <1>1
<1>3. [f EXCEPT !.content = c] \in Inode
  BY <1>1
<1>4. [f EXCEPT !.content = c, !.stamp = @ + 1] \in Inode
  BY <1>1, <1>2
<1>5. [f EXCEPT !.synced = TRUE, !.stamp = @ + 1] \in Inode
  BY <1>1, <1>2
<1>6. Touched(f) \in Inode
  BY <1>1, <1>2 DEF Touched
<1> QED
  BY <1>3, <1>4, <1>5, <1>6

LEMMA InodeTypes ==
    ASSUME TypeOK, NEW i \in Importers,
           \/ \E c \in Seq(Blocks) : inode' = [inode EXCEPT ![i].content = c]
           \/ \E c \in Seq(Blocks) : inode' = [inode EXCEPT ![i].content = c, ![i].stamp = @ + 1]
           \/ inode' = [inode EXCEPT ![i].synced = TRUE, ![i].stamp = @ + 1]
           \/ inode' = [inode EXCEPT ![i] = Touched(@)]
    PROVE  inode' \in [Importers -> Inode]
<1>1. inode \in [Importers -> Inode] /\ inode[i] \in Inode /\ << >> \in Seq(Blocks)
  BY DEF TypeOK
<1>2. ASSUME NEW k \in Inode, inode' = [inode EXCEPT ![i] = k]
      PROVE  inode' \in [Importers -> Inode]
  BY <1>1, <1>2
<1>3. ASSUME NEW c \in Seq(Blocks), inode' = [inode EXCEPT ![i].content = c]
      PROVE  inode' \in [Importers -> Inode]
  <2>1. [inode[i] EXCEPT !.content = c] \in Inode
    BY <1>1, InodeChanges
  <2> QED
    BY <1>2, <1>3, <2>1
<1>4. ASSUME NEW c \in Seq(Blocks),
             inode' = [inode EXCEPT ![i].content = c, ![i].stamp = @ + 1]
      PROVE  inode' \in [Importers -> Inode]
  <2>1. [inode[i] EXCEPT !.content = c, !.stamp = @ + 1] \in Inode
    BY <1>1, InodeChanges
  <2>2. inode' = [inode EXCEPT ![i] = [inode[i] EXCEPT !.content = c, !.stamp = @ + 1]]
    BY <1>4
  <2> QED
    BY <1>2, <2>1, <2>2
<1>5. CASE inode' = [inode EXCEPT ![i].synced = TRUE, ![i].stamp = @ + 1]
  <2>1. [inode[i] EXCEPT !.synced = TRUE, !.stamp = @ + 1] \in Inode
    BY <1>1, InodeChanges
  <2>2. inode' = [inode EXCEPT ![i] = [inode[i] EXCEPT !.synced = TRUE, !.stamp = @ + 1]]
    BY <1>5
  <2> QED
    BY <1>2, <2>1, <2>2
<1>6. CASE inode' = [inode EXCEPT ![i] = Touched(@)]
  <2>1. Touched(inode[i]) \in Inode
    BY <1>1, InodeChanges
  <2> QED
    BY <1>2, <1>6, <2>1
<1> QED
  BY <1>3, <1>4, <1>5, <1>6

LEMMA ImportStepTypes ==
    ASSUME TypeOK, VaultInvariant, NEW i \in Importers, ImportStep(i)
    PROVE  TypeOK'
<1>1. i \in Readers /\ source \in File /\ source.content \in Seq(Blocks) /\ Limit \in Nat
      /\ inode[i].content \in Seq(Blocks) /\ import[i].created \in BOOLEAN
  BY ContentsAreBlocks, AssetVaultAssumption DEF TypeOK, Readers, Import, Inode
<1>2. /\ import[i].at = "copying" => Len(inode[i].content) <= Limit
      /\ import[i].at \in Sealed \/ import[i].created => import[i].digest \in Digests
      /\ import[i].at = "reading" => read[i].file \in Importers
  BY DEF VaultInvariant, CopyIsPrefix, SealedIsOpened, ReadersHaveFiles
<1>3. CASE OpenSource(i)
  BY <1>3, ImportTypes DEF OpenSource, TypeOK, vault
<1>4. CASE CopyBlock(i)
  <2> DEFINE c == Append(inode[i].content, source.content[Len(inode[i].content) + 1])
  <2>1. c \in Seq(Blocks)
    BY <1>1, <1>4 DEF CopyBlock
  <2>2. inode' = [inode EXCEPT ![i].content = c]
    BY <1>4 DEF CopyBlock
  <2> HIDE DEF c
  <2>3. inode' \in [Importers -> Inode]
    BY <2>1, <2>2, InodeTypes
  <2> QED
    BY <1>4, <2>3 DEF CopyBlock, TypeOK
<1>5. CASE SealCopy(i)
  <2>1. Len(source.content) # 0
    BY ContentsAreBlocks DEF TypeOK
  <2>2. inode[i].content \in Digests
    BY <1>1, <1>2, <1>5, <2>1, DigestsAreBlocks DEF SealCopy
  <2>3. import' \in [Importers -> Import]
    BY <1>5, <2>2, ImportTypes DEF SealCopy
  <2>4. inode' \in [Importers -> Inode]
    BY <1>5, InodeTypes DEF SealCopy
  <2> QED
    BY <1>5, <2>3, <2>4 DEF SealCopy, TypeOK
<1>6. CASE Link(i)
  <2>1. import' \in [Importers -> Import]
    BY <1>6, ImportTypes DEF Link
  <2>2. inode' \in [Importers -> Inode]
    <3>1. inode' = inode \/ inode' = [inode EXCEPT ![i] = Touched(@)]
      BY <1>6 DEF Link
    <3> QED
      BY <3>1, InodeTypes DEF TypeOK
  <2>3. entries' \in [Digests -> Importers \cup {NoFile}]
    BY <1>6 DEF Link, TypeOK
  <2> QED
    BY <1>6, <2>1, <2>2, <2>3 DEF Link, TypeOK
<1>7. CASE OpenEntry(i)
  <2>1. import[i].digest \in Digests
    BY <1>2, <1>7 DEF OpenEntry, Sealed
  <2>2. read' \in [Readers -> Descriptor]
    BY <1>1, <1>7, <2>1, ReadingTypes DEF OpenEntry
  <2>3. import' \in [Importers -> Import]
    BY <1>7, ImportTypes DEF OpenEntry
  <2> QED
    BY <1>7, <2>2, <2>3 DEF OpenEntry, TypeOK, vault
<1>8. CASE ReadEntry(i)
  <2>1. read' \in [Readers -> Descriptor]
    BY <1>1, <1>2, <1>8, ReadingTypes DEF ReadEntry
  <2> QED
    BY <1>8, <2>1 DEF ReadEntry, TypeOK, vault
<1>9. CASE AcceptEntry(i) \/ ImportFails(i) \/ ImporterStops(i)
  <2>1. read' \in [Readers -> Descriptor]
    BY <1>1, <1>9, ReadingTypes DEF AcceptEntry, ImportFails, ImporterStops
  <2>2. import' \in [Importers -> Import]
    BY <1>9, ImportTypes DEF AcceptEntry, ImportFails, ImporterStops
  <2> QED
    BY <1>9, <2>1, <2>2 DEF AcceptEntry, ImportFails, ImporterStops, TypeOK, vault
<1>10. CASE RemoveTemp(i)
  <2>1. import' \in [Importers -> Import]
    BY <1>10, ImportTypes DEF RemoveTemp
  <2>2. inode' \in [Importers -> Inode]
    BY <1>10, InodeTypes DEF RemoveTemp
  <2> QED
    BY <1>10, <2>1, <2>2 DEF RemoveTemp, TypeOK
<1>11. CASE ReturnRecord(i)
  <2>1. import[i].digest \in Digests
    BY <1>2, <1>11 DEF ReturnRecord, Sealed
  <2>2. import' \in [Importers -> Import]
    BY <1>11, ImportTypes DEF ReturnRecord
  <2> QED
    BY <1>11, <2>1, <2>2 DEF ReturnRecord, TypeOK
<1>12. CASE Undo(i)
  <2>1. import' \in [Importers -> Import]
    BY <1>12, ImportTypes DEF Undo
  <2>2. inode' \in [Importers -> Inode]
    <3>1. inode' = inode \/ inode' = [inode EXCEPT ![i] = Touched(@)]
      BY <1>12 DEF Undo
    <3> QED
      BY <3>1, InodeTypes DEF TypeOK
  <2>3. /\ entries' \in [Digests -> Importers \cup {NoFile}]
        /\ durable' \subseteq Digests /\ withdrawn' \subseteq Importers
    BY <1>12 DEF Undo, TypeOK
  <2> QED
    BY <1>12, <2>1, <2>2, <2>3 DEF Undo, TypeOK
<1>13. CASE MakeShelf(i)
  <2>1. shelf' \in [Shelves -> {"none", "made", "kept"}]
    BY <1>13 DEF MakeShelf, TypeOK
  <2> QED
    BY <1>13, <2>1 DEF MakeShelf, TypeOK
<1> QED
  BY <1>3, <1>4, <1>5, <1>6, <1>7, <1>8, <1>9, <1>10, <1>11, <1>12, <1>13 DEF ImportStep

\* Changes of one execution.
LEMMA JobTypes ==
    ASSUME NEW e \in Executions, job \in [Executions -> Job], ExecutionStep(e),
           rows \subseteq Digests, read[e].got \in Seq(Blocks)
    PROVE  job' \in [Executions -> Job]
<1> DEFINE j == job[e]
<1>1. ASSUME NEW k \in Job, job' = [job EXCEPT ![e] = k]
      PROVE  job' \in [Executions -> Job]
  BY <1>1
<1>2. j \in Job
  OBVIOUS
<1>3. CASE BeginExecution(e)
  <2>1. PICK d \in rows :
           job' = [job EXCEPT ![e].at = "entering", ![e].thread = "opening", ![e].approved = d]
    BY <1>3 DEF BeginExecution
  <2>2. [j EXCEPT !.at = "entering", !.thread = "opening", !.approved = d] \in Job
    BY <1>2 DEF Job
  <2> QED
    BY <1>1, <2>1, <2>2
<1>4. CASE OpenApproved(e)
  <2>1. [j EXCEPT !.thread = "copying", !.directory = TRUE] \in Job
    BY <1>2 DEF Job
  <2> QED
    BY <1>1, <1>4, <2>1 DEF OpenApproved
<1>5. CASE SealApproved(e)
  <2>1. [j EXCEPT !.thread = "made", !.copy = read[e].got] \in Job
    BY <1>2 DEF Job
  <2> QED
    BY <1>1, <1>5, <2>1 DEF SealApproved
<1>6. ASSUME NEW removed \in BOOLEAN, CopyFails(e, removed) \/ Leave(e, removed)
      PROVE  job' \in [Executions -> Job]
  <2>1. [j EXCEPT !.thread = "failed", !.directory = j.directory /\ ~removed,
                  !.stuck = j.directory /\ ~removed] \in Job
    BY <1>2 DEF Job
  <2>2. [j EXCEPT !.at = "over", !.directory = ~removed, !.stuck = ~removed] \in Job
    BY <1>2 DEF Job
  <2>3. \/ job' = [job EXCEPT ![e] = [j EXCEPT !.thread = "failed",
                        !.directory = j.directory /\ ~removed, !.stuck = j.directory /\ ~removed]]
        \/ job' = [job EXCEPT ![e] =
                        [j EXCEPT !.at = "over", !.directory = ~removed, !.stuck = ~removed]]
    <3>1. CASE CopyFails(e, removed)
      BY <3>1 DEF CopyFails
    <3>2. CASE Leave(e, removed)
      BY <3>2 DEF Leave
    <3> QED
      BY <1>6, <3>1, <3>2
  <2> HIDE DEF j
  <2> QED
    BY <1>1, <2>1, <2>2, <2>3
<1>7. CASE Cancel(e)
  <2>1. [j EXCEPT !.cancelled = TRUE, !.at = IF @ = "publishing" THEN "leaving" ELSE @] \in Job
    BY <1>2 DEF Job
  <2> QED
    BY <1>1, <1>7, <2>1 DEF Cancel
<1>8. CASE EndEntering(e) \/ EndPublishing(e)
  <2>1. \A at \in {"over", "leaving", "publishing"} : [j EXCEPT !.at = at] \in Job
    BY <1>2 DEF Job
  <2> QED
    BY <1>1, <1>8, <2>1 DEF EndEntering, EndPublishing
<1>9. CASE CopyApproved(e)
  BY <1>9 DEF CopyApproved
<1> QED
  BY <1>3, <1>4, <1>5, <1>6, <1>7, <1>8, <1>9 DEF ExecutionStep

LEMMA ExecutionStepTypes ==
    ASSUME TypeOK, VaultInvariant, NEW e \in Executions, ExecutionStep(e)
    PROVE  TypeOK'
<1>1. e \in Readers /\ job \in [Executions -> Job] /\ rows \subseteq Digests
      /\ read[e].got \in Seq(Blocks) /\ job[e].directory \in BOOLEAN
      /\ (job[e].thread = "copying" => read[e].file \in Importers)
      /\ (job[e].thread = "opening" => job[e].approved \in Digests)
  BY DEF TypeOK, Readers, Descriptor, Job, VaultInvariant, ReadersHaveFiles, CopyIsTracked, Tracked
<1>2. UNCHANGED <<source, vault, import, rows>>
  BY DEF ExecutionStep, BeginExecution, OpenApproved, CopyApproved, SealApproved, CopyFails,
         Leave, Cancel, EndEntering, EndPublishing
<1>3. read' \in [Readers -> Descriptor]
  <2>1. \/ read' = read
        \/ Opens(e, job[e].approved) /\ job[e].thread = "opening"
        \/ Reads(e) /\ job[e].thread = "copying"
        \/ read' = [read EXCEPT ![e] = Closed]
    BY DEF ExecutionStep, BeginExecution, OpenApproved, CopyApproved, SealApproved, CopyFails,
           Leave, Cancel, EndEntering, EndPublishing
  <2> QED
    BY <1>1, <2>1, ReadingTypes DEF TypeOK
<1>4. job' \in [Executions -> Job]
  BY <1>1, JobTypes DEF TypeOK
<1> QED
  BY <1>2, <1>3, <1>4 DEF TypeOK, vault

LEMMA SurroundingsTypes ==
    ASSUME TypeOK, EditSource \/ PowerFails \/ \E d \in Digests : DamageEntry(d)
    PROVE  TypeOK'
<1>1. CASE EditSource
  <2>1. PICK c \in Contents : source' = [content |-> c, stamp |-> source.stamp + 1]
    BY <1>1 DEF EditSource
  <2>2. source' \in File /\ source'.content \in Contents
    BY <2>1, ContentsAreBlocks DEF TypeOK, File
  <2> QED
    BY <1>1, <2>2 DEF EditSource, TypeOK, vault
<1>2. ASSUME NEW d \in Digests, DamageEntry(d)
      PROVE  TypeOK'
  <2>1. entries[d] \in Importers
    BY <1>2 DEF DamageEntry, TypeOK
  <2>2. inode' \in [Importers -> Inode]
    <3>1. \/ inode' = [inode EXCEPT ![entries[d]] = Touched(@)]
          \/ \E c \in Seq(Blocks) :
                inode' = [inode EXCEPT ![entries[d]].content = c, ![entries[d]].stamp = @ + 1]
      BY <1>2, ContentsAreBlocks DEF DamageEntry
    <3> QED
      BY <2>1, <3>1, InodeTypes
  <2>3. /\ entries' \in [Digests -> Importers \cup {NoFile}]
        /\ durable' \subseteq Digests /\ spoiled' \subseteq Importers
    <3>1. entries' \in {entries, [entries EXCEPT ![d] = NoFile]} /\ durable' \in {durable, durable \ {d}}
      BY <1>2 DEF DamageEntry
    <3>2. spoiled' = spoiled \cup {entries[d]}
      BY <1>2 DEF DamageEntry
    <3> QED
      BY <2>1, <3>1, <3>2 DEF TypeOK
  <2> QED
    BY <1>2, <2>2, <2>3, SMTT(30) DEF DamageEntry, TypeOK
<1>3. CASE PowerFails
  <2>0. PICK gone \in SUBSET {s \in Shelves : shelf[s] = "made"},
             lost \in SUBSET {d \in Digests \ durable : entries[d] /= NoFile} :
          /\ entries' = [d \in Digests |->
                            IF d \in lost \cup Below(gone) THEN NoFile ELSE entries[d]]
          /\ shelf' = [s \in Shelves |-> IF s \in gone THEN "none"
                                         ELSE IF shelf[s] = "made" THEN "kept" ELSE shelf[s]]
          /\ swept' = swept \cup Below(gone)
    BY <1>3 DEF PowerFails
  <2>1. /\ entries' \in [Digests -> Importers \cup {NoFile}] /\ durable' \subseteq Digests
        /\ shelf' \in [Shelves -> {"none", "made", "kept"}] /\ swept' \subseteq Digests
    <3>1. entries' \in [Digests -> Importers \cup {NoFile}]
      BY <2>0 DEF TypeOK
    <3>2. durable' \subseteq Digests
      BY <1>3 DEF PowerFails
    <3>3. shelf' \in [Shelves -> {"none", "made", "kept"}]
      BY <2>0 DEF TypeOK
    <3>4. swept' \subseteq Digests
      BY <2>0 DEF TypeOK, Below
    <3> QED
      BY <3>1, <3>2, <3>3, <3>4
  <2>2. ASSUME NEW i \in Importers
        PROVE  /\ inode'[i] \in Inode
               /\ import'[i] \in Import
    <3>1. inode[i] \in Inode /\ import[i] \in Import
      BY DEF TypeOK
    <3>2. [inode[i] EXCEPT !.content = << >>] \in Inode
      <4>1. << >> \in Seq(Blocks)
        OBVIOUS
      <4> QED
        BY <3>1, <4>1, InodeChanges
    <3>3. \A at \in {"returned", "over"} : [import[i] EXCEPT !.at = at] \in Import
      BY <3>1 DEF Import
    <3>4. /\ inode'[i] = inode[i] \/ inode'[i] = [inode[i] EXCEPT !.content = << >>]
          /\ \/ import'[i] = import[i]
             \/ \E at \in {"returned", "over"} : import'[i] = [import[i] EXCEPT !.at = at]
      BY <1>3 DEF PowerFails
    <3> QED
      BY <3>1, <3>2, <3>3, <3>4
  <2>3. /\ inode' \in [Importers -> Inode]
        /\ import' \in [Importers -> Import]
    BY <1>3, <2>2 DEF PowerFails
  <2>4. read' \in [Readers -> Descriptor]
    <3>1. Closed \in Descriptor
      BY DEF Closed, Descriptor
    <3> QED
      BY <1>3, <3>1 DEF PowerFails
  <2>5. ASSUME NEW e \in Executions
        PROVE  job'[e] \in Job
    <3>1. job[e] \in Job
      BY DEF TypeOK
    <3>2. [job[e] EXCEPT !.at = "over", !.thread = "none", !.stuck = @ \/ job[e].directory] \in Job
      BY <3>1 DEF Job
    <3> QED
      BY <1>3, <3>1, <3>2 DEF PowerFails
  <2>6. job' \in [Executions -> Job]
    BY <1>3, <2>5 DEF PowerFails
  <2> QED
    BY <1>3, <2>1, <2>3, <2>4, <2>6 DEF PowerFails, TypeOK
<1> QED
  BY <1>1, <1>2, <1>3

LEMMA StepTypes == TypeOK /\ VaultInvariant /\ [Next]_vars => TypeOK'
<1> SUFFICES ASSUME TypeOK, VaultInvariant, [Next]_vars PROVE TypeOK'
  OBVIOUS
<1>1. CASE UNCHANGED vars
  BY <1>1 DEF vars, TypeOK
<1> QED
  BY <1>1, ImportStepTypes, ExecutionStepTypes, SurroundingsTypes DEF Next

LEMMA InitTypes == Init => TypeOK
<1> SUFFICES ASSUME Init PROVE TypeOK
  OBVIOUS
<1>1. << >> \in Seq(Blocks)
  OBVIOUS
<1>2. source \in File /\ source.content \in Contents
  BY ContentsAreBlocks DEF Init, File
<1>3. import \in [Importers -> Import]
  BY <1>1 DEF Init, Import, File
<1>4. job \in [Executions -> Job]
  BY <1>1 DEF Init, Job
<1>5. read \in [Readers -> Descriptor]
  BY <1>1 DEF Init, Closed, Descriptor
<1>6. inode \in [Importers -> Inode]
  BY <1>1 DEF Init, Inode
<1> QED
  BY <1>2, <1>3, <1>4, <1>5, <1>6 DEF Init, TypeOK

-----------------------------------------------------------------------------
(* What one step of an import leaves alone.                                  *)

\* The steps of an import that touch files; the other makes a directory.
FileStep(i) ==
    \/ OpenSource(i) \/ CopyBlock(i) \/ SealCopy(i) \/ Link(i)
    \/ OpenEntry(i) \/ ReadEntry(i) \/ AcceptEntry(i)
    \/ RemoveTemp(i) \/ ReturnRecord(i)
    \/ ImportFails(i) \/ Undo(i) \/ ImporterStops(i)


LEMMA ImportFrame ==
    ASSUME TypeOK, NEW i \in Importers, FileStep(i)
    PROVE  /\ source' = source /\ job' = job /\ spoiled' = spoiled
           /\ \A k \in Importers \ {i} : import'[k] = import[k] /\ inode'[k] = inode[k]
           /\ \A r \in Readers \ {i} : read'[r] = read[r]
<1>1. /\ import \in [Importers -> Import] /\ inode \in [Importers -> Inode]
      /\ read \in [Readers -> Descriptor]
  BY DEF TypeOK
<1>2. source' = source /\ job' = job /\ spoiled' = spoiled
  BY DEF FileStep, OpenSource, CopyBlock, SealCopy, Link, OpenEntry, ReadEntry, AcceptEntry,
         RemoveTemp, ReturnRecord, ImportFails, Undo, ImporterStops, vault
<1>3. \A k \in Importers \ {i} : import'[k] = import[k]
  BY <1>1 DEF FileStep, OpenSource, CopyBlock, SealCopy, Link, OpenEntry, ReadEntry,
         AcceptEntry, RemoveTemp, ReturnRecord, ImportFails, Undo, ImporterStops, Steps
<1>4. \A k \in Importers \ {i} : inode'[k] = inode[k]
  BY <1>1 DEF FileStep, OpenSource, CopyBlock, SealCopy, Link, OpenEntry, ReadEntry,
         AcceptEntry, RemoveTemp, ReturnRecord, ImportFails, Undo, ImporterStops, vault
<1>5. \A r \in Readers \ {i} : read'[r] = read[r]
  BY <1>1 DEF FileStep, OpenSource, CopyBlock, SealCopy, Link, OpenEntry, ReadEntry,
         AcceptEntry, RemoveTemp, ReturnRecord, ImportFails, Undo, ImporterStops, Opens, Reads
<1> QED
  BY <1>2, <1>3, <1>4, <1>5

\* The steps an import makes after it has sealed its copy keep what it sealed.
Later(i) ==
    \/ Link(i) \/ OpenEntry(i) \/ ReadEntry(i) \/ AcceptEntry(i) \/ RemoveTemp(i)
    \/ ReturnRecord(i) \/ ImportFails(i) \/ Undo(i) \/ ImporterStops(i)

LEMMA LaterKeeps ==
    ASSUME TypeOK, NEW i \in Importers, Later(i)
    PROVE  /\ import'[i].digest = import[i].digest /\ import'[i].opened = import[i].opened
           /\ inode'[i].content = inode[i].content /\ inode'[i].synced = inode[i].synced
           /\ import[i].created => import'[i].created
           /\ import'[i].created => import[i].created \/ import[i].at = "linking"
           /\ \/ import'[i].at \in Sealed \ {"linking"} /\ import[i].at \in Sealed
              \/ import'[i].at \in {"over", "undoing"}
<1>1. import \in [Importers -> Import] /\ inode \in [Importers -> Inode]
  BY DEF TypeOK
<1>2. /\ import'[i].digest = import[i].digest /\ import'[i].opened = import[i].opened
      /\ import[i].created => import'[i].created
      /\ import'[i].created => import[i].created \/ import[i].at = "linking"
  BY <1>1 DEF Later, Link, OpenEntry, ReadEntry, AcceptEntry, RemoveTemp, ReturnRecord,
              ImportFails, Undo, ImporterStops, Steps, Import
<1>3. \/ import'[i].at \in Sealed \ {"linking"} /\ import[i].at \in Sealed
      \/ import'[i].at \in {"over", "undoing"}
  BY <1>1 DEF Later, Link, OpenEntry, ReadEntry, AcceptEntry, RemoveTemp, ReturnRecord,
              ImportFails, Undo, ImporterStops, Steps, Import, Sealed
<1>4. inode' = inode \/ inode' = [inode EXCEPT ![i] = Touched(@)]
  BY DEF Later, Link, OpenEntry, ReadEntry, AcceptEntry, RemoveTemp, ReturnRecord,
         ImportFails, Undo, ImporterStops, vault
<1>5. inode'[i].content = inode[i].content /\ inode'[i].synced = inode[i].synced
  BY <1>1, <1>4 DEF Touched, Inode
<1> QED
  BY <1>2, <1>3, <1>5

\* Before that an import has made no entry.
LEMMA EarlierSteps ==
    ASSUME TypeOK, VaultInvariant, NEW i \in Importers, OpenSource(i) \/ CopyBlock(i) \/ SealCopy(i)
    PROVE  /\ ~import[i].created /\ ~import'[i].created
           /\ \A d \in Digests : entries[d] # i
           /\ i \notin spoiled \cup withdrawn
           /\ UNCHANGED <<entries, durable, rows, spoiled, withdrawn>>
<1>1. import[i].at \in {"idle", "copying"}
  BY DEF OpenSource, CopyBlock, SealCopy
<1>2. ~import[i].created
  BY <1>1 DEF VaultInvariant, SealedIsOpened
<1>3. (\A d \in Digests : entries[d] # i) /\ i \notin spoiled \cup withdrawn
  BY <1>2, AssetVaultAssumption DEF VaultInvariant, EntriesAreSealed, OnlyEntriesAreLost
<1>4. import'[i].created = import[i].created
  BY DEF OpenSource, CopyBlock, SealCopy, Steps, TypeOK, Import
<1>5. UNCHANGED <<entries, durable, rows, spoiled, withdrawn>>
  BY DEF OpenSource, CopyBlock, SealCopy, vault
<1> QED
  BY <1>2, <1>3, <1>4, <1>5

LEMMA EarlierOrLater ==
    ASSUME NEW i \in Importers, FileStep(i)
    PROVE  (OpenSource(i) \/ CopyBlock(i) \/ SealCopy(i)) \/ Later(i)
BY DEF FileStep, Later

-----------------------------------------------------------------------------
(* One import keeps the invariant.                                           *)

\* A block is appended only where the source as it was opened has it.
LEMMA BlockIsOfSource ==
    ASSUME NEW B, NEW s \in Seq(B), NEW c \in Seq(B), Len(c) < Len(s),
           \A n \in 1..Len(c) : c[n] = s[n]
    PROVE  /\ Len(Append(c, s[Len(c) + 1])) = Len(c) + 1
           /\ \A n \in 1..(Len(c) + 1) : Append(c, s[Len(c) + 1])[n] = s[n]
<1> DEFINE b == s[Len(c) + 1]
<1>1. b \in B /\ Len(c) \in Nat
  OBVIOUS
<1>2. Len(Append(c, b)) = Len(c) + 1 /\ Append(c, b)[Len(c) + 1] = b
      /\ \A n \in 1..Len(c) : Append(c, b)[n] = c[n]
  <2> HIDE DEF b
  <2> QED
    BY <1>1
<1> QED
  BY <1>1, <1>2

LEMMA ImportKeepsPrefix ==
    ASSUME TypeOK, VaultInvariant, NEW i \in Importers, FileStep(i)
    PROVE  CopyIsPrefix'
<1>1. ASSUME NEW k \in Importers \ {i}
      PROVE  /\ import'[k] = import[k] /\ inode'[k] = inode[k] /\ source' = source
  BY ImportFrame
<1>2. /\ import \in [Importers -> Import] /\ inode[i].content \in Seq(Blocks)
      /\ source.content \in Seq(Blocks) /\ source.stamp \in Nat /\ Limit \in Nat
      /\ inode \in [Importers -> Inode]
  BY AssetVaultAssumption, ContentsAreBlocks DEF TypeOK, Inode, File
<1>3. /\ import[i].at = "idle" => inode[i].content = << >>
      /\ import[i].at = "copying" =>
            /\ Len(inode[i].content) <= Limit
            /\ import[i].opened.stamp <= source.stamp
            /\ import[i].opened.stamp = source.stamp =>
                  /\ import[i].opened = source
                  /\ Len(inode[i].content) <= Len(source.content)
                  /\ \A n \in 1..Len(inode[i].content) :
                        inode[i].content[n] = source.content[n]
  BY DEF VaultInvariant, CopyIsPrefix
<1>4. CASE OpenSource(i)
  <2>1. inode' = inode /\ source' = source /\ inode[i].content = << >>
    BY <1>3, <1>4 DEF OpenSource, vault
  <2>2. \/ import'[i].at = "over"
        \/ import'[i].at = "copying" /\ import'[i].opened = source
    BY <1>2, <1>4 DEF OpenSource, Steps, Import
  <2> QED
    BY <1>1, <1>2, <2>1, <2>2 DEF CopyIsPrefix, VaultInvariant
<1>5. CASE CopyBlock(i)
  <2> DEFINE c == inode[i].content
             d == Append(c, source.content[Len(c) + 1])
  <2>1. /\ import[i].at = "copying" /\ import' = import /\ source' = source
        /\ Len(c) < Len(source.content) /\ Len(c) < Limit
    BY <1>5 DEF CopyBlock
  <2>2. inode'[i].content = d
    BY <1>2, <1>5 DEF CopyBlock, Inode
  <2>3. Len(d) = Len(c) + 1
    BY <1>2, <2>1
  <2>4. ASSUME import[i].opened.stamp = source.stamp
        PROVE  \A n \in 1..(Len(c) + 1) : d[n] = source.content[n]
    BY <1>2, <1>3, <2>1, <2>4, BlockIsOfSource
  <2>5. Len(c) \in Nat /\ Len(source.content) \in Nat
    BY <1>2
  <2> HIDE DEF c, d
  <2>6. Len(c) + 1 <= Limit /\ Len(c) + 1 <= Len(source.content)
    BY <1>2, <2>1, <2>5
  <2> QED
    BY <1>1, <1>3, <2>1, <2>2, <2>3, <2>4, <2>6 DEF CopyIsPrefix, VaultInvariant
<1>6. CASE SealCopy(i)
  <2>1. import'[i].at = "linking"
    BY <1>2, <1>6 DEF SealCopy, Import
  <2> QED
    BY <1>1, <2>1 DEF CopyIsPrefix, VaultInvariant
<1>7. CASE Later(i)
  <2>1. import'[i].at \notin {"idle", "copying"}
    BY <1>7, LaterKeeps DEF Sealed
  <2> QED
    BY <1>1, <2>1 DEF CopyIsPrefix, VaultInvariant
<1> QED
  BY <1>4, <1>5, <1>6, <1>7, EarlierOrLater

LEMMA ImportKeepsSealed ==
    ASSUME TypeOK, VaultInvariant, NEW i \in Importers, FileStep(i)
    PROVE  SealedIsOpened'
<1>1. ASSUME NEW k \in Importers \ {i}
      PROVE  import'[k] = import[k] /\ inode'[k] = inode[k]
  BY ImportFrame
<1>2. /\ import \in [Importers -> Import] /\ inode[i].content \in Seq(Blocks)
      /\ source.content \in Seq(Blocks) /\ Len(source.content) # 0
      /\ inode \in [Importers -> Inode]
  BY ContentsAreBlocks DEF TypeOK, Inode
<1>3. CASE OpenSource(i) \/ CopyBlock(i)
  <2>1. import'[i].at \in {"over", "copying"} /\ ~import'[i].created
    <3>1. import'[i].at \in {"over", "copying"}
      BY <1>2, <1>3 DEF OpenSource, CopyBlock, Steps, Import
    <3> QED
      BY <1>3, <3>1, EarlierSteps
  <2> QED
    BY <1>1, <2>1 DEF SealedIsOpened, VaultInvariant, Sealed
<1>4. CASE SealCopy(i)
  <2> DEFINE c == inode[i].content
  <2>1. /\ import[i].at = "copying" /\ Len(c) >= Len(source.content)
        /\ Len(c) = Len(import[i].opened.content) /\ source.stamp = import[i].opened.stamp
    BY <1>4 DEF SealCopy, Unchanged
  <2>2. /\ import[i].opened = source /\ Len(c) <= Limit
        /\ Len(c) <= Len(source.content)
        /\ \A n \in 1..Len(c) : c[n] = source.content[n]
    BY <2>1 DEF VaultInvariant, CopyIsPrefix
  <2>3. c = import[i].opened.content
    <3>1. Len(c) = Len(source.content) /\ \A n \in 1..Len(c) : c[n] = source.content[n]
      BY <2>1, <2>2
    <3> QED
      BY <1>2, <2>2, <3>1
  <2>4. c \in Digests
    BY <1>2, <2>1, <2>2, DigestsAreBlocks
  <2>5. /\ import'[i].at = "linking" /\ import'[i].digest = c
        /\ import'[i].opened = import[i].opened
        /\ inode'[i].content = c /\ inode'[i].synced
    BY <1>2, <1>4 DEF SealCopy, Import, Inode
  <2>6. ~import'[i].created
    BY <1>4, EarlierSteps
  <2> QED
    BY <1>1, <2>3, <2>4, <2>5, <2>6 DEF SealedIsOpened, VaultInvariant
<1>5. CASE Later(i)
  <2>1. /\ import[i].at \in Sealed => import[i].digest = import[i].opened.content
        /\ import[i].at \in Sealed \/ import[i].created => import[i].digest \in Digests
    BY DEF VaultInvariant, SealedIsOpened
  <2>2. "linking" \in Sealed /\ "idle" \notin Sealed /\ "copying" \notin Sealed
        /\ "over" \notin Sealed /\ "undoing" \notin Sealed
    BY DEF Sealed
  <2> QED
    BY <1>1, <1>5, <2>1, <2>2, LaterKeeps DEF SealedIsOpened, VaultInvariant
<1> QED
  BY <1>3, <1>4, <1>5, EarlierOrLater

LEMMA ImportKeepsEntries ==
    ASSUME TypeOK, VaultInvariant, NEW i \in Importers, FileStep(i)
    PROVE  EntriesAreSealed'
<1>1. /\ spoiled' = spoiled
      /\ \A k \in Importers \ {i} : import'[k] = import[k] /\ inode'[k] = inode[k]
  BY ImportFrame
<1>2. entries \in [Digests -> Importers \cup {NoFile}] /\ NoFile \notin Importers
  BY AssetVaultAssumption DEF TypeOK
<1>3. SUFFICES ASSUME NEW d \in Digests, entries'[d] # NoFile
               PROVE  /\ import'[entries'[d]].created /\ import'[entries'[d]].digest = d
                      /\ entries'[d] \notin spoiled' =>
                            inode'[entries'[d]].content = d /\ inode'[entries'[d]].synced
  BY DEF EntriesAreSealed
<1>4. entries[d] # NoFile =>
        /\ import[entries[d]].created /\ import[entries[d]].digest = d
        /\ entries[d] \notin spoiled =>
              inode[entries[d]].content = d /\ inode[entries[d]].synced
  BY DEF VaultInvariant, EntriesAreSealed
<1>5. CASE OpenSource(i) \/ CopyBlock(i) \/ SealCopy(i)
  <2>1. entries' = entries /\ entries[d] \in Importers \ {i}
    BY <1>2, <1>3, <1>5, EarlierSteps
  <2> QED
    BY <1>1, <1>3, <1>4, <2>1
<1>6. CASE Later(i)
  <2>1. ASSUME entries'[d] = entries[d]
        PROVE  /\ import'[entries'[d]].created /\ import'[entries'[d]].digest = d
               /\ entries'[d] \notin spoiled' =>
                     inode'[entries'[d]].content = d /\ inode'[entries'[d]].synced
    BY <1>1, <1>2, <1>3, <1>4, <1>6, <2>1, LaterKeeps
  <2>2. ASSUME entries'[d] # entries[d]
        PROVE  Link(i) /\ d = import[i].digest /\ entries'[d] = i /\ import'[i].created
    <3>1. Link(i) /\ entries' = [entries EXCEPT ![import[i].digest] = i]
      BY <1>2, <1>3, <1>6, <2>2 DEF Later, Link, OpenEntry, ReadEntry, AcceptEntry, RemoveTemp,
         ReturnRecord, ImportFails, Undo, ImporterStops, vault
    <3>2. entries[import[i].digest] = NoFile
      BY <1>2, <3>1, <2>2, <1>3 DEF Link
    <3>3. import'[i].created
      BY <3>1, <3>2 DEF Link, TypeOK, Import
    <3> QED
      BY <1>2, <2>2, <3>1, <3>3
  <2>3. ASSUME entries'[d] # entries[d]
        PROVE  inode[i].content = d /\ inode[i].synced
    BY <2>2, <2>3 DEF Link, VaultInvariant, SealedIsOpened
  <2> QED
    BY <1>6, <2>1, <2>2, <2>3, LaterKeeps
<1> QED
  BY <1>5, <1>6, EarlierOrLater

LEMMA ImportKeepsLost ==
    ASSUME TypeOK, VaultInvariant, NEW i \in Importers, FileStep(i)
    PROVE  /\ OnlyEntriesAreLost'
           /\ \A d \in Digests : Lost(d) => Lost(d)'
<1>1. /\ spoiled' = spoiled /\ withdrawn \subseteq withdrawn'
      /\ withdrawn' # withdrawn => TakesBack(i) /\ withdrawn' = withdrawn \cup {i} /\ Undo(i)
  BY ImportFrame DEF FileStep, OpenSource, CopyBlock, SealCopy, Link, OpenEntry, ReadEntry,
     AcceptEntry, RemoveTemp, ReturnRecord, ImportFails, Undo, ImporterStops, vault
<1>2. spoiled \subseteq Importers /\ withdrawn \subseteq Importers
  BY DEF TypeOK
<1>3. \A k \in spoiled \cup withdrawn : import[k].created
  BY DEF VaultInvariant, OnlyEntriesAreLost
<1>4. \A k \in Importers : import[k].created =>
         import'[k].created /\ import'[k].digest = import[k].digest
  <2>1. \A k \in Importers \ {i} : import'[k] = import[k]
    BY ImportFrame
  <2>2. import[i].created => import'[i].created /\ import'[i].digest = import[i].digest
    BY EarlierOrLater, EarlierSteps, LaterKeeps
  <2> QED
    BY <2>1, <2>2
<1>5. TakesBack(i) => import[i].created
  BY DEF TakesBack
<1>6. OnlyEntriesAreLost'
  BY <1>1, <1>2, <1>3, <1>4, <1>5 DEF OnlyEntriesAreLost
<1>7. ASSUME NEW d \in Digests, Lost(d)
      PROVE  Lost(d)'
  <2>1. PICK k \in spoiled \cup withdrawn : import[k].digest = d
    BY <1>7 DEF Lost
  <2>2. k \in spoiled' \cup withdrawn' /\ import'[k].digest = d
    BY <1>1, <1>2, <1>3, <1>4, <2>1
  <2> QED
    BY <2>2 DEF Lost
<1> QED
  BY <1>6, <1>7

\* An entry goes only with the import that made it, which is then withdrawn.
LEMMA EntriesStay ==
    ASSUME TypeOK, VaultInvariant, NEW i \in Importers, FileStep(i), NEW d \in Digests
    PROVE  /\ entries[d] # NoFile => entries'[d] # NoFile \/ Lost(d)'
           /\ d \in durable => d \in durable' \/ Lost(d)'
<1>1. /\ entries \in [Digests -> Importers \cup {NoFile}] /\ NoFile \notin Importers
      /\ import \in [Importers -> Import]
  BY AssetVaultAssumption DEF TypeOK
<1>2. CASE ~Undo(i)
  BY <1>1, <1>2 DEF FileStep, OpenSource, CopyBlock, SealCopy, Link, OpenEntry, ReadEntry,
     AcceptEntry, RemoveTemp, ReturnRecord, ImportFails, ImporterStops, vault
<1>3. CASE Undo(i)
  <2>1. CASE ~TakesBack(i) \/ d # import[i].digest
    BY <1>1, <1>3, <2>1 DEF Undo
  <2>2. CASE TakesBack(i) /\ d = import[i].digest
    <3>1. i \in withdrawn'
      BY <1>3, <2>2 DEF Undo, TakesBack
    <3>2. import'[i].digest = d
      BY <1>1, <1>3, <2>2 DEF Undo, Import
    <3> QED
      BY <3>1, <3>2 DEF Lost
  <2> QED
    BY <2>1, <2>2
<1> QED
  BY <1>2, <1>3

LEMMA ImportKeepsRecords ==
    ASSUME TypeOK, VaultInvariant, NEW i \in Importers, FileStep(i)
    PROVE  HeldOrLost'
<1>1. /\ import \in [Importers -> Import] /\ rows \subseteq Digests
      /\ entries \in [Digests -> Importers \cup {NoFile}]
  BY DEF TypeOK
<1>2. /\ \A k \in Importers : import[k].at \in Holding =>
            entries[import[k].digest] # NoFile \/ Lost(import[k].digest)
      /\ \A d \in rows : (entries[d] # NoFile /\ d \in durable) \/ Lost(d) \/ d \in swept
      /\ \A k \in Importers : import[k].at \in Holding \cup {"opening"} =>
            import[k].digest \in Digests
  BY DEF VaultInvariant, HeldOrLost, SealedIsOpened, Sealed, Holding
<1>3. ASSUME NEW d \in Digests, entries[d] # NoFile \/ Lost(d)
      PROVE  entries'[d] # NoFile \/ Lost(d)'
  BY <1>3, EntriesStay, ImportKeepsLost
<1>4. ASSUME NEW d \in Digests, (entries[d] # NoFile /\ d \in durable) \/ Lost(d)
      PROVE  (entries'[d] # NoFile /\ d \in durable') \/ Lost(d)'
  BY <1>4, EntriesStay, ImportKeepsLost
<1>5. ASSUME NEW k \in Importers, import'[k].at \in Holding
      PROVE  entries'[import'[k].digest] # NoFile \/ Lost(import[k].digest)'
  <2>1. CASE k # i
    <3>1. import'[k] = import[k]
      BY <2>1, ImportFrame
    <3>2. PICK d \in Digests : d = import[k].digest /\ (entries[d] # NoFile \/ Lost(d))
      BY <1>2, <1>5, <3>1
    <3>3. entries'[d] # NoFile \/ Lost(d)'
      BY <1>3, <3>2
    <3> QED
      BY <3>1, <3>2, <3>3 DEF Lost
  <2>2. CASE k = i
    <3>1. import[i].at \in Holding \/ OpenEntry(i)
      BY <1>1, <1>5, <2>2 DEF Holding, FileStep, OpenSource, CopyBlock, SealCopy, Link,
         ReadEntry, AcceptEntry, RemoveTemp, ReturnRecord, ImportFails, Undo, ImporterStops,
         Steps, Import
    <3>2. PICK d \in Digests : d = import[i].digest /\ (entries[d] # NoFile \/ Lost(d))
      BY <1>2, <3>1 DEF OpenEntry, Opens
    <3>3. import'[i].digest = import[i].digest
      <4>1. Later(i)
        BY <3>1, EarlierOrLater DEF Holding, OpenSource, CopyBlock, SealCopy, Later
      <4> QED
        BY <4>1, LaterKeeps
    <3>4. entries'[d] # NoFile \/ Lost(d)'
      BY <1>3, <3>2
    <3> QED
      BY <2>2, <3>2, <3>3, <3>4 DEF Lost
  <2> QED
    BY <2>1, <2>2
<1>6. ASSUME NEW d \in rows'
      PROVE  (entries'[d] # NoFile /\ d \in durable') \/ Lost(d)' \/ d \in swept'
  <2>1. CASE ReturnRecord(i) /\ d = import[i].digest
    <3>1. d \in Digests /\ (entries[d] # NoFile \/ Lost(d))
      BY <1>2, <2>1 DEF ReturnRecord, Holding
    <3>2. entries' = entries /\ (entries[d] # NoFile => d \in durable')
      BY <2>1, <3>1 DEF ReturnRecord
    <3> QED
      BY <3>1, <3>2, ImportKeepsLost
  <2>2. CASE ~(ReturnRecord(i) /\ d = import[i].digest)
    <3>1. d \in rows /\ (d \in swept => d \in swept')
      BY <1>6, <2>2 DEF FileStep, OpenSource, CopyBlock, SealCopy, Link, OpenEntry, ReadEntry,
         AcceptEntry, RemoveTemp, ReturnRecord, ImportFails, Undo, ImporterStops, vault
    <3> QED
      BY <1>1, <1>2, <1>4, <3>1
  <2> QED
    BY <2>1, <2>2
<1> QED
  BY <1>5, <1>6 DEF HeldOrLost

LEMMA ImportKeepsReaders ==
    ASSUME TypeOK, VaultInvariant, NEW i \in Importers, FileStep(i)
    PROVE  ReadersHaveFiles' /\ CopyIsTracked'
<1>1. /\ job' = job
      /\ \A k \in Importers \ {i} : import'[k] = import[k]
      /\ \A r \in Readers \ {i} : read'[r] = read[r]
  BY ImportFrame
<1>2. \A e \in Executions : e \in Readers \ {i}
  BY AssetVaultAssumption DEF Readers
<1>3. \A k \in Importers : k \in Readers
  BY DEF Readers
<1>4. ASSUME import'[i].at = "reading"
      PROVE  read'[i].file \in Importers
  <2>1. /\ import \in [Importers -> Import] /\ read \in [Readers -> Descriptor]
        /\ entries \in [Digests -> Importers \cup {NoFile}]
    BY DEF TypeOK
  <2>2. OpenEntry(i) \/ ReadEntry(i)
    BY <1>4, <2>1 DEF FileStep, OpenSource, CopyBlock, SealCopy, Link, AcceptEntry, RemoveTemp,
       ReturnRecord, ImportFails, Undo, ImporterStops, Steps, Import
  <2>3. CASE OpenEntry(i)
    <3>1. import[i].digest \in Digests
      BY <2>3 DEF OpenEntry, VaultInvariant, SealedIsOpened, Sealed
    <3> QED
      BY <1>3, <2>1, <2>3, <3>1 DEF OpenEntry, Opens
  <2>4. CASE ReadEntry(i)
    <3>1. read[i].file \in Importers
      BY <2>4 DEF ReadEntry, VaultInvariant, ReadersHaveFiles
    <3> QED
      BY <1>3, <2>1, <2>4, <3>1 DEF ReadEntry, Reads, Descriptor
  <2> QED
    BY <2>2, <2>3, <2>4
<1> QED
  BY <1>1, <1>2, <1>3, <1>4 DEF VaultInvariant, ReadersHaveFiles, CopyIsTracked, Tracked

LEMMA ImportKeepsInvariant ==
    ASSUME TypeOK, VaultInvariant, NEW i \in Importers, ImportStep(i)
    PROVE  VaultInvariant'
<1>1. CASE MakeShelf(i)
  <2>1. UNCHANGED <<source, inode, entries, durable, import, read, rows, job, spoiled,
                    withdrawn, swept>>
    BY <1>1 DEF MakeShelf
  <2> QED
    BY <2>1 DEF VaultInvariant, CopyIsPrefix, SealedIsOpened, EntriesAreSealed,
       OnlyEntriesAreLost, HeldOrLost, Lost, ReadersHaveFiles, CopyIsTracked, Tracked
<1>2. CASE FileStep(i)
  BY <1>2, ImportKeepsPrefix, ImportKeepsSealed, ImportKeepsEntries, ImportKeepsLost,
     ImportKeepsRecords, ImportKeepsReaders DEF VaultInvariant
<1> QED
  BY <1>1, <1>2 DEF ImportStep, FileStep

-----------------------------------------------------------------------------
(* One execution keeps the invariant: it changes neither the vault nor an    *)
(* import.                                                                   *)

LEMMA ExecutionFrame ==
    ASSUME TypeOK, NEW e \in Executions, ExecutionStep(e)
    PROVE  /\ UNCHANGED <<source, vault, import, rows>>
           /\ \A o \in Executions \ {e} : job'[o] = job[o]
           /\ \A r \in Readers \ {e} : read'[r] = read[r]
<1>1. job \in [Executions -> Job] /\ read \in [Readers -> Descriptor]
  BY DEF TypeOK
<1>2. UNCHANGED <<source, vault, import, rows>>
  BY DEF ExecutionStep, BeginExecution, OpenApproved, CopyApproved, SealApproved, CopyFails,
         Leave, Cancel, EndEntering, EndPublishing
<1>3. \A o \in Executions \ {e} : job'[o] = job[o]
  BY <1>1 DEF ExecutionStep, BeginExecution, OpenApproved, CopyApproved, SealApproved,
         CopyFails, Leave, Cancel, EndEntering, EndPublishing
<1>4. \A r \in Readers \ {e} : read'[r] = read[r]
  BY <1>1 DEF ExecutionStep, BeginExecution, OpenApproved, CopyApproved, SealApproved,
         CopyFails, Leave, Cancel, EndEntering, EndPublishing, Opens, Reads
<1> QED
  BY <1>2, <1>3, <1>4

LEMMA ExecutionKeepsReaders ==
    ASSUME TypeOK, VaultInvariant, NEW e \in Executions, ExecutionStep(e)
    PROVE  ReadersHaveFiles'
<1>1. /\ import' = import /\ entries' = entries
      /\ \A o \in Executions \ {e} : job'[o] = job[o]
      /\ \A r \in Readers \ {e} : read'[r] = read[r]
  BY ExecutionFrame DEF vault
<1>2. /\ \A i \in Importers : i \in Readers \ {e}
      /\ \A o \in Executions : o \in Readers
  BY AssetVaultAssumption DEF Readers
<1>3. /\ job \in [Executions -> Job] /\ read \in [Readers -> Descriptor]
      /\ entries \in [Digests -> Importers \cup {NoFile}]
  BY DEF TypeOK
<1>4. ASSUME job'[e].thread = "copying"
      PROVE  read'[e].file \in Importers
  <2>1. CASE OpenApproved(e)
    <3>1. job[e].approved \in Digests
      BY <2>1 DEF OpenApproved, VaultInvariant, CopyIsTracked, Tracked
    <3> QED
      BY <1>2, <1>3, <2>1, <3>1 DEF OpenApproved, Opens
  <2>2. job[e].thread = "copying" => read[e].file \in Importers
    BY DEF VaultInvariant, ReadersHaveFiles
  <2>3. CASE CopyApproved(e)
    <3>1. read'[e].file = read[e].file
      BY <1>2, <1>3, <2>3 DEF CopyApproved, Reads, Descriptor
    <3> QED
      BY <2>2, <2>3, <3>1 DEF CopyApproved
  <2>4. ~BeginExecution(e) /\ ~SealApproved(e)
    BY <1>3, <1>4 DEF BeginExecution, SealApproved, Job
  <2>5. ASSUME NEW removed \in BOOLEAN
        PROVE  ~CopyFails(e, removed)
    BY <1>3, <1>4, <2>5 DEF CopyFails, Job
  <2>6. CASE Cancel(e) \/ EndEntering(e) \/ EndPublishing(e)
    <3>1. job'[e].thread = job[e].thread
      <4>1. Cancel(e) => job'[e].thread = job[e].thread
        BY <1>3 DEF Cancel, Job
      <4>2. EndEntering(e) => job'[e].thread = job[e].thread
        BY <1>3 DEF EndEntering, Job
      <4>3. EndPublishing(e) => job'[e].thread = job[e].thread
        BY <1>3 DEF EndPublishing, Job
      <4> QED
        BY <2>6, <4>1, <4>2, <4>3
    <3>2. read' = read
      BY <2>6 DEF Cancel, EndEntering, EndPublishing
    <3> QED
      BY <1>4, <2>2, <3>1, <3>2
  <2>7. ASSUME NEW removed \in BOOLEAN, Leave(e, removed)
        PROVE  read'[e].file \in Importers
    <3>1. job'[e].thread = job[e].thread /\ read' = read
      BY <1>3, <2>7 DEF Leave, Job
    <3> QED
      BY <1>4, <2>2, <3>1
  <2> QED
    BY <2>1, <2>3, <2>4, <2>5, <2>6, <2>7 DEF ExecutionStep
<1> QED
  BY <1>1, <1>2, <1>4 DEF VaultInvariant, ReadersHaveFiles

LEMMA ExecutionKeepsCopies ==
    ASSUME TypeOK, VaultInvariant, NEW e \in Executions, ExecutionStep(e)
    PROVE  CopyIsTracked'
<1> SUFFICES Tracked(job'[e])
  BY ExecutionFrame DEF VaultInvariant, CopyIsTracked
<1> DEFINE j == job[e]
<1>1. job \in [Executions -> Job] /\ j \in Job /\ rows \subseteq Digests
  BY DEF TypeOK
<1>2. Tracked(j)
  BY DEF VaultInvariant, CopyIsTracked, Tracked
<1>3. ASSUME NEW k, job' = [job EXCEPT ![e] = k], Tracked(k)
      PROVE  Tracked(job'[e])
  BY <1>1, <1>3
<1>4. CASE BeginExecution(e)
  <2>1. PICK d \in rows :
           job' = [job EXCEPT ![e].at = "entering", ![e].thread = "opening", ![e].approved = d]
    BY <1>4 DEF BeginExecution
  <2> DEFINE k == [j EXCEPT !.at = "entering", !.thread = "opening", !.approved = d]
  <2>2. k.at = "entering" /\ k.thread = "opening" /\ k.approved = d
    BY <1>1 DEF Job
  <2>3. job' = [job EXCEPT ![e] = k]
    BY <2>1
  <2> HIDE DEF k
  <2>9. Tracked(k)
    BY <1>1, <2>2, <2>3 DEF Tracked
  <2> QED
    BY <1>3, <2>9, <2>2, <2>3
<1>5. CASE OpenApproved(e)
  <2> DEFINE k == [j EXCEPT !.thread = "copying", !.directory = TRUE]
  <2>1. k.at = j.at /\ k.thread = "copying" /\ k.directory /\ j.thread = "opening"
    BY <1>1, <1>5 DEF OpenApproved, Job
  <2>2. job' = [job EXCEPT ![e] = k]
    BY <1>5 DEF OpenApproved
  <2> HIDE DEF k
  <2>9. Tracked(k)
    BY <1>2, <2>1, <2>2 DEF Tracked
  <2> QED
    BY <1>3, <2>9, <2>1, <2>2
<1>6. CASE SealApproved(e)
  <2> DEFINE k == [j EXCEPT !.thread = "made", !.copy = read[e].got]
  <2>1. /\ k.at = j.at /\ k.thread = "made" /\ k.directory = j.directory
        /\ k.copy = read[e].got /\ k.approved = j.approved
    BY <1>1 DEF Job
  <2>2. job' = [job EXCEPT ![e] = k] /\ j.thread = "copying" /\ read[e].got = j.approved
    BY <1>6 DEF SealApproved, Genuine
  <2> HIDE DEF k
  <2>9. Tracked(k)
    BY <1>2, <2>1, <2>2 DEF Tracked
  <2> QED
    BY <1>3, <2>9, <2>1, <2>2
<1>7. ASSUME NEW removed \in BOOLEAN, CopyFails(e, removed)
      PROVE  Tracked(job'[e])
  <2> DEFINE k == [j EXCEPT !.thread = "failed", !.directory = j.directory /\ ~removed,
                            !.stuck = j.directory /\ ~removed]
  <2>1. /\ k.at = j.at /\ k.thread = "failed" /\ k.stuck = k.directory
    BY <1>1 DEF Job
  <2>2. job' = [job EXCEPT ![e] = k] /\ j.thread \in {"opening", "copying"}
    BY <1>7 DEF CopyFails
  <2> HIDE DEF k
  <2>9. Tracked(k)
    BY <1>2, <2>1, <2>2 DEF Tracked
  <2> QED
    BY <1>3, <2>9, <2>1, <2>2
<1>8. ASSUME NEW removed \in BOOLEAN, Leave(e, removed)
      PROVE  Tracked(job'[e])
  <2> DEFINE k == [j EXCEPT !.at = "over", !.directory = ~removed, !.stuck = ~removed]
  <2>1. k.at = "over" /\ k.thread = j.thread /\ k.stuck = k.directory
    BY <1>1 DEF Job
  <2>2. job' = [job EXCEPT ![e] = k] /\ j.at = "leaving"
    BY <1>8 DEF Leave
  <2> HIDE DEF k
  <2>9. Tracked(k)
    BY <1>2, <2>1, <2>2 DEF Tracked
  <2> QED
    BY <1>3, <2>9, <2>1, <2>2
<1>9. CASE Cancel(e)
  <2> DEFINE k == [j EXCEPT !.cancelled = TRUE,
                            !.at = IF @ = "publishing" THEN "leaving" ELSE @]
  <2>1. /\ k.at = IF j.at = "publishing" THEN "leaving" ELSE j.at
        /\ k.thread = j.thread /\ k.directory = j.directory /\ k.stuck = j.stuck
        /\ k.copy = j.copy /\ k.approved = j.approved
    BY <1>1 DEF Job
  <2>2. job' = [job EXCEPT ![e] = k]
    BY <1>9 DEF Cancel
  <2> HIDE DEF k
  <2>9. Tracked(k)
    BY <1>2, <2>1, <2>2 DEF Tracked
  <2> QED
    BY <1>3, <2>9, <2>1, <2>2
<1>10. ASSUME NEW at, job' = [job EXCEPT ![e].at = at]
       PROVE  LET k == [j EXCEPT !.at = at]
              IN  /\ job' = [job EXCEPT ![e] = k]
                  /\ k.at = at /\ k.thread = j.thread /\ k.directory = j.directory
                  /\ k.stuck = j.stuck /\ k.copy = j.copy /\ k.approved = j.approved
  BY <1>1, <1>10 DEF Job
<1>11. CASE EndEntering(e)
  <2>1. /\ j.at = "entering" /\ j.thread \in {"made", "failed"}
        /\ job' = [job EXCEPT ![e].at = IF j.thread = "failed" THEN "over"
                                       ELSE IF j.cancelled THEN "leaving"
                                       ELSE "publishing"]
    BY <1>11 DEF EndEntering
  <2>2. ASSUME NEW at \in {"over", "leaving", "publishing"},
               job' = [job EXCEPT ![e].at = at],
               at = "over" => j.thread = "failed",
               at = "publishing" => j.thread = "made"
        PROVE  Tracked(job'[e])
    <3> DEFINE k == [j EXCEPT !.at = at]
    <3>1. /\ job' = [job EXCEPT ![e] = k]
          /\ k.at = at /\ k.thread = j.thread /\ k.directory = j.directory
          /\ k.stuck = j.stuck /\ k.copy = j.copy /\ k.approved = j.approved
      BY <1>10, <2>2
    <3> HIDE DEF k
    <3>9. Tracked(k)
      BY <1>2, <2>1, <2>2, <3>1 DEF Tracked
    <3> QED
      BY <1>3, <3>9, <3>1
  <2>3. CASE j.thread = "failed"
    BY <2>1, <2>2, <2>3
  <2>4. CASE j.thread = "made" /\ j.cancelled
    BY <2>1, <2>2, <2>4
  <2>5. CASE j.thread = "made" /\ ~j.cancelled
    BY <2>1, <2>2, <2>5
  <2> QED
    BY <2>1, <2>3, <2>4, <2>5
<1>12. CASE EndPublishing(e)
  <2> DEFINE k == [j EXCEPT !.at = "leaving"]
  <2>1. /\ job' = [job EXCEPT ![e] = k]
        /\ k.at = "leaving" /\ k.thread = j.thread /\ k.directory = j.directory
        /\ k.stuck = j.stuck /\ k.copy = j.copy /\ k.approved = j.approved
    BY <1>10, <1>12 DEF EndPublishing
  <2>2. j.at = "publishing"
    BY <1>12 DEF EndPublishing
  <2> HIDE DEF k
  <2>9. Tracked(k)
    BY <1>2, <2>1, <2>2 DEF Tracked
  <2> QED
    BY <1>3, <2>9, <2>1, <2>2
<1>13. CASE CopyApproved(e)
  BY <1>2, <1>13 DEF CopyApproved
<1> QED
  BY <1>4, <1>5, <1>6, <1>7, <1>8, <1>9, <1>11, <1>12, <1>13 DEF ExecutionStep

LEMMA ExecutionKeepsInvariant ==
    ASSUME TypeOK, VaultInvariant, NEW e \in Executions, ExecutionStep(e)
    PROVE  VaultInvariant'
<1>1. UNCHANGED <<source, vault, import, rows>>
  BY ExecutionFrame
<1>2. /\ CopyIsPrefix' /\ SealedIsOpened' /\ EntriesAreSealed' /\ OnlyEntriesAreLost'
      /\ HeldOrLost'
  BY <1>1 DEF vault, VaultInvariant, CopyIsPrefix, SealedIsOpened, EntriesAreSealed,
              OnlyEntriesAreLost, HeldOrLost, Lost
<1> QED
  BY <1>2, ExecutionKeepsReaders, ExecutionKeepsCopies DEF VaultInvariant

-----------------------------------------------------------------------------
(* The surroundings keep the invariant.                                      *)

LEMMA EditKeepsInvariant ==
    ASSUME TypeOK, VaultInvariant, EditSource
    PROVE  VaultInvariant'
<1>1. /\ UNCHANGED <<vault, import, read, rows, job>>
      /\ source'.stamp = source.stamp + 1 /\ source.stamp \in Nat
  BY DEF EditSource, TypeOK, File
<1>2. \A i \in Importers : import[i].opened.stamp \in Nat
  BY DEF TypeOK, Import, File
<1>3. CopyIsPrefix'
  BY <1>1, <1>2 DEF VaultInvariant, CopyIsPrefix, vault
<1> QED
  BY <1>1, <1>3 DEF vault, VaultInvariant, SealedIsOpened, EntriesAreSealed,
     OnlyEntriesAreLost, HeldOrLost, Lost, ReadersHaveFiles, CopyIsTracked, Tracked

LEMMA DamageKeepsInvariant ==
    ASSUME TypeOK, VaultInvariant, NEW d \in Digests, DamageEntry(d)
    PROVE  VaultInvariant'
<1> DEFINE o == entries[d]
<1>1. /\ UNCHANGED <<source, swept, withdrawn, import, read, rows, job>>
      /\ spoiled' = spoiled \cup {o} /\ o \in Importers
  BY DEF DamageEntry, TypeOK
<1>2. import[o].created /\ import[o].digest = d
      /\ import[o].at \notin {"idle", "copying", "linking"}
  BY <1>1, AssetVaultAssumption
     DEF VaultInvariant, EntriesAreSealed, SealedIsOpened
<1>3. \A k \in Importers \ {o} : inode'[k] = inode[k]
  BY DEF DamageEntry, TypeOK
<1>4. /\ \A b \in Digests \ {d} : entries'[b] = entries[b]
      /\ durable \ {d} \subseteq durable'
      /\ entries'[d] \in {o, NoFile}
  BY DEF DamageEntry, TypeOK
<1>5. CopyIsPrefix' /\ SealedIsOpened'
  BY <1>1, <1>2, <1>3 DEF VaultInvariant, CopyIsPrefix, SealedIsOpened
<1>6. EntriesAreSealed' /\ OnlyEntriesAreLost'
  BY <1>1, <1>2, <1>3, <1>4 DEF VaultInvariant, EntriesAreSealed, OnlyEntriesAreLost, TypeOK
<1>7. \E k \in spoiled' \cup withdrawn' : import'[k].digest = d
  BY <1>1, <1>2
<1>8. HeldOrLost'
  BY <1>1, <1>4, <1>7 DEF VaultInvariant, HeldOrLost, Lost, TypeOK, SealedIsOpened, Holding,
     Sealed
<1>9. ReadersHaveFiles' /\ CopyIsTracked'
  BY <1>1 DEF VaultInvariant, ReadersHaveFiles, CopyIsTracked, Tracked
<1> QED
  BY <1>5, <1>6, <1>8, <1>9 DEF VaultInvariant

\* A stop of the machine loses no entry that is on the disk, unless it sweeps
\* its directory away, and changes no file that is.
LEMMA PowerKeepsInvariant ==
    ASSUME TypeOK, VaultInvariant, PowerFails
    PROVE  VaultInvariant'
<1>1. /\ import \in [Importers -> Import] /\ inode \in [Importers -> Inode]
      /\ job \in [Executions -> Job] /\ rows \subseteq Digests
      /\ NoFile \notin Importers /\ entries \in [Digests -> Importers \cup {NoFile}]
  BY AssetVaultAssumption DEF TypeOK
<1>2. UNCHANGED <<source, rows, spoiled, withdrawn>>
  BY DEF PowerFails
<1>3. ASSUME NEW i \in Importers
      PROVE  /\ import'[i].at = IF import[i].at \in {"idle", "returned"} THEN import[i].at
                                                                         ELSE "over"
             /\ import'[i].opened = import[i].opened /\ import'[i].digest = import[i].digest
             /\ import'[i].created = import[i].created
  <2>1. import'[i] = IF import[i].at = "idle" THEN import[i] ELSE [import[i] EXCEPT !.at =
                        IF @ = "returned" THEN @ ELSE "over"]
    BY DEF PowerFails
  <2> QED
    BY <1>1, <2>1 DEF Import
<1>4. ASSUME NEW i \in Importers
      PROVE  /\ inode[i].synced => inode'[i].content = inode[i].content /\ inode'[i].synced
             /\ inode[i].content = << >> => inode'[i].content = << >>
  <2>1. inode'[i] = IF inode[i].synced THEN inode[i] ELSE [inode[i] EXCEPT !.content = << >>]
    BY DEF PowerFails
  <2> QED
    BY <1>1, <2>1 DEF Inode
<1>5. /\ \A d \in Digests : entries'[d] # NoFile => entries'[d] = entries[d]
      /\ \A d \in Digests : entries[d] # NoFile /\ d \in durable =>
            (entries'[d] = entries[d] /\ d \in durable') \/ d \in swept'
      /\ swept \subseteq swept'
  BY DEF PowerFails
<1>6. CopyIsPrefix'
  BY <1>3, <1>4 DEF CopyIsPrefix, VaultInvariant
<1>7. SealedIsOpened'
  BY <1>3 DEF SealedIsOpened, VaultInvariant, Sealed
<1>8. EntriesAreSealed'
  BY <1>1, <1>2, <1>3, <1>4, <1>5 DEF EntriesAreSealed, VaultInvariant
<1>9. OnlyEntriesAreLost'
  BY <1>2, <1>3 DEF OnlyEntriesAreLost, VaultInvariant, TypeOK
<1>10. HeldOrLost'
  <2>1. \A i \in Importers : import'[i].at \notin Holding
    BY <1>3 DEF Holding
  <2>2. \A d \in rows : Lost(d) => Lost(d)'
    BY <1>2, <1>3 DEF Lost, TypeOK
  <2> QED
    BY <1>1, <1>2, <1>5, <2>1, <2>2 DEF HeldOrLost, VaultInvariant
<1>11. ASSUME NEW e \in Executions
       PROVE  Tracked(job'[e]) /\ job'[e].thread # "copying"
  <2>1. Tracked(job[e])
    BY DEF VaultInvariant, CopyIsTracked, Tracked
  <2> DEFINE k == [job[e] EXCEPT !.at = "over", !.thread = "none",
                                 !.stuck = @ \/ job[e].directory]
  <2>2. k.at = "over" /\ k.thread = "none" /\ k.directory = job[e].directory
        /\ (k.directory => k.stuck)
    BY <1>1 DEF Job
  <2>3. job'[e] = IF job[e].at = "idle" THEN job[e] ELSE k
    BY DEF PowerFails
  <2> HIDE DEF k
  <2> QED
    BY <2>1, <2>2, <2>3 DEF Tracked
<1>12. ReadersHaveFiles' /\ CopyIsTracked'
  <2>1. \A i \in Importers : import'[i].at # "reading"
    BY <1>3
  <2> QED
    BY <1>11, <2>1 DEF ReadersHaveFiles, CopyIsTracked, Tracked
<1> QED
  BY <1>6, <1>7, <1>8, <1>9, <1>10, <1>12 DEF VaultInvariant

-----------------------------------------------------------------------------
(* The theorems.                                                             *)

LEMMA StepInvariant == TypeOK /\ VaultInvariant /\ [Next]_vars => VaultInvariant'
<1> SUFFICES ASSUME TypeOK, VaultInvariant, [Next]_vars PROVE VaultInvariant'
  OBVIOUS
<1>1. CASE UNCHANGED vars
  BY <1>1 DEF vars, VaultInvariant, CopyIsPrefix, SealedIsOpened, EntriesAreSealed,
     OnlyEntriesAreLost, HeldOrLost, Lost, ReadersHaveFiles, CopyIsTracked, Tracked
<1> QED
  BY <1>1, ImportKeepsInvariant, ExecutionKeepsInvariant, EditKeepsInvariant,
     DamageKeepsInvariant, PowerKeepsInvariant DEF Next

LEMMA InitInvariant == Init => VaultInvariant
BY DEF Init, VaultInvariant, CopyIsPrefix, SealedIsOpened, Sealed, EntriesAreSealed,
   OnlyEntriesAreLost, HeldOrLost, Holding, ReadersHaveFiles, CopyIsTracked, Tracked

\* Of every state of the vault its type invariant and the inductive invariant
\* hold: what an import copies is tied to the version it opened, what a digest
\* path names to what was sealed there, and what a record names to the entry.
THEOREM VaultIsSound == Spec => [](TypeOK /\ VaultInvariant)
<1>1. Init => TypeOK /\ VaultInvariant
  BY InitTypes, InitInvariant
<1>2. TypeOK /\ VaultInvariant /\ [Next]_vars => (TypeOK /\ VaultInvariant)'
  BY StepTypes, StepInvariant
<1> QED
  BY <1>1, <1>2, PTL DEF Spec

\* What import_asset_to_vault returns is one version of the source, the one it
\* opened, however often the source is saved while it is copied.
THEOREM ImportsAreOneVersion == Spec => []ImportIsOneVersion
<1>1. VaultInvariant => ImportIsOneVersion
  BY DEF VaultInvariant, SealedIsOpened, Sealed, ImportIsOneVersion
<1> QED
  BY <1>1, VaultIsSound, PTL

\* A digest path names a file of exactly those bytes unless it was damaged from
\* outside: through every import, finished or abandoned, and every power failure.
THEOREM EntriesHoldTheirDigest == Spec => []EntriesAreWhole
<1>1. TypeOK /\ VaultInvariant => EntriesAreWhole
  BY AssetVaultAssumption DEF TypeOK, VaultInvariant, EntriesAreSealed, EntriesAreWhole
<1> QED
  BY <1>1, VaultIsSound, PTL

\* The file of a returned record stays in the vault, through a power failure at
\* any time too, except for damage from outside, an entry its own importer could
\* not read back, and one swept away with a directory made since the machine
\* started, whose own entry the import does not flush.
THEOREM RecordedFilesStay == Spec => []RecordsAreKept
<1>1. VaultInvariant => RecordsAreKept
  BY DEF VaultInvariant, HeldOrLost, Lost, RecordsAreKept
<1> QED
  BY <1>1, VaultIsSound, PTL

\* A publisher runs on a private copy that exists and holds the approved bytes.
THEOREM CopiesAreApproved == Spec => []ExecutedAsApproved
<1>1. VaultInvariant => ExecutedAsApproved
  BY DEF VaultInvariant, CopyIsTracked, Tracked, ExecutedAsApproved
<1> QED
  BY <1>1, VaultIsSound, PTL

\* When an execution is over its private copy is gone, cancelled or not; only an
\* error of the removal, or a stop, leaves one.
THEOREM NoCopyStays == Spec => []CopiesAreRemoved
<1>1. VaultInvariant => CopiesAreRemoved
  BY DEF VaultInvariant, CopyIsTracked, Tracked, CopiesAreRemoved
<1> QED
  BY <1>1, VaultIsSound, PTL
=============================================================================
