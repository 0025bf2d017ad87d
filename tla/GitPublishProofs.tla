---------------------------- MODULE GitPublishProofs ----------------------------
(* What a call of publish says is true, and what it pushes is what was       *)
(* approved, for any number of calls, paths, commits and steps of outsiders. *)
EXTENDS GitPublish, TLAPS

Active(r)   == pc[r] \notin {"idle", "done"}
InFlight(r) == landed[r] # 0 \/ <<"push", r>> \in orphans

\* Places before a call's commit, where its remote tip has been audited, where
\* its commit has been inspected, after its push, and after the remote showed it.
Uncommitted == {"idle", "write", "build", "sealed", "add", "commit"} \cup Preflight
Audited     == {"verifier", "staged", "access", "snapshot", "write", "build", "sealed",
                "add", "commit", "revision", "inspect"}
Pushed      == {"readback", "journal", "deploy", "site", "page"}
Inspected   == {"still", "push"} \cup Pushed
Shown       == {"journal", "deploy", "site", "page"}
Unwinding   == {"revision"} \cup Rollback
Cleared     == {"rbFiles", "unFiles", "unStaged", "rbUnstage", "rbStaged", "rbRemove",
                "rbStatus"}

\* What a call that is at place q has established: the remote tip it audited,
\* the commit it inspected, the effect it saw.  It has not committed before its
\* commit; a commit of its own that somebody else published since is HEAD or
\* behind it, for only HEAD is published and HEAD goes back to nothing but the
\* remote tip; and a rollback that may remove files has passed HEAD's check.
Earned(r, q) ==
    /\ q \in Audited => base[r] \in tips
    /\ q \in {"inspect"} \cup Inspected => sha[r] # 0
    /\ q \in Inspected => base[r] \in tips /\ AsApproved(r, sha[r])
    /\ q \in Shown => sha[r] \in tips
    /\ q \in Uncommitted => \A c \in 1..Len(commits) : commits[c].by # r
    /\ q \in Unwinding /\ commits[remote].by = r => remote <= head
    /\ q \in Cleared => base[r] # 0 /\ commits[head].by # r /\ commits[remote].by # r

\* A result is that of a call that is over, and a claimed effect is on the branch.
ResultIsLate(r) ==
    /\ pc[r] # "done" => out[r] = "none"
    /\ out[r] \in Effective => sha[r] \in tips

\* A command that nobody waits for is a push, or the process is gone.
OrphansAreLate(r) ==
    \A c \in Commands : <<c, r>> \in orphans =>
        /\ c = "push" \/ pc[r] = "done"
        /\ c = "rbUnstage" => base[r] # 0

\* After its push, or while one may still land, a call never claims a failure
\* without doubt; and what is pushed, now or later, has been inspected.
PushIsKnown(r) ==
    /\ landed[r] \in {0, sha[r]}
    /\ InFlight(r) =>
          /\ pc[r] \in Pushed \/ (pc[r] = "done" /\ out[r] \notin Untouched)
          /\ sha[r] # 0 /\ base[r] \in tips /\ AsApproved(r, sha[r])

\* A call's commits are younger than the HEAD it audited.
OwnAreYounger(r) == \A c \in 1..Len(commits) : commits[c].by = r => base[r] < c

Sound(r) ==
    Earned(r, pc[r]) /\ ResultIsLate(r) /\ OrphansAreLate(r) /\ PushIsKnown(r)
    /\ OwnAreYounger(r)

LockHeld == \A r \in Runs : Active(r) => lock = r

\* No other call has taken a running call's commit for its own.
NotTaken == \A r, s \in Runs :
    Active(r) /\ s # r /\ sha[s] # 0 => commits[sha[s]].by # r

GitInvariant == (\A r \in Runs : Sound(r)) /\ LockHeld /\ remote \in tips /\ NotTaken

-----------------------------------------------------------------------------
(* Types.                                                                    *)

\* What a call that moves on, or ends, leaves of the types.
LEMMA MoveTypes ==
    ASSUME TypeOK, NEW r \in Runs,
           \/ \E q \in Places : GoTo(r, q)
           \/ \E o \in Outcomes : Return(r, o)
    PROVE  /\ pc' \in [Runs -> Places] /\ out' \in [Runs -> Outcomes]
           /\ lock' \in Runs \cup {None}
<1>1. /\ pc \in [Runs -> Places] /\ out \in [Runs -> Outcomes]
      /\ lock \in Runs \cup {None} /\ "done" \in Places
  BY DEF TypeOK, Places
<1>2. CASE \E q \in Places : GoTo(r, q)
  BY <1>1, <1>2 DEF GoTo
<1>3. CASE \E o \in Outcomes : Return(r, o)
  BY <1>1, <1>3 DEF Return
<1> QED
  BY <1>2, <1>3

\* A move of a call that leaves the repository alone.
LEMMA OnlyTypes ==
    ASSUME TypeOK, NEW r \in Runs,
           \/ \E q \in Places : Only(GoTo(r, q))
           \/ \E o \in Outcomes : Only(Return(r, o))
    PROVE  TypeOK'
<1>1. /\ pc' \in [Runs -> Places] /\ out' \in [Runs -> Outcomes]
      /\ lock' \in Runs \cup {None}
  BY MoveTypes DEF Only
<1> QED
  BY <1>1 DEF TypeOK, Only, RepoStays, LocalStays, repo

\* New commits go to the end; those there are keep their numbers.
LEMMA CommitsGrow ==
    ASSUME TypeOK, NEW c \in Commit, commits' = Append(commits, c), c.parent <= Len(commits)
    PROVE  /\ commits' \in Seq(Commit) /\ Len(commits) \in Nat
           /\ Len(commits') = Len(commits) + 1
           /\ \A k \in 1..Len(commits) : commits'[k] = commits[k]
           /\ commits'[Len(commits) + 1] = c
           /\ \A k \in 1..Len(commits') : commits'[k].parent < k
<1>1. commits \in Seq(Commit) /\ Len(commits) \in Nat
  BY DEF TypeOK
<1>2. /\ commits' \in Seq(Commit) /\ Len(commits') = Len(commits) + 1
      /\ \A k \in 1..Len(commits) : commits'[k] = commits[k]
      /\ commits'[Len(commits) + 1] = c
  BY <1>1
<1>3. c.parent \in Nat /\ \A k \in 1..Len(commits) : commits[k].parent < k
  BY DEF TypeOK, Commit
<1>4. ASSUME NEW k \in 1..Len(commits')
      PROVE  commits'[k].parent < k
  <2>1. k \in 1..Len(commits) \/ k = Len(commits) + 1
    BY <1>1, <1>2
  <2> QED
    BY <1>1, <1>2, <1>3, <2>1
<1> QED
  BY <1>1, <1>2, <1>4

\* The trees of the commits.
LEMMA TreesAreTrees ==
    ASSUME TypeOK, NEW c \in 1..Len(commits)
    PROVE  /\ Tree(c) \in [Paths -> Contents]
           /\ commits[c] \in Commit /\ commits[c].parent \in Nat
<1>1. commits[c] \in Commit
  BY DEF TypeOK
<1> QED
  BY <1>1 DEF Tree, Commit

\* The effect of a git command on the repository.
LEMMA EffectTypes ==
    ASSUME TypeOK, NEW r \in Runs, NEW command \in Commands, Effect(command, r),
           command = "push" => sha[r] # 0, command = "rbUnstage" => base[r] # 0
    PROVE  /\ commits' \in Seq(Commit) /\ Len(commits) <= Len(commits')
           /\ head' \in 1..Len(commits') /\ remote' \in 1..Len(commits')
           /\ \A c \in 1..Len(commits') : commits'[c].parent < c
           /\ index' \in [Paths -> Contents] /\ file' \in [Paths -> Contents]
           /\ tips' \subseteq 1..Len(commits')
           /\ landed' \in [Runs -> 0..Len(commits')]
<1>1. /\ Len(commits) \in Nat /\ head \in 1..Len(commits) /\ remote \in 1..Len(commits)
      /\ file \in [Paths -> Contents] /\ index \in [Paths -> Contents]
      /\ tips \subseteq 1..Len(commits) /\ landed \in [Runs -> 0..Len(commits)]
      /\ commits \in Seq(Commit) /\ \A c \in 1..Len(commits) : commits[c].parent < c
      /\ sha[r] \in 0..Len(commits) /\ base[r] \in 0..Len(commits)
  <2>1. commits \in Seq(Commit)
    BY DEF TypeOK
  <2>2. Len(commits) \in Nat
    BY <2>1
  <2> QED
    BY <2>2, SMTT(30) DEF TypeOK
<1>2. CASE command = "add" /\ AddEffect(r)
  BY <1>1, <1>2 DEF AddEffect
<1>3. CASE command = "commit" /\ CommitEffect(r)
  <2> DEFINE tree == [p \in Paths |-> IF p \in PathsOf[r] THEN file[p] ELSE Tree(head)[p]]
             c == [parent |-> head, tree |-> tree, by |-> r]
  <2>1. head \in Nat /\ head <= Len(commits) /\ tree \in [Paths -> Contents]
    <3>1. Tree(head) \in [Paths -> Contents]
      BY <1>1, TreesAreTrees DEF TypeOK
    <3> QED
      BY <1>1, <3>1
  <2>2. c \in Commit /\ c.parent <= Len(commits)
    BY <2>1 DEF Commit
  <2>3. commits' = Append(commits, c) /\ head' = Len(commits) + 1
        /\ UNCHANGED <<file, remote, tips, landed>>
    BY <1>3 DEF CommitEffect
  <2>4. index' \in [Paths -> Contents]
    BY <1>1, <1>3 DEF CommitEffect
  <2> HIDE DEF c, tree
  <2>5. /\ commits' \in Seq(Commit) /\ Len(commits') = Len(commits) + 1
        /\ \A k \in 1..Len(commits') : commits'[k].parent < k
    BY <2>2, <2>3, CommitsGrow
  <2> QED
    BY <1>1, <2>3, <2>4, <2>5
<1>4. CASE command = "push" /\ PushEffect(r)
  <2>1. sha[r] \in 1..Len(commits)
    BY <1>1, <1>4 DEF TypeOK
  <2>2. commits' = commits /\ head' = head /\ index' = index /\ file' = file
    BY <1>4 DEF PushEffect, repo
  <2>3. remote' = sha[r] /\ tips' = tips \cup {sha[r]}
        /\ landed' = [landed EXCEPT ![r] = sha[r]]
    BY <1>4 DEF PushEffect
  <2>4. landed' \in [Runs -> 0..Len(commits)]
    BY <1>1, <2>1, <2>3
  <2>5. tips' \subseteq 1..Len(commits) /\ remote' \in 1..Len(commits)
    BY <1>1, <2>1, <2>3
  <2>6. Len(commits') = Len(commits) /\ commits' \in Seq(Commit)
    BY <1>1, <2>2
  <2> QED
    BY <1>1, <2>2, <2>4, <2>5, <2>6
<1>5. CASE command = "rbUnstage" /\ RestoreEffect(r)
  <2>1. base[r] \in 1..Len(commits)
    BY <1>1, <1>5 DEF TypeOK
  <2>2. index' \in [Paths -> Contents]
    <3>1. Tree(base[r]) \in [Paths -> Contents]
      BY <1>1, <2>1, TreesAreTrees DEF TypeOK
    <3>2. PICK S \in SUBSET PathsOf[r] :
             index' = [p \in Paths |-> IF p \in S THEN Tree(base[r])[p] ELSE index[p]]
      BY <1>5 DEF RestoreEffect
    <3> QED
      BY <1>1, <3>1, <3>2
  <2>3. UNCHANGED <<commits, head, file, remote, tips, landed>>
    BY <1>5 DEF RestoreEffect
  <2> QED
    BY <1>1, <2>2, <2>3
<1> QED
  BY <1>2, <1>3, <1>4, <1>5 DEF Effect

\* A git command that is seen to end, or goes on by itself.
LEMMA CommandTypes ==
    ASSUME TypeOK, GitInvariant, NEW r \in Runs, NEW command \in Commands,
           pc[r] = command \/ <<command, r>> \in orphans,
           Effect(command, r) \/ NoEffect,
           \/ \E q \in Places : GoTo(r, q)
           \/ \E o \in Outcomes : Return(r, o)
           \/ UNCHANGED <<pc, lock, out>>,
           LocalStays, outside' = outside, orphans' \subseteq (Commands \X Runs)
    PROVE  TypeOK'
<1>1. /\ pc' \in [Runs -> Places] /\ out' \in [Runs -> Outcomes]
      /\ lock' \in Runs \cup {None}
  <2>1. CASE UNCHANGED <<pc, lock, out>>
    BY <2>1 DEF TypeOK
  <2> QED
    BY <2>1, MoveTypes
<1>2. /\ commits' \in Seq(Commit) /\ Len(commits) <= Len(commits')
      /\ head' \in 1..Len(commits') /\ remote' \in 1..Len(commits')
      /\ \A c \in 1..Len(commits') : commits'[c].parent < c
      /\ index' \in [Paths -> Contents] /\ file' \in [Paths -> Contents]
      /\ tips' \subseteq 1..Len(commits')
      /\ landed' \in [Runs -> 0..Len(commits')]
  <2>1. CASE NoEffect
    BY <2>1 DEF NoEffect, TypeOK, repo
  <2>2. CASE Effect(command, r)
    <3>1. command = "push" => sha[r] # 0
      BY DEF GitInvariant, Sound, Earned, PushIsKnown, Inspected, InFlight
    <3>2. command = "rbUnstage" => base[r] # 0
      BY DEF GitInvariant, Sound, Earned, OrphansAreLate, Cleared
    <3> QED
      BY <2>2, <3>1, <3>2, EffectTypes
  <2> QED
    BY <2>1, <2>2
<1>3. /\ base' \in [Runs -> 0..Len(commits')] /\ sha' \in [Runs -> 0..Len(commits')]
      /\ saved' \in [Runs -> [Paths -> Contents]] /\ made' \in [Runs -> SUBSET Paths]
      /\ receipt' \in [Runs -> {"none", "accepted", "deployed"}]
  <2>1. Len(commits) \in Nat /\ Len(commits') \in Nat
    <3>1. commits \in Seq(Commit) /\ commits' \in Seq(Commit)
      BY <1>2 DEF TypeOK
    <3> QED
      BY <3>1
  <2>2. base \in [Runs -> 0..Len(commits)] /\ sha \in [Runs -> 0..Len(commits)]
    BY DEF TypeOK
  <2>3. 0..Len(commits) \subseteq 0..Len(commits')
    BY <1>2, <2>1
  <2> QED
    BY <2>2, <2>3 DEF LocalStays, TypeOK
<1> QED
  BY <1>1, <1>2, <1>3 DEF TypeOK

\* The steps of a call before its files are committed.
LEMMA PreflightTypes ==
    ASSUME TypeOK, NEW r \in Runs, PreflightStep(r) \/ WriteStep(r)
    PROVE  TypeOK'
<1>1. CASE \/ Refuse(r) \/ CheckPaths(r) \/ PlanImages(r) \/ ReadPushUrl(r)
           \/ CheckStatus(r) \/ ReadRemote(r)
           \/ StageExecutable(r) \/ PrepareVerifier(r) \/ VerifierAccess(r)
           \/ Seal(r) \/ Build(r) \/ CheckSealed(r)
  <2>1. \/ \E q \in Places : Only(GoTo(r, q))
        \/ \E o \in Outcomes : Only(Return(r, o))
    BY <1>1 DEF Refuse, CheckPaths, PlanImages, ReadPushUrl, CheckStatus, ReadRemote,
                StageExecutable, PrepareVerifier, VerifierAccess, Seal, Build, CheckSealed,
                Places, Preflight, Rollback, Outcomes
  <2> QED
    BY <2>1, OnlyTypes
<1>2. CASE TakeLock(r)
  <2>1. pc' \in [Runs -> Places]
    BY <1>2 DEF TakeLock, TypeOK, Places, Preflight
  <2> QED
    BY <1>2, <2>1 DEF TakeLock, TypeOK, RepoStays, LocalStays, repo
<1>3. CASE ReadHead(r)
  <2>1. /\ pc' \in [Runs -> Places] /\ out' \in [Runs -> Outcomes]
        /\ lock' \in Runs \cup {None}
    BY <1>3, MoveTypes DEF ReadHead, Places, Preflight
  <2>2. base' \in [Runs -> 0..Len(commits)]
    BY <1>3 DEF ReadHead, TypeOK
  <2> QED
    BY <1>3, <2>1, <2>2 DEF ReadHead, TypeOK, RepoStays, repo
<1>4. CASE Snapshot(r)
  <2>1. /\ pc' \in [Runs -> Places] /\ out' \in [Runs -> Outcomes]
        /\ lock' \in Runs \cup {None}
    BY <1>4, MoveTypes DEF Snapshot, Places
  <2>2. saved' \in [Runs -> [Paths -> Contents]]
    BY <1>4 DEF Snapshot, TypeOK, Contents
  <2> QED
    BY <1>4, <2>1, <2>2 DEF Snapshot, TypeOK, RepoStays, repo
<1>5. CASE WriteArtifacts(r)
  <2>1. PICK p \in PathsOf[r] : Creates(r, p)
    BY <1>5 DEF WriteArtifacts
  <2>2. p \in Paths /\ r \in Contents
    BY GitPublishAssumption DEF Contents
  <2>3. file' \in [Paths -> Contents] /\ made' \in [Runs -> SUBSET Paths]
    BY <2>1, <2>2 DEF Creates, TypeOK
  <2> QED
    BY <2>1, <2>3 DEF Creates, TypeOK
<1>6. CASE WriteFails(r)
  <2>1. /\ pc' \in [Runs -> Places] /\ out' \in [Runs -> Outcomes]
        /\ lock' \in Runs \cup {None}
    BY <1>6, MoveTypes DEF WriteFails, Outcomes
  <2>2. file' \in [Paths -> Contents]
    BY <1>6 DEF WriteFails, RemoveCreated, TypeOK, Contents
  <2> QED
    BY <1>6, <2>1, <2>2 DEF WriteFails, RemoveCreated, TypeOK, LocalStays
<1> QED
  BY <1>1, <1>2, <1>3, <1>4, <1>5, <1>6 DEF PreflightStep, WriteStep

\* The steps around its commit and its push.
LEMMA PublishTypes ==
    ASSUME TypeOK, GitInvariant, NEW r \in Runs, PublishStep(r) \/ ProofStep(r)
    PROVE  TypeOK'
<1>1. CASE Inspect(r) \/ CheckHead(r) \/ ReadBack(r) \/ ConfirmSite(r) \/ ReadPage(r)
  <2>1. \/ \E q \in Places : Only(GoTo(r, q))
        \/ \E o \in Outcomes : Only(Return(r, o))
    BY <1>1 DEF Inspect, CheckHead, ReadBack, ConfirmSite, ReadPage, Only, Places, Outcomes
  <2> QED
    BY <2>1, OnlyTypes
<1>2. CASE Add(r) \/ AddFails(r) \/ CommitOk(r) \/ CommitFails(r) \/ Push(r)
  <2>1. PICK command \in Commands :
           \E q \in {"commit", "revision", "readback", "unHead"} :
              CommandOk(r, command, q) \/ CommandFails(r, command, GoTo(r, q))
    BY <1>2 DEF Add, AddFails, CommitOk, CommitFails, Push, Commands
  <2>2. /\ pc[r] = command /\ (Effect(command, r) \/ NoEffect)
        /\ orphans' \subseteq (Commands \X Runs) /\ outside' = outside /\ LocalStays
    BY <2>1 DEF CommandOk, CommandFails, At, TypeOK
  <2>3. \E q \in Places : GoTo(r, q)
    BY <2>1 DEF CommandOk, CommandFails, Places, Rollback
  <2> QED
    BY <2>2, <2>3, CommandTypes
<1>3. CASE ReadRevision(r)
  <2>1. CASE Only(GoTo(r, "unHead"))
    BY <2>1, OnlyTypes DEF Places, Rollback
  <2>2. CASE /\ sha' = [sha EXCEPT ![r] = head]
             /\ GoTo(r, "inspect") /\ UNCHANGED <<base, saved, made, receipt>> /\ RepoStays
    <3>1. /\ pc' \in [Runs -> Places] /\ out' \in [Runs -> Outcomes]
          /\ lock' \in Runs \cup {None}
      BY <2>2, MoveTypes DEF Places
    <3>2. sha' \in [Runs -> 0..Len(commits)]
      BY <2>2 DEF TypeOK
    <3> QED
      BY <2>2, <3>1, <3>2 DEF TypeOK, RepoStays, repo
  <2> QED
    BY <1>3, <2>1, <2>2 DEF ReadRevision
<1>4. CASE PushFails(r)
  <2>1. <<"push", r>> \in Commands \X Runs
    BY DEF Commands
  <2>2. orphans' \subseteq (Commands \X Runs)
    BY <1>4, <2>1 DEF PushFails, TypeOK
  <2>3. \/ \E q \in Places : GoTo(r, q)
        \/ \E o \in Outcomes : Return(r, o)
    BY <1>4 DEF PushFails, Places, Outcomes
  <2>4. pc[r] = "push" /\ "push" \in Commands /\ NoEffect /\ LocalStays /\ outside' = outside
    BY <1>4 DEF PushFails, At, Commands
  <2> QED
    BY <2>2, <2>3, <2>4, CommandTypes
<1>5. CASE Journal(r) \/ Deployment(r)
  <2>1. CASE \E o \in Outcomes : Only(Return(r, o))
    BY <2>1, OnlyTypes
  <2>2. CASE \E q \in {"accepted", "deployed"} :
                /\ receipt' = [receipt EXCEPT ![r] = q]
                /\ GoTo(r, "deploy") \/ GoTo(r, "site") \/ Return(r, "accepted")
                /\ UNCHANGED <<base, saved, made, sha>> /\ RepoStays
    <3>1. /\ pc' \in [Runs -> Places] /\ out' \in [Runs -> Outcomes]
          /\ lock' \in Runs \cup {None}
      BY <2>2, MoveTypes DEF Places, Outcomes
    <3>2. receipt' \in [Runs -> {"none", "accepted", "deployed"}]
      BY <2>2 DEF TypeOK
    <3> QED
      BY <2>2, <3>1, <3>2 DEF TypeOK, RepoStays, repo
  <2> QED
    BY <1>5, <2>1, <2>2 DEF Journal, Deployment, Outcomes
<1> QED
  BY <1>1, <1>2, <1>3, <1>4, <1>5 DEF PublishStep, ProofStep

\* The rollback, the end of the process, and commands that outlive it.
LEMMA RollbackTypes ==
    ASSUME TypeOK, GitInvariant, NEW r \in Runs,
           \/ RollbackStep(r) \/ Interrupted(r)
           \/ \E command \in Commands : OrphanLands(command, r)
    PROVE  TypeOK'
<1>1. CASE \/ RollbackStops(r) \/ RollbackHead(r) \/ RollbackFiles(r) \/ StagedPaths(r)
           \/ RollbackStatus(r)
  <2>1. \/ \E q \in Places : Only(GoTo(r, q))
        \/ \E o \in Outcomes : Only(Return(r, o))
    BY <1>1 DEF RollbackStops, RollbackHead, RollbackFiles, StagedPaths, RollbackStatus, Places,
                Rollback, Outcomes
  <2> QED
    BY <2>1, OnlyTypes
<1>2. CASE Unstage(r) \/ UnstageFails(r)
  <2>1. /\ pc[r] = "rbUnstage" /\ "rbUnstage" \in Commands
        /\ Effect("rbUnstage", r) \/ NoEffect
        /\ orphans' \subseteq (Commands \X Runs) /\ outside' = outside /\ LocalStays
    BY <1>2 DEF Unstage, UnstageFails, CommandOk, CommandFails, Commands, At, TypeOK
  <2>2. GoTo(r, "rbStaged") \/ Return(r, "manual")
    BY <1>2 DEF Unstage, UnstageFails, CommandOk, CommandFails
  <2>3. "rbStaged" \in Places /\ "manual" \in Outcomes
    BY DEF Places, Rollback, Outcomes
  <2> QED
    BY <2>1, <2>2, <2>3, CommandTypes
<1>3. CASE RemoveFiles(r)
  <2>1. PICK S \in SUBSET PathsOf[r] :
           PutBack(r, S) /\ (GoTo(r, "rbStatus") \/ Return(r, "manual"))
    BY <1>3 DEF RemoveFiles
  <2>2. /\ pc' \in [Runs -> Places] /\ out' \in [Runs -> Outcomes]
        /\ lock' \in Runs \cup {None}
    BY <2>1, MoveTypes DEF Places, Rollback, Outcomes
  <2>3. file' \in [Paths -> Contents]
    BY <2>1 DEF PutBack, TypeOK
  <2> QED
    BY <2>1, <2>2, <2>3 DEF PutBack, TypeOK, LocalStays
<1>4. CASE Interrupted(r)
  <2>1. /\ pc' \in [Runs -> Places] /\ out' \in [Runs -> Outcomes]
        /\ lock' \in Runs \cup {None}
    BY <1>4, MoveTypes DEF Interrupted, Outcomes
  <2>2. orphans' \subseteq (Commands \X Runs)
    BY <1>4 DEF Interrupted, TypeOK
  <2> QED
    BY <1>4, <2>1, <2>2 DEF Interrupted, TypeOK, LocalStays, repo
<1>5. ASSUME NEW command \in Commands, OrphanLands(command, r)
      PROVE  TypeOK'
  <2>1. /\ <<command, r>> \in orphans /\ Effect(command, r)
        /\ orphans' \subseteq (Commands \X Runs) /\ outside' = outside
        /\ LocalStays /\ UNCHANGED <<pc, lock, out>>
    BY <1>5 DEF OrphanLands, TypeOK, calls, LocalStays
  <2> QED
    BY <2>1, CommandTypes
<1> QED
  BY <1>1, <1>2, <1>3, <1>4, <1>5 DEF RollbackStep

LEMMA OutsiderTypes == TypeOK /\ OutsiderStep => TypeOK'
<1> SUFFICES ASSUME TypeOK, OutsiderStep PROVE TypeOK'
  OBVIOUS
<1>1. /\ Len(commits) \in Nat /\ head \in 1..Len(commits) /\ remote \in 1..Len(commits)
      /\ file \in [Paths -> Contents] /\ index \in [Paths -> Contents]
      /\ {None, Outsider} \subseteq Contents
  BY DEF TypeOK, Contents
<1>2. CASE OutsiderEdits
  <2>1. file' \in [Paths -> Contents]
    BY <1>1, <1>2 DEF OutsiderEdits
  <2> QED
    BY <1>2, <2>1, SMTT(30) DEF OutsiderEdits, OutsiderSteps, TypeOK, calls
<1>3. CASE OutsiderStages
  BY <1>3 DEF OutsiderStages, OutsiderSteps, TypeOK, calls
<1>4. CASE OutsiderResets
  <2>1. Tree(remote) \in [Paths -> Contents]
    BY <1>1, TreesAreTrees
  <2> QED
    BY <1>4, <2>1 DEF OutsiderResets, OutsiderSteps, TypeOK, calls
<1>5. ASSUME NEW c \in Commit, commits' = Append(commits, c), c.parent <= Len(commits),
             OutsiderSteps, UNCHANGED <<index, file>>,
             \/ head' = Len(commits) + 1 /\ remote' = remote /\ tips' = tips
             \/ remote' = Len(commits) + 1 /\ head' = head /\ tips' = tips \cup {remote'}
      PROVE  TypeOK'
  <2>1. /\ commits' \in Seq(Commit) /\ Len(commits') = Len(commits) + 1
        /\ \A k \in 1..Len(commits') : commits'[k].parent < k
    BY <1>5, CommitsGrow
  <2>2. /\ head' \in 1..Len(commits') /\ remote' \in 1..Len(commits')
        /\ 0..Len(commits) \subseteq 0..Len(commits')
        /\ 1..Len(commits) \subseteq 1..Len(commits')
    BY <1>1, <1>5, <2>1
  <2>3. tips' \subseteq 1..Len(commits')
    BY <1>5, <2>2 DEF TypeOK
  <2>4. /\ base' \in [Runs -> 0..Len(commits')] /\ sha' \in [Runs -> 0..Len(commits')]
        /\ landed' \in [Runs -> 0..Len(commits')]
    BY <1>5, <2>2 DEF OutsiderSteps, TypeOK, calls
  <2> QED
    BY <1>5, <2>1, <2>2, <2>3, <2>4, SMTT(30) DEF OutsiderSteps, TypeOK, calls
<1>6. CASE OutsiderCommits
  <2> DEFINE c == [parent |-> head, tree |-> index, by |-> Outsider]
  <2>1. c \in Commit /\ c.parent <= Len(commits)
    BY <1>1 DEF Commit
  <2>2. /\ commits' = Append(commits, c) /\ OutsiderSteps
        /\ head' = Len(commits) + 1 /\ UNCHANGED <<index, file, remote, tips>>
    BY <1>6 DEF OutsiderCommits
  <2> HIDE DEF c
  <2> QED
    BY <1>5, <2>1, <2>2
<1>7. CASE OutsiderPushes
  <2>1. ASSUME NEW p \in Paths,
               commits' = Append(commits, [parent |-> remote, by |-> Outsider,
                                           tree |-> [Tree(remote) EXCEPT ![p] = Outsider]]),
               remote' = Len(commits) + 1
        PROVE  TypeOK'
    <3> DEFINE c == [parent |-> remote, by |-> Outsider,
                     tree |-> [Tree(remote) EXCEPT ![p] = Outsider]]
    <3>1. Tree(remote) \in [Paths -> Contents]
      BY <1>1, TreesAreTrees
    <3>2. c \in Commit /\ c.parent <= Len(commits)
      BY <1>1, <3>1 DEF Commit
    <3>3. commits' = Append(commits, c)
      BY <2>1
    <3>4. OutsiderSteps /\ UNCHANGED <<head, index, file>> /\ tips' = tips \cup {remote'}
      BY <1>7 DEF OutsiderPushes
    <3> HIDE DEF c
    <3> QED
      BY <1>5, <2>1, <3>2, <3>3, <3>4
  <2>2. CASE remote' = head /\ UNCHANGED commits
    BY <1>1, <1>7, <2>2 DEF OutsiderPushes, OutsiderSteps, TypeOK, calls
  <2> QED
    BY <1>7, <2>1, <2>2 DEF OutsiderPushes
<1> QED
  BY <1>2, <1>3, <1>4, <1>6, <1>7 DEF OutsiderStep

LEMMA StepTypes == TypeOK /\ GitInvariant /\ [Next]_vars => TypeOK'
<1> SUFFICES ASSUME TypeOK, GitInvariant, [Next]_vars PROVE TypeOK'
  OBVIOUS
<1>1. CASE UNCHANGED vars
  BY <1>1 DEF vars, repo, calls, TypeOK
<1> QED
  BY <1>1, PreflightTypes, PublishTypes, RollbackTypes, OutsiderTypes DEF Next

-----------------------------------------------------------------------------
(* What the steps do to the history, and that whatever a call has            *)
(* established survives the steps of the others.                             *)

Still == UNCHANGED <<commits, head, remote, tips, landed>>
CommitsAs(x) ==
    /\ \E c \in Commit : c.by = x /\ c.parent = head /\ commits' = Append(commits, c)
    /\ head' = Len(commits) + 1
    /\ UNCHANGED <<remote, tips, landed>>
PushesAs(r) ==
    /\ sha[r] # 0
    /\ remote = base[r] /\ remote' = sha[r] /\ tips' = tips \cup {sha[r]}
    /\ landed' = [landed EXCEPT ![r] = sha[r]]
    /\ UNCHANGED <<commits, head>>
OthersPush ==
    /\ UNCHANGED landed
    /\ \/ /\ remote' = head /\ tips' = tips \cup {head} /\ UNCHANGED <<commits, head>>
       \/ /\ head' = remote /\ UNCHANGED <<commits, remote, tips>>
       \/ /\ \E c \in Commit : /\ c.by = Outsider /\ c.parent = remote
                               /\ commits' = Append(commits, c)
          /\ remote' = Len(commits) + 1 /\ tips' = tips \cup {remote'} /\ UNCHANGED head

\* The step of x, who is a call or everybody else.
History(x) == Still \/ CommitsAs(x) \/ (x \in Runs /\ PushesAs(x)) \/ OthersPush

LEMMA EffectHistory ==
    ASSUME TypeOK, NEW r \in Runs, NEW command \in Commands, Effect(command, r),
           command = "push" => sha[r] # 0
    PROVE  /\ command \notin {"commit", "push"} => Still
           /\ command = "commit" => CommitsAs(r)
           /\ command = "push" => PushesAs(r)
<1>1. CASE command = "commit" /\ CommitEffect(r)
  <2> DEFINE tree == [p \in Paths |-> IF p \in PathsOf[r] THEN file[p] ELSE Tree(head)[p]]
             c == [parent |-> head, tree |-> tree, by |-> r]
  <2>1. /\ head \in Nat /\ head \in 1..Len(commits) /\ file \in [Paths -> Contents]
    BY DEF TypeOK
  <2>2. tree \in [Paths -> Contents]
    BY <2>1, TreesAreTrees
  <2>3. c \in Commit /\ c.by = r /\ c.parent = head
    BY <2>1, <2>2 DEF Commit
  <2>4. commits' = Append(commits, c)
    BY <1>1 DEF CommitEffect
  <2> HIDE DEF c
  <2> QED
    BY <1>1, <2>3, <2>4 DEF CommitEffect, CommitsAs
<1>2. CASE command = "push" /\ PushEffect(r)
  BY <1>2 DEF PushEffect, PushesAs, repo
<1>3. CASE \/ command = "add" /\ AddEffect(r)
           \/ command = "rbUnstage" /\ RestoreEffect(r)
  BY <1>3 DEF AddEffect, RestoreEffect, Still
<1> QED
  BY <1>1, <1>2, <1>3 DEF Effect

\* The history only grows.
LEMMA HistoryGrows ==
    ASSUME TypeOK, NEW x, History(x)
    PROVE  /\ Len(commits) \in Nat /\ Len(commits') \in Nat /\ Len(commits) <= Len(commits')
           /\ \A k \in 1..Len(commits) : commits'[k] = commits[k]
           /\ \A k \in 1..Len(commits') :
                 k > Len(commits) => commits'[k].by = x \/ commits'[k].by = Outsider
           /\ tips \subseteq tips'
<1>1. commits \in Seq(Commit) /\ Len(commits) \in Nat
      /\ head \in 1..Len(commits) /\ remote \in 1..Len(commits)
  BY DEF TypeOK
<1>2. CASE commits' = commits
  <2>1. tips \subseteq tips'
    BY <1>2 DEF History, Still, CommitsAs, PushesAs, OthersPush
  <2> QED
    BY <1>1, <1>2, <2>1
<1>3. ASSUME NEW c \in Commit, commits' = Append(commits, c), c.parent <= Len(commits),
             c.by = x \/ c.by = Outsider
      PROVE  /\ Len(commits') \in Nat /\ Len(commits) <= Len(commits')
             /\ \A k \in 1..Len(commits) : commits'[k] = commits[k]
             /\ \A k \in 1..Len(commits') :
                   k > Len(commits) => commits'[k].by = x \/ commits'[k].by = Outsider
  <2>1. /\ Len(commits') = Len(commits) + 1
        /\ \A k \in 1..Len(commits) : commits'[k] = commits[k]
        /\ commits'[Len(commits) + 1] = c
    BY <1>3, CommitsGrow
  <2>2. \A k \in 1..Len(commits') : k > Len(commits) => k = Len(commits) + 1
    BY <1>1, <2>1
  <2> QED
    BY <1>1, <1>3, <2>1, <2>2
<1>4. CASE CommitsAs(x)
  BY <1>1, <1>3, <1>4 DEF CommitsAs
<1>5. CASE OthersPush
  BY <1>1, <1>2, <1>3, <1>5 DEF OthersPush
<1> QED
  BY <1>2, <1>4, <1>5 DEF History, Still, PushesAs

\* A commit that was as approved stays so.
LEMMA ApprovalStays ==
    ASSUME TypeOK, NEW x, History(x), NEW r \in Runs, base'[r] = base[r],
           NEW c \in 1..Len(commits), AsApproved(r, c)
    PROVE  AsApproved(r, c)'
<1>1. commits'[c] = commits[c] /\ commits[c].parent \in Nat /\ commits[c].parent < c
  BY HistoryGrows, TreesAreTrees DEF TypeOK
<1>2. Tree(c)' = Tree(c)
  BY <1>1 DEF Tree
<1>3. Before(c)' = Before(c)
  <2>1. CASE commits[c].parent = 0
    BY <1>1, <2>1 DEF Before
  <2>2. CASE commits[c].parent # 0
    <3>1. commits[c].parent \in 1..Len(commits)
      BY <1>1, <2>2 DEF TypeOK
    <3>2. commits'[commits[c].parent] = commits[commits[c].parent]
      BY <3>1, HistoryGrows
    <3> QED
      BY <1>1, <2>2, <3>2 DEF Before, Tree
  <2> QED
    BY <2>1, <2>2
<1> QED
  BY <1>1, <1>2, <1>3 DEF AsApproved, Changed

\* Whatever a call has established survives the steps of everybody else.
LEMMA EarnedStays ==
    ASSUME TypeOK, GitInvariant, NEW x, x \in Runs \cup {Outsider}, History(x),
           NEW r \in Runs, r # x, base'[r] = base[r], sha'[r] = sha[r], pc'[r] = pc[r]
    PROVE  Earned(r, pc[r])'
<1> DEFINE q == pc[r]
<1>1. Earned(r, q) /\ sha[r] \in 0..Len(commits) /\ Outsider \notin Runs
      /\ head \in 1..Len(commits) /\ remote \in 1..Len(commits) /\ Len(commits) \in Nat
  BY GitPublishAssumption DEF GitInvariant, Sound, TypeOK
<1>2. /\ Len(commits') \in Nat /\ Len(commits) <= Len(commits')
      /\ \A k \in 1..Len(commits) : commits'[k] = commits[k]
      /\ \A k \in 1..Len(commits') :
            k > Len(commits) => commits'[k].by = x \/ commits'[k].by = Outsider
      /\ tips \subseteq tips'
  BY HistoryGrows
<1>3. /\ q \in Audited => base'[r] \in tips'
      /\ q \in {"inspect"} \cup Inspected => sha'[r] # 0
      /\ q \in Shown => sha'[r] \in tips'
  BY <1>1, <1>2 DEF Earned
<1>4. ASSUME q \in Inspected
      PROVE  base'[r] \in tips' /\ AsApproved(r, sha[r])'
  <2>1. sha[r] \in 1..Len(commits) /\ AsApproved(r, sha[r]) /\ base[r] \in tips
    BY <1>1, <1>4 DEF Earned
  <2> QED
    BY <1>2, <2>1, ApprovalStays
<1>5. ASSUME q \in Uncommitted
      PROVE  \A c \in 1..Len(commits') : commits'[c].by # r
  <2>1. \A c \in 1..Len(commits) : commits[c].by # r
    BY <1>1, <1>5 DEF Earned
  <2>2. ASSUME NEW c \in 1..Len(commits')
        PROVE  commits'[c].by # r
    <3>1. c \in 1..Len(commits) \/ c > Len(commits)
      BY <1>1, <1>2
    <3> QED
      BY <1>1, <1>2, <2>1, <3>1
  <2> QED
    BY <2>2
<1>6. ASSUME q \in Unwinding \cup Cleared
      PROVE  /\ q \in Unwinding /\ commits'[remote'].by = r => remote' <= head'
             /\ q \in Cleared => commits'[head'].by # r /\ commits'[remote'].by # r
  <2>1. /\ q \in Unwinding /\ commits[remote].by = r => remote <= head
        /\ q \in Cleared => commits[head].by # r /\ commits[remote].by # r
    BY <1>1 DEF Earned
  <2>2. Active(r)
    BY <1>6 DEF Active, Unwinding, Cleared, Rollback
  <2>3. commits'[head] = commits[head] /\ commits'[remote] = commits[remote]
    BY <1>1, <1>2
  <2>4. CASE Still
    BY <2>1, <2>3, <2>4 DEF Still
  <2>5. CASE CommitsAs(x)
    <3>1. PICK c \in Commit : c.by = x /\ c.parent = head /\ commits' = Append(commits, c)
      BY <2>5 DEF CommitsAs
    <3>2. Len(commits') = Len(commits) + 1 /\ commits'[Len(commits) + 1] = c
      BY <1>1, <3>1, CommitsGrow
    <3>3. head' = Len(commits) + 1 /\ remote' = remote
      BY <2>5 DEF CommitsAs
    <3> QED
      BY <1>1, <2>1, <2>3, <3>1, <3>2, <3>3
  <2>6. CASE x \in Runs /\ PushesAs(x)
    <3>1. remote' = sha[x] /\ sha[x] # 0 /\ head' = head /\ commits' = commits
      BY <2>6 DEF PushesAs
    <3>2. remote \in 1..Len(commits) /\ sha[x] \in 0..Len(commits)
      BY <1>1, <2>6 DEF TypeOK
    <3>3. sha[x] # 0 => commits[sha[x]].by # r
      BY <2>2, <2>6 DEF GitInvariant, NotTaken
    <3> QED
      BY <1>1, <2>1, <2>3, <3>1, <3>2, <3>3
  <2>7. CASE OthersPush
    <3>1. CASE remote' = head /\ commits' = commits /\ head' = head
      BY <1>1, <2>1, <3>1
    <3>2. CASE head' = remote /\ commits' = commits /\ remote' = remote
      BY <1>1, <2>1, <3>2
    <3>3. CASE /\ \E c \in Commit : /\ c.by = Outsider /\ c.parent = remote
                                    /\ commits' = Append(commits, c)
               /\ remote' = Len(commits) + 1 /\ head' = head
      <4>1. PICK c \in Commit : c.by = Outsider /\ c.parent = remote
                                /\ commits' = Append(commits, c)
        BY <3>3
      <4>2. Len(commits') = Len(commits) + 1 /\ commits'[Len(commits) + 1] = c
        BY <1>1, <4>1, CommitsGrow
      <4> QED
        BY <1>1, <2>1, <2>3, <3>3, <4>1, <4>2
    <3> QED
      BY <2>7, <3>1, <3>2, <3>3 DEF OthersPush
  <2> QED
    BY <2>4, <2>5, <2>6, <2>7 DEF History
<1>7. q \in Cleared => base'[r] # 0
  BY <1>1 DEF Earned
<1> QED
  BY <1>3, <1>4, <1>5, <1>6, <1>7 DEF Earned

\* A call that does nothing stays sound, whatever x does.
LEMMA OthersStaySound ==
    ASSUME TypeOK, GitInvariant, NEW x, x \in Runs \cup {Outsider}, History(x),
           NEW r \in Runs, r # x,
           pc'[r] = pc[r], out'[r] = out[r], base'[r] = base[r], sha'[r] = sha[r],
           \A c \in Commands : <<c, r>> \in orphans' => <<c, r>> \in orphans
    PROVE  Sound(r)'
<1>1. /\ Len(commits) \in Nat /\ Len(commits') \in Nat /\ Len(commits) <= Len(commits')
      /\ \A k \in 1..Len(commits) : commits'[k] = commits[k]
      /\ \A k \in 1..Len(commits') :
            k > Len(commits) => commits'[k].by = x \/ commits'[k].by = Outsider
      /\ tips \subseteq tips'
  BY HistoryGrows
<1>2. /\ Sound(r) /\ Outsider \notin Runs /\ sha[r] \in 0..Len(commits)
      /\ landed'[r] = landed[r] /\ "push" \in Commands
  BY GitPublishAssumption DEF GitInvariant, TypeOK, History, Still, CommitsAs, PushesAs,
                              OthersPush, Commands
<1>3. Earned(r, pc[r])'
  BY EarnedStays
<1>4. ResultIsLate(r)' /\ OrphansAreLate(r)'
  BY <1>1, <1>2 DEF Sound, ResultIsLate, OrphansAreLate
<1>5. PushIsKnown(r)'
  <2>1. InFlight(r)' => InFlight(r)
    BY <1>2 DEF InFlight
  <2>2. ASSUME InFlight(r)
        PROVE  AsApproved(r, sha[r])' /\ base'[r] \in tips'
    <3>1. sha[r] \in 1..Len(commits) /\ AsApproved(r, sha[r]) /\ base[r] \in tips
      BY <1>2, <2>2 DEF Sound, PushIsKnown
    <3> QED
      BY <1>1, <3>1, ApprovalStays
  <2> QED
    BY <1>2, <2>1, <2>2 DEF Sound, PushIsKnown
<1>6. OwnAreYounger(r)'
  <2>1. ASSUME NEW c \in 1..Len(commits'), commits'[c].by = r
        PROVE  base'[r] < c
    <3>1. c \in 1..Len(commits)
      BY <1>1, <1>2, <2>1
    <3> QED
      BY <1>1, <1>2, <2>1, <3>1 DEF Sound, OwnAreYounger
  <2> QED
    BY <2>1 DEF OwnAreYounger
<1> QED
  BY <1>3, <1>4, <1>5, <1>6 DEF Sound

\* So a step of r keeps the invariant when r itself stays sound.
LEMMA ActorSteps ==
    ASSUME TypeOK, GitInvariant, NEW r \in Runs, History(r), Sound(r)',
           \A s \in Runs \ {r} : /\ pc'[s] = pc[s] /\ out'[s] = out[s]
                                 /\ base'[s] = base[s] /\ sha'[s] = sha[s],
           \A s \in Runs \ {r}, c \in Commands : <<c, s>> \in orphans' => <<c, s>> \in orphans,
           Active(r) \/ sha'[r] = sha[r],
           \/ lock' = lock /\ (Active(r)' => Active(r))
           \/ lock = None /\ lock' = r /\ pc[r] = "idle"
           \/ ~Active(r)' /\ lock' = (IF lock = r THEN None ELSE lock)
    PROVE  GitInvariant'
<1>1. \A s \in Runs : Sound(s)'
  BY OthersStaySound
<1>2. None \notin Runs /\ LockHeld /\ NotTaken /\ remote \in tips
      /\ sha \in [Runs -> 0..Len(commits)] /\ Len(commits) \in Nat
  BY GitPublishAssumption DEF GitInvariant, TypeOK
<1>3. LockHeld'
  BY <1>2 DEF LockHeld, Active
<1>4. remote' \in tips'
  BY <1>2 DEF History, Still, CommitsAs, PushesAs, OthersPush
<1>5. NotTaken'
  <2> SUFFICES ASSUME NEW s \in Runs, NEW t \in Runs, Active(s)', t # s, sha'[t] # 0
               PROVE  commits'[sha'[t]].by # s
    BY DEF NotTaken
  <2>1. ASSUME sha'[t] = sha[t], Active(s) \/ pc[s] = "idle"
        PROVE  commits'[sha'[t]].by # s
    <3>1. sha[t] \in 1..Len(commits) /\ commits'[sha[t]] = commits[sha[t]]
      BY <1>2, <2>1, HistoryGrows
    <3>2. pc[s] = "idle" => commits[sha[t]].by # s
      BY <3>1 DEF GitInvariant, Sound, Earned, Uncommitted
    <3> QED
      BY <1>2, <2>1, <3>1, <3>2 DEF NotTaken
  <2>2. Active(s) \/ pc[s] = "idle"
    BY DEF Active
  <2>3. ASSUME sha'[t] # sha[t]
        PROVE  FALSE
    <3>1. t = r /\ Active(r) /\ s # r
      BY <2>3
    <3>2. Active(s)
      BY <3>1 DEF Active
    <3> QED
      BY <1>2, <3>1, <3>2 DEF LockHeld
  <2> QED
    BY <2>1, <2>2, <2>3
<1> QED
  BY <1>1, <1>3, <1>4, <1>5 DEF GitInvariant

\* A step of everybody else.
LEMMA OutsideSteps ==
    ASSUME TypeOK, GitInvariant, History(Outsider), UNCHANGED <<calls, orphans>>
    PROVE  GitInvariant'
<1>1. Outsider \notin Runs /\ NotTaken /\ remote \in tips
      /\ sha \in [Runs -> 0..Len(commits)] /\ Len(commits) \in Nat
  BY GitPublishAssumption DEF GitInvariant, TypeOK
<1>2. UNCHANGED <<pc, out, base, sha, lock, orphans>>
  BY DEF calls
<1>3. \A r \in Runs : Sound(r)'
  BY <1>1, <1>2, OthersStaySound
<1>4. LockHeld'
  BY <1>2 DEF GitInvariant, LockHeld, Active
<1>5. remote' \in tips'
  BY <1>1 DEF History, Still, CommitsAs, PushesAs, OthersPush
<1>6. NotTaken'
  <2>1. \A s \in Runs : sha[s] # 0 => commits'[sha[s]] = commits[sha[s]]
    BY <1>1, HistoryGrows
  <2> QED
    BY <1>1, <1>2, <2>1 DEF NotTaken, Active
<1> QED
  BY <1>3, <1>4, <1>5, <1>6 DEF GitInvariant

-----------------------------------------------------------------------------
(* Steps that leave the history alone.                                       *)

Quiet == Still /\ UNCHANGED <<base, sha>>

LEMMA EarnedQuietly ==
    ASSUME NEW r \in Runs, Quiet, NEW q
    PROVE  Earned(r, q)' <=> Earned(r, q)
BY DEF Quiet, Still, Earned, AsApproved, Changed, Before, Tree

\* A call that moves on has to earn its new place.
LEMMA MovesAreSound ==
    ASSUME TypeOK, GitInvariant, NEW r \in Runs, Quiet, UNCHANGED orphans,
           NEW q \in Places \ {"idle", "done"}, GoTo(r, q), Active(r),
           Earned(r, q), InFlight(r) => q \in Pushed
    PROVE  GitInvariant'
<1>1. pc' = [pc EXCEPT ![r] = q] /\ UNCHANGED <<lock, out>> /\ pc \in [Runs -> Places]
  BY DEF GoTo, TypeOK
<1>2. UNCHANGED <<commits, head, remote, tips, landed, base, sha>> /\ Sound(r)
  BY DEF Quiet, Still, GitInvariant
<1>3. pc'[r] = q /\ Earned(r, pc[r])'
  <2>1. pc'[r] = q
    BY <1>1
  <2> QED
    BY <2>1, EarnedQuietly DEF Earned
<1>4. ResultIsLate(r)' /\ OrphansAreLate(r)'
  BY <1>1, <1>2, <1>3 DEF Sound, ResultIsLate, OrphansAreLate, Active
<1>5. PushIsKnown(r)'
  <2>1. InFlight(r)' <=> InFlight(r)
    BY <1>2 DEF InFlight
  <2>2. AsApproved(r, sha[r])' <=> AsApproved(r, sha[r])
    BY <1>2 DEF AsApproved, Changed, Before, Tree
  <2> QED
    BY <1>2, <1>3, <2>1, <2>2 DEF Sound, PushIsKnown
<1>6. Sound(r)'
  BY <1>2, <1>3, <1>4, <1>5 DEF Sound, OwnAreYounger
<1>7. \A s \in Runs \ {r} : /\ pc'[s] = pc[s] /\ out'[s] = out[s]
                            /\ base'[s] = base[s] /\ sha'[s] = sha[s]
  BY <1>1, <1>2
<1> QED
  BY <1>1, <1>2, <1>6, <1>7, ActorSteps DEF History, Still

\* A call that ends claims a failure without doubt only if no push of its own
\* has landed or may, and an effect only if the branch has had it.
LEMMA ReturnsAreSound ==
    ASSUME TypeOK, GitInvariant, NEW r \in Runs, Quiet, pc[r] # "done",
           NEW o \in Outcomes, Return(r, o),
           o \in Untouched => ~InFlight(r), o \in Effective => sha[r] \in tips,
           \/ UNCHANGED orphans
           \/ \E c \in Commands : c = pc[r] /\ orphans' = orphans \cup {<<c, r>>}
                                  /\ o \notin Untouched
    PROVE  GitInvariant'
<1>1. /\ pc' = [pc EXCEPT ![r] = "done"] /\ out' = [out EXCEPT ![r] = o]
      /\ lock' = (IF lock = r THEN None ELSE lock)
      /\ pc \in [Runs -> Places] /\ out \in [Runs -> Outcomes]
  BY DEF Return, TypeOK
<1>2. UNCHANGED <<commits, head, remote, tips, landed, base, sha>> /\ Sound(r)
  BY DEF Quiet, Still, GitInvariant
<1>3. pc'[r] = "done" /\ out'[r] = o
  BY <1>1
<1>4. Earned(r, pc[r])'
  BY <1>3 DEF Earned, Audited, Inspected, Shown, Uncommitted, Preflight, Unwinding, Rollback,
              Cleared, Pushed
<1>5. ResultIsLate(r)'
  BY <1>2, <1>3 DEF ResultIsLate
<1>6. OrphansAreLate(r)'
  <2>1. pc[r] = "rbUnstage" => base[r] # 0
    BY <1>2 DEF Sound, Earned, Cleared
  <2> QED
    BY <1>2, <1>3, <2>1 DEF Sound, OrphansAreLate
<1>7. PushIsKnown(r)'
  <2>1. InFlight(r)' => InFlight(r) \/ (pc[r] = "push" /\ o \notin Untouched)
    BY <1>2 DEF InFlight
  <2>2. pc[r] = "push" => sha[r] # 0 /\ base[r] \in tips /\ AsApproved(r, sha[r])
    BY <1>2 DEF Sound, Earned, Inspected
  <2>3. AsApproved(r, sha[r])' <=> AsApproved(r, sha[r])
    BY <1>2 DEF AsApproved, Changed, Before, Tree
  <2> QED
    BY <1>2, <1>3, <2>1, <2>2, <2>3 DEF Sound, PushIsKnown
<1>8. Sound(r)'
  BY <1>2, <1>4, <1>5, <1>6, <1>7 DEF Sound, OwnAreYounger
<1>9. \A s \in Runs \ {r} : /\ pc'[s] = pc[s] /\ out'[s] = out[s]
                            /\ base'[s] = base[s] /\ sha'[s] = sha[s]
  BY <1>1, <1>2
<1>10. \A s \in Runs \ {r}, c \in Commands : <<c, s>> \in orphans' => <<c, s>> \in orphans
  OBVIOUS
<1>11. ~Active(r)'
  BY <1>3 DEF Active
<1> QED
  BY <1>1, <1>2, <1>8, <1>9, <1>10, <1>11, ActorSteps DEF History, Still

LEMMA OnlyIsQuiet ==
    ASSUME NEW move, Only(move)
    PROVE  move /\ Quiet /\ UNCHANGED orphans
BY DEF Only, Quiet, Still, RepoStays, LocalStays, repo

\* Only after its push, or when it is over, may a call's push be in flight.
LEMMA NotInFlight ==
    ASSUME GitInvariant, NEW r \in Runs, pc[r] \notin Pushed, pc[r] # "done"
    PROVE  ~InFlight(r)
BY DEF GitInvariant, Sound, PushIsKnown

\* Before the commit.
LEMMA PreflightIsSound ==
    ASSUME TypeOK, GitInvariant, NEW r \in Runs, PreflightStep(r) \/ WriteStep(r)
    PROVE  GitInvariant'
<1>1. Earned(r, pc[r])
  BY DEF GitInvariant, Sound
<1>2. CASE \E q \in Places \ {"idle", "done"} :
              /\ Quiet /\ GoTo(r, q) /\ UNCHANGED orphans
              /\ pc[r] \in Uncommitted \ {"idle"} /\ q \in Uncommitted \cup {"rbHead"}
              /\ q \in Audited => base[r] \in tips
  <2>1. PICK q \in Places \ {"idle", "done"} :
              /\ Quiet /\ GoTo(r, q) /\ UNCHANGED orphans
              /\ pc[r] \in Uncommitted \ {"idle"} /\ q \in Uncommitted \cup {"rbHead"}
              /\ q \in Audited => base[r] \in tips
    BY <1>2
  <2>2. Active(r) /\ ~InFlight(r)
    BY <2>1, NotInFlight DEF Active, Uncommitted, Preflight, Pushed
  <2>3. \A c \in 1..Len(commits) : commits[c].by # r
    BY <1>1, <2>1 DEF Earned
  <2>4. commits[remote].by # r
    BY <2>3 DEF TypeOK
  <2>5. q \notin {"inspect"} \cup Inspected \cup Cleared /\ q \notin Shown
    BY <2>1 DEF Uncommitted, Preflight, Inspected, Pushed, Cleared, Shown
  <2>6. Earned(r, q)
    BY <2>1, <2>3, <2>4, <2>5 DEF Earned
  <2> QED
    BY <2>1, <2>2, <2>6, MovesAreSound
<1>3. CASE \/ CheckPaths(r) \/ PlanImages(r) \/ ReadPushUrl(r) \/ CheckStatus(r)
           \/ ReadRemote(r) \/ StageExecutable(r) \/ PrepareVerifier(r) \/ VerifierAccess(r)
           \/ Seal(r) \/ Build(r) \/ CheckSealed(r)
  <2>1. pc[r] \in {"verifier", "staged", "access", "write", "build", "sealed"} =>
           base[r] \in tips
    BY <1>1 DEF Earned, Audited
  <2>2. ReadRemote(r) => base[r] \in tips
    BY DEF ReadRemote, GitInvariant
  <2>3. \E q \in {"images", "identity", "status", "head", "verifier", "snapshot", "staged",
                  "access", "build", "sealed", "rbHead", "add"} :
           /\ Only(GoTo(r, q))
           /\ pc[r] \in {"path", "images", "identity", "status", "remote", "verifier",
                         "staged", "access", "write", "build", "sealed"}
           /\ q \in {"verifier", "snapshot", "staged", "access", "build", "sealed", "add"} =>
                 base[r] \in tips
    BY <1>3, <2>1, <2>2 DEF CheckPaths, PlanImages, ReadPushUrl, CheckStatus, ReadRemote,
       StageExecutable, PrepareVerifier, VerifierAccess, Seal, Build, CheckSealed, At
  <2>4. PICK q \in {"images", "identity", "status", "head", "verifier", "snapshot", "staged",
                    "access", "build", "sealed", "rbHead", "add"} :
           /\ Only(GoTo(r, q))
           /\ pc[r] \in {"path", "images", "identity", "status", "remote", "verifier",
                         "staged", "access", "write", "build", "sealed"}
           /\ q \in {"verifier", "snapshot", "staged", "access", "build", "sealed", "add"} =>
                 base[r] \in tips
    BY <2>3
  <2>5. /\ Quiet /\ GoTo(r, q) /\ UNCHANGED orphans
    BY <2>4, OnlyIsQuiet
  <2>6. /\ q \in Places \ {"idle", "done"} /\ q \in Uncommitted \cup {"rbHead"}
        /\ pc[r] \in Uncommitted \ {"idle"}
    BY <2>4 DEF Places, Uncommitted, Preflight, Rollback
  <2>7. q \in Audited => base[r] \in tips
    BY <2>4 DEF Audited
  <2> QED
    BY <1>2, <2>5, <2>6, <2>7
<1>4. CASE Refuse(r) \/ WriteFails(r)
  <2>1. Quiet /\ Return(r, "clean") /\ UNCHANGED orphans
    BY <1>4, OnlyIsQuiet DEF Refuse, WriteFails, RemoveCreated, Quiet, Still, LocalStays
  <2>2. pc[r] \notin Pushed /\ pc[r] # "done"
    BY <1>4 DEF Refuse, WriteFails, At, Preflight, Pushed
  <2>3. "clean" \in Outcomes /\ "clean" \notin Effective
    BY DEF Outcomes, Effective
  <2> QED
    BY <2>1, <2>2, <2>3, NotInFlight, ReturnsAreSound
<1>5. CASE Snapshot(r)
  <2>1. Quiet /\ GoTo(r, "write") /\ UNCHANGED orphans
    BY <1>5 DEF Snapshot, RepoStays, Quiet, Still, repo
  <2>2. pc[r] = "snapshot" /\ base[r] \in tips
    BY <1>1, <1>5 DEF Snapshot, At, Earned, Audited
  <2> QED
    BY <1>2, <2>1, <2>2 DEF Places, Uncommitted, Preflight
<1>6. CASE TakeLock(r)
  <2>1. /\ pc[r] = "idle" /\ pc' = [pc EXCEPT ![r] = "path"] /\ lock = None /\ lock' = r
        /\ UNCHANGED <<commits, head, remote, tips, landed, orphans, base, sha, out>>
    BY <1>6 DEF TakeLock, At, RepoStays, LocalStays, repo
  <2>2. pc'[r] = "path" /\ \A s \in Runs \ {r} : pc'[s] = pc[s]
    BY <2>1 DEF TypeOK
  <2>3. \A c \in 1..Len(commits) : commits[c].by # r
    BY <1>1, <2>1 DEF Earned, Uncommitted
  <2>4. Earned(r, pc[r])'
    BY <2>1, <2>2, <2>3 DEF Earned, Audited, Inspected, Pushed, Shown, Unwinding, Rollback, Cleared
  <2>5. Sound(r) /\ ~InFlight(r)
    BY <2>1, NotInFlight DEF GitInvariant, Pushed
  <2>6. Sound(r)'
    BY <2>1, <2>2, <2>4, <2>5 DEF Sound, ResultIsLate, OrphansAreLate, PushIsKnown, InFlight,
                                  OwnAreYounger
  <2> QED
    BY <2>1, <2>2, <2>6, ActorSteps DEF History, Still
<1>7. CASE ReadHead(r)
  <2>1. /\ pc[r] = "head" /\ pc' = [pc EXCEPT ![r] = "remote"]
        /\ base' = [base EXCEPT ![r] = head]
        /\ UNCHANGED <<commits, head, remote, tips, landed, orphans, sha, out, lock>>
    BY <1>7 DEF ReadHead, At, GoTo, RepoStays, repo
  <2>2. pc'[r] = "remote" /\ \A s \in Runs \ {r} : pc'[s] = pc[s] /\ base'[s] = base[s]
    BY <2>1 DEF TypeOK
  <2>3. \A c \in 1..Len(commits) : commits[c].by # r
    BY <1>1, <2>1 DEF Earned, Uncommitted, Preflight
  <2>4. Earned(r, pc[r])'
    BY <2>1, <2>2, <2>3 DEF Earned, Audited, Inspected, Pushed, Shown, Unwinding, Rollback, Cleared
  <2>5. Sound(r) /\ ~InFlight(r)
    BY <2>1, NotInFlight DEF GitInvariant, Pushed
  <2>6. Sound(r)'
    BY <2>1, <2>2, <2>3, <2>4, <2>5 DEF Sound, ResultIsLate, OrphansAreLate, PushIsKnown,
                                        InFlight, OwnAreYounger
  <2>7. Active(r)
    BY <2>1 DEF Active
  <2> QED
    BY <2>1, <2>2, <2>6, <2>7, ActorSteps DEF History, Still
<1>8. CASE WriteArtifacts(r)
  <2>1. Quiet /\ UNCHANGED <<pc, out, lock, orphans>>
    BY <1>8 DEF WriteArtifacts, Creates, Quiet, Still
  <2>2. Sound(r)'
    BY <2>1, SMTT(30)
       DEF GitInvariant, Sound, Earned, ResultIsLate, OrphansAreLate, PushIsKnown, InFlight,
           OwnAreYounger, Quiet, Still, AsApproved, Changed, Before, Tree
  <2> QED
    BY <2>1, <2>2, ActorSteps DEF Quiet, History, Still, Active
<1> QED
  BY <1>3, <1>4, <1>5, <1>6, <1>7, <1>8 DEF PreflightStep, WriteStep

\* A call's own commit, seen or not, ends in its rollback at worst.
LEMMA CommitIsSound ==
    ASSUME TypeOK, GitInvariant, NEW r \in Runs, CommitsAs(r), UNCHANGED <<base, sha>>,
           \/ /\ pc[r] = "commit"
              /\ \E q \in {"revision", "unHead"} : GoTo(r, q)
              /\ UNCHANGED orphans
           \/ /\ pc[r] = "done" /\ UNCHANGED <<pc, lock, out>>
              /\ orphans' \subseteq orphans
    PROVE  GitInvariant'
<1>1. /\ Sound(r) /\ UNCHANGED <<remote, tips, landed>> /\ Len(commits) \in Nat
      /\ base[r] \in 0..Len(commits) /\ sha[r] \in 0..Len(commits)
      /\ remote \in 1..Len(commits) /\ pc \in [Runs -> Places] /\ History(r)
  BY DEF GitInvariant, CommitsAs, TypeOK, History
<1>2. PICK c \in Commit : c.by = r /\ c.parent = head /\ commits' = Append(commits, c)
  BY DEF CommitsAs
<1>3. /\ Len(commits') = Len(commits) + 1 /\ commits'[Len(commits) + 1] = c
      /\ \A k \in 1..Len(commits) : commits'[k] = commits[k]
  BY <1>2, CommitsGrow DEF TypeOK
<1>4. OwnAreYounger(r)'
  <2>1. ASSUME NEW k \in 1..Len(commits'), commits'[k].by = r
        PROVE  base'[r] < k
    <3>1. k \in 1..Len(commits) \/ k = Len(commits) + 1
      BY <1>1, <1>3
    <3> QED
      BY <1>1, <1>3, <2>1, <3>1 DEF Sound, OwnAreYounger
  <2> QED
    BY <2>1 DEF OwnAreYounger
<1>5. ASSUME InFlight(r)'
      PROVE  InFlight(r) /\ AsApproved(r, sha[r])'
  <2>1. InFlight(r)
    BY <1>1, <1>5 DEF InFlight
  <2>2. sha[r] \in 1..Len(commits) /\ AsApproved(r, sha[r])
    BY <1>1, <2>1 DEF Sound, PushIsKnown
  <2> QED
    BY <1>1, <2>1, <2>2, ApprovalStays
<1>6. CASE pc[r] = "done"
  <2>1. UNCHANGED <<pc, lock, out>> /\ orphans' \subseteq orphans
    BY <1>6
  <2>2. Earned(r, pc[r])'
    BY <1>6, <2>1 DEF Earned, Audited, Inspected, Shown, Uncommitted, Preflight, Unwinding,
                      Rollback, Cleared, Pushed
  <2>3. Sound(r)'
    BY <1>1, <1>4, <1>5, <2>1, <2>2 DEF Sound, ResultIsLate, OrphansAreLate, PushIsKnown
  <2>4. ~Active(r)' /\ ~Active(r)
    BY <1>6, <2>1 DEF Active
  <2> QED
    BY <1>1, <2>1, <2>3, <2>4, ActorSteps
<1>7. CASE pc[r] = "commit"
  <2>1. PICK q \in {"revision", "unHead"} : GoTo(r, q) /\ UNCHANGED orphans
    BY <1>7
  <2>2. pc'[r] = q /\ UNCHANGED <<lock, out>> /\ \A s \in Runs \ {r} : pc'[s] = pc[s]
    BY <1>1, <2>1 DEF GoTo
  <2>3. base[r] \in tips /\ commits[remote].by # r
    BY <1>1, <1>7 DEF Sound, Earned, Audited, Uncommitted
  <2>4. commits'[remote'].by # r
    BY <1>1, <1>3, <2>3
  <2>5. Earned(r, pc[r])'
    BY <1>1, <2>2, <2>3, <2>4 DEF Earned, Audited, Inspected, Pushed, Shown, Uncommitted,
                                  Preflight, Unwinding, Rollback, Cleared
  <2>6. ~InFlight(r)
    BY <1>7, NotInFlight DEF Pushed
  <2>7. Sound(r)'
    BY <1>1, <1>4, <1>5, <1>7, <2>1, <2>2, <2>5, <2>6
       DEF Sound, ResultIsLate, OrphansAreLate, PushIsKnown
  <2>8. Active(r)
    BY <1>7 DEF Active
  <2> QED
    BY <1>1, <2>1, <2>2, <2>7, <2>8, ActorSteps
<1> QED
  BY <1>6, <1>7

\* A call's own push, at its place or late.
LEMMA PushIsSound ==
    ASSUME TypeOK, GitInvariant, NEW r \in Runs, PushesAs(r), UNCHANGED <<base, sha>>,
           \/ pc[r] = "push" /\ GoTo(r, "readback") /\ UNCHANGED orphans
           \/ /\ <<"push", r>> \in orphans /\ UNCHANGED <<pc, lock, out>>
              /\ orphans' \subseteq orphans
    PROVE  GitInvariant'
<1>1. /\ Sound(r) /\ UNCHANGED <<commits, head>> /\ remote' = sha[r] /\ sha[r] # 0
      /\ tips' = tips \cup {sha[r]} /\ pc \in [Runs -> Places] /\ History(r)
      /\ landed' = [landed EXCEPT ![r] = sha[r]]
      /\ landed \in [Runs -> 0..Len(commits)] /\ sha[r] \in 0..Len(commits)
  BY DEF GitInvariant, PushesAs, TypeOK, History
<1>2. base[r] \in tips /\ AsApproved(r, sha[r])
  BY <1>1 DEF Sound, Earned, Inspected, PushIsKnown, InFlight
<1>3. AsApproved(r, sha[r])'
  BY <1>1, <1>2 DEF AsApproved, Changed, Before, Tree
<1>4. landed'[r] = sha'[r]
  BY <1>1
<1>5. OwnAreYounger(r)'
  BY <1>1 DEF Sound, OwnAreYounger
<1>6. pc'[r] \in Pushed \/ (pc'[r] = "done" /\ out[r] \notin Untouched /\ pc[r] = "done")
  BY <1>1 DEF Sound, PushIsKnown, InFlight, GoTo, Pushed
<1>7. pc'[r] = pc[r] \/ pc'[r] = "readback"
  BY <1>1 DEF GoTo
<1>8. UNCHANGED <<lock, out>> /\ \A s \in Runs \ {r} : pc'[s] = pc[s]
  BY <1>1 DEF GoTo
<1>9. Earned(r, pc[r])'
  BY <1>1, <1>2, <1>3, <1>6 DEF Earned, Audited, Inspected, Pushed, Shown, Uncommitted,
                                Preflight, Unwinding, Rollback, Cleared
<1>10. ResultIsLate(r)'
  BY <1>1, <1>6, <1>7, <1>8 DEF Sound, ResultIsLate
<1>11. OrphansAreLate(r)'
  BY <1>1, <1>6, <1>7, <1>8 DEF Sound, OrphansAreLate
<1>12. PushIsKnown(r)'
  BY <1>1, <1>2, <1>3, <1>4, <1>6, <1>8 DEF PushIsKnown
<1>13. Active(r)' => Active(r)
  BY <1>6, <1>7, <1>8 DEF Active, Pushed, Sound
<1>14. Sound(r)'
  BY <1>5, <1>9, <1>10, <1>11, <1>12 DEF Sound
<1>15. \A s \in Runs \ {r}, c \in Commands : <<c, s>> \in orphans' => <<c, s>> \in orphans
  OBVIOUS
<1> QED
  BY <1>1, <1>8, <1>13, <1>14, <1>15, ActorSteps

\* From git add to the answer of the platform.
LEMMA PublishIsSound ==
    ASSUME TypeOK, GitInvariant, NEW r \in Runs, PublishStep(r) \/ ProofStep(r)
    PROVE  GitInvariant'
<1>1. Sound(r) /\ Earned(r, pc[r]) /\ remote \in tips
  BY DEF GitInvariant, Sound
<1>2. ASSUME Quiet, UNCHANGED orphans, GoTo(r, "unHead"),
             pc[r] \in {"add", "commit", "revision"}
      PROVE  GitInvariant'
  <2>1. Active(r) /\ ~InFlight(r) /\ "unHead" \in Places \ {"idle", "done"}
    BY <1>2, NotInFlight DEF Active, Pushed, Places, Rollback
  <2>2. commits[remote].by = r => remote <= head
    BY <1>1, <1>2 DEF Earned, Uncommitted, Unwinding, TypeOK
  <2>3. Earned(r, "unHead")
    BY <2>2 DEF Earned, Audited, Inspected, Pushed, Shown, Uncommitted, Preflight, Unwinding,
                Rollback, Cleared
  <2> QED
    BY <1>2, <2>1, <2>3, MovesAreSound
<1>3. CASE Add(r)
  <2>1. Quiet /\ UNCHANGED orphans /\ GoTo(r, "commit") /\ pc[r] = "add"
    BY <1>3, EffectHistory DEF Add, CommandOk, At, Commands, Quiet, LocalStays
  <2>2. Active(r) /\ ~InFlight(r) /\ "commit" \in Places \ {"idle", "done"}
    BY <2>1, NotInFlight DEF Active, Pushed, Places
  <2>3. Earned(r, "commit")
    BY <1>1, <2>1 DEF Earned, Audited, Inspected, Pushed, Shown, Uncommitted, Preflight,
                      Unwinding, Rollback, Cleared
  <2> QED
    BY <2>1, <2>2, <2>3, MovesAreSound
<1>4. CASE AddFails(r)
  <2>1. UNCHANGED <<orphans, base, sha>> /\ GoTo(r, "unHead") /\ pc[r] = "add"
        /\ (Effect("add", r) \/ NoEffect)
    BY <1>4 DEF AddFails, CommandFails, At, LocalStays
  <2>2. Quiet
    BY <2>1, EffectHistory DEF NoEffect, Commands, Quiet, Still, repo
  <2> QED
    BY <1>2, <2>1, <2>2
<1>5. CASE CommitOk(r) \/ CommitFails(r)
  <2>1. /\ pc[r] = "commit" /\ UNCHANGED <<orphans, base, sha>>
        /\ \/ GoTo(r, "revision") /\ Effect("commit", r)
           \/ GoTo(r, "unHead") /\ (Effect("commit", r) \/ NoEffect)
    BY <1>5 DEF CommitOk, CommitFails, CommandOk, CommandFails, At, LocalStays
  <2>2. CASE Effect("commit", r)
    <3>1. CommitsAs(r)
      BY <2>2, EffectHistory DEF Commands
    <3> QED
      BY <2>1, <3>1, CommitIsSound
  <2>3. CASE NoEffect /\ GoTo(r, "unHead")
    <3>1. Quiet
      BY <2>1, <2>3 DEF NoEffect, Quiet, Still, repo
    <3> QED
      BY <1>2, <2>1, <2>3, <3>1
  <2> QED
    BY <2>1, <2>2, <2>3
<1>6. CASE ReadRevision(r)
  <2>1. CASE Only(GoTo(r, "unHead"))
    BY <1>2, <1>6, <2>1, OnlyIsQuiet DEF ReadRevision, At
  <2>2. CASE /\ sha' = [sha EXCEPT ![r] = head]
             /\ GoTo(r, "inspect") /\ UNCHANGED <<base, saved, made, receipt>> /\ RepoStays
    <3>1. /\ pc[r] = "revision" /\ pc' = [pc EXCEPT ![r] = "inspect"]
          /\ UNCHANGED <<commits, head, remote, tips, landed, orphans, base, out, lock>>
      BY <1>6, <2>2 DEF ReadRevision, At, GoTo, RepoStays, repo
    <3>2. /\ pc'[r] = "inspect" /\ sha'[r] = head /\ head # 0
          /\ \A s \in Runs \ {r} : pc'[s] = pc[s] /\ sha'[s] = sha[s]
      BY <2>2, <3>1 DEF TypeOK
    <3>3. Earned(r, pc[r])'
      BY <1>1, <3>1, <3>2 DEF Earned, Audited, Inspected, Pushed, Shown, Uncommitted,
                              Preflight, Unwinding, Rollback, Cleared
    <3>4. ~InFlight(r) /\ Active(r)
      BY <3>1, NotInFlight DEF Pushed, Active
    <3>5. Sound(r)'
      BY <1>1, <3>1, <3>2, <3>3, <3>4 DEF Sound, ResultIsLate, OrphansAreLate, PushIsKnown,
         InFlight, OwnAreYounger, Effective, Pushed
    <3> QED
      BY <3>1, <3>2, <3>4, <3>5, ActorSteps DEF History, Still
  <2> QED
    BY <1>6, <2>1, <2>2 DEF ReadRevision
<1>7. ASSUME NEW q \in Inspected, Only(GoTo(r, q)),
             pc[r] \in {"inspect", "still"} \cup Pushed,
             pc[r] \in Pushed => q \in Pushed,
             base[r] \in tips /\ AsApproved(r, sha[r]),
             q \in Shown => sha[r] \in tips
      PROVE  GitInvariant'
  <2>1. Active(r) /\ q \in Places \ {"idle", "done"} /\ (InFlight(r) => q \in Pushed)
    BY <1>7, NotInFlight DEF Active, Inspected, Pushed, Places
  <2>2. Earned(r, q)
    BY <1>1, <1>7 DEF Earned, Audited, Inspected, Pushed, Shown, Uncommitted, Preflight,
                      Unwinding, Rollback, Cleared
  <2> QED
    BY <1>7, <2>1, <2>2, OnlyIsQuiet, MovesAreSound
<1>8. ASSUME NEW o \in Outcomes, Only(Return(r, o)), pc[r] # "done",
             o \in Untouched => pc[r] \notin Pushed,
             o \in Effective => sha[r] \in tips
      PROVE  GitInvariant'
  BY <1>8, NotInFlight, OnlyIsQuiet, ReturnsAreSound
<1>9. pc[r] \in Inspected => base[r] \in tips /\ AsApproved(r, sha[r])
  BY <1>1 DEF Earned
<1>10. pc[r] \in Shown => sha[r] \in tips
  BY <1>1 DEF Earned
<1>11. CASE Inspect(r) \/ CheckHead(r)
  <2>1. pc[r] \in {"inspect", "still"} /\ pc[r] \notin Pushed /\ "kept" \in Outcomes \ Effective
    BY <1>11 DEF Inspect, CheckHead, At, Pushed, Outcomes, Effective
  <2>2. CASE Only(Return(r, "kept"))
    BY <1>8, <2>1, <2>2
  <2>3. CASE Inspect(r) /\ AsApproved(r, sha[r]) /\ Only(GoTo(r, "still"))
    <3>1. base[r] \in tips
      BY <1>1, <2>3 DEF Inspect, At, Earned, Audited
    <3> QED
      BY <1>7, <2>1, <2>3, <3>1 DEF Inspected, Shown
  <2>4. CASE CheckHead(r) /\ Only(GoTo(r, "push"))
    BY <1>7, <1>9, <2>1, <2>4 DEF Inspected, Shown, CheckHead, At
  <2> QED
    BY <1>11, <2>2, <2>3, <2>4 DEF Inspect, CheckHead
<1>12. CASE Push(r)
  <2>1. /\ pc[r] = "push" /\ Effect("push", r) /\ GoTo(r, "readback")
        /\ UNCHANGED <<orphans, base, sha>>
    BY <1>12 DEF Push, CommandOk, At, LocalStays
  <2>2. sha[r] # 0
    BY <1>1, <2>1 DEF Earned, Inspected
  <2>3. PushesAs(r)
    BY <2>1, <2>2, EffectHistory DEF Commands
  <2> QED
    BY <2>1, <2>3, PushIsSound
<1>13. CASE PushFails(r)
  <2>1. pc[r] = "push" /\ Quiet /\ "push" \in Commands /\ Sound(r)
    BY <1>1, <1>13 DEF PushFails, At, NoEffect, LocalStays, Quiet, Still, repo, Commands
  <2>2. /\ UNCHANGED <<commits, head, remote, tips, landed, base, sha>>
        /\ sha[r] # 0 /\ base[r] \in tips /\ AsApproved(r, sha[r]) /\ ~InFlight(r)
    BY <1>1, <2>1, NotInFlight DEF Quiet, Still, Earned, Inspected, Pushed
  <2>3. CASE Return(r, "kept") /\ UNCHANGED orphans
    BY <2>1, <2>2, <2>3, ReturnsAreSound DEF Outcomes, Effective
  <2>4. CASE Return(r, "unknown") /\ orphans' = orphans \cup {<<"push", r>>}
    BY <2>1, <2>4, ReturnsAreSound DEF Outcomes, Untouched, Effective
  <2>5. CASE GoTo(r, "readback") /\ orphans' \in {orphans, orphans \cup {<<"push", r>>}}
    <3>1. /\ pc' = [pc EXCEPT ![r] = "readback"] /\ UNCHANGED <<lock, out>>
          /\ pc'[r] = "readback" /\ \A s \in Runs \ {r} : pc'[s] = pc[s]
      BY <2>5 DEF GoTo, TypeOK
    <3>2. AsApproved(r, sha[r])'
      BY <2>2 DEF AsApproved, Changed, Before, Tree
    <3>3. Earned(r, pc[r])'
      BY <2>2, <3>1, <3>2 DEF Earned, Audited, Inspected, Pushed, Shown, Uncommitted,
                              Preflight, Unwinding, Rollback, Cleared
    <3>4. Sound(r)'
      BY <2>1, <2>2, <2>5, <3>1, <3>2, <3>3 DEF Sound, ResultIsLate, OrphansAreLate,
         PushIsKnown, OwnAreYounger, Pushed
    <3>5. \A s \in Runs \ {r}, c \in Commands : <<c, s>> \in orphans' => <<c, s>> \in orphans
      BY <2>5
    <3>6. Active(r)
      BY <2>1 DEF Active
    <3> QED
      BY <2>2, <3>1, <3>4, <3>5, <3>6, ActorSteps DEF History, Still
  <2> QED
    BY <1>13, <2>3, <2>4, <2>5 DEF PushFails
<1>14. CASE ReadBack(r)
  <2>1. pc[r] = "readback" /\ "readback" \in Pushed /\ "journal" \in Inspected \cap Pushed
    BY <1>14 DEF ReadBack, At, Pushed, Inspected
  <2>2. "unknown" \in Outcomes /\ "unknown" \notin Untouched \cup Effective
    BY DEF Outcomes, Untouched, Effective
  <2>3. CASE remote = sha[r] /\ Only(GoTo(r, "journal"))
    BY <1>1, <1>7, <1>9, <2>1, <2>3 DEF Inspected
  <2> QED
    BY <1>8, <1>14, <2>1, <2>2, <2>3 DEF ReadBack
<1>15. CASE ProofStep(r)
  <2>1. /\ pc[r] \in Shown /\ pc[r] \in Pushed /\ pc[r] \in Inspected /\ pc[r] # "done"
        /\ sha[r] \in tips
    BY <1>10, <1>15 DEF ProofStep, Journal, Deployment, ConfirmSite, ReadPage, At, Shown,
                        Pushed, Inspected
  <2>2. /\ Quiet /\ UNCHANGED orphans
        /\ \/ \E q \in {"deploy", "site", "page"} : GoTo(r, q)
           \/ \E o \in {"accepted", "failed", "unproven"} : Return(r, o)
    BY <1>15, OnlyIsQuiet DEF ProofStep, Journal, Deployment, ConfirmSite, ReadPage, Quiet, Still,
                        RepoStays, LocalStays, Only, repo
  <2>3. ASSUME NEW q \in {"deploy", "site", "page"}, GoTo(r, q)
        PROVE  GitInvariant'
    <3>1. Active(r) /\ q \in Places \ {"idle", "done"} /\ q \in Pushed
      BY <2>1 DEF Active, Shown, Pushed, Places
    <3>2. Earned(r, q)
      BY <1>9, <2>1, <1>1 DEF Earned, Audited, Inspected, Pushed, Shown, Uncommitted,
                              Preflight, Unwinding, Rollback, Cleared
    <3> QED
      BY <2>2, <2>3, <3>1, <3>2, MovesAreSound
  <2>4. ASSUME NEW o \in {"accepted", "failed", "unproven"}, Return(r, o)
        PROVE  GitInvariant'
    BY <2>1, <2>2, <2>4, ReturnsAreSound DEF Outcomes, Untouched
  <2> QED
    BY <2>2, <2>3, <2>4
<1> QED
  BY <1>3, <1>4, <1>5, <1>6, <1>11, <1>12, <1>13, <1>14, <1>15 DEF PublishStep

\* The rollback, the end of the process, and commands that outlive it.
LEMMA RollbackIsSound ==
    ASSUME TypeOK, GitInvariant, NEW r \in Runs,
           \/ RollbackStep(r) \/ Interrupted(r)
           \/ \E command \in Commands : OrphanLands(command, r)
    PROVE  GitInvariant'
<1>1. Sound(r) /\ Earned(r, pc[r])
  BY DEF GitInvariant, Sound
<1>2. ASSUME NEW q \in Cleared, Quiet, UNCHANGED orphans, GoTo(r, q), pc[r] \in Rollback,
             base[r] # 0, commits[head].by # r, commits[remote].by # r
      PROVE  GitInvariant'
  <2>1. Active(r) /\ ~InFlight(r) /\ q \in Places \ {"idle", "done"}
    BY <1>2, NotInFlight DEF Active, Rollback, Pushed, Places, Cleared
  <2>2. Earned(r, q)
    BY <1>2 DEF Earned, Audited, Inspected, Pushed, Shown, Uncommitted, Preflight, Unwinding,
                Rollback, Cleared
  <2> QED
    BY <1>2, <2>1, <2>2, MovesAreSound
<1>3. ASSUME NEW o \in {"manual", "clean"}, Quiet, UNCHANGED orphans, Return(r, o),
             pc[r] \in Rollback
      PROVE  GitInvariant'
  <2>1. ~InFlight(r) /\ pc[r] # "done" /\ o \in Outcomes /\ o \notin Effective
    BY <1>3, NotInFlight DEF Rollback, Pushed, Outcomes, Effective
  <2> QED
    BY <1>3, <2>1, ReturnsAreSound
<1>4. CASE RollbackHead(r)
  <2>1. /\ pc[r] \in {"rbHead", "unHead"} /\ head = base[r]
        /\ \E q \in {"rbFiles", "unFiles"} : Only(GoTo(r, q))
    BY <1>4 DEF RollbackHead, At
  <2>2. /\ head \in 1..Len(commits) /\ remote \in 1..Len(commits) /\ Len(commits) \in Nat
        /\ \A c \in 1..Len(commits) : commits[c].by = r => base[r] < c
        /\ commits[remote].by = r => remote <= head
    BY <1>1, <2>1 DEF TypeOK, Sound, OwnAreYounger, Earned, Unwinding, Rollback
  <2>3. base[r] # 0 /\ commits[head].by # r /\ commits[remote].by # r
    BY <2>1, <2>2
  <2>4. PICK q \in Cleared : Only(GoTo(r, q))
    BY <2>1 DEF Cleared
  <2> QED
    BY <1>2, <2>1, <2>3, <2>4, OnlyIsQuiet DEF Rollback
<1>5. pc[r] \in Cleared => base[r] # 0 /\ commits[head].by # r /\ commits[remote].by # r
  BY <1>1 DEF Earned
<1>6. CASE RollbackFiles(r) \/ StagedPaths(r)
  <2>1. /\ pc[r] \in {"rbFiles", "unFiles", "unStaged", "rbStaged"}
        /\ \E q \in {"unStaged", "rbUnstage", "rbRemove"} : Only(GoTo(r, q))
    BY <1>6 DEF RollbackFiles, StagedPaths, At
  <2>2. PICK q \in Cleared : Only(GoTo(r, q))
    BY <2>1 DEF Cleared
  <2> QED
    BY <1>2, <1>5, <2>1, <2>2, OnlyIsQuiet DEF Rollback, Cleared
<1>7. CASE RollbackStops(r) \/ RollbackStatus(r)
  BY <1>3, <1>7, OnlyIsQuiet DEF RollbackStops, RollbackStatus, At, Rollback
<1>8. CASE Unstage(r) \/ UnstageFails(r)
  <2>1. /\ pc[r] = "rbUnstage" /\ UNCHANGED <<orphans, base, sha>>
        /\ GoTo(r, "rbStaged") \/ Return(r, "manual")
        /\ Effect("rbUnstage", r) \/ NoEffect
    BY <1>8 DEF Unstage, UnstageFails, CommandOk, CommandFails, At, LocalStays
  <2>2. Quiet
    BY <2>1, EffectHistory DEF NoEffect, Commands, Quiet, Still, repo
  <2>3. pc[r] \in Cleared \cap Rollback /\ "rbStaged" \in Cleared
    BY <2>1 DEF Cleared, Rollback
  <2> QED
    BY <1>2, <1>3, <1>5, <2>1, <2>2, <2>3
<1>9. CASE RemoveFiles(r)
  <2>1. /\ pc[r] = "rbRemove" /\ Quiet /\ UNCHANGED orphans
        /\ GoTo(r, "rbStatus") \/ Return(r, "manual")
    BY <1>9 DEF RemoveFiles, PutBack, At, LocalStays, Quiet, Still
  <2>2. pc[r] \in Cleared \cap Rollback /\ "rbStatus" \in Cleared
    BY <2>1 DEF Cleared, Rollback
  <2> QED
    BY <1>2, <1>3, <1>5, <2>1, <2>2
<1>10. CASE Interrupted(r)
  <2>1. /\ pc[r] # "done" /\ Return(r, "raised") /\ Quiet
        /\ \/ UNCHANGED orphans
           \/ \E c \in Commands : c = pc[r] /\ orphans' = orphans \cup {<<c, r>>}
    BY <1>10 DEF Interrupted, LocalStays, Quiet, Still, repo
  <2>2. "raised" \in Outcomes /\ "raised" \notin Untouched \cup Effective
    BY DEF Outcomes, Untouched, Effective
  <2> QED
    BY <2>1, <2>2, ReturnsAreSound
<1>11. ASSUME NEW command \in Commands, OrphanLands(command, r)
       PROVE  GitInvariant'
  <2>1. /\ <<command, r>> \in orphans /\ orphans' \subseteq orphans /\ Effect(command, r)
        /\ UNCHANGED <<pc, lock, out, base, sha>>
    BY <1>11 DEF OrphanLands, calls
  <2>2. (command = "push" => sha[r] # 0) /\ (command # "push" => pc[r] = "done")
    BY <1>1, <2>1 DEF Sound, PushIsKnown, InFlight, OrphansAreLate
  <2>3. CASE command = "commit"
    BY <2>1, <2>2, <2>3, EffectHistory, CommitIsSound
  <2>4. CASE command = "push"
    BY <2>1, <2>2, <2>4, EffectHistory, PushIsSound
  <2>5. CASE command \notin {"commit", "push"}
    <3>1. Quiet
      BY <2>1, <2>5, EffectHistory DEF Quiet
    <3>2. UNCHANGED <<commits, head, remote, tips, landed, base, sha>>
      BY <3>1 DEF Quiet, Still
    <3>3. Earned(r, pc[r])'
      BY <1>1, <2>1, <3>1, EarnedQuietly DEF Earned
    <3>4. InFlight(r)' => InFlight(r)
      BY <2>1, <3>2 DEF InFlight
    <3>5. AsApproved(r, sha[r])' <=> AsApproved(r, sha[r])
      BY <3>2 DEF AsApproved, Changed, Before, Tree
    <3>6. Sound(r)'
      BY <1>1, <2>1, <3>2, <3>3, <3>4, <3>5 DEF Sound, ResultIsLate, OrphansAreLate, PushIsKnown,
         OwnAreYounger
    <3>7. Active(r)' => Active(r)
      BY <2>1 DEF Active
    <3> QED
      BY <2>1, <3>2, <3>6, <3>7, ActorSteps DEF History, Still
  <2> QED
    BY <2>3, <2>4, <2>5
<1> QED
  BY <1>4, <1>6, <1>7, <1>8, <1>9, <1>10, <1>11 DEF RollbackStep

LEMMA OutsiderIsSound == TypeOK /\ GitInvariant /\ OutsiderStep => GitInvariant'
<1> SUFFICES ASSUME TypeOK, GitInvariant, OutsiderStep PROVE GitInvariant'
  OBVIOUS
<1>1. UNCHANGED <<calls, orphans, landed>>
  BY DEF OutsiderStep, OutsiderEdits, OutsiderStages, OutsiderCommits, OutsiderResets,
         OutsiderPushes, OutsiderSteps
<1>2. /\ head \in 1..Len(commits) /\ remote \in 1..Len(commits) /\ Len(commits) \in Nat
      /\ index \in [Paths -> Contents] /\ Outsider \in Contents
  BY DEF TypeOK, Contents
<1>3. CASE OutsiderEdits \/ OutsiderStages
  BY <1>1, <1>3, OutsideSteps DEF OutsiderEdits, OutsiderStages, History, Still
<1>4. CASE OutsiderResets
  BY <1>1, <1>4, OutsideSteps DEF OutsiderResets, History, OthersPush
<1>5. CASE OutsiderCommits
  <2> DEFINE c == [parent |-> head, tree |-> index, by |-> Outsider]
  <2>1. c \in Commit /\ c.by = Outsider /\ c.parent = head
    BY <1>2 DEF Commit
  <2>2. commits' = Append(commits, c)
    BY <1>5 DEF OutsiderCommits
  <2> HIDE DEF c
  <2>3. CommitsAs(Outsider)
    BY <1>1, <1>5, <2>1, <2>2 DEF OutsiderCommits, CommitsAs
  <2> QED
    BY <1>1, <2>3, OutsideSteps DEF History
<1>6. CASE OutsiderPushes
  <2>1. ASSUME NEW p \in Paths,
               commits' = Append(commits, [parent |-> remote, by |-> Outsider,
                                           tree |-> [Tree(remote) EXCEPT ![p] = Outsider]]),
               remote' = Len(commits) + 1
        PROVE  OthersPush
    <3> DEFINE c == [parent |-> remote, by |-> Outsider,
                     tree |-> [Tree(remote) EXCEPT ![p] = Outsider]]
    <3>1. Tree(remote) \in [Paths -> Contents]
      BY <1>2, TreesAreTrees
    <3>2. c \in Commit /\ c.by = Outsider /\ c.parent = remote
      BY <1>2, <3>1 DEF Commit
    <3>3. commits' = Append(commits, c)
      BY <2>1
    <3> HIDE DEF c
    <3> QED
      BY <1>1, <1>6, <2>1, <3>2, <3>3 DEF OutsiderPushes, OthersPush
  <2>2. ASSUME remote' = head, UNCHANGED commits
        PROVE  OthersPush
    BY <1>1, <1>6, <2>2 DEF OutsiderPushes, OthersPush
  <2>3. OthersPush
    BY <1>6, <2>1, <2>2 DEF OutsiderPushes
  <2> QED
    BY <1>1, <2>3, OutsideSteps DEF History
<1> QED
  BY <1>3, <1>4, <1>5, <1>6 DEF OutsiderStep

LEMMA InitGit == Init => TypeOK /\ GitInvariant
<1> SUFFICES ASSUME Init PROVE TypeOK /\ GitInvariant
  OBVIOUS
<1> DEFINE first == [parent |-> 0, tree |-> [p \in Paths |-> None], by |-> Outsider]
<1>1. commits = <<first>> /\ head = 1 /\ remote = 1
  BY DEF Init
<1>2. None \in Contents /\ Outsider \in Runs \cup {Outsider} /\ Outsider \notin Runs
  BY GitPublishAssumption DEF Contents
<1>3. first \in Commit /\ first.parent = 0 /\ first.by = Outsider
      /\ first.tree = [p \in Paths |-> None]
  BY <1>2 DEF Commit
<1> HIDE DEF first
<1>4. commits \in Seq(Commit) /\ Len(commits) = 1 /\ commits[1] = first
  BY <1>1, <1>3
<1>5. Tree(1) \in [Paths -> Contents]
  BY <1>2, <1>3, <1>4 DEF Tree
<1>6. TypeOK
  BY <1>1, <1>2, <1>3, <1>4, <1>5 DEF Init, TypeOK, Places, Outcomes
<1>7. \A r \in Runs : ~Active(r) /\ ~InFlight(r) /\ pc[r] = "idle"
  BY DEF Init, Active, InFlight
<1>8. \A c \in 1..Len(commits) : commits[c].by = Outsider
  BY <1>3, <1>4
<1>9. \A r \in Runs : Earned(r, pc[r]) /\ OwnAreYounger(r)
  BY <1>2, <1>7, <1>8 DEF Earned, OwnAreYounger, Audited, Inspected, Pushed, Shown, Unwinding,
                          Rollback, Cleared
<1>10. \A r \in Runs : ResultIsLate(r) /\ OrphansAreLate(r) /\ PushIsKnown(r)
  BY <1>7 DEF Init, ResultIsLate, OrphansAreLate, PushIsKnown, Effective
<1>11. LockHeld /\ remote \in tips /\ NotTaken
  BY <1>7 DEF Init, LockHeld, NotTaken
<1> QED
  BY <1>6, <1>9, <1>10, <1>11 DEF GitInvariant, Sound

LEMMA StepIsSound == TypeOK /\ GitInvariant /\ [Next]_vars => GitInvariant'
<1> SUFFICES ASSUME TypeOK, GitInvariant, [Next]_vars PROVE GitInvariant'
  OBVIOUS
<1>1. CASE UNCHANGED vars
  BY <1>1, OutsideSteps DEF vars, repo, calls, History, Still
<1> QED
  BY <1>1, PreflightIsSound, PublishIsSound, RollbackIsSound, OutsiderIsSound DEF Next

-----------------------------------------------------------------------------
(* What follows.                                                             *)

(* Types, and what every call has established, whatever outsiders do.        *)
THEOREM GitIsSound == Spec => [](TypeOK /\ GitInvariant)
<1>1. Init => TypeOK /\ GitInvariant
  BY InitGit
<1>2. TypeOK /\ GitInvariant /\ [Next]_vars => (TypeOK /\ GitInvariant)'
  BY StepTypes, StepIsSound
<1> QED
  BY <1>1, <1>2, PTL DEF Spec

(* What a call says is true: no push of its own lands, then or later, after  *)
(* it has reported a failure without doubt, and an effect it claims is on    *)
(* the branch (publish).                                                     *)
THEOREM ResultsAreHonest == Spec => []HonestResult
<1>1. TypeOK /\ GitInvariant => HonestResult
  <2> SUFFICES ASSUME GitInvariant, NEW r \in Runs
               PROVE  /\ out[r] \in Untouched => landed[r] = 0 /\ <<"push", r>> \notin orphans
                      /\ out[r] \in Effective => sha[r] \in tips
    BY DEF HonestResult
  <2>1. Sound(r)
    BY DEF GitInvariant
  <2> QED
    BY <2>1 DEF Sound, ResultIsLate, PushIsKnown, InFlight, Untouched, Pushed
<1> QED
  BY <1>1, GitIsSound, PTL

(* A call's push adds one commit to a published tip: the approved bytes at   *)
(* the approved paths, and nothing else (_verify_commit, the push with a     *)
(* lease).                                                                   *)
THEOREM PushesAreApproved == Spec => []PushedAsApproved
<1>1. TypeOK /\ GitInvariant => PushedAsApproved
  <2> SUFFICES ASSUME TypeOK, GitInvariant, NEW r \in Runs, landed[r] # 0
               PROVE  LET c == commits[landed[r]]
                      IN  /\ c.parent \in tips
                          /\ c.tree = [p \in Paths |->
                                         IF p \in PathsOf[r] THEN r ELSE Tree(c.parent)[p]]
    BY DEF PushedAsApproved
  <2> DEFINE k == landed[r]
             c == commits[k]
  <2>1. /\ Sound(r) /\ InFlight(r) /\ k \in 1..Len(commits)
    BY DEF GitInvariant, InFlight, TypeOK
  <2>2. k = sha[r] /\ base[r] \in tips /\ AsApproved(r, k)
    BY <2>1 DEF Sound, PushIsKnown
  <2>3. c.parent = base[r] /\ c.parent # 0 /\ c.parent \in 1..Len(commits)
    BY <2>2 DEF AsApproved, TypeOK
  <2>4. Before(k) = Tree(c.parent) /\ Tree(k) = c.tree
    BY <2>3 DEF Before, Tree
  <2>5. c.tree \in [Paths -> Contents]
    BY <2>1, <2>4, TreesAreTrees
  <2>6. \A p \in Paths : c.tree[p] = IF p \in PathsOf[r] THEN r ELSE Tree(c.parent)[p]
    BY <2>2, <2>4 DEF AsApproved, Changed
  <2>7. c.tree = [p \in Paths |-> IF p \in PathsOf[r] THEN r ELSE Tree(c.parent)[p]]
    BY <2>5, <2>6
  <2> QED
    BY <2>2, <2>3, <2>7
<1> QED
  BY <1>1, GitIsSound, PTL

(* A call writes where nothing was and removes only bytes it was approved    *)
(* for, or puts back what lay there before (create_bytes, unlink_approved,   *)
(* _rollback_precommit).                                                     *)
THEOREM NothingForeignIsTouched == Spec => ForeignWorkSurvives
<1> DEFINE Touches == \A p \in Paths : file'[p] # file[p] /\ outside' = outside =>
              \E r \in Runs : \/ file[p] = None /\ file'[p] = r
                              \/ file[p] = r /\ file'[p] \in {None, saved[r][p]}
<1>1. TypeOK /\ [Next]_vars => [Touches]_vars
  <2> SUFFICES ASSUME TypeOK, Next, NEW p \in Paths, file'[p] # file[p], outside' = outside
               PROVE  \E r \in Runs : \/ file[p] = None /\ file'[p] = r
                                      \/ file[p] = r /\ file'[p] \in {None, saved[r][p]}
    OBVIOUS
  <2>1. ~OutsiderStep
    BY DEF OutsiderStep, OutsiderEdits, OutsiderStages, OutsiderCommits, OutsiderResets,
           OutsiderPushes, OutsiderSteps, TypeOK
  <2>2. ASSUME NEW r \in Runs, NEW command \in Commands,
               Effect(command, r) \/ NoEffect
        PROVE  FALSE
    BY <2>2 DEF Effect, NoEffect, AddEffect, CommitEffect, PushEffect, RestoreEffect, repo
  <2>3. ASSUME NEW r \in Runs, NEW move, Only(move)
        PROVE  FALSE
    BY <2>3 DEF Only, RepoStays, repo
  <2>4. ASSUME NEW r \in Runs, PreflightStep(r)
        PROVE  FALSE
    <3>1. TakeLock(r) \/ ReadHead(r) \/ Snapshot(r)
      BY <2>3, <2>4 DEF PreflightStep, Refuse, CheckPaths, PlanImages, ReadPushUrl,
         CheckStatus, ReadRemote, StageExecutable, PrepareVerifier, VerifierAccess
    <3> QED
      BY <3>1 DEF TakeLock, ReadHead, Snapshot, RepoStays, repo
  <2>5. ASSUME NEW r \in Runs, WriteStep(r)
        PROVE  \/ file[p] = None /\ file'[p] = r
               \/ file[p] = r /\ file'[p] = None
    <3>1. WriteArtifacts(r) \/ WriteFails(r)
      BY <2>3, <2>5 DEF WriteStep, Seal, Build, CheckSealed
    <3>2. CASE WriteArtifacts(r)
      BY <3>2 DEF WriteArtifacts, Creates, TypeOK
    <3>3. CASE WriteFails(r)
      BY <3>3 DEF WriteFails, RemoveCreated, Own, TypeOK
    <3> QED
      BY <3>1, <3>2, <3>3
  <2>6. ASSUME NEW r \in Runs, PublishStep(r)
        PROVE  FALSE
    <3>1. ~ReadRevision(r)
      BY <2>3 DEF ReadRevision, RepoStays, repo
    <3>2. Push(r) \/ PushFails(r) \/ Add(r) \/ AddFails(r) \/ CommitOk(r) \/ CommitFails(r)
      BY <2>3, <2>6, <3>1 DEF PublishStep, Inspect, CheckHead, ReadBack
    <3> QED
      BY <2>2, <3>2 DEF Push, PushFails, Add, AddFails, CommitOk, CommitFails,
                        CommandOk, CommandFails, Commands
  <2>7. ASSUME NEW r \in Runs, ProofStep(r)
        PROVE  FALSE
    BY <2>7 DEF ProofStep, Journal, Deployment, ConfirmSite, ReadPage, Only, RepoStays, repo
  <2>8. ASSUME NEW r \in Runs, RollbackStep(r)
        PROVE  file[p] = r /\ file'[p] \in {None, saved[r][p]}
    <3>1. RemoveFiles(r) \/ Unstage(r) \/ UnstageFails(r)
      BY <2>3, <2>8 DEF RollbackStep, RollbackStops, RollbackHead, RollbackFiles, StagedPaths,
                        RollbackStatus
    <3>2. RemoveFiles(r)
      BY <2>2, <3>1 DEF Unstage, UnstageFails, CommandOk, CommandFails, Commands
    <3> QED
      BY <3>2 DEF RemoveFiles, PutBack, Own, TypeOK
  <2>9. ASSUME NEW r \in Runs, Interrupted(r)
        PROVE  FALSE
    BY <2>9 DEF Interrupted, repo
  <2>10. ASSUME NEW r \in Runs, NEW command \in Commands, OrphanLands(command, r)
         PROVE  FALSE
    BY <2>2, <2>10 DEF OrphanLands
  <2> QED
    BY <2>1, <2>4, <2>5, <2>6, <2>7, <2>8, <2>9, <2>10 DEF Next
<1> QED
  BY <1>1, GitIsSound, PTL DEF Spec, ForeignWorkSurvives

(* A rollback that asks for no manual work has left no commit, no file and   *)
(* nothing staged behind: HEAD has not become the call's commit again since  *)
(* it was checked (_rollback_precommit).                                     *)
THEOREM RollbacksAreComplete == Spec => RollbackLeavesNoTrace
<1> DEFINE Traceless == \A r \in Runs : pc[r] \in Rollback /\ out'[r] = "clean" =>
              /\ commits[head'].by # r
              /\ \A p \in Paths : r \in {file'[p], index'[p]} =>
                    \E c \in 1..Len(commits) : commits[c].by # r /\ Tree(c)[p] = r
<1>1. TypeOK /\ GitInvariant /\ [Next]_vars => [Traceless]_vars
  <2> SUFFICES ASSUME TypeOK, GitInvariant, [Next]_vars, NEW r \in Runs,
                      pc[r] \in Rollback, out'[r] = "clean"
               PROVE  /\ commits[head'].by # r
                      /\ \A p \in Paths : r \in {file'[p], index'[p]} =>
                            \E c \in 1..Len(commits) : commits[c].by # r /\ Tree(c)[p] = r
    OBVIOUS
  <2>1. out[r] = "none" /\ out'[r] # out[r] /\ out \in [Runs -> Outcomes]
        /\ head \in 1..Len(commits)
    BY DEF GitInvariant, Sound, ResultIsLate, Rollback, TypeOK
  <2>2. ASSUME NEW s \in Runs, NEW o, Return(s, o)
        PROVE  s = r /\ o = "clean"
    BY <2>1, <2>2 DEF Return
  <2>3. ~(UNCHANGED out)
    BY <2>1
  <2>4. RollbackStatus(r)
    <3>1. ~OutsiderStep
      BY <2>3 DEF OutsiderStep, OutsiderEdits, OutsiderStages, OutsiderCommits, OutsiderResets,
             OutsiderPushes, OutsiderSteps, calls
    <3>2. ASSUME NEW s \in Runs, PreflightStep(s)
          PROVE  FALSE
      BY <2>2, <2>3, <3>2 DEF PreflightStep, Refuse, TakeLock, CheckPaths, PlanImages, ReadPushUrl,
         CheckStatus, ReadHead, ReadRemote, StageExecutable, PrepareVerifier, VerifierAccess,
         Snapshot, Only, GoTo, Preflight, Rollback
    <3>3. ASSUME NEW s \in Runs, WriteStep(s)
          PROVE  FALSE
      BY <2>2, <2>3, <3>3 DEF WriteStep, WriteArtifacts, Creates, WriteFails, Seal, Build,
         CheckSealed, Only, GoTo, At, Rollback
    <3>4. ASSUME NEW s \in Runs, PublishStep(s)
          PROVE  FALSE
      BY <2>2, <2>3, <3>4 DEF PublishStep, Add, AddFails, CommitOk, CommitFails, ReadRevision,
         Inspect, CheckHead, Push, PushFails, ReadBack, CommandOk, CommandFails, Only, GoTo
    <3>5. ASSUME NEW s \in Runs, ProofStep(s)
          PROVE  FALSE
      BY <2>2, <2>3, <3>5 DEF ProofStep, Journal, Deployment, ConfirmSite, ReadPage, Only, GoTo
    <3>6. ASSUME NEW s \in Runs, RollbackStep(s)
          PROVE  RollbackStatus(r)
      BY <2>2, <2>3, <3>6 DEF RollbackStep, RollbackStops, RollbackHead, RollbackFiles,
         StagedPaths, Unstage, UnstageFails, RemoveFiles, RollbackStatus, CommandOk, CommandFails, Only, GoTo
    <3>7. ASSUME NEW s \in Runs, Interrupted(s)
          PROVE  FALSE
      BY <2>2, <3>7 DEF Interrupted
    <3>8. ASSUME NEW s \in Runs, NEW command \in Commands, OrphanLands(command, s)
          PROVE  FALSE
      BY <2>3, <3>8 DEF OrphanLands, calls
    <3>9. Next
      BY <2>3 DEF vars, calls
    <3> QED
      BY <3>1, <3>2, <3>3, <3>4, <3>5, <3>6, <3>7, <3>8, <3>9 DEF Next
  <2>5. /\ pc[r] = "rbStatus" /\ file' = Tree(head) /\ index' = Tree(head) /\ head' = head
    BY <2>4 DEF RollbackStatus, At, StatusClean, Only, RepoStays, repo
  <2>6. commits[head].by # r
    BY <2>5 DEF GitInvariant, Sound, Earned, Cleared
  <2> QED
    BY <2>1, <2>5, <2>6
<1> QED
  BY <1>1, GitIsSound, PTL DEF Spec, RollbackLeavesNoTrace
=============================================================================
