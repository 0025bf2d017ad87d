------------------------------ MODULE GitPublish ------------------------------
(* Publishing a post by committing it to a blog repository and pushing it    *)
(* (publishers/github_pages.py, publishers/github_pages_gh.py).              *)
(*                                                                           *)
(* A call of publish holds the repository's lock, but nothing else in the    *)
(* world respects that lock: people edit, stage, commit, reset and push in   *)
(* the same clone, others push from theirs, and build hooks write files.     *)
(* Every git command is an await: it may fail, time out after it took        *)
(* effect, or go on after the process that started it has died.              *)
(*                                                                           *)
(* A file is what it holds: None, the bytes approved for a call (the call's  *)
(* name), or somebody else's (Outsider).                                     *)
EXTENDS Integers, Sequences

CONSTANTS
    Runs,          \* calls of publish
    Paths,         \* paths of the repository
    PathsOf,       \* the post and the images a call was approved for
    Post,          \* the post among them
    Verified,      \* calls with github_pages_gh_verify_enabled
    None,          \* no file, no holder
    Outsider,      \* everybody who does not take the lock
    MaxCommits,    \* bound on the commits that are ever made
    MaxOutside     \* bound on the steps of outsiders

ASSUME GitPublishAssumption ==
    /\ PathsOf \in [Runs -> SUBSET Paths]
    /\ Post \in [Runs -> Paths] /\ \A r \in Runs : Post[r] \in PathsOf[r]
    /\ Verified \subseteq Runs
    /\ None \notin Runs /\ Outsider \notin Runs /\ None # Outsider
    /\ MaxCommits \in Nat /\ MaxOutside \in Nat

VARIABLES
    commits,    \* the object database: [parent, tree, by]
    head,       \* local HEAD
    index,      \* staging area
    file,       \* worktree
    remote,     \* tip of the publishing branch
    lock,       \* .git/ai-ops-publish.lock
    pc,         \* place of every call
    base,       \* preflight_head
    saved,      \* original_content of the rollback snapshot
    made,       \* created_paths
    sha,        \* commit_sha, 0 before it is known
    out,        \* what the call returned
    receipt,    \* state of the durable receipt
    orphans,    \* commands that run on although nobody waits for them
    tips,       \* history: every tip the remote branch ever had
    landed,     \* history: the commit a call's own push put on the remote, or 0
    outside     \* history: steps of outsiders

repo  == <<commits, head, index, file>>
calls == <<lock, pc, base, saved, made, sha, out, receipt>>
vars  == <<repo, remote, calls, orphans, tips, landed, outside>>

Contents == Runs \cup {None, Outsider}
Commit   == [parent : Nat, tree : [Paths -> Contents], by : Runs \cup {Outsider}]

\* Places before the first file is written, and the checks made there.
Preflight == {"path", "images", "identity", "status", "head", "remote", "verifier",
              "staged", "access", "snapshot"}
\* Places of the rollback; those that begin with un take back staged paths too.
Rollback  == {"rbHead", "rbFiles", "unHead", "unFiles", "unStaged", "rbUnstage",
              "rbStaged", "rbRemove", "rbStatus"}
Places    == {"idle", "done", "write", "build", "sealed", "add", "commit",
              "revision", "inspect", "still", "push", "readback", "journal",
              "deploy", "site", "page"} \cup Preflight \cup Rollback

\* clean: nothing was published and nothing is left; kept: a local commit is left;
\* manual: rollback_required; unknown: outcome_uncertain; accepted: success;
\* failed, unproven: the commit is on the remote, but the receipt, the deployment
\* or the page is not; raised: an exception or the end of the process.
Outcomes  == {"none", "clean", "kept", "manual", "unknown",
              "accepted", "failed", "unproven", "raised"}
Untouched == {"clean", "kept", "manual"}
Effective == {"accepted", "failed", "unproven"}

Tree(c)     == commits[c].tree
Before(c)   == IF commits[c].parent = 0 THEN [p \in Paths |-> None]
               ELSE Tree(commits[c].parent)
Changed(c)  == {p \in Paths : Tree(c)[p] # Before(c)[p]}
StatusClean == file = Tree(head) /\ index = Tree(head)
Own(r, p)   == file[p] = r
Staged(r)   == \E p \in PathsOf[r] : index[p] # Tree(head)[p]

Init ==
    /\ commits = <<[parent |-> 0, tree |-> [p \in Paths |-> None], by |-> Outsider]>>
    /\ head = 1 /\ remote = 1
    /\ index = Tree(1) /\ file = Tree(1)
    /\ lock = None
    /\ pc = [r \in Runs |-> "idle"]
    /\ base = [r \in Runs |-> 0] /\ saved = [r \in Runs |-> [p \in Paths |-> None]]
    /\ made = [r \in Runs |-> {}] /\ sha = [r \in Runs |-> 0]
    /\ out = [r \in Runs |-> "none"]
    /\ receipt = [r \in Runs |-> "none"]
    /\ orphans = {} /\ tips = {1} /\ landed = [r \in Runs |-> 0] /\ outside = 0

-----------------------------------------------------------------------------
(* Moves of a call.                                                          *)

At(r, place) == pc[r] = place
GoTo(r, place) == pc' = [pc EXCEPT ![r] = place] /\ UNCHANGED <<lock, out>>

\* The call ends and gives the lock back.
Return(r, outcome) ==
    /\ pc' = [pc EXCEPT ![r] = "done"]
    /\ out' = [out EXCEPT ![r] = outcome]
    /\ lock' = IF lock = r THEN None ELSE lock

RepoStays  == UNCHANGED <<repo, remote, orphans, tips, landed, outside>>
LocalStays == UNCHANGED <<base, saved, made, sha, receipt>>

\* Only the place and the result of a call change.
Only(move) == move /\ RepoStays /\ LocalStays

\* A refusal before anything was written: settings, git target, image plan.
Refuse(r) ==
    /\ pc[r] \in {"idle"} \cup Preflight
    /\ Only(Return(r, "clean"))

TakeLock(r) ==
    /\ At(r, "idle") /\ lock = None
    /\ lock' = r /\ pc' = [pc EXCEPT ![r] = "path"]
    /\ UNCHANGED out /\ RepoStays /\ LocalStays

\* The post must not exist yet.
CheckPaths(r) ==
    /\ At(r, "path") /\ file[Post[r]] = None
    /\ Only(GoTo(r, "images"))

\* Nor may any of its images, which are approved one by one.
PlanImages(r) ==
    /\ At(r, "images") /\ \A p \in PathsOf[r] : file[p] = None
    /\ Only(GoTo(r, "identity"))

\* The remote exists and has one push address, which is pinned from here on.
ReadPushUrl(r) == At(r, "identity") /\ Only(GoTo(r, "status"))

CheckStatus(r) ==
    /\ At(r, "status") /\ StatusClean
    /\ Only(GoTo(r, "head"))

ReadHead(r) ==
    /\ At(r, "head") /\ GoTo(r, "remote")
    /\ base' = [base EXCEPT ![r] = head]
    /\ UNCHANGED <<saved, made, sha, receipt>> /\ RepoStays

\* What would be pushed must be the audited commit and nothing else.
ReadRemote(r) ==
    /\ At(r, "remote") /\ remote = base[r]
    /\ Only(GoTo(r, IF r \in Verified THEN "verifier" ELSE "snapshot"))

\* A private copy of gh is made while it is hashed; it is the executable that
\* was audited; it reaches the repository.
StageExecutable(r) == At(r, "verifier") /\ Only(GoTo(r, "staged"))
PrepareVerifier(r) == At(r, "staged") /\ Only(GoTo(r, "access"))
VerifierAccess(r)  == At(r, "access") /\ Only(GoTo(r, "snapshot"))

\* What a rollback would put back: by now something may lie there again.
Snapshot(r) ==
    /\ At(r, "snapshot") /\ GoTo(r, "write")
    /\ saved' = [saved EXCEPT ![r] = [p \in Paths |-> IF p \in PathsOf[r] THEN file[p] ELSE None]]
    /\ UNCHANGED <<base, made, sha, receipt>> /\ RepoStays

-----------------------------------------------------------------------------
(* The worktree.  Files are created exclusively, and removed only while they *)
(* hold what was approved.                                                   *)

RemoveCreated(r, S) ==
    /\ file' = [p \in Paths |-> IF p \in S /\ Own(r, p) THEN None ELSE file[p]]
    /\ UNCHANGED <<commits, head, index, remote, orphans, tips, landed, outside>>
    /\ LocalStays

Creates(r, p) ==
    /\ file' = [file EXCEPT ![p] = r]
    /\ made' = [made EXCEPT ![r] = @ \cup {p}]
    /\ UNCHANGED <<commits, head, index, remote, orphans, tips, landed, outside>>
    /\ UNCHANGED <<lock, pc, base, saved, sha, out, receipt>>

\* Bug: files are opened for writing, whether they exist or not.
BugWriteArtifacts(r) ==
    At(r, "write") /\ \E p \in PathsOf[r] \ made[r] : Creates(r, p)

\* The post, then its images.
WriteArtifacts(r) ==
    /\ At(r, "write")
    /\ \E p \in PathsOf[r] \ made[r] :
          /\ p = Post[r] \/ Post[r] \in made[r]
          /\ file[p] = None
          /\ Creates(r, p)

\* A file exists, or cannot be written: those created before it are removed.
WriteFails(r) == At(r, "write") /\ RemoveCreated(r, made[r]) /\ Return(r, "clean")

\* What lies there is still what was written.
Seal(r) ==
    /\ At(r, "write") /\ made[r] = PathsOf[r]
    /\ \A p \in PathsOf[r] : Own(r, p)
    /\ Only(GoTo(r, "build"))

Build(r) ==
    /\ At(r, "build")
    /\ \E place \in {"sealed", "rbHead"} : Only(GoTo(r, place))

CheckSealed(r) ==
    /\ At(r, "sealed")
    /\ Only(GoTo(r, IF \A p \in PathsOf[r] : Own(r, p) THEN "add" ELSE "rbHead"))

-----------------------------------------------------------------------------
(* Effects of the git commands that change something.                        *)

AddEffect(r) ==
    /\ \A p \in PathsOf[r] : file[p] # None
    /\ index' = [p \in Paths |-> IF p \in PathsOf[r] THEN file[p] ELSE index[p]]
    /\ UNCHANGED <<commits, head, file, remote, tips, landed>>

\* git commit --only: HEAD with the listed paths as the worktree has them.
CommitEffect(r) ==
    LET tree == [p \in Paths |-> IF p \in PathsOf[r] THEN file[p] ELSE Tree(head)[p]]
    IN  /\ tree # Tree(head) /\ Len(commits) < MaxCommits
        /\ commits' = Append(commits, [parent |-> head, tree |-> tree, by |-> r])
        /\ head' = Len(commits) + 1
        /\ index' = [p \in Paths |-> IF p \in PathsOf[r] THEN file[p] ELSE index[p]]
        /\ UNCHANGED <<file, remote, tips, landed>>

\* git push --force-with-lease=branch:preflight_head commit_sha:branch.
PushEffect(r) ==
    /\ remote = base[r]
    /\ remote' = sha[r]
    /\ tips' = tips \cup {sha[r]}
    /\ landed' = [landed EXCEPT ![r] = sha[r]]
    /\ UNCHANGED repo

\* git restore --staged --source=preflight_head, for those of the call's paths
\* that were staged when it looked.
RestoreEffect(r) ==
    /\ \E S \in SUBSET PathsOf[r] :
          index' = [p \in Paths |-> IF p \in S THEN Tree(base[r])[p] ELSE index[p]]
    /\ UNCHANGED <<commits, head, file, remote, tips, landed>>

Effect(command, r) ==
    \/ command = "add"       /\ AddEffect(r)
    \/ command = "commit"    /\ CommitEffect(r)
    \/ command = "push"      /\ PushEffect(r)
    \/ command = "rbUnstage" /\ RestoreEffect(r)
NoEffect == UNCHANGED <<repo, remote, tips, landed>>

Commands == {"add", "commit", "push", "rbUnstage"}

\* A command ends: it is seen to succeed, or to fail with or without its effect.
CommandOk(r, place, next) ==
    /\ At(r, place) /\ Effect(place, r) /\ GoTo(r, next)
    /\ UNCHANGED <<orphans, outside>> /\ LocalStays
CommandFails(r, place, move) ==
    /\ At(r, place) /\ (Effect(place, r) \/ NoEffect) /\ move
    /\ UNCHANGED <<orphans, outside>> /\ LocalStays

OrphanLands(command, r) ==
    /\ <<command, r>> \in orphans
    /\ orphans' = orphans \ {<<command, r>>}
    /\ Effect(command, r)
    /\ UNCHANGED <<calls, outside>>

-----------------------------------------------------------------------------
(* _git_publish.                                                             *)

Add(r)       == CommandOk(r, "add", "commit")
AddFails(r)  == CommandFails(r, "add", GoTo(r, "unHead"))
CommitOk(r)  == CommandOk(r, "commit", "revision")
CommitFails(r) == CommandFails(r, "commit", GoTo(r, "unHead"))

\* rev-parse HEAD, which need not be the call's own commit any more.
ReadRevision(r) ==
    /\ At(r, "revision")
    /\ \/ /\ sha' = [sha EXCEPT ![r] = head]
          /\ GoTo(r, "inspect") /\ UNCHANGED <<base, saved, made, receipt>> /\ RepoStays
       \/ Only(GoTo(r, "unHead"))

\* Bug: the parent of the commit is not compared with the audited HEAD.
BugAsApproved(r, c) ==
    /\ Changed(c) = PathsOf[r]
    /\ \A p \in PathsOf[r] : Tree(c)[p] = r

\* The approved paths and no other, the approved bytes, the audited parent.
AsApproved(r, c) ==
    /\ commits[c].parent = base[r]
    /\ Changed(c) = PathsOf[r]
    /\ \A p \in PathsOf[r] : Tree(c)[p] = r

Inspect(r) ==
    /\ At(r, "inspect")
    /\ \/ AsApproved(r, sha[r]) /\ Only(GoTo(r, "still"))
       \/ Only(Return(r, "kept"))

CheckHead(r) ==
    /\ At(r, "still")
    /\ \/ head = sha[r] /\ Only(GoTo(r, "push"))
       \/ Only(Return(r, "kept"))

\* Started: the remote is asked whatever git said.  Stopped by its timeout, the
\* update may still be on its way to the server.
Push(r) == CommandOk(r, "push", "readback")
PushFails(r) ==
    /\ At(r, "push") /\ NoEffect /\ LocalStays /\ UNCHANGED outside
    /\ \/ GoTo(r, "readback") /\ orphans' \in {orphans, orphans \cup {<<"push", r>>}}
       \/ Return(r, "kept") /\ UNCHANGED orphans            \* not started
       \/ Return(r, "unknown") /\ orphans' = orphans \cup {<<"push", r>>}  \* cancelled

\* Bug: a remote that shows another commit counts as a rejected push.
BugReadBack(r) ==
    /\ At(r, "readback")
    /\ \/ remote = sha[r] /\ Only(GoTo(r, "journal"))
       \/ remote # sha[r] /\ Only(Return(r, "kept"))

ReadBack(r) ==
    /\ At(r, "readback")
    /\ \/ remote = sha[r] /\ Only(GoTo(r, "journal"))
       \/ Only(Return(r, "unknown"))

-----------------------------------------------------------------------------
(* What follows the acceptance: receipt, deployment, site and page.          *)

Journal(r) ==
    /\ At(r, "journal")
    /\ \/ /\ receipt' = [receipt EXCEPT ![r] = "accepted"]
          /\ IF r \in Verified THEN GoTo(r, "deploy") ELSE Return(r, "accepted")
          /\ UNCHANGED <<base, saved, made, sha>> /\ RepoStays
       \/ Only(Return(r, "failed"))

\* succeed, a terminal failure, or no proof before the deadline.
Deployment(r) ==
    /\ At(r, "deploy")
    /\ \/ /\ receipt' = [receipt EXCEPT ![r] = "deployed"]
          /\ GoTo(r, "site") /\ UNCHANGED <<base, saved, made, sha>> /\ RepoStays
       \/ \E outcome \in {"failed", "unproven"} : Only(Return(r, outcome))

ConfirmSite(r) ==
    /\ At(r, "site")
    /\ Only(GoTo(r, "page") \/ Return(r, "unproven"))

ReadPage(r) ==
    /\ At(r, "page")
    /\ Only(Return(r, "accepted") \/ Return(r, "unproven"))

-----------------------------------------------------------------------------
(* _rollback_precommit: a call takes back its own files, when it is provable *)
(* that nothing else is touched, or leaves everything to a person.           *)

RollbackStops(r) == pc[r] \in Rollback /\ Only(Return(r, "manual"))

\* Bug: HEAD is not compared with the preflight's before anything is removed.
BugRollbackHead(r) ==
    \/ At(r, "rbHead") /\ Only(GoTo(r, "rbFiles"))
    \/ At(r, "unHead") /\ Only(GoTo(r, "unFiles"))

RollbackHead(r) ==
    /\ head = base[r]
    /\ \/ At(r, "rbHead") /\ Only(GoTo(r, "rbFiles"))
       \/ At(r, "unHead") /\ Only(GoTo(r, "unFiles"))

\* Files that are gone are skipped here and refused when they are removed,
\* except one that was there at the snapshot.
RollbackFiles(r) ==
    /\ \A p \in PathsOf[r] : file[p] = r \/ (file[p] = None /\ saved[r][p] = None)
    /\ \/ At(r, "rbFiles") /\ Only(GoTo(r, "rbRemove"))
       \/ At(r, "unFiles") /\ Only(GoTo(r, "unStaged"))

\* Staged paths are taken back, and looked for again afterwards.
StagedPaths(r) ==
    \/ At(r, "unStaged") /\ Only(GoTo(r, IF Staged(r) THEN "rbUnstage" ELSE "rbRemove"))
    \/ At(r, "rbStaged") /\ ~Staged(r) /\ Only(GoTo(r, "rbRemove"))

Unstage(r) == CommandOk(r, "rbUnstage", "rbStaged")
UnstageFails(r) == CommandFails(r, "rbUnstage", Return(r, "manual"))

\* A file becomes what it was at the snapshot, which is nothing as a rule.
PutBack(r, S) ==
    /\ file' = [p \in Paths |-> IF p \in S /\ Own(r, p) THEN saved[r][p] ELSE file[p]]
    /\ UNCHANGED <<commits, head, index, remote, orphans, tips, landed, outside>>
    /\ LocalStays

RemoveFiles(r) ==
    /\ At(r, "rbRemove")
    /\ IF \A p \in PathsOf[r] : Own(r, p)
         THEN PutBack(r, PathsOf[r]) /\ GoTo(r, "rbStatus")
         ELSE \E S \in SUBSET PathsOf[r] : PutBack(r, S) /\ Return(r, "manual")

RollbackStatus(r) ==
    /\ At(r, "rbStatus")
    /\ StatusClean /\ Only(Return(r, "clean"))

-----------------------------------------------------------------------------
(* The end of a call at any await.  git runs in a session of its own, so it  *)
(* survives the process that started it.                                     *)

Interrupted(r) ==
    /\ pc[r] \notin {"idle", "done"}
    /\ Return(r, "raised")
    /\ orphans' \in {orphans} \cup
                    {orphans \cup {<<c, r>>} : c \in {pc[r]} \cap Commands}
    /\ UNCHANGED <<repo, remote, tips, landed, outside>> /\ LocalStays

-----------------------------------------------------------------------------
(* Everybody else.                                                           *)

OutsiderSteps ==
    /\ outside < MaxOutside /\ outside' = outside + 1
    /\ UNCHANGED <<calls, orphans, landed>>

OutsiderEdits ==
    /\ \E p \in Paths : \E content \in {None, Outsider} :
          file[p] # content /\ file' = [file EXCEPT ![p] = content]
    /\ OutsiderSteps /\ UNCHANGED <<commits, head, index, remote, tips>>

OutsiderStages ==
    /\ index # file /\ index' = file
    /\ OutsiderSteps /\ UNCHANGED <<commits, head, file, remote, tips>>

OutsiderCommits ==
    /\ index # Tree(head) /\ Len(commits) < MaxCommits
    /\ commits' = Append(commits, [parent |-> head, tree |-> index, by |-> Outsider])
    /\ head' = Len(commits) + 1
    /\ OutsiderSteps /\ UNCHANGED <<index, file, remote, tips>>

\* git pull, or git reset --hard to the remote branch.
OutsiderResets ==
    /\ head # remote \/ ~StatusClean
    /\ head' = remote /\ index' = Tree(remote) /\ file' = Tree(remote)
    /\ OutsiderSteps /\ UNCHANGED <<commits, remote, tips>>

\* A fast-forward push, out of this clone or out of another one.
OutsiderPushes ==
    /\ \/ /\ head # remote /\ commits[head].parent = remote
          /\ remote' = head /\ UNCHANGED commits
       \/ \E p \in Paths :
             /\ Len(commits) < MaxCommits
             /\ commits' = Append(commits, [parent |-> remote, by |-> Outsider,
                              tree |-> [Tree(remote) EXCEPT ![p] = Outsider]])
             /\ remote' = Len(commits) + 1
    /\ tips' = tips \cup {remote'}
    /\ OutsiderSteps /\ UNCHANGED <<head, index, file>>

-----------------------------------------------------------------------------
PreflightStep(r) ==
    \/ Refuse(r) \/ TakeLock(r) \/ CheckPaths(r) \/ PlanImages(r) \/ ReadPushUrl(r)
    \/ CheckStatus(r) \/ ReadHead(r) \/ ReadRemote(r)
    \/ StageExecutable(r) \/ PrepareVerifier(r) \/ VerifierAccess(r) \/ Snapshot(r)
WriteStep(r) ==
    \/ WriteArtifacts(r) \/ WriteFails(r) \/ Seal(r) \/ Build(r) \/ CheckSealed(r)
PublishStep(r) ==
    \/ Add(r) \/ AddFails(r) \/ CommitOk(r) \/ CommitFails(r) \/ ReadRevision(r)
    \/ Inspect(r) \/ CheckHead(r) \/ Push(r) \/ PushFails(r) \/ ReadBack(r)
ProofStep(r) == Journal(r) \/ Deployment(r) \/ ConfirmSite(r) \/ ReadPage(r)
RollbackStep(r) ==
    \/ RollbackStops(r) \/ RollbackHead(r) \/ RollbackFiles(r) \/ StagedPaths(r)
    \/ Unstage(r) \/ UnstageFails(r) \/ RemoveFiles(r) \/ RollbackStatus(r)
OutsiderStep ==
    OutsiderEdits \/ OutsiderStages \/ OutsiderCommits \/ OutsiderResets \/ OutsiderPushes

Next ==
    \/ \E r \in Runs :
          \/ PreflightStep(r) \/ WriteStep(r) \/ PublishStep(r)
          \/ ProofStep(r) \/ RollbackStep(r) \/ Interrupted(r)
    \/ \E command \in Commands, r \in Runs : OrphanLands(command, r)
    \/ OutsiderStep

Spec == Init /\ [][Next]_vars

-----------------------------------------------------------------------------
TypeOK ==
    /\ commits \in Seq(Commit)
    /\ head \in 1..Len(commits) /\ remote \in 1..Len(commits)
    /\ \A c \in 1..Len(commits) : commits[c].parent < c
    /\ index \in [Paths -> Contents] /\ file \in [Paths -> Contents]
    /\ lock \in Runs \cup {None}
    /\ pc \in [Runs -> Places] /\ out \in [Runs -> Outcomes]
    /\ saved \in [Runs -> [Paths -> Contents]] /\ made \in [Runs -> SUBSET Paths]
    /\ base \in [Runs -> 0..Len(commits)] /\ sha \in [Runs -> 0..Len(commits)]
    /\ receipt \in [Runs -> {"none", "accepted", "deployed"}]
    /\ orphans \subseteq (Commands \X Runs)
    /\ tips \subseteq 1..Len(commits) /\ landed \in [Runs -> 0..Len(commits)]
    /\ outside \in Nat

(* What a call says is true: after a failure without doubt its own push has  *)
(* not changed the remote branch and never will, and a claimed effect is on  *)
(* the branch (publish returns outcome_uncertain wherever it cannot tell,    *)
(* github_pages.py:2466-2494).                                               *)
HonestResult ==
    \A r \in Runs :
        /\ out[r] \in Untouched => landed[r] = 0 /\ <<"push", r>> \notin orphans
        /\ out[r] \in Effective => sha[r] \in tips

(* A call's push puts exactly one commit on top of a tip somebody published, *)
(* and that commit adds the approved bytes at the approved paths: no commit  *)
(* of anybody else is carried along, whatever was committed in the clone     *)
(* meanwhile (github_pages.py:1067, :2384-2434).                             *)
PushedAsApproved ==
    \A r \in Runs : landed[r] # 0 =>
        LET c == commits[landed[r]]
        IN  /\ c.parent \in tips
            /\ c.tree = [p \in Paths |->
                           IF p \in PathsOf[r] THEN r ELSE Tree(c.parent)[p]]

(* A call writes where nothing was and removes only bytes it was approved    *)
(* for, or puts back what lay there before: nobody's work is overwritten,    *)
(* whatever fails (create_bytes, unlink_approved, _rollback_precommit).      *)
ForeignWorkSurvives ==
    [][\A p \in Paths : file'[p] # file[p] /\ outside' = outside =>
          \E r \in Runs : \/ file[p] = None /\ file'[p] = r
                          \/ file[p] = r /\ file'[p] \in {None, saved[r][p]}]_vars

(* A rollback that asks for no manual work has left nothing of the call in   *)
(* the clone: no commit to be carried along by the next one, no file and     *)
(* nothing staged; unless somebody else has committed the file meanwhile     *)
(* (_rollback_precommit).                                                    *)
RollbackLeavesNoTrace ==
    [][\A r \in Runs : pc[r] \in Rollback /\ out'[r] = "clean" =>
          /\ commits[head'].by # r
          /\ \A p \in Paths : r \in {file'[p], index'[p]} =>
                \E c \in 1..Len(commits) : commits[c].by # r /\ Tree(c)[p] = r]_vars
=============================================================================
