----------------------------- MODULE PublishJobs -----------------------------
(***************************************************************************)
(* The durable publishing pipeline: fan-out of an article into PublishJob  *)
(* rows, the executors that claim a row, take the account lease, drive the *)
(* chain of publishers and persist the outcome, the reconciliation of rows *)
(* whose executor vanished, and the operator's republication of failures.  *)
(*                                                                         *)
(* An element of Jobs is a potential row of publish_jobs; the article and  *)
(* the account it belongs to are part of its identity (neither column is   *)
(* ever updated).  Committed database transactions are single steps; what  *)
(* the code does outside of a transaction is split where it can            *)
(* interleave.  A definition named Bug... is a deliberate fault: nothing   *)
(* here uses it, the mutation runs put it in the place of its namesake.    *)
(***************************************************************************)
EXTENDS Integers, FiniteSets

CONSTANTS
    Jobs,           \* potential rows of publish_jobs
    Articles,
    Accounts,
    ArticleOf,      \* [Jobs -> Articles]
    AccountOf,      \* [Jobs -> Accounts]
    ExactArticles,  \* articles scheduled by an approved Agent plan, not by distribute
    Executors,      \* concurrent calls of execute_job, in any process
    MaxAttempts,    \* max_attempts of every row
    Publishers,     \* length of the fallback chain the registry resolves
    SlowExecutors,  \* may a row be stale while its executor still lives?
    Shared,         \* a bound: the accounts that anybody else touches
    NoJob, Free, Outsider

ASSUME PublishJobsAssumption ==
    /\ ArticleOf \in [Jobs -> Articles]
    /\ AccountOf \in [Jobs -> Accounts]
    /\ ExactArticles \subseteq Articles
    /\ MaxAttempts \in Nat \ {0}
    /\ Publishers \in Nat \ {0}
    /\ SlowExecutors \in BOOLEAN
    /\ Shared \subseteq Accounts
    /\ NoJob \notin Jobs
    /\ Free \notin Executors
    /\ Outsider \notin Executors
    /\ Free # Outsider

VARIABLES
    \* The database.
    status,         \* publish_jobs.status, "absent" when there is no row
    attempts,       \* publish_jobs.attempts
    evidence,       \* what raw_response and error say of the platform's state
    timing,         \* approved_planned_for: "none" (no plan), "future", "reached"
    successor,      \* superseded_by_job_id
    stale,          \* RUNNING rows older than job_running_timeout_seconds
    articleStatus,
    gate,           \* what the account's pause and health allow
    \* The files of the host.
    receipt,        \* sidecar of the row's current operation_id
    lease,          \* holder of the account's kernel lock
    \* The executors.
    exec,
    \* The platform, and counters that exist for the properties only.
    posts,          \* posts on the platform made on behalf of the row
    orphan,         \* rows with an external request nobody waits for any more
    entries         \* times an executor entered the publisher chain for the row

db == <<status, attempts, evidence, timing, successor, stale, articleStatus, gate>>
host == <<receipt, lease>>
world == <<posts, orphan, entries>>
vars == <<status, attempts, evidence, timing, successor, stale, articleStatus,
          gate, receipt, lease, exec, posts, orphan, entries>>

-----------------------------------------------------------------------------
Claimable == {"pending", "retrying"}
NonTerminal == {"pending", "running", "retrying"}
Republishable == {"failed", "dead"}
JobStatus == {"absent", "success"} \cup NonTerminal \cup Republishable
ArticleStatus == {"ready", "scheduled", "publishing", "published", "failed", "dead"}
Gates == {"clear", "paused", "unhealthy"}
Evidence == {"outcome_uncertain", "effect_applied", "unknown_text"}

(* PublishResult by what the code distinguishes: a confirmed effect with and *)
(* without success, an outcome nobody can confirm, and failures that prove   *)
(* that nothing was written ("preview" is success without an effect).        *)
Confirmed == {"published", "partial"}
NoEffect == {"rejected", "refused", "preview", "busy", "prewrite"}
Results == {"none", "unknown"} \cup Confirmed \cup NoEffect
Receipts == Results \ {"busy", "prewrite"}

Places == {"idle", "leasing", "publishing", "deciding", "committing",
           "marking", "unwinding"}
Executor == [at : Places, job : Jobs \cup {NoJob}, result : Results,
             turn : 1..Publishers, wrote : BOOLEAN]
Idle == [at |-> "idle", job |-> NoJob, result |-> "none", turn |-> 1, wrote |-> FALSE]

Begins(w, j, place) ==
    exec' = [exec EXCEPT ![w] = [at |-> place, job |-> j, result |-> "none",
                                 turn |-> 1, wrote |-> FALSE]]
Moves(w, place, result) ==
    exec' = [exec EXCEPT ![w].at = place, ![w].result = result]
LetsGo(w) == exec' = [exec EXCEPT ![w] = Idle]

(* The claimant of a row: it moved the row to RUNNING and has not let go.    *)
Claimant == {"leasing", "publishing", "deciding", "committing", "marking"}
Claims(w, j) == exec[w].at \in Claimant /\ exec[w].job = j

-----------------------------------------------------------------------------
(* _sync_article_status: the state of the article follows the rows that no   *)
(* republication has superseded.                                             *)
Live(a, st) ==
    {st[j] : j \in {k \in Jobs : /\ ArticleOf[k] = a
                                 /\ st[k] # "absent"
                                 /\ successor[k] = NoJob}}

Aggregate(a, st) ==
    IF Live(a, st) = {} THEN articleStatus[a]
    ELSE IF Live(a, st) = {"success"} THEN "published"
    ELSE IF Live(a, st) \cap NonTerminal # {} THEN "publishing"
    ELSE IF "dead" \in Live(a, st) THEN "dead"
    ELSE "failed"

BugSync(j) ==
    articleStatus' =
        [articleStatus EXCEPT ![ArticleOf[j]] = Aggregate(ArticleOf[j], status)]

Sync(j) ==
    articleStatus' =
        [articleStatus EXCEPT ![ArticleOf[j]] = Aggregate(ArticleOf[j], status')]

BugNeedsPlatformCheck(j) ==
    evidence[j] \cap {"outcome_uncertain", "effect_applied"} # {}

(* republish_job demands platform_checked when any trace in the row says the *)
(* platform may hold the post: either flag, or the text of the error.        *)
NeedsPlatformCheck(j) ==
    evidence[j] \cap {"outcome_uncertain", "effect_applied", "unknown_text"} # {}

-----------------------------------------------------------------------------
Init ==
    /\ status = [j \in Jobs |-> "absent"]
    /\ attempts = [j \in Jobs |-> 0]
    /\ evidence = [j \in Jobs |-> {}]
    /\ timing = [j \in Jobs |-> "none"]
    /\ successor = [j \in Jobs |-> NoJob]
    /\ stale = {}
    /\ articleStatus = [a \in Articles |-> "ready"]
    /\ gate = [a \in Accounts |-> "clear"]
    /\ receipt = [j \in Jobs |-> "none"]
    /\ lease = [a \in Accounts |-> Free]
    /\ exec = [w \in Executors |-> Idle]
    /\ posts = [j \in Jobs |-> 0]
    /\ orphan = {}
    /\ entries = [j \in Jobs |-> 0]

(* One PENDING row per target account, in the transaction that moves the     *)
(* article to SCHEDULED by compare-and-swap.                                 *)
FanOut(a, rows, when) ==
    /\ articleStatus[a] = "ready"
    /\ rows # {}
    /\ \A j \in rows : ArticleOf[j] = a /\ status[j] = "absent"
    /\ \A j, k \in rows : AccountOf[j] = AccountOf[k] => j = k
    /\ articleStatus' = [articleStatus EXCEPT ![a] = "scheduled"]
    /\ status' = [j \in Jobs |-> IF j \in rows THEN "pending" ELSE status[j]]
    /\ timing' = [j \in Jobs |-> IF j \in rows THEN when ELSE timing[j]]
    /\ UNCHANGED <<attempts, evidence, successor, stale, gate, exec, host, world>>

Distribute(a, rows) == a \notin ExactArticles /\ FanOut(a, rows, "none")

(* AgentContractService.schedule: rows bound to an approved plan.            *)
Schedule(a, rows) == a \in ExactArticles /\ FanOut(a, rows, "future")

(* The clock passes approved_planned_for.                                    *)
PlannedTimeComes(j) ==
    /\ timing[j] = "future"
    /\ timing' = [timing EXCEPT ![j] = "reached"]
    /\ UNCHANGED <<status, attempts, evidence, successor, stale, articleStatus,
                   gate, exec, host, world>>

-----------------------------------------------------------------------------
(* execute_job, first transaction.                                           *)

(* _claim_job: the conditional update, under the account's row lock.         *)
CanClaim(j) ==
    /\ status[j] \in Claimable
    /\ timing[j] # "future"
    /\ \A k \in Jobs \ {j} : AccountOf[k] = AccountOf[j] => status[k] # "running"

(* Claimed, every gate passed: the row is RUNNING under a new operation_id,  *)
(* whose sidecar does not exist yet.                                         *)
Claim(w, j) ==
    /\ exec[w].at = "idle"
    /\ CanClaim(j)
    /\ gate[AccountOf[j]] = "clear"
    /\ status' = [status EXCEPT ![j] = "running"]
    /\ attempts' = [attempts EXCEPT ![j] = @ + 1]
    /\ Sync(j)
    /\ receipt' = [receipt EXCEPT ![j] = "none"]
    /\ Begins(w, j, "leasing")
    /\ UNCHANGED <<evidence, timing, successor, stale, gate, lease, world>>

(* Claimed, but the rate limit or a pause names a later time: the attempt is *)
(* given back in the same transaction (_defer_without_consuming_attempt).    *)
ClaimDeferred(w, j) ==
    /\ exec[w].at = "idle"
    /\ CanClaim(j)
    /\ status' = [status EXCEPT ![j] = "retrying"]
    /\ Sync(j)
    /\ UNCHANGED <<attempts, evidence, timing, successor, stale, gate, exec, host, world>>

(* Claimed, but a gate refuses for good: unhealthy account, missing rows, a  *)
(* plan that no longer verifies, tainted or duplicate content.               *)
ClaimRefused(w, j) ==
    /\ exec[w].at = "idle"
    /\ CanClaim(j)
    /\ gate[AccountOf[j]] # "paused"
    /\ status' = [status EXCEPT ![j] = "failed"]
    /\ attempts' = [attempts EXCEPT ![j] = @ + 1]
    /\ Sync(j)
    /\ UNCHANGED <<evidence, timing, successor, stale, gate, exec, host, world>>

(* The first transaction raises and rolls back: execute_job goes on to mark  *)
(* the row, whoever has claimed it.                                          *)
ClaimAborts(w, j) ==
    /\ exec[w].at = "idle"
    /\ status[j] # "absent"
    /\ Begins(w, j, "unwinding")
    /\ UNCHANGED <<db, host, world>>

-----------------------------------------------------------------------------
(* The account lease, shared with login, health probes and collection.       *)

TakeLease(w, j) ==
    /\ exec[w].at = "leasing" /\ exec[w].job = j
    /\ lease[AccountOf[j]] = Free
    /\ lease' = [lease EXCEPT ![AccountOf[j]] = w]
    /\ entries' = [entries EXCEPT ![j] = @ + 1]
    /\ Moves(w, "publishing", "none")
    /\ UNCHANGED <<db, receipt, posts, orphan>>

(* The lease is busy past its timeout, or the lock file cannot be used.      *)
LeaseUnavailable(w, j) ==
    /\ exec[w].at = "leasing" /\ exec[w].job = j
    /\ Moves(w, "deciding", "busy")
    /\ UNCHANGED <<db, host, world>>

CancelledWaiting(w, j) ==
    /\ exec[w].at = "leasing" /\ exec[w].job = j
    /\ Moves(w, "marking", "prewrite")
    /\ UNCHANGED <<db, host, world>>

OutsiderTakes(a) ==
    /\ lease[a] = Free
    /\ lease' = [lease EXCEPT ![a] = Outsider]
    /\ UNCHANGED <<db, receipt, exec, world>>

OutsiderReleases(a) ==
    /\ lease[a] = Outsider
    /\ lease' = [lease EXCEPT ![a] = Free]
    /\ UNCHANGED <<db, receipt, exec, world>>

-----------------------------------------------------------------------------
(* Inside the publisher chain (_try_publishers).                             *)

PlatformAccepts(w, j) ==
    /\ exec[w].at = "publishing" /\ exec[w].job = j
    /\ ~exec[w].wrote
    /\ posts' = [posts EXCEPT ![j] = @ + 1]
    /\ exec' = [exec EXCEPT ![w].wrote = TRUE]
    /\ UNCHANGED <<db, host, orphan, entries>>

(* An adapter journals a confirmed effect before it returns (github_pages,   *)
(* youtube_cli, zhihu_cli).                                                  *)
AdapterJournals(w, j, r) ==
    /\ exec[w].at = "publishing" /\ exec[w].job = j
    /\ exec[w].wrote
    /\ receipt[j] \notin Confirmed
    /\ r \in Confirmed
    /\ receipt' = [receipt EXCEPT ![j] = r]
    /\ UNCHANGED <<db, lease, exec, world>>

(* What an adapter may report.  Adapters are honest: a clean failure means   *)
(* nothing was written, a confirmation that something was, and a journaled   *)
(* confirmation is not withdrawn.                                            *)
Reportable(w, j) ==
    IF receipt[j] \in Confirmed THEN Confirmed
    ELSE IF exec[w].wrote THEN Confirmed \cup {"unknown"}
    ELSE {"rejected", "refused", "preview", "unknown"}

(* An exact approval selects exactly one renderer; otherwise the registry's  *)
(* whole chain may be tried.                                                 *)
ChainLength(j) == IF timing[j] = "none" THEN Publishers ELSE 1

BugEndsChain(r, turn, length) ==
    r \in Confirmed \cup {"preview"} \/ turn = length

(* An effect, a success or an uncertain outcome ends the fallback.           *)
EndsChain(r, turn, length) ==
    r \in Confirmed \cup {"unknown", "preview"} \/ turn = length

(* A request may still be on its way to the platform when the executor stops *)
(* waiting for it.                                                           *)
Abandon(w, j) ==
    \/ UNCHANGED orphan
    \/ ~exec[w].wrote /\ orphan' = orphan \cup {j}

ReleaseLease(j) == lease' = [lease EXCEPT ![AccountOf[j]] = Free]

(* One publisher returns and its result is journaled, best effort.           *)
PublisherReturns(w, j, r) ==
    /\ exec[w].at = "publishing" /\ exec[w].job = j
    /\ r \in Reportable(w, j)
    /\ \/ receipt' = [receipt EXCEPT ![j] = r]
       \/ UNCHANGED receipt
    /\ IF EndsChain(r, exec[w].turn, ChainLength(j))
       THEN /\ Moves(w, "deciding", r)
            /\ ReleaseLease(j)
       ELSE /\ exec' = [exec EXCEPT ![w].turn = @ + 1]
            /\ UNCHANGED lease
    /\ IF r = "unknown" THEN Abandon(w, j) ELSE UNCHANGED orphan
    /\ UNCHANGED <<db, posts, entries>>

(* A sidecar that is missing or cannot be read reads as none.                *)
ReceiptsRead(j) == {receipt[j], "none"}

(* asyncio.wait_for cancels the chain; a receipt that confirms the effect,   *)
(* if it can be read, is promoted to the result, anything else is unknown.   *)
PublishTimesOut(w, j) ==
    /\ exec[w].at = "publishing" /\ exec[w].job = j
    /\ \E known \in ReceiptsRead(j) :
          Moves(w, "deciding", IF known \in Confirmed THEN known ELSE "unknown")
    /\ ReleaseLease(j)
    /\ Abandon(w, j)
    /\ UNCHANGED <<db, receipt, posts, entries>>

CancelledPublishing(w, j) ==
    /\ exec[w].at = "publishing" /\ exec[w].job = j
    /\ Moves(w, "marking", exec[w].result)
    /\ ReleaseLease(j)
    /\ Abandon(w, j)
    /\ UNCHANGED <<db, receipt, posts, entries>>

OrphanLands(j) ==
    /\ j \in orphan
    /\ posts' = [posts EXCEPT ![j] = @ + 1]
    /\ orphan' = orphan \ {j}
    /\ UNCHANGED <<db, host, exec, entries>>

-----------------------------------------------------------------------------
(* execute_job, final transaction: a read of the row, then a write that is   *)
(* no longer conditional on what was read.                                   *)

FinalRead(w, j) ==
    /\ exec[w].at = "deciding" /\ exec[w].job = j
    /\ IF status[j] = "running"
       THEN Moves(w, "committing", exec[w].result)
       ELSE LetsGo(w)
    /\ UNCHANGED <<db, host, world>>

(* The status a finished attempt leaves behind, and what the row says of it. *)
FinalStatus(j, r) ==
    CASE r = "published" -> "success"
      [] r = "busy" -> "retrying"
      [] r = "rejected" -> IF attempts[j] < MaxAttempts THEN "retrying" ELSE "dead"
      [] OTHER -> "failed"

BugFinalEvidence(r) ==
    IF r = "unknown" THEN {"outcome_uncertain", "unknown_text"} ELSE {}

FinalEvidence(r) ==
    CASE r = "partial" -> {"effect_applied"}
      [] r = "unknown" -> {"outcome_uncertain", "unknown_text"}
      [] OTHER -> {}

BugFinalAttempts(j, r) ==
    IF r \in {"busy", "rejected"} /\ attempts[j] > 0 THEN attempts[j] - 1 ELSE attempts[j]

(* An account lock that could not be had was not an attempt.                 *)
FinalAttempts(j, r) ==
    IF r = "busy" /\ attempts[j] > 0 THEN attempts[j] - 1 ELSE attempts[j]

(* _escalate_health_on_failure: a death bans (and pauses) the account when   *)
(* it is the third within a day and degrades it otherwise; a pause is        *)
(* checked before health.                                                    *)
Escalated(g) == IF g = "paused" THEN {"paused"} ELSE {"paused", "unhealthy"}

FinalCommit(w, j) ==
    /\ exec[w].at = "committing" /\ exec[w].job = j
    /\ LET r == exec[w].result IN
       /\ status' = [status EXCEPT ![j] = FinalStatus(j, r)]
       /\ attempts' = [attempts EXCEPT ![j] = FinalAttempts(j, r)]
       /\ evidence' = [evidence EXCEPT ![j] = FinalEvidence(r)]
       /\ IF FinalStatus(j, r) = "dead"
          THEN \E g \in Escalated(gate[AccountOf[j]]) :
                  gate' = [gate EXCEPT ![AccountOf[j]] = g]
          ELSE UNCHANGED gate
    /\ stale' = stale \ {j}
    /\ Sync(j)
    /\ receipt' \in {receipt, [receipt EXCEPT ![j] = "none"]}
    /\ LetsGo(w)
    /\ UNCHANGED <<timing, successor, lease, world>>

(* The final transaction raises and rolls back; the result stays known.      *)
FinalAborts(w, j) ==
    /\ exec[w].at \in {"deciding", "committing"} /\ exec[w].job = j
    /\ Moves(w, "marking", exec[w].result)
    /\ UNCHANGED <<db, host, world>>

-----------------------------------------------------------------------------
(* mark_running_job_uncertain: one conditional update on a RUNNING row.      *)

BugMarkEvidence(known) ==
    CASE known \in Confirmed -> {"effect_applied"}
      [] known = "unknown" -> {"outcome_uncertain", "unknown_text"}
      [] OTHER -> {}

(* What the row says afterwards, given a known result or the receipt read:   *)
(* a confirmed effect replaces the error, every other error but that of a    *)
(* cancellation before the write says that the outcome is unknown.           *)
MarkEvidence(known) ==
    CASE known \in Confirmed -> {"effect_applied"}
      [] known \in {"none", "unknown"} -> {"outcome_uncertain", "unknown_text"}
      [] known = "prewrite" -> {}
      [] OTHER -> {"unknown_text"}

MarkUncertain(j, known) ==
    /\ status' = [status EXCEPT ![j] = "failed"]
    /\ evidence' = [evidence EXCEPT ![j] = MarkEvidence(known)]
    /\ stale' = stale \ {j}
    /\ Sync(j)
    /\ UNCHANGED <<attempts, timing, successor, gate>>

(* The executor that was cancelled or lost its final transaction marks its   *)
(* row; one whose first transaction failed marks whatever row it was called  *)
(* for.  If the update fails too, the row stays RUNNING.                     *)
Mark(w, j) ==
    /\ exec[w].at \in {"marking", "unwinding"} /\ exec[w].job = j
    /\ \/ /\ status[j] = "running"
          /\ \E known \in IF exec[w].result = "none" THEN ReceiptsRead(j)
                          ELSE {exec[w].result} : MarkUncertain(j, known)
       \/ UNCHANGED db
    /\ LetsGo(w)
    /\ UNCHANGED <<host, world>>

(* The executor's process dies: the kernel drops its lock.                   *)
Crash(w) ==
    /\ exec[w].at # "idle"
    /\ IF exec[w].at = "publishing"
       THEN ReleaseLease(exec[w].job) /\ Abandon(w, exec[w].job)
       ELSE UNCHANGED <<lease, orphan>>
    /\ LetsGo(w)
    /\ UNCHANGED <<db, receipt, posts, entries>>

(* started_at falls behind the cutoff of job_running_timeout_seconds.        *)
GrowsStale(j) ==
    /\ status[j] = "running"
    /\ j \notin stale
    /\ SlowExecutors \/ \A w \in Executors : ~Claims(w, j)
    /\ stale' = stale \cup {j}
    /\ UNCHANGED <<status, attempts, evidence, timing, successor, articleStatus,
                   gate, exec, host, world>>

BugReconcile(j) ==
    /\ status[j] = "running"
    /\ j \in stale
    /\ receipt[j] # "none"
    /\ MarkUncertain(j, receipt[j])
    /\ UNCHANGED <<exec, host, world>>

(* reconcile_stale_running_jobs, at the start of every scan.                 *)
Reconcile(j) ==
    /\ status[j] = "running"
    /\ j \in stale
    /\ \E known \in ReceiptsRead(j) : MarkUncertain(j, known)
    /\ UNCHANGED <<exec, host, world>>

(* republish_job: a fresh row takes the place of a failed one.               *)
Republish(old, new, platformChecked) ==
    /\ status[old] \in Republishable
    /\ timing[old] = "none"
    /\ NeedsPlatformCheck(old) => platformChecked
    /\ status[new] = "absent"
    /\ ArticleOf[new] = ArticleOf[old]
    /\ AccountOf[new] = AccountOf[old]
    /\ status' = [status EXCEPT ![new] = "pending"]
    /\ successor' = [successor EXCEPT ![old] = new]
    /\ UNCHANGED <<attempts, evidence, timing, stale, articleStatus, gate, exec,
                   host, world>>

(* Health probes, metric evaluations, operators and the clock.               *)
GateChanges(a, g) ==
    /\ gate[a] # g
    /\ gate' = [gate EXCEPT ![a] = g]
    /\ UNCHANGED <<status, attempts, evidence, timing, successor, stale,
                   articleStatus, exec, host, world>>

-----------------------------------------------------------------------------
(* What a live executor does next of its own accord.                         *)
Proceed(w, j) ==
    \/ TakeLease(w, j) \/ LeaseUnavailable(w, j)
    \/ PlatformAccepts(w, j)
    \/ \E r \in Confirmed : AdapterJournals(w, j, r)
    \/ \E r \in Receipts : PublisherReturns(w, j, r)
    \/ PublishTimesOut(w, j)
    \/ FinalRead(w, j) \/ FinalCommit(w, j) \/ Mark(w, j)

Interrupt(w, j) ==
    \/ ClaimAborts(w, j) \/ FinalAborts(w, j)
    \/ CancelledWaiting(w, j) \/ CancelledPublishing(w, j)

Start(w, j) == Claim(w, j) \/ ClaimDeferred(w, j) \/ ClaimRefused(w, j)

Next ==
    \/ \E a \in Articles, rows \in SUBSET Jobs : Distribute(a, rows) \/ Schedule(a, rows)
    \/ \E w \in Executors, j \in Jobs : Start(w, j) \/ Proceed(w, j) \/ Interrupt(w, j)
    \/ \E w \in Executors : Crash(w)
    \/ \E j \in Jobs : PlannedTimeComes(j) \/ OrphanLands(j) \/ GrowsStale(j) \/ Reconcile(j)
    \/ \E old, new \in Jobs, checked \in BOOLEAN : Republish(old, new, checked)
    \/ \E a \in Shared : OutsiderTakes(a) \/ OutsiderReleases(a)
    \/ \E a \in Shared, g \in Gates : GateChanges(a, g)

Spec == Init /\ [][Next]_vars

(* Timeouts bound every wait of a live executor, time passes, and the worker *)
(* loop reconciles on every scan; nothing obliges an operator, a publisher's *)
(* success, a crash or the platform.                                         *)
Fairness ==
    /\ \A w \in Executors : WF_vars(\E j \in Jobs : Proceed(w, j))
    /\ \A j \in Jobs : WF_vars(GrowsStale(j)) /\ WF_vars(Reconcile(j))

FairSpec == Spec /\ Fairness

-----------------------------------------------------------------------------
(* Every variable keeps its type; the columns and files of the code have the *)
(* values their readers expect.                                              *)
TypeOK ==
    /\ status \in [Jobs -> JobStatus]
    /\ attempts \in [Jobs -> Nat]
    /\ evidence \in [Jobs -> SUBSET Evidence]
    /\ timing \in [Jobs -> {"none", "future", "reached"}]
    /\ successor \in [Jobs -> Jobs \cup {NoJob}]
    /\ stale \subseteq Jobs
    /\ articleStatus \in [Articles -> ArticleStatus]
    /\ gate \in [Accounts -> Gates]
    /\ receipt \in [Jobs -> Receipts]
    /\ lease \in [Accounts -> Executors \cup {Free, Outsider}]
    /\ exec \in [Executors -> Executor]
    /\ posts \in [Jobs -> Nat]
    /\ orphan \subseteq Jobs
    /\ entries \in [Jobs -> Nat]

(* An irreversible post is made at most once on behalf of a row, through     *)
(* retries, fallbacks, crashes, cancellations, timeouts and late landings    *)
(* (_claim_job, _try_publishers, _finish_failed_attempt).                    *)
AtMostOncePerJob == \A j \in Jobs : posts[j] <= 1

InFlight(j) ==
    \/ j \in orphan
    \/ \E w \in Executors : exec[w].at = "publishing" /\ exec[w].job = j

(* A failed row that republish_job accepts without platform_checked has no   *)
(* post on the platform and none under way.                                  *)
UncheckedFailureIsClean ==
    \A j \in Jobs : status[j] \in Republishable /\ ~NeedsPlatformCheck(j)
                    => posts[j] = 0 /\ ~InFlight(j)

(* SUCCESS is only recorded for a row whose post is on the platform.         *)
SuccessMeansPosted == \A j \in Jobs : status[j] = "success" => posts[j] = 1

(* Giving attempts back on lock contention never lets a row enter the        *)
(* publisher chain more often than max_attempts allows.                      *)
EntriesWithinBudget ==
    \A j \in Jobs : entries[j] <= attempts[j] /\ attempts[j] <= MaxAttempts

(* An article's status is the aggregate of its live rows, except while a row *)
(* nobody has claimed yet waits for its first attempt.                       *)
ArticleFollowsJobs ==
    \A a \in Articles :
        \/ \E j \in Jobs : ArticleOf[j] = a /\ status[j] = "pending" /\ successor[j] = NoJob
        \/ articleStatus[a] = Aggregate(a, status)

ClosedWithProof(j) ==
    \/ status[j] = "success"
    \/ status[j] \in Republishable /\ "effect_applied" \in evidence[j]

ClosedInDoubt(j) == status[j] \in Republishable /\ "outcome_uncertain" \in evidence[j]

(* A sidecar that proves an external effect only disappears when the row     *)
(* itself is closed with the proof, so that cleaning up is "after the same   *)
(* receipt is durably in the database" (remove_publish_receipt).  One case   *)
(* is left in which the proof is lost: the outcome is unknown to the         *)
(* executor, because the sidecar could not be read at the timeout, and then  *)
(* a flag, not just the text of an error, sends the operator to the platform.*)
LostProofIsFlagged ==
    [][\A j \in Jobs :
          receipt[j] \in Confirmed /\ receipt'[j] \notin Confirmed
          => \/ ClosedWithProof(j)'
             \/ /\ \E w \in Executors : /\ exec[w].at = "committing" /\ exec[w].job = j
                                        /\ exec[w].result = "unknown"
                /\ ClosedInDoubt(j)']_vars

(* However its executor ends, a RUNNING row does not stay RUNNING.           *)
RunningIsResolved ==
    \A j \in Jobs : status[j] = "running" ~> status[j] # "running"

-----------------------------------------------------------------------------
(* The abstract row PublishOnce describes.                                   *)
Phase(j) ==
    CASE status[j] = "absent" -> "none"
      [] status[j] \in Claimable -> "open"
      [] status[j] = "running" -> "running"
      [] OTHER -> "closed"

Verdict(j) ==
    CASE status[j] = "success" -> "published"
      [] status[j] \in Republishable -> IF NeedsPlatformCheck(j) THEN "doubtful" ELSE "clean"
      [] OTHER -> "none"

MayStillPost ==
    orphan \cup {j \in Jobs : \E w \in Executors :
                   exec[w].at = "publishing" /\ exec[w].job = j /\ ~exec[w].wrote}

Contract == INSTANCE PublishOnce WITH
    phase <- [j \in Jobs |-> Phase(j)],
    verdict <- [j \in Jobs |-> Verdict(j)],
    pending <- MayStillPost

(* The pipeline keeps the promise of PublishOnce to the readers of a row.    *)
KeepsContract == Contract!Spec
=============================================================================
