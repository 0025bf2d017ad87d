# TLA+ models of ai-ops-auto

ai-ops-auto takes content from a topic to a publication on a creator platform
and back: articles are staged and approved, fanned out into one *publish job*
per account, published by adapters that drive browsers and command-line tools,
and measured afterwards.  One API process and one worker share a database
(SQLite or PostgreSQL), which is the only source of truth; the external effects
are irreversible and cannot be queried.  What makes the system hard is therefore
everything that lies between a committed row and an external effect: crashes,
timeouts, late answers, retries and concurrent callers.

All paths below are relative to `src/ai_ops/` of the repository.

## 1. Inventory

| Component | State it keeps | Operations | Interacts with | Hard behaviour |
|---|---|---|---|---|
| Publishing pipeline, `scheduler/worker.py` | `publish_jobs` rows, article status | claim, defer, refuse, publish, finish, mark uncertain, republish | lease, receipts, registry, health | concurrent claims, an outcome nobody knows, crash between effect and commit |
| Worker loop, `scheduler/runtime.py` | none (reads rows) | reconcile stale rows, scan due rows | pipeline, metrics | recovery racing a slow executor |
| Receipts, `runtime/receipts.py` | one sidecar file per `operation_id` | write, read, remove | pipeline, three adapters | lost, unreadable or outdated files |
| Account lease, `runtime/account_lease.py` | a kernel file lock per account | acquire with timeout, release | pipeline, login, health, metrics | contention, holder dies |
| Fan-out, `content/distributor.py` | article status, new rows | stage, import, approve, distribute | pipeline | double distribution |
| Article lifecycle, `content/manager.py` | article status | transitions | fan-out, aggregation | two writers of one status |
| Durable metrics, `scheduler/metrics.py` | `metrics_collection_tasks` rows, snapshots | create, backfill, claim, begin, retry, defer, complete, reconcile | lease, health, external operations | lease expiry while the collector runs, fencing, immutable windows |
| Agent contract, `agent_contract/service.py` | plans, approvals, operation ledger | stage, plan, request, decide, schedule | fan-out, worker | approval outdated at scheduling, replayed requests |
| External operations, `agent_contract/service.py` | ledger rows with a lease, the snapshot that belongs to one | claim, replay, look, store, check, finish, release | metrics | lease expiry while the owner still collects, replay beside a late snapshot, clocks that differ |
| Asset vault, `agent_contract/assets.py`, `scheduler/worker.py` | files named by their digest, private copies of executions | import, verify, copy, undo, clean up | contract, pipeline | concurrent imports, power failure between two file-system steps, a thread that outlives its task |
| Account health, `accounts/health_monitor.py`, `scheduler/health.py`, `accounts/manager.py` | health, pause, ban probe, quota | probe, evaluate, pause, recover, rate-limit | worker gates | stale probes, verdicts out of order |
| Publisher registry and plugins, `publishers/registry.py`, `plugin_sdk.py` | the validation report of the process | validate, construct, resolve | pipeline | packages that change after validation |
| Publisher adapters, `publishers/*` | platform side, a login profile | publish, login, collect | pipeline, receipts | a write boundary inside a browser or a command, late acceptance, cancellation |
| GitHub Pages publisher, `publishers/github_pages.py`, `github_pages_gh.py` | a clone, its lock, a remote branch | preflight, write, build, add, commit, push, read back, deploy, roll back | receipts, pipeline | people and hooks in the same clone, git commands that fail after their effect |
| Scheduler queue, `scheduler/queue.py`, `jitter.py` | in-memory callbacks | schedule once, cron | pipeline | only starts executions earlier |
| Notifications, `notify/*` | dedup window in memory | should_send | pipeline | none shared |
| API, CLI, MCP, auth, reports, generation, video, podcast, jobhunt, demo, doctor, config | own tables or none | request handlers, scripts | the above | none, or sequential |

What makes each of the first group correct:

- **Publishing pipeline**: a row's post is made at most once; a row that may run
  again left nothing on the platform; a failure tells the operator when the post
  may exist; SUCCESS means posted; attempts bound the entries into publishers;
  no row stays RUNNING; the article follows its rows.
- **Receipts**: a file that proves an effect disappears only when its row is
  closed with that proof, or, where nobody could read it in time, with a flag that
  sends the operator to the platform.
- **Metrics**: at most one snapshot per row and window, taken inside the window;
  an owner whose lease expired changes nothing; every task ends.
- **External operations**: a key has one answer, and the answer agrees with the
  stored evidence for good.
- **Asset vault**: an entry is whole or absent, one that a record names stays,
  only approved bytes are executed, and private copies do not pile up.
- **Publishers**: a clean failure left nothing and will leave nothing; one write
  at most reaches a platform; a receipt names the post of its own call; what is
  written under an approval is written as the approved account; no write path is
  taken silently in place of the configured one.
- **GitHub Pages**: exactly the approved commit is pushed, nobody's work in the
  clone is overwritten, a result is never false, a rollback leaves no trace.
- **Agent contract**: nothing reaches a publisher that differs from what an
  independent human approved; a plan creates its jobs once, and competing routes
  do not create them side by side; one idempotency key acts once; an expired
  approval stays expired.
- **Account health**: a ban is left only through its recovery; a stale probe
  changes nothing; no publication while paused.

## 2. Modules

| Module | What it is |
|---|---|
| `PublishJobs` | The pipeline: rows, executors, lease, receipts, platform, recovery, republication |
| `PublishOnce` | What a row promises its readers, with no executor in sight |
| `PublishJobsInvariant` | The inductive strengthening of the pipeline's invariants |
| `PublishJobsProofs` | Type correctness, the safety properties, and that `PublishJobs` implements `PublishOnce`, proved |
| `MCPublishJobs` | Small instances for TLC |
| `MetricsTasks` | The ledger of metrics collection: rows, runners, leases and windows on a clock |
| `EvidenceOnce` | What an evidence window promises |
| `MetricsTasksProofs` | The inductive invariant of the ledger, its safety properties and its refinement of `EvidenceOnce`, proved |
| `MCMetricsTasks` | Small instances for TLC |
| `AccountHealth` | Health, pause and ban of one account, and everybody who writes them |
| `AccountHealthProofs` | Its inductive invariant and its safety properties, proved |
| `MCAccountHealth` | Small instances for TLC |
| `AgentContract` | Plan, request, decide, schedule and execute for one article, under the idempotency ledger, against the older routes |
| `ApprovalGate` | What an approval promises: propose, submit, decide once, release once, perform as decided |
| `AgentContractProofs` | The inductive invariant of the contract, its safety properties and that it implements `ApprovalGate`, proved |
| `MCAgentContract` | Small instances for TLC |
| `ExternalOperations` | One idempotency key of a manual collection: lease, takeover, evidence, answer |
| `ExternalOperationsProofs` | Its inductive invariant and its properties, proved |
| `MCMetricsOwners` | `MetricsTasks` and `ExternalOperations` as small instances for one run |
| `PublisherPlugins` | Which publishers a platform has, in which order, and plugins whose packages change |
| `PublisherCalls` | What all publishers have in common: calls, results, the write boundary, and the worker's loop over them |
| `BrowserPublishers`, `CommandPublishers` | `publish` of the six browser adapters; of the five that run commands or send requests |
| `PublisherRoutes` | One job whose attempts try the publishers of its platform in turn: the composition of the four above |
| `PublisherRoutesProofs` | Its inductive invariants, proved: clean failures, receipts, the approved account, the order of the route |
| `MCPublisherRoutes` | Small instances for TLC |
| `GitPublish`, `MCGitPublish` | A publication by commit and push, in a clone that others use; small instances |
| `GitPublishProofs` | Its inductive invariant and its properties, proved |
| `AssetVault`, `MCAssetVault` | The vault of approved files and the private copies of executions; small instances |
| `AssetVaultProofs` | Its inductive invariant and its properties, proved |

The two systems meet in the account lease and in the committed SUCCESS of a row,
which creates its three windows: `MetricsTasks` starts where a row of
`PublishJobs` ends, and its `Jobs` are rows that have succeeded.  Neither reads
the other's later state, so they are checked apart.  `AccountHealth` is what lies
behind the `gate` of `PublishJobs`, which lets the gate change arbitrarily; in
return its executions are those of `PublishJobs` reduced to what the account
sees of them: a claim, the time inside the publisher, and one of three ends.
`AgentContract` ends where the rows of `PublishJobs` begin: its scheduling is
what `Schedule` is there, and `Execute` is the entry into a publisher, before
which the worker compares the row's plan, approval and account once more.

`PublisherRoutes` is the inside of what `PublishJobs` treats as one chain of
publishers: it has one job and no crash of the worker, but every adapter with its
own boundary, and the results that its calls may return are what `Reportable`
allows there.  `GitPublish` is the publisher with the longest chain of its own,
and has its own run.  `AssetVault` lies on both sides of `AgentContract`: imports
make the records that a plan's digest covers, and an execution copies them after
`Execute`.  `ExternalOperations` and `MetricsTasks` are the two owners that a
stored snapshot may have; a snapshot belongs to one or the other, so they meet in
no row, and `MCMetricsOwners` only puts them into one run.

### How `PublishJobs` corresponds to the code

*State.* `status`, `attempts`, `successor` are the columns of `publish_jobs`;
`evidence` is what `raw_response` and `error` say about the platform, by the
three traces `republish_job` looks for; `timing` is `approved_planned_for`
relative to the clock; `stale` is the set of rows a scan would find older than
`job_running_timeout_seconds`; `gate` is what the pause and the health of the
account allow. `receipt` is the sidecar of the row's current `operation_id`, and
`lease` the holder of the account's kernel lock. `exec` is the program counter,
the row and the local result of every concurrent call of `execute_job`. `posts`,
`orphan` (requests under way that nobody waits for) and `entries` describe the
platform and the history, and no action of the code reads them, except that
`Reportable` makes adapters honest.

*Steps.* A committed transaction is one step. `execute_job` is cut where other
actors can get in between:

    Claim | ClaimDeferred | ClaimRefused | ClaimAborts     the first transaction
    TakeLease | LeaseUnavailable | CancelledWaiting        waiting for the account
    PlatformAccepts, AdapterJournals, PublisherReturns,    inside the publishers
      PublishTimesOut, CancelledPublishing
    FinalRead, FinalCommit | FinalAborts                   the final transaction
    Mark                                                   mark_running_job_uncertain

`Crash` may happen at every place. `Reconcile`, `Republish`, `GateChanges`,
`OutsiderTakes/Releases`, `PlannedTimeComes` and `OrphanLands` are the other
actors. The final transaction is two steps, because the code reads the status in
one statement and writes the row without a condition in a later one; the claim
is one step, because it is a conditional UPDATE under the account's row lock.

*Data.* A `PublishResult` is one of eight outcomes the code tells apart. A
result is `rejected` when it may be retried and `refused` when not; `busy` and
`prewrite` are the two results that exist before any publisher was entered.

### How `MetricsTasks` corresponds to the code

*State.* `status`, `attempts`, `nextAt`, `owner` (for `lease_token`) and
`leaseEnd` are the columns of `metrics_collection_tasks`; `Due` and `Deadline`
are constants because the window is immutable once it is written.  `snapshots`
holds the collection times of the `Metrics` rows bound to a task.  `run` is the
program counter of every concurrent `run_metrics_collection_task`: the task it
works for, the time its collector or its commit may take, and, while it
releases the row, whether it may be retried.

*Time.* `now` is the database's clock.  `_begin`, the final transaction and the
release compare leases with that clock (`core/db_clock.py`); claims, deferrals,
reconciliation and backfill use a `datetime.utcnow()` taken before, which the
model lets be up to `Lag` old (`Stamps`).  A retry is released with a timestamp
that is not older than the collection it follows.

*Steps.* Each function that commits is one action: `Backfill`, `Reconcile`,
`Defer`, `Claim`, `Begin`, `Finalize`, `Release`.  `MissesRow` is the last three
when their conditional UPDATE hits no row.  The collector is an await between `Begin` and `CollectorAnswers` or
`CollectorFails`.  A snapshot and its row's success are one transaction, which
`FinalizeAborts` rolls back when the health evaluation of the 24 h window raises.

*Suspension.* With `Stalls`, a runner may be suspended anywhere for any time, so
neither `asyncio.timeout` nor the margin of the commit hold; without it, `Tick`
does not pass a runner's timeout.  Safety of the rows and of the evidence is
shown with stalls; that no finished work is thrown away needs their absence.

### How `AccountHealth` corresponds to the code

*State.* `health`, `credential` and `age` (since `last_health_check_at`) are
columns of `accounts`, `pause` is `profile["paused_until"]`.  `deaths` is the
count that `_escalate_health_on_failure` makes, `recent` and `older` are the
SUCCESS rows that wait for their 24 h snapshot or have it, newest first.
`probe` is the `_AccountProbePlan` with the place in `check_all_accounts`;
`touched` stands for the columns the plan's timestamps are compared with
(`last_health_check_at`, `started_at`, `last_publish_at`).  `edit` is the copy
of the profile that `update_account` holds.  `overlap` and `setback` are
history, read by properties only.

*Time.* A deadline is the number of days left of it; 168 and 48 hours become
`BanDays` and `DegradeDays`.  `DeathAges` lets a DEAD row leave its 24 hours at
any moment, because rows of one day expire one by one.

*Steps.* A transaction is a step, so a probe is `Prepare` (snapshot),
`TakeLease`, `Answer` (the await), and `Discard` or `Settle`; an edit is
`OpenProfile` and `SaveProfile`, because nothing locks the row in between.
`ClaimRefused` is a claim that a gate turned down: it commits `started_at`, and
so makes a probe under way stale.  Which measured posts are low is any subset:
the baseline is the median of a week and includes posts that the window does
not.

### How `AgentContract` corresponds to the code

*State.* `article` is `articles.status`; `planState` and `planned` are the
mutable and the immutable columns of `publication_plans`, `verdict` and `request`
those of `approval_requests`, and `ledger` the committed rows of
`agent_operations` with the plan their stored response names.  A digest is the
record of the versions it covers: the content, and through
`account_binding_payload` the account as operators edit it (`edits`) and as
pauses and bans leave it (`pauses`: the `paused_until` and `last_ban_probe_*` of
`profile`).  `fanOuts` and `claims` count the jobs' creations, per plan and for
the article.  `reopened` and `published` are history.

*Steps.* A call is one transaction under READ COMMITTED, and everything it reads
comes before its first conditional UPDATE.  It is therefore two steps: `Begin...`
inserts the ledger's row and tests what the code tests on the rows it has read;
`Commit...` is the conditional UPDATE with everything behind it, which sees what
was committed in between and writes some columns without a condition (`plan.state`
in `decide_approval`).  `call` holds what an open transaction has read.  A
refusal, an exception and an UPDATE that hits no row all roll back, which is
`CallAborts`; the ledger's row disappears with the rest, so the key may be used
again.  A key in use by an open transaction blocks its second user until the end
(`Claimable`); an answered key replays its response and changes nothing.

*The others.* `approve` and `transition_status` read the status and write it
later without a condition (`ReadForMove`, `WriteMove`).  `distribute` claims the
article by compare-and-swap.  `WorkerSyncs` is the aggregation of `PublishJobs`
with its jobs left open.  Content grows (`attach_asset`), operators edit the account, the health
monitor pauses it and lets it recover, approvals expire, and all of it happens at
any moment.

*The worker.* `Execute` compares what `_build_verified_contract_content` compares
and publishes the plan's snapshot, not the article.  It does not ask for the
expiry again: an approval that was valid when it scheduled stays good for its jobs.

### How `ExternalOperations` corresponds to the code

*State.* `holder`, `until` and `answer` are `lease_token`, `lease_expires_at`
and `response_json` of one row of `agent_operations`; `evidence` counts the rows
of `Metrics` that carry its id.  `at` and `result` are the program counter and
the local result of every call with the key; `got` is what it returned.

*Steps.* Each transaction is one: `Replay` and `ClaimKey` are
`_claim_external_operation`, the collector looks for what a predecessor stored,
collects, and stores behind a fence in `collect_one`; the check that the answer
agrees with the evidence, the fenced answer and the release follow in
`collect_metrics`.  A call may be cancelled or die at any place.  A lease is
taken by the clock of a process and held by the clock of the database; the two
differ by up to `Skew`, in either direction.

### How the publishers correspond to the code

*State.* `calls` is the history of publisher calls, each with what has become of
its write and its result; `at` is the place in the current call.  `route` is
the part of `resolve()` that the attempt has not tried.  `condition` and
`admitted` are the packages of the plugins and the report made at the start of
the process.  `listing` is the account's list of works, which three adapters
read; `profile` is the external account behind a command's login.

*Steps.* A call is cut where it awaits: what lies before its write boundary (the
last button, the start of the command, the request), the write itself, and the
observation afterwards.  All waiting in a place is one place; all the ways to
fail in it with the same result are one action.  `Cancelled` reaches every
place.  `CloseCancelled` is a cancellation during which closing the browser
raises.  `Settle` is the platform: it accepts, keeps as a draft or refuses what
is on its way, during the call or long after.  `AfterResult` is the loop of
`_try_publishers` with the end of the attempt in `execute_job`.

*Data.* A `PublishResult` is its four flags and the post it names.  The plugin
of the instance keeps to the contract of a publisher, as the code asks of it.

### How `GitPublish` corresponds to the code

*State.* A commit is its parent, its tree and who made it; `head`, `index`,
`file` and `remote` are the clone and the branch of the site.  A file is who its
bytes belong to: a call, somebody else, or nobody.  `lock` is
`.git/ai-ops-publish.lock`, which only calls of `publish` respect; `base`,
`saved`, `made` and `sha` are the locals with which a call finds its way back.

*Steps.* Every git or gh command is a step, and so is every check and every
exclusive write.  A command may fail before or after its effect, and it may go on
after its process was given up (`orphans`, `OrphanLands`).  `OutsiderStep` is
everybody who does not take the lock: edits, staging, commits, resets, pushes and
pulls, between any two steps.

### How `AssetVault` corresponds to the code

*State.* `entries` maps a digest path to an inode, `durable` says whose entry in
its own directory is on the disk, `shelf` whether that directory (`sha256/aa/bb`,
with what is above it) is missing, made, or itself on the disk; `inode` holds content, change stamp and whether it was
synced.  `import` and `job` are the program counters of
`import_asset_to_vault` and of the materialization in the worker, `read` their
open descriptor.  `rows` are the digests of returned records.  `swept` is history: the digests lost
with their directory.

*Steps.* Opening, every chunk, the comparison of metadata, sealing, making the
directories (`MakeShelf`), the exclusive link, the syncs, the verification and the
return are steps, as is every undo.  `PowerFails` may come at any time, also long
after an import has returned.  It takes what was not flushed, or a part of it: an
import flushes its own entry's directory and the root, and nothing between the
two, so a directory that was made since the last start may go, with every entry
below it, recorded or not (section 6).  After a failure what is still there is on
the disk.  Sizes are counted in blocks, and an execution copies one asset.
Timestamps of two writes differ.  Private temporary files and execution
directories that a stop leaves behind are swept by nobody, in the model as in the
code.

### Assumptions of the model

- **Adapters are honest** (`Reportable`): a clean failure means that nothing was
  written, a claimed effect was made, a journaled effect is not withdrawn by the
  same call, and one execution of the chain makes at most one post by
  itself. A publisher that cannot tell reports an unknown outcome, times out or
  raises, and all three are modelled.  `PublisherRoutes` shows it for the
  adapters themselves, with the exception of section 6.1.  Only the adapters of
  GitHub Pages, YouTube and Zhihu's command write journals, and each returns its
  confirmed result right after, or catches what it does in between; were one to
  raise there, `_try_publishers` (`scheduler/worker.py:1612-1640`) would write an
  unknown result over the journal.
- Releasing the account's lease does not raise.
- A request that is still under way when its executor gives up may land at any
  later time, or never.
- A row's article and account exist (foreign keys), so a paused account is
  always deferred and never refused.
- `AUTO_REPUBLISH_ON_DEAD` is the constant `False`.
- `metrics_task_lease_seconds` exceeds the collection's timeout and its margin,
  as `config.py` validates, and a publication's SUCCESS is final.
- In the ledger of windows the database's clock and the process's are one clock;
  a stamp is older, never newer. For idempotency keys the clocks differ.
- A page that shows the address or the number of a post shows this call's,
  except the lists of works of toutiao, baijiahao and sohuhao.
- Two contents with one digest do not exist; a file system does what it says
  about exclusive links and syncs, and no more: a sync of a directory keeps that
  directory's entries.  One that refuses to sync directories at all, which
  `_fsync_directory_fd` (`agent_contract/assets.py:726-732`) passes over, is left
  out.
- Between the last `stat` of a file and its removal or replacement by
  `github_pages.py:476-493` nobody writes to it: the two are one step.
- The row lock of `_claim_job` holds (PostgreSQL), or one worker runs (SQLite),
  as `docs/deployment.md` requires.
- A principal's type is fixed, and ids are never used twice.
- `plan_publication` takes its snapshot at one moment; the account is one, so
  a plan with several targets is one whose targets drift together.
- Two writes of an account never get the same timestamp, and an account's row is
  locked while a probe settles.

## 3. Runs

| Run | Bounds | What it shows |
|---|---|---|
| `retries` | 1 row, 2 executors, 2 publishers, 2 attempts, slow executors, a shared account | at most one post, unchecked failures are clean, attempts bound entries |
| `replacement` | a row and its replacement, 2 executors, 2 attempts | a receipt is removed when its row holds the proof, or a doubt nobody could resolve, refinement of `PublishOnce` |
| `liveness` | 2 siblings of an approved article on 2 accounts, 1 executor, 2 attempts | the article is the aggregate of its rows, no row stays RUNNING |
| `metrics_races` | 1 window of 9 units from time 1, 2 runners, 2 attempts, lease 4, timeout and margin 1, lag 1, stalls; 1 key, 3 calls, lease 2, skew 1 | rows obey the lifecycle constraint, refinement of `EvidenceOnce`; a key's answer agrees with its evidence and is one |
| `metrics_prompt` | 2 windows of one publication, 2 runners, 2 attempts, lease 3, crashes, no stalls | finished work is kept, one collector at a time, every window ends |
| `health_verdicts` | 2 executions, ban of 2 days, pause of 1, 2 deaths, windows of 2 and 1, 2 credentials, an operator | a setback outlives older probes, verdicts are current, a ban is left by a due HEALTHY probe only |
| `health_liveness` | 1 execution, ban of 3 days, one unmeasured post beyond the window, no operator | a banned account is probed again; with a kind platform its ban ends |
| `approvals` | 2 plans, 2 approvals, 2 open transactions, 8 keys of 3 principals, an operator who approves drafts and takes scheduled articles back, 1 change of content or account, 1 reopening | a plan's state follows its one decision, jobs are created once per plan and in turns per article, keys act once, expiry is final, what is published was approved, refinement of `ApprovalGate` |
| `git_publish` | 2 calls for one post, one with an image and verified, 1 path of others, 4 commits, 3 steps of outsiders | results are true, only the approved commit is pushed, foreign work survives, a rollback leaves no trace |
| `publisher_routes` | 8 platforms, every optional publisher on, a plugin between two built-in ones, 2 attempts | clean failures left nothing, one write at most, receipts are real, the approved account only, no path is passed over |
| `assets` | 2 imports of one source, 1 execution, contents of 1 and 2 blocks, 2 directories of which 2 contents share one, 1 edit, 1 damage, power failures | an import is one version, entries are whole, records are kept, approved bytes only, copies are removed |
| `swallowed_timeout` | that of `publisher_routes` | a sentence about the last button that the code does not keep (section 6.1) |

The type invariants and the inductive invariants are not listed with the runs of
the modules whose theorems prove them (section 4).

Why the bounds are enough: every hazard of one row needs at most its claimant,
one intruder (a second executor, a reconciliation or an operator) and one
fallback or one retry, so two executors, two publishers and two attempts reach
each of them; aggregation needs two siblings, or a row and its replacement. Counters are
bounded by the guards themselves (`MaxAttempts`, `Publishers`, and `posts`
because of the property proved). `Shared` is a bound: it names the accounts that
outsiders touch, so that runs which are not about contention or gates do not
multiply by them; the proofs hold for every value. Rows are finite because an
element of `Jobs` is used once. The executors are symmetric.
`CHECK_DEADLOCK` stays on in the runs of `PublishJobs`: an executor can always
attempt an execution that aborts.

For the ledger, a lease of 3 or 4 within a window of 5 to 9 leaves room for a first
attempt, its expiry or retry, a second claim and a stale first runner that
wakes during or after it; a third runner would meet the same rows.  The retry
delays are 1 and 2, so that both the delay and the deadline decide.  `Lag` 1
lets a stamp fall on the other side of every boundary.  The clock stops at
`Horizon`, past every deadline, and then all windows have ended and all runners
may have: `CHECK_DEADLOCK` is off there.

For the account, one probe exists at a time (accounts are checked in sequence by
one cron job), so its hazards need one probe, one or two executions and one edit;
two credentials make one rotation.  A ban of 2 days outlasts a pause of 1, a
window of 2 contains the window of 1, and 2 deaths make a ban where 1 does not,
which keeps every comparison of the code's 7, 2, 5, 3 and 3.  `Backlog` bounds
the posts that leave the window unmeasured.

For the contract, two open transactions make every race of two calls, and a
third actor is the operator or the drift, which need no transaction. The keys
give every operation a second caller or a second key where it may be repeated:
two plans for one article, two deciders who disagree, and a plan scheduled under
two keys. `MaxChanges` bounds the versions by the number of places in which they
differ from the first, and `MaxReopened` how often an operator makes the article
schedulable again. `Probes` bounds what a probe may find: in `approvals` health
falls with a pause and rises with any probe. An edit or an added asset is never
taken back, which is a bound: a value restored is the value that was approved. An
article may come to rest, but a probe may always find what was known, so
`CHECK_DEADLOCK` stays on.

For idempotency keys, three calls are an owner, the one that takes over and the
one that replays; a lease of 2 runs out twice before `LastHour`, and a skew of 1
puts a clock on either side of its end.  All calls end, so deadlock is not
checked.

For the publishers, two attempts are the last clean failure and its retry, and no
platform has more than three publishers.  A write settles at any moment of the
call, of a later call, or never.  The eight platforms are those with a route of
their own, and one that has only the general one.  A job comes to an end, but
people log in and packages change for ever.

For the repository, two calls make one that finds the other's lock and one that
finds its commits; four commits are the first, one of each call and one of an
outsider; three steps of outsiders are an edit, its staging and its commit, or a
commit, its push and a reset.  For the vault, two imports of one content race for
one entry, contents of two blocks can be torn, and one damage and one edit reach
every check; two of the contents share a directory, so that one import makes it
and another finds it made or kept.  A power failure may happen at any time, during
imports and after them.  Calls and imports come to an end, so `CHECK_DEADLOCK` is
off in these runs.

*Fairness* (`liveness`). An executor that lives proceeds: the lease wait, the
publishers and the database are all bounded by timeouts (the default
`job_execution_timeout_seconds` is 1800; with 0 there is none, and the property
would not hold). Time passes, so a row that nobody runs grows stale, and
`run_worker_loop` begins every scan with `reconcile_stale_running_jobs`, even
when automatic publishing is off, and survives failed scans. Nothing is assumed
of crashes, operators, publishers' success or the platform.

In `metrics_prompt` time passes, a runner that lives proceeds (the collector and
the commit are bounded by timeouts), and every scan of the worker loop runs
`backfill_missing_metrics_collection_tasks` and
`reconcile_exhausted_metrics_collection_tasks` before anything else.  Nothing is
assumed of claims: a window that nobody works on fails at its deadline.

In `health_liveness` days pass, the daily cron prepares a probe whenever one is
due, its awaits are bounded by a timeout, and an execution ends.  A probe may
still find the lease busy, be answered anything, or be discarded.
`BansEnd` assumes besides what the outcome depends on and the code cannot give
(`KindPlatform`): again and again a probe that no claim disturbs gets the lease,
is answered HEALTHY and lives to write it.  Without "no claim disturbs" the
property fails: rows that are refused every night during the probe make every
probe stale.  Nor does it hold with an operator whose edits race every
probe and undo the deadline it writes, so that run has none.

## 4. Proofs

The pipeline's theorems hold for arbitrary sets of rows, executors, articles and
accounts, any chain length, any attempt bound, from the assumptions named
`PublishJobsAssumption`.

The safety properties are not inductive. That a post is made once does not
follow from any guard: it follows from what the claimant *knows*.
`InductiveInvariant` says so: a row has one claimant at most (`OneClaimant`)
which keeps the row RUNNING, or finds it closed with a doubt (`ClaimedRow`: a
slow executor's row may be reconciled under it); nothing was or can be posted
for a row that may be claimed (`ClaimableUnposted`); and the result an executor
carries is true of the platform (`ClaimantKnows`), including that a receipt
that confirms an effect is never contradicted by the result.  `ExecutorShape`
ties the place to the row and the result, `ReceiptHonest` and `OrphanUnposted`
say the same of the files and of the late requests, and `Budget` leaves room for
one more entry wherever one more is possible.

`PublishJobsProofs` has one lemma per action, each with one step per conjunct
the action can disturb, and `StepPreserves` puts them together. The theorems
`PostedAtMostOnce`, `UncheckedRepublishIsSafe`, `SuccessIsPosted`,
`AttemptsBoundEntries` and `TypesHold` follow; `LostProofsAreFlagged` is an action
property proved from the same invariant: a claimant at its final transaction has a
result that confirms the effect, or an unknown one after a timeout at which the
receipt could not be read, and the row is closed with the one or the other before
the receipt is removed (`KnowsPlatform`). `PipelineKeepsContract` maps every
action to a step of `PublishOnce` or a stutter.  `ArticlesFollow` needs nothing of
all that, only one fact more (`ArticleInvariant`): a row that does not exist has
no successor, so a row that comes into being is live; every transaction that
writes the status of a row brings its article up to date before it commits.

`MetricsTasksProofs` proves the ledger for any publications, windows, runners,
lease, timeout, margin, delays and lag, from `MetricsTasksAssumption`.
`LedgerInvariant` adds to the three properties that are invariants by themselves
what they rest on: a claimed row is due and so is its lease's end
(`ClaimedIsDue`), which is what keeps a deferral or a retry inside the window
when a stamp is old; a missing row was never worked on (`AbsentIsFresh`); a
release began no earlier than the window (`ReleasesDue`).  `PromptRunnerOwns` is
the reason why finished work is kept: the check in `_begin` leaves lease and
window beyond the collector's timeout plus the margin, and while a prompt runner
uses them up nobody else may claim, defer or reconcile the row
(`SecuredIsOwned`).  `LedgerKeepsEvidence` maps every action to a step of
`EvidenceOnce` or a stutter.

`AccountHealthProofs` needs only `AccountHealthAssumption`.  `SetbackHolds` is
not inductive: a probe settles what it was answered, and only because a setback
has left a trace that the probe will see (`SetbackIsSeen`) is the answer
discarded.  In the same way `StartIsSeen` says that whoever entered a publisher
since the snapshot has claimed after it, from which `VerdictsAreCurrent` follows.
`OnlyProbesRestore` shows that no other step makes an account runnable, and
`RecoveriesAreEarned` follows from the guard of `Settle`, which is the re-check
in the write transaction.

`AgentContractProofs` needs only `AgentContractAssumption`.  Its argument comes
in layers, each of which uses the ones before.  Types and rows first
(`RowsAndTypes`).  Then the ledger: an open transaction owns its key, so a plan
is the answer of one key (`PlansAnswerOneKey`).  Then what an open transaction
still knows when it commits: that of a plan which is no longer a draft there is
one request; that a decision which is still pending under its compare-and-swap
belongs to a plan still waiting for it.  This is why the unconditional write of
`plan.state` is harmless (`PlansFollowApprovals`) and why a scheduled plan is
never reset and scheduled again (`PlansFanOutOnce`).  From it and from the
check of independence, which was made on columns that never change, follows what
workers publish (`OnlyApprovedIsPublished`).  Last, what is counted: jobs need an
article in a schedulable status, and only a move gives that status back
(`ClaimsTakeTurns`); and a plan whose only approval has expired is not scheduled
by a call that begins later (`ExpiredNeverSchedules`).  `ContractKeepsGate`
maps every action to a step of `ApprovalGate` or a stutter.

`ExternalOperationsProofs` needs only `ExternalOperationsAssumption`: any number
of calls, any lease, any skew.  `OperationIsSound` is its inductive invariant.
Whether the lease is still held when a snapshot is stored is decided by the
database's clock in the same transaction, so at most one snapshot is stored and
none after an answer; what a call reports is then compared with it in the
transaction before the answer (`AnswersMatchEvidence`).  An answer is written once
and every return is a reading of it (`AnswersAgree`).

`PublisherRoutesProofs` holds for any platforms, plugins and number of attempts,
from `PublisherPluginsAssumption` (plugins of one platform have priorities of their
own) and `PluginsAreOthers` (no plugin carries a built-in name,
`publishers/plugin_sdk.py:152`).  `RouteInvariant` has three parts.

- `CleanInvariant` says that before its boundary a call has written nothing
  (`BoundaryHolds`), that a result kept while the browser closes is never a clean
  failure (`ClosesInDoubt`), that a call reported clean is untouched
  (`CleanIsUntouched`), and that every call but the last was reported clean
  (`OnlyCleanGoesOn`).  One lemma per kind of step (a place further, a write, a
  return, a closing browser) carries the proof; every action of every adapter is
  then of one of these kinds.  `CleanFailuresAreClean` and `RoutesWriteOnce` follow.
- `ReceiptInvariant` says of every result, and of one that is kept while the
  browser closes, that it claims no more of the write than what has become of it,
  and names no post but its own; and that who submits a draft has made one.
  `ReceiptsNameTheirPost` follows.
- `AccountInvariant` says that under an exact approval only the Zhihu CLI is on the
  route (`ExactRoute`), and that when it posts the profile is still that of the
  approved account, for nobody can log in while the account is leased
  (`IdentityChecked`).  `ApprovedAccountsWrite` follows.  `PluginsAreOthers` keeps a
  plugin, which compares no login, from posting under the CLI's name.

`OrderInvariant` is a layer of its own: the route of an attempt is what is left of
the platform's publishers in their order, and all in front of it were called in
this attempt (`RouteIsTheRest`), from which `NobodyIsPassedOver` follows.  That
such an order exists is `OrderedIsComplete`, without an induction: the place of a
publisher is one more than the number of those of a lower rank, and by counting
nobody is missing.

`GitPublishProofs` holds for any number of calls, paths, commits and steps of
outsiders, from `GitPublishAssumption`.  `GitInvariant` records what a call has
established at each of its places (`Earned`) in terms that others cannot undo:
the tip it audited has been a remote tip, the commit it inspected is a commit of
the approved change on that tip, the effect it saw has been on the branch.
`PushesAreApproved` rests on that and on the push being a fast-forward from the
audited tip: neither HEAD nor the index nor the files are trusted, all of which
may have been changed since.  `ResultsAreHonest` rests on `PushIsKnown`: while a
push may land, also one that nobody waits for, the result is not a failure
without doubt.  `RollbacksAreComplete` needs the most.  The rollback compares HEAD
once and removes files later, so HEAD must not become the call's commit again in
between: HEAD moves by commits of others and by resets to the remote tip only,
and a commit of the call that somebody else published is HEAD or behind it
(the last lines of `Earned`); calls cannot do it, as one holds the lock
(`LockHeld`), and none has taken another's commit for its own (`NotTaken`).
`NothingForeignIsTouched` is an action property that follows from the guards and
from the rollback's record of what lay there.

`AssetVaultProofs` holds for any number of imports, executions, contents, edits
and damages, from `AssetVaultAssumption`.  `VaultInvariant` follows a file from the
source to the publisher: a copy in the making is a prefix of what was opened as
long as the change stamp stands (`CopyIsPrefix`), so what is sealed is what was
opened (`SealedIsOpened`); an entry names the inode of the import that made it, on
which nobody writes any more and which was synced before (`EntriesAreSealed`); a
verified or recorded entry is there, and a recorded one on the disk in its own
directory, unless it was damaged, withdrawn by its maker, or lost with a directory
that nobody flushed (`HeldOrLost`); and a private copy always has a thread or
a task that knows of it (`CopyIsTracked`).  The five properties follow.

What the proofs showed about the models: in three places (`EndEntering` of
`AssetVault`, `BeginAttempt` and `Becomes` of `PublisherCalls`) two arms of a `CASE`
could hold at once.  TLC takes the first, and a proof cannot know which; they now
say which one the code takes.  No property changed.

Only model-checked is liveness (`RunningIsResolved`, `EveryTaskEnds`,
`BannedIsReexamined`, `BansEnd`): it needs fairness and `ENABLED`, which are outside
the prover's reach.  Every other property of a passing run has a theorem.

## 5. Mutations

Every property has a mutation of the code's definition that breaks it, named
`Bug...` next to its namesake: a fallback after an unknown outcome, an attempt
given back after every retryable failure, a republication that ignores the text of the
error, a final transaction that drops the partial effect, an aggregate computed
before the row was flushed, a mark that trusts a missing receipt, a
reconciliation that waits for a receipt; in the ledger, a claim of somebody
else's row, a retry past the deadline, an attempt begun with too little lease, a
snapshot stored after the window, and a reconciliation
that forgets the deadline; for the account, a DEAD row that degrades nothing, a
staleness test that does not look at started rows, a recovery that accepts any
runnable answer before its time, and a ban without a deadline that is never due; for the contract, a key that only committed calls own,
a request, a decision and a claim of the article without their compare-and-swap,
a creator who may decide, an approval whose expiry nobody looks at, and a worker
that publishes the article as it is now; for the idempotency key, an answer that
is not compared with the evidence and one written without the fence; for the
publishers, an exception after the click taken for one before it, an unknown
outcome treated as a failure, the editor's address taken for the article's, a
login that is not compared with the approval, and a plugin left out when it
cannot be constructed; in the repository, a read-back that takes a moved branch
for a failed push, a commit whose parent is not compared, files written over
others, and a rollback that does not look at HEAD; in the vault, a source whose
change stamp is not compared, an entry linked before its bytes are on the disk,
an undo that takes back a verified entry, a record returned before its directory
was flushed, bytes compared by their number only, and
a cancellation that does not wait for its thread.

## 6. Where the code departs from what it says

6.1. `swallowed_timeout`. `publishers/toutiao.py:406-407` says that once the last
button is pressed neither a fallback nor a retry may follow, even if Playwright
raises.  When the deadline of the job cancels the call after the click and
`browser.close()` in the `finally` (`:227`) raises, its exception takes the place
of the cancellation; the outer `except Exception` (`:229-234`) finds no result
and returns a clean failure that may be retried.  The worker then tries the next
publisher, or the row again.  `zhihu.py`, `baijiahao.py`, `sohuhao.py` and
`wechat_mp.py` close their browser in the same way.  `CleanMeansNothing` and
`AtMostOneWrite` are therefore stated for calls that swallowed no cancellation.

The others are steps of the models, with no run of their own:

- `remove_publish_receipt` cleans up "after the same receipt is durably in the
  database" (`runtime/receipts.py:240`), and a timeout reads the sidecar because a
  generic unknown result "would erase the only exact platform identity"
  (`scheduler/worker.py:485-488`).  A read that fails at that moment, for want of a
  file descriptor say, is taken for no receipt (`runtime/receipts.py:215-224`): the
  row is closed as unknown (`scheduler/worker.py:954-964`, `:1102-1112`) and the
  sidecar removed (`:1179-1181`).  `LostProofIsFlagged` names this case and says what
  is left in it: the row does say that the post may exist, and is not republished
  unseen, but the number and the address of the post are gone.
- The vault is "durable application data" (`docs/agent-contract.md:87`).  An import
  flushes the directory of its entry and the root (`agent_contract/assets.py:858-859`),
  so an entry in an old directory is safe, and so is `sha256` itself; `sha256/aa` and
  `sha256/aa/bb` may have been made by the same import (`:445`, `:485-489`), and the
  directories that name them are not flushed.  After a power failure an approved
  file may be gone; `RecordsAreKept` names this case (`swept`).  Common file systems
  flush the parents of a new directory with it; POSIX does not ask that of them, and
  neither does the code, which flushes the root by itself.
- The receipt of the first publisher's clean failure stands for the interrupted
  second publisher: the row says `outcome_uncertain=False` although the post may
  exist (`scheduler/worker.py:386-411`).  The text of the error still makes
  `republish_job` ask for a platform check, which is why `UncheckedFailureIsClean`
  holds.
- `republish_job` does not look at `superseded_by_job_id`: a failed row can be
  republished twice, and both replacements are live (`scheduler/worker.py:2094-2106`),
  the race that `:2040` rules out for rows in progress.
- `approve` writes READY over the SCHEDULED that an exact plan has committed since
  the DRAFT it read (`content/distributor.py:281-286`), and `distribute` creates a
  second set of jobs, the race that its compare-and-swap is meant to close
  (`:315-318`); `transition_status` does the same.  `ClaimsAlternate` says what
  is left: jobs are created again only after such a write.
- The binding of the approved account digests its whole profile
  (`agent_contract/bindings.py:45`), into which a pause writes its deadline, although
  "Health and rate-limit state are deliberately excluded" (`:36`).  Once the account
  is healthy again the worker refuses the approved job (`scheduler/worker.py:1742`).
  Nothing wrong is published; what was approved is not published either.
- A publication that was under way when its account was banned ends DEAD and
  turns BANNED into DEGRADED (`scheduler/worker.py:1681-1682`), and so does a
  milder verdict on the views; from there a probe that answers UNKNOWN makes the
  account runnable, while `accounts/health_monitor.py:9` asks for an explicit
  HEALTHY.  `RecoveryIsEarned` is therefore about accounts that still are BANNED.
- A ban that a probe found gets no deadline (`scheduler/health.py:271`), and that
  of an older pause stands for it, which may be past; "New bans persist
  `profile.paused_until`" (`accounts/health_monitor.py:200`).
- `execute_job` marks the row FAILED after *any* exception, also one of its own
  claim transaction, when the row may be RUNNING for somebody else
  (`scheduler/worker.py:602-619` against `:1004`).
- The final transaction reads the status and writes without a condition
  (`scheduler/worker.py:1001-1006`), so a terminal status set in between is
  overwritten. The proofs show that what is overwritten is always a doubtful
  failure, and that the late result is true.
- Pause and health are read with the claim and not again after the wait for the
  lease (`scheduler/worker.py:717-742`, `:834-888`).
- `update_account` writes back the profile it has read
  (`accounts/manager.py:95-122`) and erases a pause committed meanwhile.
- toutiao, baijiahao and sohuhao take the first card of the account's works for
  the post they made (`publishers/toutiao.py:69`); it may be an older one while
  the new one is still being examined.  `ReceiptsAreReal` leaves those three out.
- `wechat_mp_api` reports success once the publication is accepted, found or not
  (`publishers/wechat_mp_api.py:444-463`), and takes any answer without a
  `publish_id` for a refusal (`:421-431`); `ReceiptsAreReal` says what is left.
- An import that cannot read its entry back takes it away, and with it the entry
  of another import that has recorded it in between; `RecordsAreKept` names it,
  beside
  the lost directories.

## 7. What is left

Done are the pipeline with its contract, the ledger of windows, the agent
contract, the account, the keys of external operations, the publishers and the
asset vault, each with the properties of section 3 and a theorem for every one
that is not liveness.

Worth doing next, in this order:

1. The composition of `AccountHealth` with the gate of `PublishJobs`; quota,
   interval and nurture period of `check_rate_limit`.
2. Staging by the older routes, import and account selection in the article's
   lifecycle.
3. The batch limit of a metrics scan, whose starvation needs more rows than a
   batch.
4. Abstract specifications of a publication by push and of the vault, with
   `GitPublish` and `AssetVault` shown to implement them.

Not modelled, and why:

- *Login, health checks and collection of metrics of the adapters*, with the
  exception of the Zhihu CLI's login: they write nothing on the platform; their
  answers are arbitrary in `AccountHealth` and `MetricsTasks`. Page selectors,
  payloads, manifests and diagnostics change no state.
- *Timing and similarity algorithms*: pure functions whose results are arbitrary
  times and choices here.
- *Notifications*: the window of the deduplicator lives in one process and only
  suppresses messages.
- *In-process scheduler*: its callbacks only start `execute_job` earlier than the
  scan would, and an executor may start at any time.
- *Persistence schema and migration gate*: run once, before anything else.
- *HTTP API, authentication, schemas and clients*: thin handlers and wire formats
  over the operations modelled here.
- *Content generation, video, podcast, reports, job hunting, configuration, CLI,
  doctor, demo and observability*: sequential, or read-only, and they share no
  state with the core.
- File permissions and redaction; digests are the contents themselves.
