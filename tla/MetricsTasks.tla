----------------------------- MODULE MetricsTasks -----------------------------
(***************************************************************************)
(* The durable ledger of metrics collection: one row per publication and   *)
(* evidence window, runners that claim a row under a lease, count an       *)
(* attempt, call the external collector and commit its snapshot under a    *)
(* fence, and the scanner's repair and reconciliation of rows.             *)
(*                                                                         *)
(* A transaction is one step.  Fences compare leases with the database's   *)
(* clock; everything else uses a timestamp the process took earlier, while *)
(* it was on its way to the row.  The kernel lock of the account is left   *)
(* out: a runner may find it busy at any time, and nothing here relies on  *)
(* it to keep two runners apart.  A definition named Bug... is a           *)
(* deliberate fault that only the mutation runs use.                       *)
(***************************************************************************)
EXTENDS Integers

CONSTANTS
    Jobs,         \* publications, SUCCESS since time 0
    Tasks,        \* rows of metrics_collection_tasks: a publication and a window
    JobOf,        \* [Tasks -> Jobs]
    Due,          \* [Tasks -> Nat], due_at
    Deadline,     \* [Tasks -> Nat], collection_deadline_at
    Runners,      \* concurrent calls of run_metrics_collection_task
    MaxAttempts,
    Lease,        \* metrics_task_lease_seconds
    Timeout,      \* metrics_task_collection_timeout_seconds
    Margin,       \* EXTERNAL_OPERATION_FINALIZE_MARGIN_SECONDS
    RetryDelay,   \* _metrics_task_retry_delay_seconds, by attempts
    Lag,          \* a bound: how old a process's timestamp may be
    Stalls,       \* may a runner be suspended for longer than its timeouts?
    Horizon,      \* a bound: where the clock stops
    Nobody, Never

ASSUME MetricsTasksAssumption ==
    /\ JobOf \in [Tasks -> Jobs]
    /\ Due \in [Tasks -> Nat]
    /\ Deadline \in [Tasks -> Nat]
    /\ \A t \in Tasks : Due[t] < Deadline[t] /\ Deadline[t] <= Horizon
    /\ MaxAttempts \in Nat \ {0}
    /\ Timeout \in Nat \ {0} /\ Margin \in Nat \ {0}
    /\ Lease \in Nat /\ Lease > Timeout + Margin
    /\ RetryDelay \in [0..MaxAttempts -> Nat \ {0}]
    /\ Lag \in Nat
    /\ Stalls \in BOOLEAN
    /\ Horizon \in Nat
    /\ Nobody \notin Runners
    /\ Never \notin Nat

VARIABLES
    now,
    status,      \* of the row; "absent" when there is none
    attempts,
    nextAt,      \* next_attempt_at
    owner,       \* whose lease_token the row holds
    leaseEnd,    \* lease_expires_at
    snapshots,   \* collection times of the Metrics rows bound to the task
    run          \* the runners

row == <<status, attempts, nextAt, owner, leaseEnd, snapshots>>
vars == <<now, status, attempts, nextAt, owner, leaseEnd, snapshots, run>>

-----------------------------------------------------------------------------
Open == {"queued", "claimed"}
Status == {"absent", "succeeded", "failed"} \cup Open
Places == {"idle", "claimed", "collecting", "finalizing", "releasing"}
(* time: until when the collector or the commit may take, or since when the  *)
(* runner has been releasing its row.                                        *)
Runner == [at : Places, task : Tasks \cup {Nobody}, time : Nat, terminal : BOOLEAN]
Idle == [at |-> "idle", task |-> Nobody, time |-> 0, terminal |-> FALSE]

(* datetime.utcnow(), taken before the statement that uses it.               *)
Stamps == {seen \in 0..now : now - seen <= Lag}

Goes(r, t, place, time, terminal) ==
    run' = [run EXCEPT ![r] =
              [at |-> place, task |-> t, time |-> time, terminal |-> terminal]]
Stops(r) == run' = [run EXCEPT ![r] = Idle]

(* What every transition that gives up ownership writes.                     *)
Leave(t, s, at) ==
    /\ status' = [status EXCEPT ![t] = s]
    /\ nextAt' = [nextAt EXCEPT ![t] = at]
    /\ owner' = [owner EXCEPT ![t] = Nobody]
    /\ leaseEnd' = [leaseEnd EXCEPT ![t] = Never]

BugUnowned(t, seen) ==
    \/ status[t] = "queued" /\ nextAt[t] <= seen
    \/ status[t] = "claimed"

(* Nobody's turn: queued and due, or claimed under a lease that ran out.     *)
Unowned(t, seen) ==
    \/ status[t] = "queued" /\ nextAt[t] <= seen
    \/ status[t] = "claimed" /\ leaseEnd[t] <= seen

Claimable(t, seen) ==
    attempts[t] < MaxAttempts /\ Deadline[t] > seen /\ Unowned(t, seen)

(* The fence: the row is this runner's, under a lease that still runs.       *)
Owns(r, t) == status[t] = "claimed" /\ owner[t] = r /\ leaseEnd[t] > now

-----------------------------------------------------------------------------
(* The publication's SUCCESS and its three rows commit together, unless the  *)
(* savepoint around the rows was rolled back.                                *)
Init ==
    \E lost \in SUBSET Jobs :
        /\ now = 0
        /\ status = [t \in Tasks |-> IF JobOf[t] \in lost THEN "absent" ELSE "queued"]
        /\ attempts = [t \in Tasks |-> 0]
        /\ nextAt = [t \in Tasks |-> IF JobOf[t] \in lost THEN Never ELSE Due[t]]
        /\ owner = [t \in Tasks |-> Nobody]
        /\ leaseEnd = [t \in Tasks |-> Never]
        /\ snapshots = [t \in Tasks |-> {}]
        /\ run = [r \in Runners |-> Idle]

(* A runner that is not suspended meets its timeouts: asyncio.timeout around *)
(* the collector, and the margin granted to the commit after it.             *)
Tick ==
    /\ now < Horizon
    /\ Stalls \/ \A r \in Runners :
                    run[r].at \in {"collecting", "finalizing"} => now < run[r].time
    /\ now' = now + 1
    /\ UNCHANGED <<row, run>>

(* backfill_missing_metrics_collection_tasks: the missing rows of one        *)
(* publication; queued rows whose window is over fail at once.               *)
Backfill(j, seen) ==
    LET lost == {t \in Tasks : JobOf[t] = j /\ status[t] = "absent"}
        late == {t \in lost : Deadline[t] <= seen}
    IN
    /\ lost # {}
    /\ status' = [t \in Tasks |-> IF t \in late THEN "failed"
                                  ELSE IF t \in lost THEN "queued" ELSE status[t]]
    /\ nextAt' = [t \in Tasks |-> IF t \in lost \ late THEN Due[t] ELSE nextAt[t]]
    /\ UNCHANGED <<now, attempts, owner, leaseEnd, snapshots, run>>

-----------------------------------------------------------------------------
BugRetryAt(t, seen) == seen + RetryDelay[attempts[t]]

(* _defer_unclaimed_metrics_collection_task: the back-off, or halfway to the *)
(* deadline when the back-off would miss it.                                 *)
RetryAt(t, seen) ==
    LET wanted == seen + RetryDelay[attempts[t]] IN
    IF wanted < Deadline[t] THEN wanted ELSE seen + (Deadline[t] - seen) \div 2

(* The account's profile is busy or its lock unusable: no attempt is spent.  *)
Defer(t, seen) ==
    /\ Claimable(t, seen)
    /\ RetryAt(t, seen) > seen
    /\ Leave(t, "queued", RetryAt(t, seen))
    /\ UNCHANGED <<now, attempts, snapshots, run>>

Claim(r, t, seen) ==
    /\ run[r].at = "idle"
    /\ Claimable(t, seen)
    /\ status' = [status EXCEPT ![t] = "claimed"]
    /\ nextAt' = [nextAt EXCEPT ![t] = Never]
    /\ owner' = [owner EXCEPT ![t] = r]
    /\ leaseEnd' = [leaseEnd EXCEPT ![t] = seen + Lease]
    /\ Goes(r, t, "claimed", 0, FALSE)
    /\ UNCHANGED <<now, attempts, snapshots>>

BugBeginsInTime(t) == leaseEnd[t] > now /\ Deadline[t] > now

(* The lease and the window must outlast the longest collection.             *)
BeginsInTime(t) ==
    leaseEnd[t] > now + Timeout + Margin /\ Deadline[t] > now + Timeout + Margin

CanBegin(r, t) == Owns(r, t) /\ BeginsInTime(t) /\ attempts[t] < MaxAttempts

(* _begin_metrics_collection_attempt, immediately before the external call.  *)
Begin(r, t) ==
    /\ run[r].at = "claimed" /\ run[r].task = t
    /\ CanBegin(r, t)
    /\ attempts' = [attempts EXCEPT ![t] = @ + 1]
    /\ Goes(r, t, "collecting", now + Timeout, FALSE)
    /\ UNCHANGED <<now, status, nextAt, owner, leaseEnd, snapshots>>

(* No publisher that can collect (terminal), or no credential (not).         *)
SkipsCall(r, t, terminal) ==
    /\ run[r].at = "claimed" /\ run[r].task = t
    /\ Owns(r, t) /\ Deadline[t] > now
    /\ Goes(r, t, "releasing", now, terminal)
    /\ UNCHANGED <<now, row>>

CollectorAnswers(r, t) ==
    /\ run[r].at = "collecting" /\ run[r].task = t
    /\ Goes(r, t, "finalizing", now + Margin, FALSE)
    /\ UNCHANGED <<now, row>>

(* A timeout, an exception, a cancellation or a skip (to be retried), or an  *)
(* answer that breaks the contract (terminal).                               *)
CollectorFails(r, t, terminal) ==
    /\ run[r].at = "collecting" /\ run[r].task = t
    /\ Goes(r, t, "releasing", now, terminal)
    /\ UNCHANGED <<now, row>>

-----------------------------------------------------------------------------
BugFence(r, t) == Owns(r, t) /\ attempts[t] > 0

(* The update that precedes the snapshot in its transaction.                 *)
Fence(r, t) == Owns(r, t) /\ Deadline[t] > now /\ attempts[t] > 0

Finalize(r, t) ==
    /\ run[r].at = "finalizing" /\ run[r].task = t
    /\ Fence(r, t)
    /\ Leave(t, "succeeded", Never)
    /\ snapshots' = [snapshots EXCEPT ![t] = @ \cup {now}]
    /\ Stops(r)
    /\ UNCHANGED <<now, attempts>>

(* The health evaluation of the 24 h window, or the commit, raises: the      *)
(* snapshot is rolled back with it.                                          *)
FinalizeAborts(r, t) ==
    /\ run[r].at = "finalizing" /\ run[r].task = t
    /\ Goes(r, t, "releasing", now, FALSE)
    /\ UNCHANGED <<now, row>>

(* _retry_or_fail_metrics_collection_task decides that the row is lost.      *)
GivesUp(t, terminal, seen) ==
    \/ terminal
    \/ attempts[t] >= MaxAttempts
    \/ seen + RetryDelay[attempts[t]] >= Deadline[t]

Release(r, t, seen) ==
    /\ run[r].at = "releasing" /\ run[r].task = t
    /\ run[r].time <= seen
    /\ Owns(r, t)
    /\ IF GivesUp(t, run[r].terminal, seen) THEN Leave(t, "failed", Never)
       ELSE Leave(t, "queued", seen + RetryDelay[attempts[t]])
    /\ Stops(r)
    /\ UNCHANGED <<now, attempts, snapshots>>

(* What the conditional UPDATE of each place asks for.                       *)
FindsRow(r, t) ==
    CASE run[r].at = "claimed"    -> CanBegin(r, t)
      [] run[r].at = "finalizing" -> Fence(r, t)
      [] OTHER                    -> Owns(r, t)

(* A runner whose UPDATE hits no row stops: a stale owner is inert.          *)
MissesRow(r, t) ==
    /\ run[r].at \in {"claimed", "finalizing", "releasing"} /\ run[r].task = t
    /\ ~FindsRow(r, t)
    /\ Stops(r)
    /\ UNCHANGED <<now, row>>

(* The process dies, or its last statement fails: the lease is what is left. *)
Crash(r) ==
    /\ run[r].at # "idle"
    /\ Stops(r)
    /\ UNCHANGED <<now, row>>

BugOverdue(t, seen) ==
    status[t] \in Open /\ attempts[t] >= MaxAttempts /\ Unowned(t, seen)

(* reconcile_exhausted_metrics_collection_tasks.                             *)
Overdue(t, seen) ==
    /\ status[t] \in Open
    /\ Deadline[t] <= seen \/ (attempts[t] >= MaxAttempts /\ Unowned(t, seen))

Reconcile(t, seen) ==
    /\ Overdue(t, seen)
    /\ Leave(t, "failed", Never)
    /\ UNCHANGED <<now, attempts, snapshots, run>>

-----------------------------------------------------------------------------
Proceed(r, t) ==
    \/ Begin(r, t) \/ CollectorAnswers(r, t)
    \/ \E terminal \in BOOLEAN : SkipsCall(r, t, terminal) \/ CollectorFails(r, t, terminal)
    \/ Finalize(r, t) \/ FinalizeAborts(r, t)
    \/ MissesRow(r, t)
    \/ \E seen \in Stamps : Release(r, t, seen)

Next ==
    \/ Tick
    \/ \E j \in Jobs, seen \in Stamps : Backfill(j, seen)
    \/ \E t \in Tasks, seen \in Stamps : Reconcile(t, seen) \/ Defer(t, seen)
    \/ \E r \in Runners, t \in Tasks, seen \in Stamps : Claim(r, t, seen)
    \/ \E r \in Runners, t \in Tasks : Proceed(r, t)
    \/ \E r \in Runners : Crash(r)

Spec == Init /\ [][Next]_vars

(* Time passes, a live runner proceeds, and every scan of the worker loop    *)
(* repairs and reconciles before it runs anything.                           *)
Fairness ==
    /\ WF_vars(Tick)
    /\ \A r \in Runners : WF_vars(\E t \in Tasks : Proceed(r, t))
    /\ \A j \in Jobs : WF_vars(Backfill(j, now))
    /\ \A t \in Tasks : WF_vars(Reconcile(t, now))

FairSpec == Spec /\ Fairness

-----------------------------------------------------------------------------
(* Every variable keeps its type.                                            *)
TypeOK ==
    /\ now \in Nat
    /\ status \in [Tasks -> Status]
    /\ attempts \in [Tasks -> 0..MaxAttempts]
    /\ nextAt \in [Tasks -> Nat \cup {Never}]
    /\ owner \in [Tasks -> Runners \cup {Nobody}]
    /\ leaseEnd \in [Tasks -> Nat \cup {Never}]
    /\ snapshots \in [Tasks -> SUBSET Nat]
    /\ run \in [Runners -> Runner]

(* No statement is refused by ck_metrics_collection_tasks_lifecycle: whatever *)
(* races with whatever, a row's columns agree with its status, a queued row  *)
(* has an attempt left and a time for it inside its window.                  *)
RowIsConsistent ==
    \A t \in Tasks :
        /\ status[t] = "queued" =>
              /\ nextAt[t] \in Nat /\ Due[t] <= nextAt[t] /\ nextAt[t] < Deadline[t]
              /\ attempts[t] < MaxAttempts
        /\ status[t] # "queued" => nextAt[t] = Never
        /\ status[t] = "claimed" => owner[t] \in Runners /\ leaseEnd[t] \in Nat
        /\ status[t] # "claimed" => owner[t] = Nobody /\ leaseEnd[t] = Never
        /\ status[t] = "succeeded" => attempts[t] > 0

(* A snapshot is taken at most once per window, inside it, and exactly for   *)
(* the rows that succeeded.                                                  *)
EvidenceMatchesStatus ==
    \A t \in Tasks :
        /\ status[t] = "succeeded" =>
              \E taken \in Due[t]..(Deadline[t] - 1) : snapshots[t] = {taken}
        /\ status[t] # "succeeded" => snapshots[t] = {}

(* A runner that meets its timeouts is never fenced out: the lease and the   *)
(* window it began under outlast its collection.                             *)
FinishedWorkIsKept ==
    ~Stalls => \A r \in Runners :
                  run[r].at = "finalizing" => Fence(r, run[r].task)

(* The lease alone keeps two calls of a collector for one row apart.         *)
OneCollectorAtATime ==
    ~Stalls => \A r, s \in Runners :
                  /\ run[r].at = "collecting" /\ run[s].at = "collecting"
                  /\ run[r].task = run[s].task
                  => r = s

(* Every window ends with evidence or an explicit failure.                   *)
EveryTaskEnds ==
    \A t \in Tasks : status[t] \in {"absent"} \cup Open ~> status[t] \in {"succeeded", "failed"}

-----------------------------------------------------------------------------
Ended == {"succeeded", "failed"}
Outcome == [t \in Tasks |-> IF status[t] \in Ended THEN status[t] ELSE "open"]

Evidence == INSTANCE EvidenceOnce WITH outcome <- Outcome

(* The ledger implements the abstract window of EvidenceOnce.                *)
KeepsEvidence == Evidence!Spec
=============================================================================
