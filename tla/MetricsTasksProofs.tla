-------------------------- MODULE MetricsTasksProofs --------------------------
(***************************************************************************)
(* Proofs about the metrics ledger, for any publications, windows, runners *)
(* and clock lag: rows stay consistent, evidence is taken once and in its  *)
(* window, and a runner that meets its timeouts keeps its row.             *)
(***************************************************************************)
EXTENDS MetricsTasks, TLAPS

(* A claimed row is due, and its lease ends after it became so.              *)
ClaimedIsDue ==
    \A t \in Tasks : status[t] = "claimed" => Due[t] <= now /\ Due[t] <= leaseEnd[t]

(* A busy runner has a task.                                                 *)
RunnerShape == \A r \in Runners : run[r].at # "idle" => run[r].task \in Tasks

(* A row that its owner is releasing was due when the release began.         *)
ReleasesDue ==
    \A r \in Runners, t \in Tasks :
        run[r].at = "releasing" /\ run[r].task = t /\ owner[t] = r => Due[t] <= run[r].time

(* What the check of the remaining lease and window buys a prompt runner:    *)
(* the row is its own until after the time it has left.                      *)
Secured(r, t, slack) ==
    /\ status[t] = "claimed" /\ owner[t] = r /\ attempts[t] > 0
    /\ now <= run[r].time
    /\ leaseEnd[t] > run[r].time + slack
    /\ Deadline[t] > run[r].time + slack

PromptRunnerOwns ==
    ~Stalls => \A r \in Runners, t \in Tasks :
        run[r].task = t =>
            /\ run[r].at = "collecting" => Secured(r, t, Margin)
            /\ run[r].at = "finalizing" => Secured(r, t, 0)

(* A row that is missing was never worked on.                                *)
AbsentIsFresh == \A t \in Tasks : status[t] = "absent" => attempts[t] = 0

LedgerInvariant ==
    /\ TypeOK /\ RowIsConsistent /\ EvidenceMatchesStatus
    /\ ClaimedIsDue /\ AbsentIsFresh /\ RunnerShape /\ ReleasesDue /\ PromptRunnerOwns

USE MetricsTasksAssumption

(* A timestamp of a process is a time that has come.                         *)
LEMMA StampsArePast == ASSUME now \in Nat, NEW seen \in Stamps PROVE seen \in Nat /\ seen <= now
  BY DEF Stamps

(* The ledger starts consistent.                                             *)
LEMMA InitLedger == Init => LedgerInvariant
  BY SMTT(60) DEF Init, LedgerInvariant, TypeOK, RowIsConsistent, EvidenceMatchesStatus,
     ClaimedIsDue, AbsentIsFresh, RunnerShape, ReleasesDue, PromptRunnerOwns, Status, Open, Runner, Idle, Places

-----------------------------------------------------------------------------
(* Evidence is only about the rows that succeeded.                           *)
LEMMA EvidenceStays ==
    ASSUME EvidenceMatchesStatus, snapshots' = snapshots,
           \A t \in Tasks : status'[t] = "succeeded" <=> status[t] = "succeeded"
    PROVE  EvidenceMatchesStatus'
  BY DEF EvidenceMatchesStatus

(* A runner that moves within its rights changes nothing about the rows.     *)
LEMMA MoveLedger ==
    ASSUME LedgerInvariant, NEW r \in Runners, NEW x \in Runner,
           run' = [run EXCEPT ![r] = x], UNCHANGED <<now, row>>,
           \/ x.at = "idle"
           \/ /\ run[r].at # "idle" /\ x.task = run[r].task
              /\ x.at = "releasing" /\ x.time = now
           \/ /\ run[r].at = "collecting" /\ x.task = run[r].task
              /\ x.at = "finalizing" /\ x.time = now + Margin
    PROVE  LedgerInvariant'
  <1> USE DEF LedgerInvariant, row
  <1>1. TypeOK'
    BY DEF TypeOK
  <1>2. RowIsConsistent' /\ EvidenceMatchesStatus' /\ ClaimedIsDue' /\ AbsentIsFresh'
    BY DEF RowIsConsistent, EvidenceMatchesStatus, ClaimedIsDue, AbsentIsFresh
  <1>3. RunnerShape'
    BY DEF RunnerShape, TypeOK
  <1>4. ReleasesDue'
    BY ZenonT(60) DEF ReleasesDue, ClaimedIsDue, RowIsConsistent, TypeOK
  <1>5. PromptRunnerOwns'
    <2> SUFFICES ASSUME ~Stalls, NEW q \in Runners, NEW u \in Tasks, run'[q].task = u
                 PROVE  /\ run'[q].at = "collecting" => Secured(q, u, Margin)'
                        /\ run'[q].at = "finalizing" => Secured(q, u, 0)'
      BY DEF PromptRunnerOwns
    <2>1. UNCHANGED <<now, status, attempts, owner, leaseEnd>>
      OBVIOUS
    <2>2. CASE q # r
      <3>1. run'[q] = run[q]
        BY <2>2 DEF TypeOK
      <3>2. /\ run[q].at = "collecting" => Secured(q, u, Margin)
            /\ run[q].at = "finalizing" => Secured(q, u, 0)
        BY <3>1 DEF PromptRunnerOwns
      <3> HIDE DEF LedgerInvariant
      <3> QED BY <2>1, <3>1, <3>2 DEF Secured
    <2>3. CASE q = r
      <3>1. run'[q] = x
        BY <2>3 DEF TypeOK
      <3>2. run[q] \in Runner /\ now \in Nat /\ leaseEnd[u] \in Nat \cup {Never}
        BY DEF TypeOK
      <3>3. CASE x.at = "finalizing"
        <4>1. Secured(q, u, Margin) /\ x.time = now + Margin /\ leaseEnd[u] \in Nat
          BY <2>3, <3>1, <3>3, SMTT(60) DEF PromptRunnerOwns, RowIsConsistent, Secured
        <4>2. /\ now \in Nat /\ run[q].time \in Nat
              /\ leaseEnd[u] \in Nat /\ Deadline[u] \in Nat
          BY <3>2, <4>1 DEF Runner
        <4> HIDE DEF LedgerInvariant
        <4>3. /\ status[u] = "claimed" /\ owner[u] = q /\ attempts[u] > 0
              /\ now <= now + Margin
              /\ leaseEnd[u] > now + Margin + 0 /\ Deadline[u] > now + Margin + 0
          <5> DEFINE until == run[q].time
          <5>1. /\ status[u] = "claimed" /\ owner[u] = q /\ attempts[u] > 0
                /\ now <= until /\ leaseEnd[u] > until + Margin /\ Deadline[u] > until + Margin
            BY <4>1 DEF Secured
          <5>2. until \in Nat /\ Margin \in Nat
            BY <4>2
          <5> HIDE DEF until
          <5> HIDE MetricsTasksAssumption
          <5> QED BY <4>2, <5>1, <5>2
        <4>4. run'[q].time = now + Margin
          BY <3>1, <4>1
        <4> QED BY <2>1, <3>1, <3>3, <4>3, <4>4 DEF Secured
      <3> QED BY <3>1, <3>3
    <2> QED BY <2>2, <2>3
  <1> QED BY <1>1, <1>2, <1>3, <1>4, <1>5

(* Giving up the ownership of an open row that no prompt runner works on.    *)
LEMMA LeaveLedger ==
    ASSUME LedgerInvariant, NEW t \in Tasks, status[t] \in Open,
           NEW s \in {"queued", "failed"}, NEW at, Leave(t, s, at),
           s = "failed" => at = Never,
           s = "queued" => /\ at \in Nat /\ Due[t] <= at /\ at < Deadline[t]
                           /\ attempts[t] < MaxAttempts,
           UNCHANGED <<now, attempts, snapshots>>,
           (run' = run) \/ \E r \in Runners : Stops(r),
           ~Stalls => \A q \in Runners :
               run'[q].at \in {"collecting", "finalizing"} => run[q].task # t
    PROVE  LedgerInvariant'
  <1> USE DEF LedgerInvariant
  <1>1. run' \in [Runners -> Runner]
    <2>1. Idle \in Runner
      BY DEF Idle, Runner, Places
    <2>2. run \in [Runners -> Runner]
      BY DEF TypeOK
    <2> QED BY <2>1, <2>2 DEF Stops
  <1>2. TypeOK'
    BY <1>1 DEF TypeOK, Leave, Status, Open
  <1>3. RowIsConsistent'
    BY DEF RowIsConsistent, TypeOK, Leave
  <1>4. EvidenceMatchesStatus'
    BY EvidenceStays DEF TypeOK, Leave, Open
  <1>5. ClaimedIsDue'
    BY DEF ClaimedIsDue, TypeOK, Leave
  <1>6. \A q \in Runners : run'[q] = run[q] \/ run'[q].at = "idle"
    BY DEF TypeOK, Stops, Idle
  <1>7. RunnerShape' /\ AbsentIsFresh'
    BY <1>6 DEF RunnerShape, AbsentIsFresh, Leave, TypeOK
  <1>8. ReleasesDue'
    <2> SUFFICES ASSUME NEW q \in Runners, NEW u \in Tasks,
                        run'[q].at = "releasing", run'[q].task = u, owner'[u] = q
                 PROVE  Due[u] <= run'[q].time
      BY DEF ReleasesDue
    <2>1. u # t /\ owner[u] = q /\ run'[q] = run[q]
      BY <1>6 DEF TypeOK, Leave
    <2> QED BY <2>1 DEF ReleasesDue
  <1>9. PromptRunnerOwns'
    <2> SUFFICES ASSUME ~Stalls, NEW q \in Runners, NEW u \in Tasks, run'[q].task = u
                 PROVE  /\ run'[q].at = "collecting" => Secured(q, u, Margin)'
                        /\ run'[q].at = "finalizing" => Secured(q, u, 0)'
      BY DEF PromptRunnerOwns
    <2>1. CASE run'[q].at = "idle"
      BY <2>1
    <2>2. CASE run'[q] = run[q]
      <3>1. run[q].at \in {"collecting", "finalizing"} => u # t
        BY <2>2
      <3> QED BY <2>2, <3>1 DEF PromptRunnerOwns, Secured, TypeOK, Leave
    <2> QED BY <1>6, <2>1, <2>2
  <1> QED BY <1>2, <1>3, <1>4, <1>5, <1>7, <1>8, <1>9

(* A prompt runner's row is neither unowned nor out of time.                 *)
LEMMA SecuredIsOwned ==
    ASSUME LedgerInvariant, ~Stalls, NEW q \in Runners, NEW seen \in Stamps,
           run[q].at \in {"collecting", "finalizing"}
    PROVE  LET t == run[q].task IN
           /\ t \in Tasks /\ owner[t] = q
           /\ ~Unowned(t, seen) /\ Deadline[t] > seen
  <1> DEFINE u == run[q].task
  <1>1. u \in Tasks
    BY DEF LedgerInvariant, RunnerShape
  <1>2. Secured(q, u, Margin) \/ Secured(q, u, 0)
    BY <1>1 DEF LedgerInvariant, PromptRunnerOwns
  <1>3. /\ leaseEnd[u] \in Nat /\ Deadline[u] \in Nat /\ run[q].time \in Nat
        /\ now \in Nat /\ seen \in Nat /\ seen <= now
    BY <1>1, <1>2, StampsArePast
       DEF LedgerInvariant, TypeOK, Runner, Secured, RowIsConsistent
  <1> HIDE DEF u
  <1>4. status[u] = "claimed" /\ owner[u] = q /\ leaseEnd[u] > seen /\ Deadline[u] > seen
    <2> DEFINE until == run[q].time
    <2>1. /\ status[u] = "claimed" /\ owner[u] = q /\ now <= until
          /\ \/ leaseEnd[u] > until + Margin /\ Deadline[u] > until + Margin
             \/ leaseEnd[u] > until + 0 /\ Deadline[u] > until + 0
      BY <1>2 DEF Secured
    <2>2. until \in Nat
      BY <1>3
    <2> HIDE DEF until
    <2> QED BY <1>3, <2>1, <2>2
  <1>5. ~Unowned(u, seen)
    BY <1>3, <1>4 DEF Unowned
  <1> QED BY <1>1, <1>3, <1>4, <1>5 DEF u

-----------------------------------------------------------------------------
(* Time passes; a prompt runner's waits end in time.                         *)
LEMMA TickLedger == ASSUME LedgerInvariant, Tick PROVE LedgerInvariant'
  <1> USE DEF LedgerInvariant, Tick, row
  <1>1. TypeOK' /\ RowIsConsistent' /\ RunnerShape' /\ ReleasesDue'
    BY DEF TypeOK, RowIsConsistent, RunnerShape, ReleasesDue
  <1>2. EvidenceMatchesStatus' /\ ClaimedIsDue' /\ AbsentIsFresh'
    BY DEF EvidenceMatchesStatus, ClaimedIsDue, AbsentIsFresh, TypeOK
  <1>3. PromptRunnerOwns'
    <2> SUFFICES ASSUME ~Stalls, NEW q \in Runners, NEW u \in Tasks, run'[q].task = u
                 PROVE  /\ run'[q].at = "collecting" => Secured(q, u, Margin)'
                        /\ run'[q].at = "finalizing" => Secured(q, u, 0)'
      BY DEF PromptRunnerOwns
    <2>1. /\ run[q].at = "collecting" => Secured(q, u, Margin)
          /\ run[q].at = "finalizing" => Secured(q, u, 0)
      BY DEF PromptRunnerOwns
    <2>2. run[q].at \in {"collecting", "finalizing"} => now' <= run[q].time
      BY DEF TypeOK, Runner
    <2>3. UNCHANGED <<status, attempts, owner, leaseEnd, run>>
      OBVIOUS
    <2> HIDE DEF LedgerInvariant, Tick
    <2> QED BY <2>1, <2>2, <2>3 DEF Secured
  <1> QED BY <1>1, <1>2, <1>3

(* A publication's missing rows are created, or fail at once.                *)
LEMMA BackfillLedger ==
    ASSUME LedgerInvariant, NEW j \in Jobs, NEW seen \in Stamps, Backfill(j, seen)
    PROVE  LedgerInvariant'
  <1> DEFINE lost == {t \in Tasks : JobOf[t] = j /\ status[t] = "absent"}
             late == {t \in lost : Deadline[t] <= seen}
  <1> USE DEF LedgerInvariant
  <1>1. /\ status' = [t \in Tasks |-> IF t \in late THEN "failed"
                                      ELSE IF t \in lost THEN "queued" ELSE status[t]]
        /\ nextAt' = [t \in Tasks |-> IF t \in lost \ late THEN Due[t] ELSE nextAt[t]]
        /\ UNCHANGED <<now, attempts, owner, leaseEnd, snapshots, run>>
    BY DEF Backfill
  <1>2. \A t \in lost : status[t] = "absent"
    OBVIOUS
  <1> HIDE DEF lost
  <1>3. TypeOK'
    BY <1>1 DEF TypeOK, Status, Open
  <1>4. RowIsConsistent'
    <2>1. \A u \in late : u \in lost /\ Deadline[u] <= seen
      OBVIOUS
    <2>2. \A u \in lost \ late : seen < Deadline[u]
      <3>1. seen \in Nat /\ \A u \in Tasks : Deadline[u] \in Nat
        BY StampsArePast DEF TypeOK
      <3>2. \A u \in lost : u \in Tasks
        BY DEF lost
      <3> QED BY <3>1, <3>2
    <2> HIDE DEF late
    <2> SUFFICES ASSUME NEW u \in Tasks
                 PROVE  /\ status'[u] = "queued" =>
                              /\ nextAt'[u] \in Nat /\ Due[u] <= nextAt'[u]
                              /\ nextAt'[u] < Deadline[u] /\ attempts'[u] < MaxAttempts
                        /\ status'[u] # "queued" => nextAt'[u] = Never
                        /\ status'[u] = "claimed" =>
                              owner'[u] \in Runners /\ leaseEnd'[u] \in Nat
                        /\ status'[u] # "claimed" =>
                              owner'[u] = Nobody /\ leaseEnd'[u] = Never
                        /\ status'[u] = "succeeded" => attempts'[u] > 0
      BY DEF RowIsConsistent
    <2>3. CASE u \in late
      <3>1. status[u] = "absent" /\ status'[u] = "failed" /\ nextAt'[u] = nextAt[u]
        BY <1>1, <1>2, <2>1, <2>3
      <3> QED BY <1>1, <3>1 DEF RowIsConsistent
    <2>4. CASE u \in lost \ late
      <3>1. /\ status[u] = "absent" /\ status'[u] = "queued"
            /\ nextAt'[u] = Due[u] /\ attempts'[u] = 0
        BY <1>1, <1>2, <2>4 DEF AbsentIsFresh
      <3> QED BY <1>1, <3>1 DEF RowIsConsistent
    <2>5. CASE u \notin lost
      <3>1. status'[u] = status[u] /\ nextAt'[u] = nextAt[u]
        BY <1>1, <2>1, <2>5
      <3> QED BY <1>1, <3>1 DEF RowIsConsistent
    <2> QED BY <2>3, <2>4, <2>5
  <1>5. EvidenceMatchesStatus'
    BY <1>1, <1>2, EvidenceStays DEF TypeOK
  <1>6. ClaimedIsDue' /\ AbsentIsFresh' /\ RunnerShape' /\ ReleasesDue'
    BY <1>1, <1>2 DEF ClaimedIsDue, AbsentIsFresh, RunnerShape, ReleasesDue, TypeOK
  <1>7. PromptRunnerOwns'
    <2> SUFFICES ASSUME ~Stalls, NEW q \in Runners, NEW u \in Tasks, run'[q].task = u
                 PROVE  /\ run'[q].at = "collecting" => Secured(q, u, Margin)'
                        /\ run'[q].at = "finalizing" => Secured(q, u, 0)'
      BY DEF PromptRunnerOwns
    <2>1. /\ run[q].at = "collecting" => Secured(q, u, Margin)
          /\ run[q].at = "finalizing" => Secured(q, u, 0)
      BY <1>1 DEF PromptRunnerOwns
    <2>2. status[u] = "claimed" => status'[u] = "claimed"
      BY <1>1, <1>2
    <2> HIDE DEF LedgerInvariant
    <2> QED BY <1>1, <2>1, <2>2 DEF Secured
  <1> QED BY <1>3, <1>4, <1>5, <1>6, <1>7

-----------------------------------------------------------------------------
(* A deferred row is due again inside its window.                            *)
LEMMA DeferredInWindow ==
    ASSUME TypeOK, NEW t \in Tasks, NEW seen \in Stamps, Deadline[t] > seen
    PROVE  RetryAt(t, seen) \in Nat /\ seen <= RetryAt(t, seen) /\ RetryAt(t, seen) < Deadline[t]
  BY StampsArePast, SMTT(60) DEF TypeOK, RetryAt

(* An unclaimed row that an account keeps busy is put back for later.        *)
LEMMA DeferLedger ==
    ASSUME LedgerInvariant, NEW t \in Tasks, NEW seen \in Stamps, Defer(t, seen)
    PROVE  LedgerInvariant'
  <1> DEFINE at == RetryAt(t, seen)
  <1>1. /\ Claimable(t, seen) /\ Leave(t, "queued", at)
        /\ UNCHANGED <<now, attempts, snapshots, run>>
    BY DEF Defer
  <1>2. at \in Nat /\ seen <= at /\ at < Deadline[t] /\ seen \in Nat /\ seen <= now
    BY <1>1, DeferredInWindow, StampsArePast DEF Claimable, LedgerInvariant, TypeOK
  <1> HIDE DEF at
  <1>3. status[t] \in Open /\ attempts[t] < MaxAttempts /\ Unowned(t, seen)
    BY <1>1 DEF Claimable, Unowned, Open
  <1>4. Due[t] <= seen
    BY <1>2, <1>3 DEF LedgerInvariant, RowIsConsistent, ClaimedIsDue, Unowned, TypeOK
  <1>5. Due[t] <= at
    BY <1>2, <1>4
  <1>6. ASSUME ~Stalls, NEW q \in Runners, run[q].at \in {"collecting", "finalizing"}
        PROVE  run[q].task # t
    BY <1>3, <1>6, SecuredIsOwned
  <1> QED BY <1>1, <1>2, <1>3, <1>5, <1>6, LeaveLedger

(* The scanner fails a row that is out of time, or out of attempts.          *)
LEMMA ReconcileLedger ==
    ASSUME LedgerInvariant, NEW t \in Tasks, NEW seen \in Stamps, Reconcile(t, seen)
    PROVE  LedgerInvariant'
  <1>1. /\ status[t] \in Open /\ Leave(t, "failed", Never)
        /\ UNCHANGED <<now, attempts, snapshots, run>>
        /\ Deadline[t] <= seen \/ Unowned(t, seen)
    BY DEF Reconcile, Overdue
  <1>2. seen \in Nat /\ Deadline[t] \in Nat
    BY StampsArePast DEF LedgerInvariant, TypeOK
  <1>3. ASSUME ~Stalls, NEW q \in Runners, run[q].at \in {"collecting", "finalizing"}
        PROVE  run[q].task # t
    BY <1>1, <1>2, <1>3, SecuredIsOwned
  <1> QED BY <1>1, <1>3, LeaveLedger

(* A runner puts its row back, or gives it up.                               *)
LEMMA ReleaseLedger ==
    ASSUME LedgerInvariant, NEW r \in Runners, NEW t \in Tasks, NEW seen \in Stamps,
           Release(r, t, seen)
    PROVE  LedgerInvariant'
  <1>1. /\ run[r].at = "releasing" /\ run[r].task = t /\ run[r].time <= seen
        /\ Owns(r, t) /\ Stops(r)
        /\ UNCHANGED <<now, attempts, snapshots>>
    BY DEF Release
  <1>2. /\ seen \in Nat /\ Due[t] \in Nat /\ Deadline[t] \in Nat /\ run[r].time \in Nat
        /\ attempts[t] \in 0..MaxAttempts /\ RetryDelay[attempts[t]] \in Nat
    BY StampsArePast DEF LedgerInvariant, TypeOK, Runner
  <1>3. status[t] \in Open /\ owner[t] = r
    BY <1>1 DEF Owns, Open
  <1>4. ASSUME ~Stalls, NEW q \in Runners, run'[q].at \in {"collecting", "finalizing"}
        PROVE  run[q].task # t
    <2>1. q # r /\ run'[q] = run[q]
      BY <1>1, <1>4 DEF LedgerInvariant, TypeOK, Stops, Idle
    <2> QED BY <1>3, <1>4, <2>1, SecuredIsOwned, StampsArePast DEF LedgerInvariant
  <1>5. CASE GivesUp(t, run[r].terminal, seen)
    <2>1. Leave(t, "failed", Never)
      BY <1>5 DEF Release
    <2> QED BY <1>1, <1>3, <1>4, <2>1, LeaveLedger
  <1>6. CASE ~GivesUp(t, run[r].terminal, seen)
    <2> DEFINE at == seen + RetryDelay[attempts[t]]
    <2>1. Leave(t, "queued", at)
      BY <1>6 DEF Release
    <2>2. Due[t] <= run[r].time
      BY <1>1, <1>3 DEF LedgerInvariant, ReleasesDue
    <2>3. /\ at \in Nat /\ Due[t] <= at /\ at < Deadline[t] /\ attempts[t] < MaxAttempts
      BY <1>1, <1>2, <1>6, <2>2 DEF GivesUp
    <2> HIDE DEF at
    <2> QED BY <1>1, <1>3, <1>4, <2>1, <2>3, LeaveLedger
  <1> QED BY <1>5, <1>6

(* A claim takes a row that no prompt runner works on.                       *)
LEMMA ClaimLedger ==
    ASSUME LedgerInvariant, NEW r \in Runners, NEW t \in Tasks, NEW seen \in Stamps,
           Claim(r, t, seen)
    PROVE  LedgerInvariant'
  <1> USE DEF LedgerInvariant
  <1> DEFINE x == [at |-> "claimed", task |-> t, time |-> 0, terminal |-> FALSE]
  <1>1. /\ run[r].at = "idle" /\ attempts[t] < MaxAttempts /\ Unowned(t, seen)
        /\ status' = [status EXCEPT ![t] = "claimed"]
        /\ nextAt' = [nextAt EXCEPT ![t] = Never]
        /\ owner' = [owner EXCEPT ![t] = r]
        /\ leaseEnd' = [leaseEnd EXCEPT ![t] = seen + Lease]
        /\ run' = [run EXCEPT ![r] = x]
        /\ UNCHANGED <<now, attempts, snapshots>>
    BY DEF Claim, Claimable, Goes
  <1>2. x \in Runner /\ x.at = "claimed" /\ x.task = t
    BY DEF Runner, Places
  <1>3. seen \in Nat /\ seen <= now /\ seen + Lease \in Nat
    BY StampsArePast DEF TypeOK
  <1>4. Due[t] <= seen /\ status[t] \in Open
    BY <1>1, <1>3 DEF RowIsConsistent, ClaimedIsDue, Unowned, TypeOK, Open
  <1> HIDE DEF x
  <1>5. TypeOK'
    BY <1>1, <1>2, <1>3 DEF TypeOK, Status, Open
  <1>6. RowIsConsistent'
    BY <1>1, <1>3 DEF RowIsConsistent, TypeOK
  <1>7. EvidenceMatchesStatus' /\ AbsentIsFresh'
    BY <1>1, <1>4, EvidenceStays DEF TypeOK, Open, AbsentIsFresh
  <1>8. ClaimedIsDue'
    BY <1>1, <1>3, <1>4 DEF ClaimedIsDue, TypeOK
  <1>9. \A q \in Runners : run'[q] = IF q = r THEN x ELSE run[q]
    BY <1>1 DEF TypeOK
  <1>10. RunnerShape'
    BY <1>2, <1>9 DEF RunnerShape
  <1>11. ReleasesDue'
    BY <1>1, <1>2, <1>9 DEF ReleasesDue, TypeOK
  <1>12. PromptRunnerOwns'
    <2> SUFFICES ASSUME ~Stalls, NEW q \in Runners, NEW u \in Tasks, run'[q].task = u,
                        run'[q].at \in {"collecting", "finalizing"}
                 PROVE  /\ run'[q].at = "collecting" => Secured(q, u, Margin)'
                        /\ run'[q].at = "finalizing" => Secured(q, u, 0)'
      BY DEF PromptRunnerOwns
    <2>1. run'[q] = run[q]
      BY <1>2, <1>9
    <2>2. /\ run[q].at = "collecting" => Secured(q, u, Margin)
          /\ run[q].at = "finalizing" => Secured(q, u, 0)
      BY <2>1 DEF PromptRunnerOwns
    <2>3. u # t
      BY <1>1, <2>1, SecuredIsOwned
    <2>4. UNCHANGED <<now, attempts, status[u], owner[u], leaseEnd[u]>>
      BY <1>1, <2>3 DEF TypeOK
    <2> HIDE DEF LedgerInvariant
    <2> QED BY <2>1, <2>2, <2>4 DEF Secured
  <1> QED BY <1>5, <1>6, <1>7, <1>8, <1>10, <1>11, <1>12

(* An attempt begins only with lease and window enough to finish it.         *)
LEMMA BeginLedger ==
    ASSUME LedgerInvariant, NEW r \in Runners, NEW t \in Tasks, Begin(r, t)
    PROVE  LedgerInvariant'
  <1> USE DEF LedgerInvariant
  <1> DEFINE x == [at |-> "collecting", task |-> t, time |-> now + Timeout, terminal |-> FALSE]
  <1>1. /\ status[t] = "claimed" /\ owner[t] = r /\ attempts[t] < MaxAttempts
        /\ leaseEnd[t] > now + Timeout + Margin /\ Deadline[t] > now + Timeout + Margin
        /\ attempts' = [attempts EXCEPT ![t] = @ + 1]
        /\ run' = [run EXCEPT ![r] = x]
        /\ UNCHANGED <<now, status, nextAt, owner, leaseEnd, snapshots>>
    BY DEF Begin, CanBegin, Owns, BeginsInTime, Goes
  <1>2. now \in Nat /\ now + Timeout \in Nat
    BY DEF TypeOK
  <1>3. /\ x \in Runner /\ x.at = "collecting" /\ x.task = t /\ x.time = now + Timeout
    BY <1>2 DEF Runner, Places
  <1> HIDE DEF x
  <1>4. \A u \in Tasks : /\ attempts[u] \in 0..MaxAttempts
                         /\ attempts'[u] = IF u = t THEN attempts[u] + 1 ELSE attempts[u]
    BY <1>1 DEF TypeOK
  <1>5. TypeOK'
    BY <1>1, <1>3, SMTT(60) DEF TypeOK
  <1>6. RowIsConsistent'
    BY <1>1, <1>4 DEF RowIsConsistent, TypeOK
  <1>7. EvidenceMatchesStatus' /\ AbsentIsFresh' /\ ClaimedIsDue'
    BY <1>1, <1>4, EvidenceStays DEF TypeOK, AbsentIsFresh, ClaimedIsDue
  <1>8. \A q \in Runners : run'[q] = IF q = r THEN x ELSE run[q]
    BY <1>1 DEF TypeOK
  <1>9. RunnerShape' /\ ReleasesDue'
    BY <1>1, <1>3, <1>8, ZenonT(60) DEF RunnerShape, ReleasesDue
  <1>10. PromptRunnerOwns'
    <2> SUFFICES ASSUME ~Stalls, NEW q \in Runners, NEW u \in Tasks, run'[q].task = u
                 PROVE  /\ run'[q].at = "collecting" => Secured(q, u, Margin)'
                        /\ run'[q].at = "finalizing" => Secured(q, u, 0)'
      BY DEF PromptRunnerOwns
    <2>1. attempts[u] \in Nat /\ attempts'[u] \in Nat /\ attempts'[u] >= attempts[u]
      <3> HIDE DEF LedgerInvariant
      <3> QED BY <1>4, SMTT(60)
    <2>2. CASE q # r
      <3>1. run'[q] = run[q]
        BY <2>2, <1>8
      <3>2. /\ run[q].at = "collecting" => Secured(q, u, Margin)
            /\ run[q].at = "finalizing" => Secured(q, u, 0)
        BY <3>1 DEF PromptRunnerOwns
      <3>3. attempts[u] > 0 => attempts'[u] > 0
        BY <2>1
      <3> HIDE DEF LedgerInvariant
      <3> QED BY <1>1, <3>1, <3>2, <3>3 DEF Secured
    <2>3. CASE q = r
      <3>1. u = t /\ run'[q] = x /\ attempts'[u] > 0
        BY <1>3, <1>4, <1>8, <2>1, <2>3, SMTT(60)
      <3> HIDE DEF LedgerInvariant
      <3> QED BY <1>1, <1>2, <1>3, <2>3, <3>1 DEF Secured
    <2> QED BY <2>2, <2>3
  <1> QED BY <1>5, <1>6, <1>7, <1>9, <1>10

(* The snapshot commits with the success of its row, inside the window.      *)
LEMMA FinalizeLedger ==
    ASSUME LedgerInvariant, NEW r \in Runners, NEW t \in Tasks, Finalize(r, t)
    PROVE  LedgerInvariant'
  <1> USE DEF LedgerInvariant
  <1>1. /\ run[r].at = "finalizing" /\ status[t] = "claimed" /\ owner[t] = r
        /\ Deadline[t] > now /\ attempts[t] > 0
        /\ Leave(t, "succeeded", Never)
        /\ snapshots' = [snapshots EXCEPT ![t] = @ \cup {now}]
        /\ Stops(r) /\ UNCHANGED <<now, attempts>>
    BY DEF Finalize, Fence, Owns
  <1>2. \A q \in Runners : run'[q] = IF q = r THEN Idle ELSE run[q]
    BY <1>1 DEF TypeOK, Stops
  <1>3. TypeOK'
    <2>1. Idle \in Runner
      BY DEF Idle, Runner, Places
    <2> QED BY <1>1, <2>1 DEF TypeOK, Leave, Stops, Status, Open
  <1>4. RowIsConsistent' /\ ClaimedIsDue' /\ AbsentIsFresh'
    BY <1>1 DEF RowIsConsistent, ClaimedIsDue, AbsentIsFresh, TypeOK, Leave
  <1>5. EvidenceMatchesStatus'
    <2>1. snapshots[t] = {} /\ Due[t] <= now /\ now \in Nat
      BY <1>1 DEF EvidenceMatchesStatus, ClaimedIsDue, TypeOK
    <2>2. snapshots'[t] = {now} /\ status'[t] = "succeeded"
      BY <1>1, <2>1 DEF Leave, TypeOK
    <2>3. now \in Due[t]..(Deadline[t] - 1)
      BY <1>1, <2>1
    <2>4. \A u \in Tasks : u # t => snapshots'[u] = snapshots[u] /\ status'[u] = status[u]
      BY <1>1 DEF Leave, TypeOK
    <2> QED BY <2>2, <2>3, <2>4 DEF EvidenceMatchesStatus
  <1>6. RunnerShape' /\ ReleasesDue'
    <2>1. \A q \in Runners : run'[q].at # "idle" => run'[q] = run[q]
      BY <1>2 DEF Idle
    <2>2. \A u \in Tasks : owner'[u] = IF u = t THEN Nobody ELSE owner[u]
      BY <1>1 DEF Leave, TypeOK
    <2>3. RunnerShape /\ ReleasesDue
      OBVIOUS
    <2> HIDE DEF LedgerInvariant
    <2>4. RunnerShape'
      BY <2>1, <2>3 DEF RunnerShape
    <2>5. ReleasesDue'
      <3> SUFFICES ASSUME NEW q \in Runners, NEW u \in Tasks,
                          run'[q].at = "releasing", run'[q].task = u, owner'[u] = q
                   PROVE  Due[u] <= run'[q].time
        BY DEF ReleasesDue
      <3>1. run'[q] = run[q] /\ owner[u] = q
        BY <2>1, <2>2
      <3> QED BY <2>3, <3>1 DEF ReleasesDue
    <2> QED BY <2>4, <2>5
  <1>7. PromptRunnerOwns'
    <2> SUFFICES ASSUME ~Stalls, NEW q \in Runners, NEW u \in Tasks, run'[q].task = u,
                        run'[q].at \in {"collecting", "finalizing"}
                 PROVE  /\ run'[q].at = "collecting" => Secured(q, u, Margin)'
                        /\ run'[q].at = "finalizing" => Secured(q, u, 0)'
      BY DEF PromptRunnerOwns
    <2>1. q # r /\ run'[q] = run[q]
      BY <1>2 DEF Idle
    <2>2. /\ run[q].at = "collecting" => Secured(q, u, Margin)
          /\ run[q].at = "finalizing" => Secured(q, u, 0)
      BY <2>1 DEF PromptRunnerOwns
    <2>3. u # t
      BY <1>1, <2>1, <2>2 DEF Secured
    <2>4. UNCHANGED <<now, attempts, status[u], owner[u], leaseEnd[u]>>
      BY <1>1, <2>3 DEF TypeOK, Leave
    <2> HIDE DEF LedgerInvariant
    <2> QED BY <2>1, <2>2, <2>4 DEF Secured
  <1> QED BY <1>3, <1>4, <1>5, <1>6, <1>7

-----------------------------------------------------------------------------
(* Every other step of a runner is a move of the runner alone.               *)
LEMMA ProceedLedger ==
    ASSUME LedgerInvariant, NEW r \in Runners, NEW t \in Tasks, Proceed(r, t)
    PROVE  LedgerInvariant'
  <1>1. /\ Idle \in Runner /\ Idle.at = "idle"
        /\ now \in Nat /\ now + Margin \in Nat
    BY DEF Idle, Runner, Places, LedgerInvariant, TypeOK
  <1>2. ASSUME Stops(r), UNCHANGED <<now, row>> PROVE LedgerInvariant'
    BY <1>1, <1>2, MoveLedger DEF Stops
  <1>3. ASSUME run[r].at # "idle", run[r].task = t, NEW terminal \in BOOLEAN,
               Goes(r, t, "releasing", now, terminal), UNCHANGED <<now, row>>
        PROVE  LedgerInvariant'
    <2> DEFINE x == [at |-> "releasing", task |-> t, time |-> now, terminal |-> terminal]
    <2>1. x \in Runner /\ x.at = "releasing" /\ x.time = now /\ x.task = t
      BY <1>1 DEF Runner, Places
    <2>2. run' = [run EXCEPT ![r] = x]
      BY <1>3 DEF Goes
    <2> HIDE DEF x
    <2> QED BY <1>3, <2>1, <2>2, MoveLedger
  <1>4. CASE Begin(r, t)
    BY <1>4, BeginLedger
  <1>5. CASE Finalize(r, t)
    BY <1>5, FinalizeLedger
  <1>6. CASE \E seen \in Stamps : Release(r, t, seen)
    BY <1>6, ReleaseLedger
  <1>7. CASE MissesRow(r, t)
    BY <1>2, <1>7 DEF MissesRow
  <1>8. CASE \E terminal \in BOOLEAN : SkipsCall(r, t, terminal) \/ CollectorFails(r, t, terminal)
    BY <1>3, <1>8 DEF SkipsCall, CollectorFails
  <1>9. CASE FinalizeAborts(r, t)
    BY <1>3, <1>9 DEF FinalizeAborts
  <1>10. CASE CollectorAnswers(r, t)
    <2> DEFINE x == [at |-> "finalizing", task |-> t, time |-> now + Margin, terminal |-> FALSE]
    <2>1. /\ x \in Runner /\ x.at = "finalizing" /\ x.time = now + Margin /\ x.task = t
      BY <1>1 DEF Runner, Places
    <2>2. /\ run[r].at = "collecting" /\ run[r].task = t
          /\ run' = [run EXCEPT ![r] = x] /\ UNCHANGED <<now, row>>
      BY <1>10 DEF CollectorAnswers, Goes
    <2> HIDE DEF x
    <2> QED BY <2>1, <2>2, MoveLedger
  <1> QED BY <1>4, <1>5, <1>6, <1>7, <1>8, <1>9, <1>10 DEF Proceed

(* Every step of the ledger keeps it consistent.                             *)
LEMMA StepLedger == LedgerInvariant /\ [Next]_vars => LedgerInvariant'
  <1> SUFFICES ASSUME LedgerInvariant, [Next]_vars PROVE LedgerInvariant'
    OBVIOUS
  <1>1. CASE Tick
    BY <1>1, TickLedger
  <1>2. CASE \E j \in Jobs, seen \in Stamps : Backfill(j, seen)
    BY <1>2, BackfillLedger
  <1>3. CASE \E t \in Tasks, seen \in Stamps : Reconcile(t, seen) \/ Defer(t, seen)
    BY <1>3, ReconcileLedger, DeferLedger
  <1>4. CASE \E r \in Runners, t \in Tasks, seen \in Stamps : Claim(r, t, seen)
    BY <1>4, ClaimLedger
  <1>5. CASE \E r \in Runners, t \in Tasks : Proceed(r, t)
    BY <1>5, ProceedLedger
  <1>6. CASE \E r \in Runners : Crash(r)
    <2>1. PICK r \in Runners : Stops(r) /\ UNCHANGED <<now, row>>
      BY <1>6 DEF Crash
    <2>2. Idle \in Runner /\ Idle.at = "idle"
      BY DEF Idle, Runner, Places
    <2> QED BY <2>1, <2>2, MoveLedger DEF Stops
  <1>7. CASE UNCHANGED vars
    BY <1>7 DEF vars, row, LedgerInvariant, TypeOK, RowIsConsistent, EvidenceMatchesStatus,
       ClaimedIsDue, AbsentIsFresh, RunnerShape, ReleasesDue, PromptRunnerOwns, Secured
  <1> QED BY <1>1, <1>2, <1>3, <1>4, <1>5, <1>6, <1>7 DEF Next

(* The ledger is consistent in every reachable state.                        *)
THEOREM LedgerHolds == Spec => []LedgerInvariant
  BY InitLedger, StepLedger, PTL DEF Spec

(* Every variable keeps its type.                                            *)
THEOREM LedgerIsTyped == Spec => []TypeOK
  BY LedgerHolds, PTL DEF LedgerInvariant

(* No interleaving of scans, runners and crashes produces a row that the     *)
(* table's lifecycle constraint would refuse.                                *)
THEOREM RowsStayConsistent == Spec => []RowIsConsistent
  BY LedgerHolds, PTL DEF LedgerInvariant

(* A window has at most one snapshot, taken inside it, exactly when its row  *)
(* succeeded.                                                                *)
THEOREM EvidenceIsTakenOnce == Spec => []EvidenceMatchesStatus
  BY LedgerHolds, PTL DEF LedgerInvariant

(* The remaining lease and window checked before the call pay for the whole  *)
(* collection: a runner that meets its timeouts is not fenced out.           *)
THEOREM FinishedWorkIsNeverLost == Spec => []FinishedWorkIsKept
  <1>1. LedgerInvariant => FinishedWorkIsKept
    <2> SUFFICES ASSUME LedgerInvariant, ~Stalls, NEW r \in Runners, run[r].at = "finalizing"
                 PROVE  Fence(r, run[r].task)
      BY DEF FinishedWorkIsKept
    <2> DEFINE t == run[r].task
    <2>1. t \in Tasks
      BY DEF LedgerInvariant, RunnerShape
    <2>2. Secured(r, t, 0)
      BY <2>1 DEF LedgerInvariant, PromptRunnerOwns
    <2>3. /\ now \in Nat /\ run[r].time \in Nat
          /\ leaseEnd[t] \in Nat /\ Deadline[t] \in Nat
      BY <2>1, <2>2 DEF LedgerInvariant, TypeOK, Runner, RowIsConsistent, Secured
    <2> HIDE DEF t
    <2>4. Fence(r, t)
      BY <2>2, <2>3 DEF Fence, Owns, Secured
    <2> QED BY <2>4 DEF t
  <1> QED BY <1>1, LedgerHolds, PTL

(* Two collector calls for one row never overlap when runners meet their     *)
(* timeouts, whatever the kernel lock of the account does.                   *)
THEOREM CollectorsAreExclusive == Spec => []OneCollectorAtATime
  <1>1. LedgerInvariant => OneCollectorAtATime
    BY DEF LedgerInvariant, OneCollectorAtATime, RunnerShape, PromptRunnerOwns, Secured
  <1> QED BY <1>1, LedgerHolds, PTL

-----------------------------------------------------------------------------
(* A row that stays open keeps its outcome.                                  *)
LEMMA OutcomeStays ==
    ASSUME \A t \in Tasks : \/ status'[t] = status[t]
                            \/ status[t] \notin Ended /\ status'[t] \notin Ended
    PROVE  Outcome' = Outcome
  BY DEF Outcome

(* An open row that fails is a window given up.                              *)
LEMMA GivingUp ==
    ASSUME NEW t \in Tasks, TypeOK, status[t] \notin Ended,
           status' = [status EXCEPT ![t] = "failed"], UNCHANGED <<now, snapshots>>
    PROVE  Evidence!GiveUp({t})
  <1>1. \A u \in {t} : Outcome[u] = "open"
    BY DEF Outcome
  <1>2. Outcome' = [u \in Tasks |-> IF u \in {t} THEN "failed" ELSE Outcome[u]]
    BY DEF Outcome, Ended, TypeOK
  <1> QED BY <1>1, <1>2 DEF Evidence!GiveUp

(* Every step of a runner takes the evidence, gives the window up or leaves  *)
(* it alone.                                                                 *)
LEMMA ProceedRefines ==
    ASSUME LedgerInvariant, NEW r \in Runners, NEW t \in Tasks, Proceed(r, t)
    PROVE  [Evidence!Next]_<<now, Outcome, snapshots>>
  <1> USE DEF LedgerInvariant
  <1>1. CASE UNCHANGED <<now, status, snapshots>>
    BY <1>1, OutcomeStays
  <1>2. CASE Finalize(r, t)
    <2>1. /\ status[t] = "claimed" /\ Due[t] <= now /\ now < Deadline[t]
          /\ status' = [status EXCEPT ![t] = "succeeded"]
          /\ snapshots' = [snapshots EXCEPT ![t] = @ \cup {now}] /\ now' = now
      BY <1>2 DEF Finalize, Fence, Owns, Leave, ClaimedIsDue, TypeOK
    <2>2. snapshots[t] = {}
      BY <2>1 DEF EvidenceMatchesStatus
    <2>3. snapshots' = [snapshots EXCEPT ![t] = {now}]
      BY <2>1, <2>2 DEF TypeOK
    <2>4. Outcome[t] = "open"
      BY <2>1 DEF Outcome, Ended
    <2>5. Outcome' = [Outcome EXCEPT ![t] = "succeeded"]
      BY <2>1 DEF Outcome, Ended, TypeOK
    <2>6. Evidence!Take(t)
      BY <2>1, <2>3, <2>4, <2>5 DEF Evidence!Take
    <2> QED BY <2>6 DEF Evidence!Next
  <1>3. CASE \E seen \in Stamps : Release(r, t, seen)
    <2>1. PICK seen \in Stamps : Release(r, t, seen)
      BY <1>3
    <2>2. status[t] = "claimed" /\ UNCHANGED <<now, snapshots>>
      BY <2>1 DEF Release, Owns
    <2>3. CASE status' = [status EXCEPT ![t] = "failed"]
      <3>1. Evidence!GiveUp({t})
        BY <2>2, <2>3, GivingUp DEF Ended
      <3> QED BY <3>1 DEF Evidence!Next
    <2>4. CASE status' = [status EXCEPT ![t] = "queued"]
      <3>1. Outcome' = Outcome
        BY <2>2, <2>4, OutcomeStays DEF Ended, TypeOK
      <3> QED BY <2>2, <3>1
    <2> QED BY <2>1, <2>3, <2>4 DEF Release, Leave
  <1> QED BY <1>1, <1>2, <1>3 DEF Proceed, Begin, CollectorAnswers, SkipsCall,
             CollectorFails, FinalizeAborts, MissesRow, row

(* Every step of the ledger is a step of the abstract windows, or none.      *)
LEMMA StepRefines ==
    ASSUME LedgerInvariant, [Next]_vars
    PROVE  [Evidence!Next]_<<now, Outcome, snapshots>>
  <1> USE DEF LedgerInvariant
  <1>1. CASE Tick
    <2>1. Outcome' = Outcome /\ now' = now + 1 /\ UNCHANGED snapshots
      BY <1>1, OutcomeStays DEF Tick, row
    <2> QED BY <2>1 DEF Evidence!Next, Evidence!Pass
  <1>2. CASE \E j \in Jobs, seen \in Stamps : Backfill(j, seen)
    <2>1. PICK j \in Jobs, seen \in Stamps : Backfill(j, seen)
      BY <1>2
    <2> DEFINE lost == {t \in Tasks : JobOf[t] = j /\ status[t] = "absent"}
               late == {t \in lost : Deadline[t] <= seen}
    <2>2. /\ status' = [t \in Tasks |-> IF t \in late THEN "failed"
                                        ELSE IF t \in lost THEN "queued" ELSE status[t]]
          /\ UNCHANGED <<now, snapshots>>
      BY <2>1 DEF Backfill
    <2>3. late \in SUBSET Tasks /\ \A t \in lost : status[t] = "absent"
      OBVIOUS
    <2>4. \A t \in late : t \in lost
      OBVIOUS
    <2> HIDE DEF lost, late
    <2>5. \A t \in late : Outcome[t] = "open"
      BY <2>3, <2>4 DEF Outcome, Ended
    <2>6. Outcome' = [t \in Tasks |-> IF t \in late THEN "failed" ELSE Outcome[t]]
      BY <2>2, <2>3, <2>4 DEF Outcome, Ended
    <2>7. Evidence!GiveUp(late)
      BY <2>2, <2>5, <2>6 DEF Evidence!GiveUp
    <2> QED BY <2>3, <2>7 DEF Evidence!Next
  <1>3. CASE \E t \in Tasks, seen \in Stamps : Reconcile(t, seen)
    <2>1. PICK t \in Tasks, seen \in Stamps : Reconcile(t, seen)
      BY <1>3
    <2>2. Evidence!GiveUp({t})
      BY <2>1, GivingUp DEF Reconcile, Overdue, Leave, Open, Ended
    <2> QED BY <2>2 DEF Evidence!Next
  <1>4. CASE \E t \in Tasks, seen \in Stamps : Defer(t, seen)
    <2>1. PICK t \in Tasks : /\ status[t] \in Open /\ UNCHANGED <<now, snapshots>>
                             /\ status' = [status EXCEPT ![t] = "queued"]
      BY <1>4 DEF Defer, Claimable, Unowned, Leave, Open
    <2>2. Outcome' = Outcome
      BY <2>1, OutcomeStays DEF Ended, Open, TypeOK
    <2> QED BY <2>1, <2>2
  <1>5. CASE \E r \in Runners, t \in Tasks, seen \in Stamps : Claim(r, t, seen)
    <2>1. PICK t \in Tasks : /\ status[t] \in Open /\ UNCHANGED <<now, snapshots>>
                             /\ status' = [status EXCEPT ![t] = "claimed"]
      BY <1>5 DEF Claim, Claimable, Unowned, Open
    <2>2. Outcome' = Outcome
      BY <2>1, OutcomeStays DEF Ended, Open, TypeOK
    <2> QED BY <2>1, <2>2
  <1>6. CASE \E r \in Runners, t \in Tasks : Proceed(r, t)
    BY <1>6, ProceedRefines
  <1>7. CASE \E r \in Runners : Crash(r)
    BY <1>7, OutcomeStays DEF Crash, row
  <1>8. CASE UNCHANGED vars
    BY <1>8, OutcomeStays DEF vars, row
  <1> QED BY <1>1, <1>2, <1>3, <1>4, <1>5, <1>6, <1>7, <1>8 DEF Next

(* The ledger implements the windows of EvidenceOnce: each is open until it  *)
(* takes one snapshot in time or is given up, and never changes its mind.    *)
THEOREM LedgerKeepsEvidence == Spec => KeepsEvidence
  <1>1. Init => Evidence!Init
    <2> SUFFICES ASSUME Init PROVE Evidence!Init
      OBVIOUS
    <2>1. \A t \in Tasks : status[t] \in {"absent", "queued"}
      BY DEF Init
    <2>2. Outcome = [t \in Tasks |-> "open"]
      BY <2>1 DEF Outcome, Ended
    <2> QED BY <2>2 DEF Init, Evidence!Init
  <1>2. LedgerInvariant /\ [Next]_vars => [Evidence!Next]_<<now, Outcome, snapshots>>
    BY StepRefines
  <1> QED BY <1>1, <1>2, LedgerHolds, PTL DEF Spec, KeepsEvidence, Evidence!Spec, Evidence!vars
=============================================================================
