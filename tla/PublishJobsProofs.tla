-------------------------- MODULE PublishJobsProofs --------------------------
(* Proofs that PublishJobs keeps its invariants and implements PublishOnce,  *)
(* for any number of rows, accounts, executors, attempts and publishers.     *)
EXTENDS PublishJobsInvariant, TLAPS

-----------------------------------------------------------------------------
(* What the operators that update an executor do to all of exec.             *)

(* Begins puts one executor to work for a row and leaves the others alone.   *)
LEMMA BeginsEffect ==
    ASSUME TypeOK, NEW w \in Executors, NEW j \in Jobs,
           NEW place \in Places, Begins(w, j, place)
    PROVE  /\ exec' \in [Executors -> Executor]
           /\ \A v \in Executors \ {w} : exec'[v] = exec[v]
           /\ exec'[w] = [at |-> place, job |-> j, result |-> "none",
                          turn |-> 1, wrote |-> FALSE]
<1> DEFINE e == [at |-> place, job |-> j, result |-> "none", turn |-> 1, wrote |-> FALSE]
<1>1. e \in Executor
  BY PublishJobsAssumption DEF Executor, Results
<1> QED
  BY <1>1 DEF Begins, TypeOK

(* LetsGo makes one executor idle and leaves the others alone.               *)
LEMMA LetsGoEffect ==
    ASSUME TypeOK, NEW w \in Executors, LetsGo(w)
    PROVE  /\ exec' \in [Executors -> Executor]
           /\ \A v \in Executors \ {w} : exec'[v] = exec[v]
           /\ exec'[w] = [at |-> "idle", job |-> NoJob, result |-> "none",
                          turn |-> 1, wrote |-> FALSE]
<1>1. Idle \in Executor
  BY PublishJobsAssumption DEF Executor, Results, Idle, Places
<1>2. exec' \in [Executors -> Executor]
  BY <1>1 DEF LetsGo, TypeOK
<1>3. \A v \in Executors \ {w} : exec'[v] = exec[v]
  BY DEF LetsGo, TypeOK
<1>4. exec'[w] = Idle
  BY DEF LetsGo, TypeOK
<1> QED
  BY <1>2, <1>3, <1>4 DEF Idle

(* Moves changes the place and the result of one executor and nothing else.  *)
LEMMA MovesEffect ==
    ASSUME TypeOK, NEW w \in Executors, NEW place \in Places, NEW result \in Results,
           Moves(w, place, result)
    PROVE  /\ exec' \in [Executors -> Executor]
           /\ \A v \in Executors \ {w} : exec'[v] = exec[v]
           /\ exec'[w] = [at |-> place, job |-> exec[w].job, result |-> result,
                          turn |-> exec[w].turn, wrote |-> exec[w].wrote]
<1> DEFINE e == [at |-> place, job |-> exec[w].job, result |-> result,
                 turn |-> exec[w].turn, wrote |-> exec[w].wrote]
<1>1. exec[w] \in Executor
  BY DEF TypeOK
<1>2. e \in Executor
  BY <1>1 DEF Executor
<1>3. exec'[w] = e
  BY <1>1 DEF Moves, TypeOK, Executor
<1>4. \A v \in Executors \ {w} : exec'[v] = exec[v]
  BY DEF Moves, TypeOK
<1>5. exec' = [exec EXCEPT ![w] = e]
  BY <1>3 DEF Moves, TypeOK
<1>6. exec' \in [Executors -> Executor]
  BY <1>2, <1>5 DEF TypeOK
<1> QED
  BY <1>3, <1>4, <1>6

(* Sync leaves every article with a legal status.                            *)
LEMMA SyncType ==
    ASSUME TypeOK, NEW j \in Jobs, Sync(j)
    PROVE  articleStatus' \in [Articles -> ArticleStatus]
BY PublishJobsAssumption DEF TypeOK, Sync, Aggregate, ArticleStatus

-----------------------------------------------------------------------------
(* The initial state.                                                        *)
LEMMA InitInvariant == Init => InductiveInvariant
<1> SUFFICES ASSUME Init PROVE InductiveInvariant
  OBVIOUS
<1>1. Idle \in Executor
  BY PublishJobsAssumption DEF Executor, Results, Idle, Places
<1>2. TypeOK
  BY <1>1 DEF Init, TypeOK, JobStatus, ArticleStatus, Gates, Receipts, Results
<1>3. \A w \in Executors : exec[w].at = "idle"
  BY DEF Init, Idle
<1>4. ExecutorShape /\ OneClaimant /\ ClaimedRow /\ ClaimantKnows
  BY <1>3 DEF ExecutorShape, OneClaimant, ClaimedRow, ClaimantKnows, KnowsPlatform, Claimant
<1>5. ClaimableUnposted /\ OrphanUnposted /\ ReceiptHonest
  BY DEF Init, ClaimableUnposted, OrphanUnposted, ReceiptHonest, Unposted, Confirmed
<1>6. AtMostOncePerJob /\ UncheckedFailureIsClean /\ SuccessMeansPosted
  BY <1>3 DEF Init, AtMostOncePerJob, UncheckedFailureIsClean, SuccessMeansPosted,
         Republishable
<1>7. Budget /\ EntriesWithinBudget
  BY <1>3, PublishJobsAssumption DEF Init, Budget, EntriesWithinBudget, Claimable, Claimant
<1> QED
  BY <1>2, <1>4, <1>5, <1>6, <1>7 DEF InductiveInvariant

-----------------------------------------------------------------------------
(* The first transaction of execute_job.                                     *)

(* Nobody is the claimant of a row that may be claimed.                      *)
LEMMA ClaimableUnclaimed ==
    ASSUME ClaimedRow, NEW j \in Jobs, status[j] \in Claimable \cup {"absent"}
    PROVE  \A v \in Executors : exec[v].at \in Claimant => exec[v].job # j
BY DEF ClaimedRow, Claimable

(* A claim makes its executor the only claimant of an unposted row. *)
LEMMA ClaimPreserves ==
    ASSUME InductiveInvariant, NEW w \in Executors, NEW j \in Jobs, Claim(w, j)
    PROVE  InductiveInvariant'
<1> USE DEF InductiveInvariant
<1>1. /\ exec' \in [Executors -> Executor]
      /\ \A v \in Executors \ {w} : exec'[v] = exec[v]
      /\ exec'[w] = [at |-> "leasing", job |-> j, result |-> "none",
                     turn |-> 1, wrote |-> FALSE]
  BY BeginsEffect DEF Claim, Places
<1>2. TypeOK'
  <2>1. articleStatus' \in [Articles -> ArticleStatus]
    BY SyncType DEF Claim
  <2> QED
    BY <1>1, <2>1 DEF TypeOK, Claim, JobStatus, NonTerminal, Receipts, Results, world
<1>3. /\ status[j] \in Claimable /\ status'[j] = "running"
      /\ \A k \in Jobs \ {j} : status'[k] = status[k]
  BY DEF Claim, CanClaim, TypeOK
<1>4. \A v \in Executors : exec[v].at \in Claimant => exec[v].job # j
  BY <1>3, ClaimableUnclaimed
<1>5. ExecutorShape'
  BY <1>1, PublishJobsAssumption DEF ExecutorShape, ChainLength, Claim
<1>6. OneClaimant' /\ ClaimedRow'
  BY <1>1, <1>3, <1>4 DEF OneClaimant, ClaimedRow, NeedsPlatformCheck, Claim
<1>7. ClaimableUnposted' /\ ClaimantKnows' /\ OrphanUnposted' /\ ReceiptHonest'
  BY <1>1, <1>3, <1>4 DEF Claim, world, TypeOK, ClaimableUnposted, ClaimantKnows, KnowsPlatform,
     OrphanUnposted, ReceiptHonest, Claimable, Unposted, Confirmed, Claimant
<1>8. AtMostOncePerJob' /\ UncheckedFailureIsClean' /\ SuccessMeansPosted'
  BY <1>1, <1>3 DEF Claim, world, AtMostOncePerJob, UncheckedFailureIsClean,
     SuccessMeansPosted, InFlight, NeedsPlatformCheck, Republishable
<1>9. Budget' /\ EntriesWithinBudget'
  <2>1. /\ attempts[j] < MaxAttempts /\ entries[j] <= attempts[j]
        /\ attempts'[j] = attempts[j] + 1 /\ entries' = entries
        /\ \A k \in Jobs \ {j} : attempts'[k] = attempts[k]
    BY <1>3 DEF Claim, world, TypeOK, Budget, EntriesWithinBudget
  <2>2. EntriesWithinBudget'
    BY <2>1, PublishJobsAssumption DEF TypeOK, EntriesWithinBudget
  <2>3. Budget'
    BY <1>1, <1>3, <1>4, <2>1, PublishJobsAssumption DEF TypeOK, Budget, Claimable
  <2> QED
    BY <2>2, <2>3
<1> QED
  BY <1>2, <1>5, <1>6, <1>7, <1>8, <1>9

(* A deferral gives the attempt back before anybody claims the row. *)
LEMMA ClaimDeferredPreserves ==
    ASSUME InductiveInvariant, NEW w \in Executors, NEW j \in Jobs, ClaimDeferred(w, j)
    PROVE  InductiveInvariant'
<1> USE DEF InductiveInvariant
<1>1. TypeOK'
  <2>1. articleStatus' \in [Articles -> ArticleStatus]
    BY SyncType DEF ClaimDeferred
  <2> QED
    BY <2>1 DEF TypeOK, ClaimDeferred, JobStatus, NonTerminal, host, world
<1>2. /\ status[j] \in Claimable /\ status'[j] = "retrying"
      /\ \A k \in Jobs \ {j} : status'[k] = status[k]
  BY DEF ClaimDeferred, CanClaim, TypeOK
<1>3. \A v \in Executors : exec[v].at \in Claimant => exec[v].job # j
  BY <1>2, ClaimableUnclaimed
<1>4. ExecutorShape' /\ OneClaimant' /\ ClaimedRow'
  BY <1>2, <1>3 DEF ExecutorShape, ChainLength, OneClaimant, ClaimedRow,
     NeedsPlatformCheck, ClaimDeferred
<1>5. ClaimableUnposted' /\ ClaimantKnows' /\ OrphanUnposted' /\ ReceiptHonest'
  BY <1>2 DEF ClaimDeferred, host, world, ClaimableUnposted, ClaimantKnows, KnowsPlatform,
     OrphanUnposted, ReceiptHonest, Claimable, Unposted
<1>6. AtMostOncePerJob' /\ UncheckedFailureIsClean' /\ SuccessMeansPosted'
  BY <1>2 DEF ClaimDeferred, world, AtMostOncePerJob, UncheckedFailureIsClean,
     SuccessMeansPosted, InFlight, NeedsPlatformCheck, Republishable
<1>7. Budget' /\ EntriesWithinBudget'
  BY <1>2 DEF ClaimDeferred, world, Budget, EntriesWithinBudget, Claimable
<1> QED
  BY <1>1, <1>4, <1>5, <1>6, <1>7

(* A refused row is closed without an executor and without an effect. *)
LEMMA ClaimRefusedPreserves ==
    ASSUME InductiveInvariant, NEW w \in Executors, NEW j \in Jobs, ClaimRefused(w, j)
    PROVE  InductiveInvariant'
<1> USE DEF InductiveInvariant
<1>1. TypeOK'
  <2>1. articleStatus' \in [Articles -> ArticleStatus]
    BY SyncType DEF ClaimRefused
  <2> QED
    BY <2>1 DEF TypeOK, ClaimRefused, JobStatus, Republishable, host, world
<1>2. /\ status[j] \in Claimable /\ status'[j] = "failed"
      /\ \A k \in Jobs \ {j} : status'[k] = status[k]
  BY DEF ClaimRefused, CanClaim, TypeOK
<1>3. \A v \in Executors : exec[v].at \in Claimant => exec[v].job # j
  BY <1>2, ClaimableUnclaimed
<1>4. ExecutorShape' /\ OneClaimant' /\ ClaimedRow'
  BY <1>2, <1>3 DEF ExecutorShape, ChainLength, OneClaimant, ClaimedRow,
     NeedsPlatformCheck, ClaimRefused
<1>5. ClaimableUnposted' /\ ClaimantKnows' /\ OrphanUnposted' /\ ReceiptHonest'
  BY <1>2 DEF ClaimRefused, host, world, ClaimableUnposted, ClaimantKnows, KnowsPlatform,
     OrphanUnposted, ReceiptHonest, Claimable, Unposted
<1>6. AtMostOncePerJob' /\ UncheckedFailureIsClean' /\ SuccessMeansPosted'
  BY <1>2, <1>3 DEF ClaimRefused, world, AtMostOncePerJob, UncheckedFailureIsClean,
     SuccessMeansPosted, InFlight, NeedsPlatformCheck, ClaimableUnposted, Unposted, Claimant
<1>7. Budget' /\ EntriesWithinBudget'
  BY <1>2, <1>3, PublishJobsAssumption DEF ClaimRefused, world, TypeOK, Budget,
     EntriesWithinBudget, Claimable
<1> QED
  BY <1>1, <1>4, <1>5, <1>6, <1>7

(* A claim that raises leaves an executor that marks nobody's row, or another's. *)
LEMMA ClaimAbortsPreserves ==
    ASSUME InductiveInvariant, NEW w \in Executors, NEW j \in Jobs, ClaimAborts(w, j)
    PROVE  InductiveInvariant'
<1> USE DEF InductiveInvariant, ClaimAborts, db, host, world
<1>1. /\ exec' \in [Executors -> Executor]
      /\ \A v \in Executors \ {w} : exec'[v] = exec[v]
      /\ exec'[w] = [at |-> "unwinding", job |-> j, result |-> "none",
                     turn |-> 1, wrote |-> FALSE]
  BY BeginsEffect DEF Places
<1>2. TypeOK'
  BY <1>1 DEF TypeOK
<1>3. ExecutorShape' /\ OneClaimant' /\ ClaimedRow' /\ ClaimantKnows'
  BY <1>1 DEF ExecutorShape, ChainLength, OneClaimant, ClaimedRow, ClaimantKnows, KnowsPlatform,
     Claimant, NeedsPlatformCheck, Unposted
<1>4. ClaimableUnposted' /\ OrphanUnposted' /\ ReceiptHonest' /\ AtMostOncePerJob'
  BY DEF ClaimableUnposted, OrphanUnposted, ReceiptHonest, AtMostOncePerJob, Unposted
<1>5. UncheckedFailureIsClean' /\ SuccessMeansPosted'
  BY <1>1 DEF UncheckedFailureIsClean, SuccessMeansPosted, InFlight, NeedsPlatformCheck
<1>6. Budget' /\ EntriesWithinBudget'
  BY <1>1 DEF Budget, EntriesWithinBudget, Claimant
<1> QED
  BY <1>2, <1>3, <1>4, <1>5, <1>6

-----------------------------------------------------------------------------
(* Waiting for the lease.                                                    *)

(* The claimant enters the first publisher, which costs one entry. *)
LEMMA TakeLeasePreserves ==
    ASSUME InductiveInvariant, NEW w \in Executors, NEW j \in Jobs, TakeLease(w, j)
    PROVE  InductiveInvariant'
<1> USE DEF InductiveInvariant, TakeLease, db, world, host
<1>1. /\ exec' \in [Executors -> Executor]
      /\ \A v \in Executors \ {w} : exec'[v] = exec[v]
      /\ exec'[w] = [at |-> "publishing", job |-> j, result |-> "none",
                     turn |-> exec[w].turn, wrote |-> FALSE]
  <2>1. Moves(w, "publishing", "none") /\ exec[w].job = j /\ exec[w].wrote = FALSE
    BY DEF ExecutorShape, TypeOK, Executor
  <2>2. "publishing" \in Places /\ "none" \in Results
    BY DEF Places, Results
  <2> QED
    BY <2>1, <2>2, MovesEffect
<1>2. TypeOK'
  <2>1. entries' \in [Jobs -> Nat]
    BY DEF TypeOK
  <2>2. lease' \in [Accounts -> Executors \cup {Free, Outsider}]
    BY DEF TypeOK
  <2> QED
    BY <1>1, <2>1, <2>2 DEF TypeOK
<1>3. ExecutorShape' /\ OneClaimant' /\ ClaimedRow'
  BY <1>1, PublishJobsAssumption DEF ExecutorShape, ChainLength, OneClaimant, ClaimedRow,
     Claimant, NeedsPlatformCheck
<1>4. ClaimantKnows'
  BY <1>1 DEF ClaimantKnows, KnowsPlatform, Unposted, Claimant
<1>5. ClaimableUnposted' /\ OrphanUnposted' /\ ReceiptHonest' /\ AtMostOncePerJob'
  BY DEF ClaimableUnposted, OrphanUnposted, ReceiptHonest, AtMostOncePerJob, Unposted
<1>6. UncheckedFailureIsClean' /\ SuccessMeansPosted'
  BY <1>1 DEF UncheckedFailureIsClean, SuccessMeansPosted, InFlight, NeedsPlatformCheck,
     ClaimedRow, Claimant, Republishable
<1>7. Budget' /\ EntriesWithinBudget'
  <2>1. /\ entries[j] < attempts[j] /\ entries'[j] = entries[j] + 1
        /\ \A k \in Jobs \ {j} : entries'[k] = entries[k]
    BY DEF TypeOK, Budget, Claimant
  <2>2. \A v \in Executors \ {w} : exec[v].at \in Claimant => exec[v].job # j
    BY DEF OneClaimant, Claimant
  <2>3. EntriesWithinBudget'
    BY <2>1 DEF TypeOK, EntriesWithinBudget
  <2>4. Budget'
    BY <1>1, <2>1, <2>2 DEF TypeOK, Budget, Claimant
  <2> QED
    BY <2>3, <2>4
<1> QED
  BY <1>2, <1>3, <1>4, <1>5, <1>6, <1>7

(* Giving up on the lease changes no more than what the executor is doing.   *)
LEMMA StopsWaitingPreserves ==
    ASSUME InductiveInvariant, NEW w \in Executors, NEW j \in Jobs,
           LeaseUnavailable(w, j) \/ CancelledWaiting(w, j)
    PROVE  InductiveInvariant'
<1> USE DEF InductiveInvariant, db, host, world
<1>1. PICK place \in {"deciding", "marking"}, result \in {"busy", "prewrite"} :
         /\ (place = "deciding") = (result = "busy")
         /\ Moves(w, place, result)
  BY DEF LeaseUnavailable, CancelledWaiting
<1>2. /\ exec[w].at = "leasing" /\ exec[w].job = j /\ UNCHANGED <<db, host, world>>
      /\ exec' \in [Executors -> Executor]
      /\ \A v \in Executors \ {w} : exec'[v] = exec[v]
      /\ exec'[w] = [at |-> place, job |-> j, result |-> result,
                     turn |-> exec[w].turn, wrote |-> exec[w].wrote]
  BY <1>1, MovesEffect DEF LeaseUnavailable, CancelledWaiting, Places, Results, NoEffect
<1>3. TypeOK'
  BY <1>2 DEF TypeOK
<1>4. ExecutorShape' /\ OneClaimant' /\ ClaimedRow'
  BY <1>1, <1>2 DEF ExecutorShape, ChainLength, OneClaimant, ClaimedRow, Claimant,
     NeedsPlatformCheck
<1>5. ClaimantKnows'
  <2>1. Unposted(j) /\ receipt[j] \notin Confirmed
    BY <1>2 DEF ClaimantKnows, KnowsPlatform, Claimant, ReceiptHonest, Unposted
  <2> QED
    BY <1>1, <1>2, <2>1 DEF ClaimantKnows, KnowsPlatform, Unposted, Claimant, NoEffect, Confirmed
<1>6. ClaimableUnposted' /\ OrphanUnposted' /\ ReceiptHonest' /\ AtMostOncePerJob'
  BY <1>2 DEF ClaimableUnposted, OrphanUnposted, ReceiptHonest, AtMostOncePerJob, Unposted
<1>7. UncheckedFailureIsClean' /\ SuccessMeansPosted'
  BY <1>1, <1>2 DEF UncheckedFailureIsClean, SuccessMeansPosted, InFlight, NeedsPlatformCheck
<1>8. Budget' /\ EntriesWithinBudget'
  BY <1>1, <1>2 DEF Budget, EntriesWithinBudget, Claimant
<1> QED
  BY <1>3, <1>4, <1>5, <1>6, <1>7, <1>8

-----------------------------------------------------------------------------
(* Inside the publisher chain.                                               *)

(* The post appears while its executor still waits for the publisher. *)
LEMMA PlatformAcceptsPreserves ==
    ASSUME InductiveInvariant, NEW w \in Executors, NEW j \in Jobs, PlatformAccepts(w, j)
    PROVE  InductiveInvariant'
<1> USE DEF InductiveInvariant, PlatformAccepts, db, host
<1>1. /\ \A v \in Executors \ {w} : exec'[v] = exec[v]
      /\ exec'[w] = [at |-> "publishing", job |-> j, result |-> "none",
                     turn |-> exec[w].turn, wrote |-> TRUE]
  BY DEF TypeOK, Executor, ExecutorShape
<1>2. /\ posts[j] = 0 /\ posts'[j] = 1 /\ j \notin orphan
      /\ \A k \in Jobs \ {j} : posts'[k] = posts[k]
  BY DEF ClaimantKnows, KnowsPlatform, Claimant, TypeOK
<1>3. TypeOK'
  <2>1. exec'[w] \in Executor
    BY <1>1 DEF TypeOK, Executor, Places, Results
  <2>2. exec' \in [Executors -> Executor]
    BY <1>1, <2>1 DEF TypeOK
  <2> QED
    BY <2>2 DEF TypeOK
<1>4. ExecutorShape' /\ OneClaimant' /\ ClaimedRow'
  BY <1>1 DEF ExecutorShape, ChainLength, OneClaimant, ClaimedRow, Claimant, NeedsPlatformCheck
<1>5. \A v \in Executors \ {w} : exec[v].at \in Claimant => exec[v].job # j
  BY DEF OneClaimant, Claimant
<1>6. ClaimantKnows'
  BY <1>1, <1>2, <1>5 DEF ClaimantKnows, KnowsPlatform, Unposted, Claimant
<1>7. status[j] \notin Claimable \cup {"absent"}
  BY DEF ClaimedRow, Claimant, Claimable
<1>8. ClaimableUnposted' /\ OrphanUnposted' /\ ReceiptHonest' /\ AtMostOncePerJob'
  BY <1>2, <1>7 DEF ClaimableUnposted, OrphanUnposted, ReceiptHonest, AtMostOncePerJob, Unposted
<1>9. UncheckedFailureIsClean' /\ SuccessMeansPosted'
  BY <1>1, <1>2 DEF UncheckedFailureIsClean, SuccessMeansPosted, InFlight, NeedsPlatformCheck
<1>10. Budget' /\ EntriesWithinBudget'
  BY <1>1 DEF Budget, EntriesWithinBudget, Claimant
<1> QED
  BY <1>3, <1>4, <1>6, <1>8, <1>9, <1>10

(* An adapter's sidecar says what is true when it is written. *)
LEMMA AdapterJournalsPreserves ==
    ASSUME InductiveInvariant, NEW w \in Executors, NEW j \in Jobs, NEW r \in Confirmed,
           AdapterJournals(w, j, r)
    PROVE  InductiveInvariant'
<1> USE DEF InductiveInvariant, AdapterJournals, db, world
<1>1. receipt' \in [Jobs -> Receipts] /\ \A k \in Jobs \ {j} : receipt'[k] = receipt[k]
  BY DEF TypeOK, Receipts, Results, Confirmed
<1>2. posts[j] = 1
  BY DEF ClaimantKnows, KnowsPlatform, Claimant
<1>3. \A v \in Executors \ {w} : exec[v].at \in Claimant => exec[v].job # j
  BY DEF OneClaimant, Claimant
<1>4. TypeOK' /\ ExecutorShape' /\ OneClaimant' /\ ClaimedRow'
  BY <1>1 DEF TypeOK, ExecutorShape, ChainLength, OneClaimant, ClaimedRow, NeedsPlatformCheck
<1>5. ClaimantKnows'
  BY <1>1, <1>3 DEF ClaimantKnows, KnowsPlatform, Unposted
<1>6. ClaimableUnposted' /\ OrphanUnposted' /\ ReceiptHonest' /\ AtMostOncePerJob'
  BY <1>1, <1>2 DEF ClaimableUnposted, OrphanUnposted, ReceiptHonest, AtMostOncePerJob, Unposted
<1>7. UncheckedFailureIsClean' /\ SuccessMeansPosted' /\ Budget' /\ EntriesWithinBudget'
  BY DEF UncheckedFailureIsClean, SuccessMeansPosted, InFlight, NeedsPlatformCheck,
     Budget, EntriesWithinBudget
<1> QED
  BY <1>4, <1>5, <1>6, <1>7

(* An executor in the chain is the only claimant of its row, which nobody    *)
(* may republish unchecked; abandoning the call leaves at most one request   *)
(* that has not been answered.                                               *)
LEMMA LeavingChain ==
    ASSUME InductiveInvariant, NEW w \in Executors, NEW j \in Jobs,
           exec[w].at = "publishing", exec[w].job = j,
           Abandon(w, j) \/ UNCHANGED orphan
    PROVE  /\ exec[w].result = "none"
           /\ \A v \in Executors \ {w} : exec[v].at \in Claimant => exec[v].job # j
           /\ status[j] = "running" \/ (status[j] = "failed" /\ NeedsPlatformCheck(j))
           /\ orphan' \subseteq orphan \cup {j}
           /\ j \in orphan' => posts[j] = 0
           /\ orphan \subseteq orphan'
BY DEF InductiveInvariant, ExecutorShape, OneClaimant, ClaimedRow, ClaimantKnows, KnowsPlatform, Claimant,
   Abandon

(* Leaving the chain for good, whatever the executor does next: it knows     *)
(* nothing of the outcome, or it knows what a confirmed receipt says.        *)
LEMMA LeavesChainPreserves ==
    ASSUME InductiveInvariant, NEW w \in Executors, NEW j \in Jobs, NEW e \in Executor,
           exec[w].at = "publishing", exec[w].job = j,
           Abandon(w, j) \/ UNCHANGED orphan,
           exec' \in [Executors -> Executor],
           \A v \in Executors \ {w} : exec'[v] = exec[v],
           exec'[w] = e,
           \/ e.at = "idle"
           \/ e.at = "marking" /\ e.job = j /\ e.result = "none"
           \/ e.at = "deciding" /\ e.job = j /\ e.result \in Confirmed \cup {"unknown"},
           e.at = "deciding" /\ e.result \in Confirmed => posts[j] = 1,
           receipt'[j] \in Confirmed => posts[j] = 1,
           receipt' \in [Jobs -> Receipts],
           \A k \in Jobs \ {j} : receipt'[k] = receipt[k],
           lease' \in [Accounts -> Executors \cup {Free, Outsider}],
           UNCHANGED <<db, posts, entries>>
    PROVE  InductiveInvariant'
<1> USE DEF InductiveInvariant, db
<1>1. /\ exec[w].result = "none"
      /\ \A v \in Executors \ {w} : exec[v].at \in Claimant => exec[v].job # j
      /\ status[j] = "running" \/ (status[j] = "failed" /\ NeedsPlatformCheck(j))
      /\ orphan' \subseteq orphan \cup {j}
      /\ j \in orphan' => posts[j] = 0
      /\ orphan \subseteq orphan'
  BY LeavingChain
<1>2. TypeOK'
  BY <1>1 DEF TypeOK
<1>3. ExecutorShape' /\ OneClaimant' /\ ClaimedRow'
  BY <1>1 DEF ExecutorShape, ChainLength, OneClaimant, ClaimedRow, Claimant,
     NeedsPlatformCheck, Confirmed
<1>4. ClaimantKnows'
  BY <1>1 DEF ClaimantKnows, KnowsPlatform, Unposted, Claimant, NoEffect, Confirmed
<1>5. ClaimableUnposted' /\ OrphanUnposted' /\ ReceiptHonest' /\ AtMostOncePerJob'
  BY <1>1 DEF ClaimableUnposted, OrphanUnposted, ReceiptHonest, AtMostOncePerJob, Unposted,
     Claimable
<1>6. UncheckedFailureIsClean' /\ SuccessMeansPosted'
  BY <1>1 DEF UncheckedFailureIsClean, SuccessMeansPosted, InFlight, NeedsPlatformCheck
<1>7. Budget' /\ EntriesWithinBudget'
  BY <1>1 DEF Budget, EntriesWithinBudget, Claimant, Confirmed
<1> QED
  BY <1>2, <1>3, <1>4, <1>5, <1>6, <1>7

(* A timed-out publisher leaves a doubt or what its receipt proves. *)
LEMMA PublishTimesOutPreserves ==
    ASSUME InductiveInvariant, NEW w \in Executors, NEW j \in Jobs, PublishTimesOut(w, j)
    PROVE  InductiveInvariant'
<1>0. PICK known \in ReceiptsRead(j) :
         Moves(w, "deciding", IF known \in Confirmed THEN known ELSE "unknown")
  BY DEF PublishTimesOut
<1> DEFINE r == IF known \in Confirmed THEN known ELSE "unknown"
           e == [at |-> "deciding", job |-> exec[w].job, result |-> r,
                 turn |-> exec[w].turn, wrote |-> exec[w].wrote]
<1>1. TypeOK /\ r \in Results /\ "deciding" \in Places /\ Moves(w, "deciding", r)
  BY <1>0 DEF InductiveInvariant, TypeOK, ReceiptsRead, Receipts, Results, Places
<1>2. exec' \in [Executors -> Executor] /\ (\A v \in Executors \ {w} : exec'[v] = exec[v])
      /\ exec'[w] = e
  BY <1>1, MovesEffect
<1>3. e \in Executor
  BY <1>2
<1>4. e.at = "deciding" /\ e.job = j /\ e.result \in Confirmed \cup {"unknown"}
  BY DEF PublishTimesOut
<1>5. /\ receipt[j] \in Confirmed => posts[j] = 1
      /\ e.result \in Confirmed => receipt[j] \in Confirmed
  BY DEF InductiveInvariant, ReceiptHonest, ReceiptsRead, Confirmed
<1>6. /\ UNCHANGED <<db, receipt, posts, entries>> /\ Abandon(w, j)
      /\ receipt \in [Jobs -> Receipts]
      /\ lease' \in [Accounts -> Executors \cup {Free, Outsider}]
  BY DEF PublishTimesOut, ReleaseLease, InductiveInvariant, TypeOK
<1>7. exec[w].at = "publishing" /\ exec[w].job = j
  BY DEF PublishTimesOut
<1> HIDE DEF e
<1> QED
  BY <1>2, <1>3, <1>4, <1>5, <1>6, <1>7, LeavesChainPreserves

(* A cancelled publisher leaves a request that may still land. *)
LEMMA CancelledPublishingPreserves ==
    ASSUME InductiveInvariant, NEW w \in Executors, NEW j \in Jobs, CancelledPublishing(w, j)
    PROVE  InductiveInvariant'
<1> DEFINE e == [at |-> "marking", job |-> exec[w].job, result |-> exec[w].result,
                 turn |-> exec[w].turn, wrote |-> exec[w].wrote]
<1>1. TypeOK /\ exec[w].result \in Results /\ "marking" \in Places
      /\ Moves(w, "marking", exec[w].result)
  BY DEF InductiveInvariant, TypeOK, Executor, CancelledPublishing, Places
<1>2. exec' \in [Executors -> Executor] /\ (\A v \in Executors \ {w} : exec'[v] = exec[v])
      /\ exec'[w] = e
  BY <1>1, MovesEffect
<1>3. e \in Executor
  BY <1>2
<1>4. /\ exec[w].at = "publishing" /\ exec[w].job = j
      /\ e.at = "marking" /\ e.job = j /\ e.result = "none"
  BY DEF CancelledPublishing, InductiveInvariant, ExecutorShape
<1>5. /\ UNCHANGED <<db, receipt, posts, entries>> /\ Abandon(w, j)
      /\ receipt \in [Jobs -> Receipts]
      /\ receipt[j] \in Confirmed => posts[j] = 1
      /\ lease' \in [Accounts -> Executors \cup {Free, Outsider}]
  BY DEF CancelledPublishing, ReleaseLease, InductiveInvariant, TypeOK, ReceiptHonest
<1> HIDE DEF e
<1> QED
  BY <1>2, <1>3, <1>4, <1>5, LeavesChainPreserves

(* A publisher's answer ends the chain, or leads to the next publisher when it had no effect. *)
LEMMA PublisherReturnsPreserves ==
    ASSUME InductiveInvariant, NEW w \in Executors, NEW j \in Jobs, NEW r \in Receipts,
           PublisherReturns(w, j, r)
    PROVE  InductiveInvariant'
<1>1. /\ exec[w].at = "publishing" /\ exec[w].job = j /\ r \in Reportable(w, j)
      /\ UNCHANGED <<db, posts, entries>>
  BY DEF PublisherReturns
<1>2. /\ ~exec[w].wrote => posts[j] = 0 /\ receipt[j] \notin Confirmed
      /\ exec[w].wrote => posts[j] = 1
      /\ j \notin orphan
  BY <1>1 DEF InductiveInvariant, ClaimantKnows, KnowsPlatform, Claimant, ReceiptHonest
<1>3. /\ r \in Confirmed => posts[j] = 1
      /\ receipt[j] \in Confirmed => r \in Confirmed
      /\ r \in NoEffect => ~exec[w].wrote
  BY <1>1, <1>2 DEF Reportable, Confirmed, NoEffect, InductiveInvariant, ReceiptHonest, TypeOK
<1>4. /\ receipt' \in [Jobs -> Receipts]
      /\ \A k \in Jobs \ {j} : receipt'[k] = receipt[k]
      /\ receipt'[j] \in Confirmed => r \in Confirmed
  BY <1>3 DEF PublisherReturns, InductiveInvariant, TypeOK
<1>5. CASE EndsChain(r, exec[w].turn, ChainLength(j)) /\ r \in Confirmed \cup {"unknown"}
  <2> DEFINE e == [at |-> "deciding", job |-> exec[w].job, result |-> r,
                   turn |-> exec[w].turn, wrote |-> exec[w].wrote]
  <2>1. Moves(w, "deciding", r) /\ ReleaseLease(j) /\ (Abandon(w, j) \/ UNCHANGED orphan)
    BY <1>5 DEF PublisherReturns
  <2>2. TypeOK /\ r \in Results /\ "deciding" \in Places
    BY DEF InductiveInvariant, Receipts, Places
  <2>3. exec' \in [Executors -> Executor] /\ (\A v \in Executors \ {w} : exec'[v] = exec[v])
        /\ exec'[w] = e
    BY <2>1, <2>2, MovesEffect
  <2>4. e \in Executor
    BY <2>3
  <2>5. e.at = "deciding" /\ e.job = j /\ e.result = r
    BY <1>1
  <2>6. lease' \in [Accounts -> Executors \cup {Free, Outsider}]
    BY <2>1 DEF ReleaseLease, InductiveInvariant, TypeOK
  <2> HIDE DEF e
  <2> QED
    BY <1>1, <1>3, <1>4, <1>5, <2>1, <2>3, <2>4, <2>5, <2>6, LeavesChainPreserves
<1>6. CASE r \notin Confirmed \cup {"unknown"}
  <2> USE DEF InductiveInvariant, db
  <2>1. r \in NoEffect /\ ~exec[w].wrote /\ r # "busy" /\ r # "prewrite" /\ r # "none"
        /\ receipt'[j] \notin Confirmed /\ UNCHANGED orphan
    BY <1>1, <1>3, <1>4, <1>6 DEF Reportable, NoEffect, PublisherReturns, Confirmed
  <2>2. /\ exec[w].result = "none"
        /\ \A v \in Executors \ {w} : exec[v].at \in Claimant => exec[v].job # j
        /\ status[j] = "running" \/ (status[j] = "failed" /\ NeedsPlatformCheck(j))
    BY <1>1, <2>1, LeavingChain
  <2>3. /\ exec' \in [Executors -> Executor]
        /\ \A v \in Executors \ {w} : exec'[v] = exec[v]
        /\ exec'[w].job = j /\ exec'[w].wrote = exec[w].wrote
        /\ \/ exec'[w].at = "deciding" /\ exec'[w].result = r
           \/ /\ exec'[w].at = "publishing" /\ exec'[w].result = "none"
              /\ exec'[w].turn <= ChainLength(j)
    <3>1. CASE EndsChain(r, exec[w].turn, ChainLength(j))
      <4>1. Moves(w, "deciding", r) /\ r \in Results /\ "deciding" \in Places
        BY <3>1 DEF PublisherReturns, Receipts, Places
      <4>2. /\ exec' \in [Executors -> Executor]
            /\ \A v \in Executors \ {w} : exec'[v] = exec[v]
            /\ exec'[w] = [at |-> "deciding", job |-> exec[w].job, result |-> r,
                           turn |-> exec[w].turn, wrote |-> exec[w].wrote]
        BY <4>1, MovesEffect
      <4> QED
        BY <1>1, <4>2
    <3>2. CASE ~EndsChain(r, exec[w].turn, ChainLength(j))
      <4> DEFINE e == [at |-> "publishing", job |-> j, result |-> "none",
                       turn |-> exec[w].turn + 1, wrote |-> exec[w].wrote]
      <4>1. exec[w].turn # ChainLength(j) /\ exec[w].turn <= ChainLength(j)
            /\ ChainLength(j) \in 1..Publishers /\ exec[w].turn \in 1..Publishers
        BY <1>1, <3>2, PublishJobsAssumption
           DEF EndsChain, ExecutorShape, ChainLength, TypeOK, Executor
      <4>2. exec[w].turn + 1 \in 1..Publishers /\ exec[w].turn + 1 <= ChainLength(j)
        BY <4>1, PublishJobsAssumption
      <4>3. exec' = [exec EXCEPT ![w].turn = @ + 1]
        BY <3>2 DEF PublisherReturns
      <4>4. e \in Executor
        BY <4>2 DEF Executor, TypeOK, Places, Results
      <4>5. exec'[w] = e
        BY <1>1, <2>2, <4>3 DEF TypeOK, Executor
      <4>6. exec' = [exec EXCEPT ![w] = e]
        BY <4>3, <4>5 DEF TypeOK
      <4>7. exec' \in [Executors -> Executor] /\ \A v \in Executors \ {w} : exec'[v] = exec[v]
        BY <4>4, <4>6 DEF TypeOK
      <4> QED
        BY <4>2, <4>5, <4>7
    <3> QED
      BY <3>1, <3>2
  <2>4. TypeOK'
    <3>1. lease' \in [Accounts -> Executors \cup {Free, Outsider}]
      BY DEF PublisherReturns, ReleaseLease, TypeOK
    <3> QED
      BY <1>1, <1>4, <2>1, <2>3, <3>1 DEF TypeOK
  <2>5. ExecutorShape' /\ OneClaimant' /\ ClaimedRow'
    BY <1>1, <2>1, <2>2, <2>3 DEF ExecutorShape, ChainLength, OneClaimant, ClaimedRow,
       Claimant, NeedsPlatformCheck
  <2>6. ClaimantKnows'
    <3>1. posts[j] = 0 /\ j \notin orphan
      BY <1>2, <2>1
    <3>2. UNCHANGED <<posts, orphan>>
      BY <1>1, <2>1
    <3> SUFFICES ASSUME NEW v \in Executors, NEW k \in Jobs,
                        exec'[v].at \in Claimant, exec'[v].job = k
                 PROVE  KnowsPlatform(v, k)'
      BY DEF ClaimantKnows, KnowsPlatform
    <3>3. CASE v = w
      <4>1. /\ exec'[w].at \in {"deciding", "publishing"} /\ ~exec'[w].wrote
            /\ exec'[w].at = "deciding" => exec'[w].result = r
            /\ receipt'[j] \notin Confirmed /\ k = j
            /\ r \notin Confirmed
        BY <1>6, <2>1, <2>3, <3>3
      <4> HIDE DEF InductiveInvariant, db
      <4> QED
        BY <3>1, <3>2, <3>3, <4>1 DEF KnowsPlatform, Unposted
    <3>4. CASE v # w
      <4>1. exec'[v] = exec[v] /\ k # j /\ receipt'[k] = receipt[k]
        BY <1>4, <2>2, <2>3, <3>4
      <4> QED
        BY <3>2, <4>1 DEF ClaimantKnows, KnowsPlatform, Unposted
    <3> QED
      BY <3>3, <3>4
  <2>7. ClaimableUnposted' /\ OrphanUnposted' /\ ReceiptHonest' /\ AtMostOncePerJob'
    BY <1>1, <1>4, <2>1 DEF ClaimableUnposted, OrphanUnposted, ReceiptHonest,
       AtMostOncePerJob, Unposted
  <2>8. UncheckedFailureIsClean' /\ SuccessMeansPosted'
    BY <1>1, <2>1, <2>2, <2>3 DEF UncheckedFailureIsClean, SuccessMeansPosted, InFlight,
       NeedsPlatformCheck
  <2>9. Budget' /\ EntriesWithinBudget'
    BY <1>1, <2>1, <2>2, <2>3 DEF Budget, EntriesWithinBudget, Claimant
  <2> QED
    BY <2>4, <2>5, <2>6, <2>7, <2>8, <2>9
<1> QED
  BY <1>5, <1>6 DEF EndsChain

(* A late request lands only where nothing was posted and no verdict forbids it. *)
LEMMA OrphanLandsPreserves ==
    ASSUME InductiveInvariant, NEW j \in Jobs, OrphanLands(j)
    PROVE  InductiveInvariant'
<1> USE DEF InductiveInvariant, OrphanLands, db, host
<1>1. /\ posts[j] = 0 /\ posts'[j] = 1
      /\ \A k \in Jobs \ {j} : posts'[k] = posts[k]
      /\ orphan' = orphan \ {j}
  BY DEF OrphanUnposted, TypeOK
<1>2. TypeOK' /\ ExecutorShape' /\ OneClaimant' /\ ClaimedRow'
  BY DEF TypeOK, ExecutorShape, ChainLength, OneClaimant, ClaimedRow, NeedsPlatformCheck
<1>3. ClaimantKnows'
  BY <1>1 DEF ClaimantKnows, KnowsPlatform, Unposted, TypeOK
<1>4. ClaimableUnposted' /\ OrphanUnposted' /\ ReceiptHonest' /\ AtMostOncePerJob'
  BY <1>1 DEF ClaimableUnposted, OrphanUnposted, ReceiptHonest, AtMostOncePerJob, Unposted
<1>5. UncheckedFailureIsClean' /\ SuccessMeansPosted'
  BY <1>1 DEF UncheckedFailureIsClean, SuccessMeansPosted, InFlight, NeedsPlatformCheck
<1>6. Budget' /\ EntriesWithinBudget'
  BY DEF Budget, EntriesWithinBudget
<1> QED
  BY <1>2, <1>3, <1>4, <1>5, <1>6

-----------------------------------------------------------------------------
(* The final transaction of execute_job.                                     *)

(* A step that changes nothing but what one claimant, out of the chain, is   *)
(* doing, without making it forget or invent a result.                       *)
LEMMA OnlyMovesPreserves ==
    ASSUME InductiveInvariant, NEW w \in Executors, NEW j \in Jobs,
           NEW place \in {"committing", "marking"},
           exec[w].at \in {"deciding", "committing"}, exec[w].job = j,
           Moves(w, place, exec[w].result), UNCHANGED <<db, host, world>>
    PROVE  InductiveInvariant'
<1> USE DEF InductiveInvariant, db, host, world
<1>1. /\ exec' \in [Executors -> Executor]
      /\ \A v \in Executors \ {w} : exec'[v] = exec[v]
      /\ exec'[w].at = place /\ exec'[w].job = j
      /\ exec'[w].result = exec[w].result
  <2>1. exec[w].result \in Results /\ place \in Places
    BY DEF TypeOK, Executor, Places
  <2>2. /\ exec' \in [Executors -> Executor]
        /\ \A v \in Executors \ {w} : exec'[v] = exec[v]
        /\ exec'[w] = [at |-> place, job |-> exec[w].job, result |-> exec[w].result,
                       turn |-> exec[w].turn, wrote |-> exec[w].wrote]
    BY <2>1, MovesEffect
  <2> QED
    BY <2>2
<1>2. TypeOK'
  BY <1>1 DEF TypeOK
<1>3. ExecutorShape' /\ OneClaimant' /\ ClaimedRow'
  BY <1>1 DEF ExecutorShape, ChainLength, OneClaimant, ClaimedRow, Claimant, NeedsPlatformCheck
<1>4. ClaimantKnows'
  BY <1>1 DEF ClaimantKnows, KnowsPlatform, Unposted, Claimant
<1>5. ClaimableUnposted' /\ OrphanUnposted' /\ ReceiptHonest' /\ AtMostOncePerJob'
  BY DEF ClaimableUnposted, OrphanUnposted, ReceiptHonest, AtMostOncePerJob, Unposted
<1>6. UncheckedFailureIsClean' /\ SuccessMeansPosted'
  BY <1>1 DEF UncheckedFailureIsClean, SuccessMeansPosted, InFlight, NeedsPlatformCheck
<1>7. Budget' /\ EntriesWithinBudget'
  BY <1>1 DEF Budget, EntriesWithinBudget, Claimant
<1> QED
  BY <1>2, <1>3, <1>4, <1>5, <1>6, <1>7

(* An executor outside of the chain that lets go of its row, with everything *)
(* else unchanged, can only make the invariant easier to hold.               *)
LEMMA OnlyLetsGoPreserves ==
    ASSUME InductiveInvariant, NEW w \in Executors, LetsGo(w), UNCHANGED <<db, host, world>>
    PROVE  InductiveInvariant'
<1> USE DEF InductiveInvariant, db, host, world
<1>1. /\ exec' \in [Executors -> Executor]
      /\ \A v \in Executors \ {w} : exec'[v] = exec[v]
      /\ exec'[w].at = "idle"
  <2>1. /\ exec' \in [Executors -> Executor]
        /\ \A v \in Executors \ {w} : exec'[v] = exec[v]
        /\ exec'[w] = [at |-> "idle", job |-> NoJob, result |-> "none",
                       turn |-> 1, wrote |-> FALSE]
    BY LetsGoEffect
  <2> QED
    BY <2>1
<1>2. TypeOK'
  BY <1>1 DEF TypeOK
<1>3. ExecutorShape' /\ OneClaimant' /\ ClaimedRow' /\ ClaimantKnows'
  BY <1>1 DEF ExecutorShape, ChainLength, OneClaimant, ClaimedRow, Claimant,
     NeedsPlatformCheck, ClaimantKnows, KnowsPlatform, Unposted
<1>4. ClaimableUnposted' /\ OrphanUnposted' /\ ReceiptHonest' /\ AtMostOncePerJob'
  BY DEF ClaimableUnposted, OrphanUnposted, ReceiptHonest, AtMostOncePerJob, Unposted
<1>5. UncheckedFailureIsClean' /\ SuccessMeansPosted'
  BY <1>1 DEF UncheckedFailureIsClean, SuccessMeansPosted, InFlight, NeedsPlatformCheck
<1>6. Budget' /\ EntriesWithinBudget'
  BY <1>1 DEF Budget, EntriesWithinBudget, Claimant
<1> QED
  BY <1>2, <1>3, <1>4, <1>5, <1>6

(* Reading the status changes nothing but where the executor is. *)
LEMMA FinalReadPreserves ==
    ASSUME InductiveInvariant, NEW w \in Executors, NEW j \in Jobs, FinalRead(w, j)
    PROVE  InductiveInvariant'
<1>1. CASE status[j] = "running"
  BY <1>1, OnlyMovesPreserves DEF FinalRead
<1>2. CASE status[j] # "running"
  BY <1>2, OnlyLetsGoPreserves DEF FinalRead
<1> QED
  BY <1>1, <1>2

(* A final transaction that raises only moves its executor. *)
LEMMA FinalAbortsPreserves ==
    ASSUME InductiveInvariant, NEW w \in Executors, NEW j \in Jobs, FinalAborts(w, j)
    PROVE  InductiveInvariant'
BY OnlyMovesPreserves DEF FinalAborts

(* The final transaction writes what the claimant knows. *)
LEMMA FinalCommitPreserves ==
    ASSUME InductiveInvariant, NEW w \in Executors, NEW j \in Jobs, FinalCommit(w, j)
    PROVE  InductiveInvariant'
<1> USE DEF InductiveInvariant
<1> DEFINE r == exec[w].result
<1>1. /\ exec[w].at = "committing" /\ exec[w].job = j /\ LetsGo(w) /\ Sync(j)
      /\ status' = [status EXCEPT ![j] = FinalStatus(j, r)]
      /\ attempts' = [attempts EXCEPT ![j] = FinalAttempts(j, r)]
      /\ evidence' = [evidence EXCEPT ![j] = FinalEvidence(r)]
      /\ stale' = stale \ {j}
      /\ receipt' \in {receipt, [receipt EXCEPT ![j] = "none"]}
      /\ UNCHANGED <<timing, successor, lease, posts, orphan, entries>>
  BY DEF FinalCommit, world
<1>2. /\ exec' \in [Executors -> Executor]
      /\ \A v \in Executors \ {w} : exec'[v] = exec[v]
      /\ exec'[w].at = "idle"
  <2>1. /\ exec' \in [Executors -> Executor]
        /\ \A v \in Executors \ {w} : exec'[v] = exec[v]
        /\ exec'[w] = [at |-> "idle", job |-> NoJob, result |-> "none",
                       turn |-> 1, wrote |-> FALSE]
    BY <1>1, LetsGoEffect
  <2> QED
    BY <2>1
<1>3. \A v \in Executors \ {w} : exec[v].at \in Claimant => exec[v].job # j
  BY <1>1 DEF OneClaimant, Claimant
<1>4. /\ r \in Results \ {"none", "prewrite"}
      /\ r \in NoEffect => Unposted(j)
      /\ r \in Confirmed => posts[j] = 1
  BY <1>1 DEF TypeOK, Executor, ExecutorShape, ClaimantKnows, KnowsPlatform, Claimant
<1>5. /\ FinalAttempts(j, r) \in Nat /\ FinalAttempts(j, r) <= MaxAttempts
      /\ entries[j] <= FinalAttempts(j, r)
      /\ FinalStatus(j, r) = "retrying" => FinalAttempts(j, r) < MaxAttempts
  <2>1. /\ entries[j] \in Nat /\ attempts[j] \in Nat /\ attempts[j] <= MaxAttempts
        /\ entries[j] <= attempts[j] /\ (r = "busy" => entries[j] < attempts[j])
    BY <1>1 DEF TypeOK, EntriesWithinBudget, Budget, Claimant
  <2> HIDE DEF r
  <2> QED
    BY <2>1, PublishJobsAssumption DEF FinalAttempts, FinalStatus
<1>6. /\ FinalStatus(j, r) \in {"success", "retrying", "dead", "failed"}
      /\ FinalStatus(j, r) = "success" => posts[j] = 1
      /\ FinalStatus(j, r) = "retrying" => Unposted(j)
      /\ FinalStatus(j, r) \in Republishable /\ FinalEvidence(r) = {} => Unposted(j)
  <2> HIDE DEF InductiveInvariant, r
  <2>1. r \in {"published", "partial", "unknown", "rejected", "refused", "preview", "busy"}
    BY <1>4 DEF Results, Confirmed, NoEffect
  <2>2. CASE r = "published"
    BY <1>4, <2>2 DEF FinalStatus, Confirmed, Republishable
  <2>3. CASE r \in {"partial", "unknown"}
    <3>1. FinalStatus(j, r) = "failed"
      BY <2>3 DEF FinalStatus
    <3>2. FinalEvidence(r) # {}
      BY <2>3 DEF FinalEvidence
    <3> QED
      BY <3>1, <3>2
  <2>4. CASE r \in {"rejected", "refused", "preview", "busy"}
    <3>1. Unposted(j)
      BY <1>4, <2>4 DEF NoEffect
    <3>2. FinalStatus(j, r) \in {"retrying", "dead", "failed"}
      BY <2>4 DEF FinalStatus
    <3> QED
      BY <3>1, <3>2
  <2> QED
    BY <2>1, <2>2, <2>3, <2>4
<1>7. /\ FinalEvidence(r) \in SUBSET Evidence
      /\ FinalEvidence(r) # {} =>
            FinalEvidence(r) \cap {"outcome_uncertain", "effect_applied", "unknown_text"} # {}
  BY DEF FinalEvidence, Evidence
<1> HIDE DEF r
<1>8. /\ status'[j] = FinalStatus(j, r) /\ attempts'[j] = FinalAttempts(j, r)
      /\ evidence'[j] = FinalEvidence(r)
      /\ receipt'[j] \in {receipt[j], "none"}
      /\ \A k \in Jobs \ {j} : /\ status'[k] = status[k] /\ attempts'[k] = attempts[k]
                              /\ evidence'[k] = evidence[k] /\ receipt'[k] = receipt[k]
  BY <1>1 DEF TypeOK
<1>9. TypeOK'
  <2>1. articleStatus' \in [Articles -> ArticleStatus]
    BY <1>1, SyncType
  <2>2. gate' \in [Accounts -> Gates]
    BY DEF FinalCommit, TypeOK, Escalated, Gates
  <2>3. status' \in [Jobs -> JobStatus]
    BY <1>1, <1>6 DEF TypeOK, JobStatus, Republishable, NonTerminal
  <2>4. attempts' \in [Jobs -> Nat] /\ evidence' \in [Jobs -> SUBSET Evidence]
    BY <1>1, <1>5, <1>7 DEF TypeOK
  <2>5. receipt' \in [Jobs -> Receipts]
    BY <1>1 DEF TypeOK, Receipts, Results, NoEffect
  <2> QED
    BY <1>1, <1>2, <2>1, <2>2, <2>3, <2>4, <2>5 DEF TypeOK
<1>10. ExecutorShape' /\ OneClaimant' /\ ClaimedRow'
  BY <1>1, <1>2, <1>3, <1>8 DEF ExecutorShape, ChainLength, OneClaimant, ClaimedRow,
     Claimant, NeedsPlatformCheck
<1>11. ClaimantKnows'
  BY <1>1, <1>2, <1>3, <1>8 DEF ClaimantKnows, KnowsPlatform, Unposted, Claimant
<1>12. ClaimableUnposted' /\ OrphanUnposted' /\ ReceiptHonest' /\ AtMostOncePerJob'
  BY <1>1, <1>6, <1>8 DEF ClaimableUnposted, OrphanUnposted, ReceiptHonest,
     AtMostOncePerJob, Unposted, Claimable, Confirmed
<1>13. UncheckedFailureIsClean' /\ SuccessMeansPosted'
  BY <1>1, <1>2, <1>3, <1>6, <1>7, <1>8 DEF UncheckedFailureIsClean, SuccessMeansPosted,
     InFlight, NeedsPlatformCheck, Unposted, Claimant
<1>14. Budget' /\ EntriesWithinBudget'
  <2>1. EntriesWithinBudget'
    BY <1>1, <1>5, <1>8 DEF EntriesWithinBudget
  <2>2. Budget'
    BY <1>1, <1>2, <1>3, <1>5, <1>6, <1>8 DEF Budget, Claimable, Claimant
  <2> QED
    BY <2>1, <2>2
<1> QED
  BY <1>9, <1>10, <1>11, <1>12, <1>13, <1>14

-----------------------------------------------------------------------------
(* Marking a RUNNING row, crashes and reconciliation.                        *)

(* Whatever is known, the row demands a check afterwards, unless the claimant *)
(* was cancelled before it wrote anything.                                   *)
LEMMA MarkEvidenceNeedsCheck ==
    ASSUME NEW known \in Results
    PROVE  /\ MarkEvidence(known) \in SUBSET Evidence
           /\ known # "prewrite" =>
                MarkEvidence(known) \cap
                    {"outcome_uncertain", "effect_applied", "unknown_text"} # {}
<1>1. CASE known \in Confirmed
  BY <1>1 DEF MarkEvidence, Evidence
<1>2. CASE known \in {"none", "unknown"}
  BY <1>2 DEF MarkEvidence, Evidence, Confirmed
<1>3. CASE known = "prewrite"
  BY <1>3 DEF MarkEvidence, Confirmed
<1>4. CASE known \notin Confirmed \cup {"none", "unknown", "prewrite"}
  <2>1. MarkEvidence(known) = {"unknown_text"}
    BY <1>4 DEF MarkEvidence
  <2> QED
    BY <2>1, <1>4 DEF Evidence
<1> QED
  BY <1>1, <1>2, <1>3, <1>4

(* The conditional update of a RUNNING row by an executor w that lets go, or *)
(* by the scan, in which case every executor stays as it is.  Only the       *)
(* claimant of the row may close it without demanding a check.               *)
LEMMA MarkUncertainPreserves ==
    ASSUME InductiveInvariant, NEW j \in Jobs, NEW known \in Results,
           status[j] = "running", MarkUncertain(j, known),
           \/ UNCHANGED exec
           \/ \E w \in Executors :
                LetsGo(w) /\ exec[w].job = j /\ exec[w].at \in {"marking", "unwinding"},
           known = "prewrite" =>
              \E w \in Executors : /\ exec[w].at = "marking" /\ exec[w].job = j
                                  /\ exec[w].result = "prewrite"
                                  /\ LetsGo(w),
           UNCHANGED <<host, world>>
    PROVE  InductiveInvariant'
<1> USE DEF InductiveInvariant, host, world
<1>1. /\ exec' \in [Executors -> Executor]
      /\ \A v \in Executors : exec'[v] = exec[v] \/ exec'[v].at = "idle"
  <2>1. CASE UNCHANGED exec
    BY <2>1 DEF TypeOK
  <2>2. ASSUME NEW w \in Executors, LetsGo(w)
        PROVE  /\ exec' \in [Executors -> Executor]
               /\ \A v \in Executors : exec'[v] = exec[v] \/ exec'[v].at = "idle"
    <3>1. /\ exec' \in [Executors -> Executor]
          /\ \A v \in Executors \ {w} : exec'[v] = exec[v]
          /\ exec'[w] = [at |-> "idle", job |-> NoJob, result |-> "none",
                         turn |-> 1, wrote |-> FALSE]
      BY <2>2, LetsGoEffect
    <3> QED
      BY <3>1
  <2> QED
    BY <2>1, <2>2
<1>2. /\ Sync(j) /\ UNCHANGED <<attempts, timing, successor, gate>>
      /\ stale' = stale \ {j}
      /\ status' = [status EXCEPT ![j] = "failed"]
      /\ evidence' = [evidence EXCEPT ![j] = MarkEvidence(known)]
  BY DEF MarkUncertain
<1>3. /\ status'[j] = "failed" /\ evidence'[j] = MarkEvidence(known)
      /\ \A k \in Jobs \ {j} : status'[k] = status[k] /\ evidence'[k] = evidence[k]
  BY <1>2 DEF TypeOK
<1>4. TypeOK'
  <2>1. articleStatus' \in [Articles -> ArticleStatus]
    BY <1>2, SyncType
  <2>2. status' \in [Jobs -> JobStatus]
    BY <1>2 DEF TypeOK, JobStatus, Republishable
  <2>3. evidence' \in [Jobs -> SUBSET Evidence]
    BY <1>2, MarkEvidenceNeedsCheck DEF TypeOK
  <2> QED
    BY <1>1, <1>2, <2>1, <2>2, <2>3 DEF TypeOK
<1>5. ExecutorShape' /\ OneClaimant' /\ ClaimantKnows'
  BY <1>1, <1>2 DEF ExecutorShape, ChainLength, OneClaimant, Claimant, ClaimantKnows,
     KnowsPlatform, Unposted
<1>6. \A v \in Executors : exec'[v].at \in Claimant => exec'[v].job \in Jobs
  BY <1>5 DEF ExecutorShape, Claimant
<1>7. ClaimedRow' /\ UncheckedFailureIsClean'
  <2>1. CASE known # "prewrite"
    <3>1. NeedsPlatformCheck(j)'
      BY <1>3, <2>1, MarkEvidenceNeedsCheck DEF NeedsPlatformCheck
    <3>2. ClaimedRow'
      BY <1>1, <1>3, <1>6, <3>1 DEF ClaimedRow, NeedsPlatformCheck, Claimant
    <3>3. UncheckedFailureIsClean'
      BY <1>1, <1>3, <3>1 DEF UncheckedFailureIsClean, InFlight, NeedsPlatformCheck
    <3> QED
      BY <3>2, <3>3
  <2>2. CASE known = "prewrite"
    <3>1. PICK w \in Executors : /\ exec[w].at = "marking" /\ exec[w].job = j
                                 /\ exec[w].result = "prewrite" /\ LetsGo(w)
      BY <2>2
    <3>2. Unposted(j) /\ \A v \in Executors \ {w} : exec[v].at \in Claimant => exec[v].job # j
      BY <3>1 DEF ClaimantKnows, KnowsPlatform, OneClaimant, Claimant, NoEffect
    <3>3. exec'[w].at = "idle"
      <4>1. exec'[w] = [at |-> "idle", job |-> NoJob, result |-> "none",
                        turn |-> 1, wrote |-> FALSE]
        BY <3>1, LetsGoEffect
      <4> QED
        BY <4>1
    <3>4. \A v \in Executors : exec'[v].at \in Claimant => exec'[v].job # j
      BY <1>1, <3>2, <3>3 DEF Claimant
    <3>5. ClaimedRow'
      BY <1>1, <1>3, <1>6, <3>4 DEF ClaimedRow, NeedsPlatformCheck, Claimant
    <3>6. UncheckedFailureIsClean'
      BY <1>1, <1>3, <3>2, <3>4 DEF UncheckedFailureIsClean, InFlight, NeedsPlatformCheck,
         Unposted, Claimant
    <3> QED
      BY <3>5, <3>6
  <2> QED
    BY <2>1, <2>2
<1>8. ClaimableUnposted' /\ OrphanUnposted' /\ ReceiptHonest' /\ AtMostOncePerJob'
      /\ SuccessMeansPosted'
  BY <1>3 DEF ClaimableUnposted, OrphanUnposted, ReceiptHonest, AtMostOncePerJob, Unposted,
     SuccessMeansPosted, Claimable
<1>9. Budget' /\ EntriesWithinBudget'
  BY <1>1, <1>2, <1>3 DEF Budget, EntriesWithinBudget, Claimable, Claimant
<1> QED
  BY <1>4, <1>5, <1>7, <1>8, <1>9

(* Closing a stale row never hides a post. *)
LEMMA ReconcilePreserves ==
    ASSUME InductiveInvariant, NEW j \in Jobs, Reconcile(j)
    PROVE  InductiveInvariant'
<1>1. PICK known \in ReceiptsRead(j) : MarkUncertain(j, known)
  BY DEF Reconcile
<1>2. known \in Results /\ known # "prewrite"
  BY <1>1 DEF ReceiptsRead, InductiveInvariant, TypeOK, Receipts, Results
<1> QED
  BY <1>1, <1>2, MarkUncertainPreserves DEF Reconcile

(* Marking a row uncertain never hides a post. *)
LEMMA MarkPreserves ==
    ASSUME InductiveInvariant, NEW w \in Executors, NEW j \in Jobs, Mark(w, j)
    PROVE  InductiveInvariant'
<1>1. CASE UNCHANGED db
  BY <1>1, OnlyLetsGoPreserves DEF Mark
<1>2. ASSUME status[j] = "running",
             NEW known \in IF exec[w].result = "none" THEN ReceiptsRead(j)
                           ELSE {exec[w].result},
             MarkUncertain(j, known)
      PROVE  InductiveInvariant'
  <2>1. known \in Results
    BY DEF ReceiptsRead, InductiveInvariant, TypeOK, Receipts, Results, Executor
  <2>2. known = "prewrite" => exec[w].result = "prewrite" /\ exec[w].at = "marking"
    BY DEF ReceiptsRead, InductiveInvariant, TypeOK, Receipts, ExecutorShape, Mark
  <2> QED
    BY <1>2, <2>1, <2>2, MarkUncertainPreserves DEF Mark
<1> QED
  BY <1>1, <1>2 DEF Mark

(* A crash leaves the row, the sidecar and perhaps a late request. *)
LEMMA CrashPreserves ==
    ASSUME InductiveInvariant, NEW w \in Executors, Crash(w)
    PROVE  InductiveInvariant'
<1>1. CASE exec[w].at # "publishing"
  BY <1>1, OnlyLetsGoPreserves DEF Crash, host, world
<1>2. CASE exec[w].at = "publishing"
  <2> DEFINE j == exec[w].job
             e == [at |-> "idle", job |-> NoJob, result |-> "none", turn |-> 1, wrote |-> FALSE]
  <2>1. TypeOK /\ j \in Jobs
    BY <1>2 DEF InductiveInvariant, ExecutorShape
  <2>2. exec' \in [Executors -> Executor] /\ (\A v \in Executors \ {w} : exec'[v] = exec[v])
        /\ exec'[w] = e
    BY <2>1, LetsGoEffect DEF Crash
  <2>3. e \in Executor
    BY <2>2
  <2>4. e.at = "idle"
    OBVIOUS
  <2>5. /\ UNCHANGED <<db, receipt, posts, entries>> /\ Abandon(w, j)
        /\ receipt \in [Jobs -> Receipts]
        /\ receipt[j] \in Confirmed => posts[j] = 1
        /\ lease' \in [Accounts -> Executors \cup {Free, Outsider}]
    BY <1>2, <2>1 DEF Crash, ReleaseLease, InductiveInvariant, TypeOK, ReceiptHonest
  <2> HIDE DEF e
  <2> QED
    BY <1>2, <2>1, <2>2, <2>3, <2>4, <2>5, LeavesChainPreserves
<1> QED
  BY <1>1, <1>2

-----------------------------------------------------------------------------
(* Steps of the operators, the clock and others.                             *)

(* Steps that touch nothing the invariant reads, types apart.                *)
LEMMA UnrelatedPreserves ==
    ASSUME InductiveInvariant, TypeOK',
           UNCHANGED <<status, attempts, evidence, receipt, exec, world>>,
           \A j \in Jobs : (timing'[j] = "none") = (timing[j] = "none")
    PROVE  InductiveInvariant'
<1> USE DEF InductiveInvariant, world
<1>1. ExecutorShape' /\ OneClaimant' /\ ClaimedRow'
  BY DEF ExecutorShape, ChainLength, OneClaimant, ClaimedRow, NeedsPlatformCheck
<1>2. ClaimableUnposted' /\ ClaimantKnows' /\ OrphanUnposted' /\ ReceiptHonest'
  BY DEF ClaimableUnposted, ClaimantKnows, KnowsPlatform, OrphanUnposted, ReceiptHonest, Unposted
<1>3. AtMostOncePerJob' /\ UncheckedFailureIsClean' /\ SuccessMeansPosted'
  BY DEF AtMostOncePerJob, UncheckedFailureIsClean, SuccessMeansPosted, InFlight,
     NeedsPlatformCheck
<1>4. Budget' /\ EntriesWithinBudget'
  BY DEF Budget, EntriesWithinBudget
<1> QED
  BY <1>1, <1>2, <1>3, <1>4

(* Outsiders of the lease, the gate and the passing of time touch no row's outcome. *)
LEMMA SurroundingsPreserve ==
    ASSUME InductiveInvariant,
           \/ \E j \in Jobs : PlannedTimeComes(j) \/ GrowsStale(j)
           \/ \E a \in Shared : OutsiderTakes(a) \/ OutsiderReleases(a)
           \/ \E a \in Shared, g \in Gates : GateChanges(a, g)
    PROVE  InductiveInvariant'
<1> USE DEF InductiveInvariant, host, world, db
<1>1. ASSUME NEW j \in Jobs, PlannedTimeComes(j) PROVE InductiveInvariant'
  <2>1. TypeOK' /\ \A k \in Jobs : (timing'[k] = "none") = (timing[k] = "none")
    BY <1>1 DEF PlannedTimeComes, TypeOK
  <2> QED
    BY <1>1, <2>1, UnrelatedPreserves DEF PlannedTimeComes
<1>2. ASSUME NEW j \in Jobs, GrowsStale(j) PROVE InductiveInvariant'
  <2>1. TypeOK'
    BY <1>2 DEF GrowsStale, TypeOK
  <2> QED
    BY <1>2, <2>1, UnrelatedPreserves DEF GrowsStale
<1>3. ASSUME NEW a \in Shared, OutsiderTakes(a) \/ OutsiderReleases(a)
      PROVE  InductiveInvariant'
  <2>1. TypeOK'
    BY <1>3 DEF OutsiderTakes, OutsiderReleases, TypeOK
  <2> QED
    BY <1>3, <2>1, UnrelatedPreserves DEF OutsiderTakes, OutsiderReleases
<1>4. ASSUME NEW a \in Shared, NEW g \in Gates, GateChanges(a, g)
      PROVE  InductiveInvariant'
  <2>1. TypeOK'
    BY <1>4 DEF GateChanges, TypeOK
  <2> QED
    BY <1>4, <2>1, UnrelatedPreserves DEF GateChanges
<1> QED
  BY <1>1, <1>2, <1>3, <1>4

(* New PENDING rows are a clean slate, whoever creates them.                 *)
LEMMA NewRowsPreserve ==
    ASSUME InductiveInvariant, NEW rows \in SUBSET Jobs, TypeOK',
           \A j \in rows : status[j] = "absent" /\ status'[j] = "pending",
           \A j \in Jobs \ rows : status'[j] = status[j] /\ timing'[j] = timing[j],
           UNCHANGED <<attempts, evidence, stale, gate, exec, host, world>>
    PROVE  InductiveInvariant'
<1> USE DEF InductiveInvariant, host, world
<1>1. \A j \in rows, v \in Executors : exec[v].at \in Claimant => exec[v].job # j
  BY ClaimableUnclaimed
<1>2. ExecutorShape' /\ OneClaimant' /\ ClaimedRow'
  BY <1>1 DEF ExecutorShape, ChainLength, OneClaimant, ClaimedRow, NeedsPlatformCheck, Claimant
<1>3. ClaimableUnposted' /\ ClaimantKnows' /\ OrphanUnposted' /\ ReceiptHonest'
  BY DEF ClaimableUnposted, ClaimantKnows, KnowsPlatform, OrphanUnposted, ReceiptHonest, Unposted
<1>4. AtMostOncePerJob' /\ UncheckedFailureIsClean' /\ SuccessMeansPosted'
  BY DEF AtMostOncePerJob, UncheckedFailureIsClean, SuccessMeansPosted, InFlight,
     NeedsPlatformCheck, Republishable
<1>5. Budget' /\ EntriesWithinBudget'
  <2>1. EntriesWithinBudget'
    BY DEF EntriesWithinBudget
  <2>2. Budget'
    BY PublishJobsAssumption DEF Budget, Claimable
  <2> QED
    BY <2>1, <2>2
<1> QED
  BY <1>2, <1>3, <1>4, <1>5

(* Fresh rows have no post and no history. *)
LEMMA FanOutPreserves ==
    ASSUME InductiveInvariant, NEW a \in Articles, NEW rows \in SUBSET Jobs,
           NEW when \in {"none", "future"}, FanOut(a, rows, when)
    PROVE  InductiveInvariant'
<1>1. TypeOK'
  BY DEF InductiveInvariant, FanOut, TypeOK, JobStatus, NonTerminal, ArticleStatus, host, world
<1> QED
  BY <1>1, NewRowsPreserve DEF FanOut

(* A replacement is a fresh row, and the row it replaces is closed. *)
LEMMA RepublishPreserves ==
    ASSUME InductiveInvariant, NEW old \in Jobs, NEW new \in Jobs, NEW checked \in BOOLEAN,
           Republish(old, new, checked)
    PROVE  InductiveInvariant'
<1>1. TypeOK'
  BY DEF InductiveInvariant, Republish, TypeOK, JobStatus, NonTerminal, host, world
<1>2. /\ status[new] = "absent" /\ status'[new] = "pending"
      /\ \A j \in Jobs \ {new} : status'[j] = status[j] /\ timing'[j] = timing[j]
      /\ UNCHANGED <<attempts, evidence, stale, gate, exec, host, world>>
  BY DEF Republish, InductiveInvariant, TypeOK
<1> QED
  BY <1>1, <1>2, NewRowsPreserve

-----------------------------------------------------------------------------
(* The induction.                                                            *)

(* Every step preserves the invariant: one case per action of the system.    *)
LEMMA StepPreserves ==
    ASSUME InductiveInvariant, [Next]_vars
    PROVE  InductiveInvariant'
<1>1. CASE UNCHANGED vars
  <2>1. TypeOK' /\ UNCHANGED <<status, attempts, evidence, timing, receipt, exec, world>>
    BY <1>1 DEF vars, world, InductiveInvariant, TypeOK
  <2> QED
    BY <2>1, UnrelatedPreserves
<1>2. CASE \E a \in Articles, rows \in SUBSET Jobs : Distribute(a, rows) \/ Schedule(a, rows)
  BY <1>2, FanOutPreserves DEF Distribute, Schedule
<1>3. ASSUME NEW w \in Executors, NEW j \in Jobs, Start(w, j)
      PROVE  InductiveInvariant'
  BY <1>3, ClaimPreserves, ClaimDeferredPreserves, ClaimRefusedPreserves DEF Start
<1>4. ASSUME NEW w \in Executors, NEW j \in Jobs, Proceed(w, j)
      PROVE  InductiveInvariant'
  BY <1>4, TakeLeasePreserves, StopsWaitingPreserves, PlatformAcceptsPreserves,
     AdapterJournalsPreserves, PublisherReturnsPreserves, PublishTimesOutPreserves,
     FinalReadPreserves, FinalCommitPreserves, MarkPreserves DEF Proceed
<1>5. ASSUME NEW w \in Executors, NEW j \in Jobs, Interrupt(w, j)
      PROVE  InductiveInvariant'
  BY <1>5, ClaimAbortsPreserves, FinalAbortsPreserves, StopsWaitingPreserves,
     CancelledPublishingPreserves DEF Interrupt
<1>6. CASE \E w \in Executors : Crash(w)
  BY <1>6, CrashPreserves
<1>7. CASE \E j \in Jobs : \/ PlannedTimeComes(j) \/ OrphanLands(j) \/ GrowsStale(j)
                           \/ Reconcile(j)
  BY <1>7, SurroundingsPreserve, OrphanLandsPreserves, ReconcilePreserves
<1>8. CASE \E old, new \in Jobs, checked \in BOOLEAN : Republish(old, new, checked)
  BY <1>8, RepublishPreserves
<1>9. CASE \/ \E a \in Shared : OutsiderTakes(a) \/ OutsiderReleases(a)
           \/ \E a \in Shared, g \in Gates : GateChanges(a, g)
  BY <1>9, SurroundingsPreserve
<1> QED
  BY <1>1, <1>2, <1>3, <1>4, <1>5, <1>6, <1>7, <1>8, <1>9 DEF Next

(* The strengthening is an invariant of the pipeline.                        *)
THEOREM InvariantHolds == Spec => []InductiveInvariant
<1>1. InductiveInvariant /\ [Next]_vars => InductiveInvariant'
  BY StepPreserves
<1> QED
  BY InitInvariant, <1>1, PTL DEF Spec

(* Every column and file of the pipeline keeps its type.                     *)
THEOREM TypesHold == Spec => []TypeOK
<1>1. InductiveInvariant => TypeOK
  BY DEF InductiveInvariant
<1> QED
  BY <1>1, InvariantHolds, PTL

(* A row is posted at most once, for any number of executors, publishers and *)
(* attempts: the claim, the fallback, the timeouts and the reconciliation of *)
(* worker.py together never let a second request out.                        *)
THEOREM PostedAtMostOnce == Spec => []AtMostOncePerJob
<1>1. InductiveInvariant => AtMostOncePerJob
  BY DEF InductiveInvariant
<1> QED
  BY <1>1, InvariantHolds, PTL

(* A failure that republish_job lets pass without platform_checked was never *)
(* posted and never will be.                                                 *)
THEOREM UncheckedRepublishIsSafe == Spec => []UncheckedFailureIsClean
<1>1. InductiveInvariant => UncheckedFailureIsClean
  BY DEF InductiveInvariant
<1> QED
  BY <1>1, InvariantHolds, PTL

(* SUCCESS is recorded only for a post that exists.                          *)
THEOREM SuccessIsPosted == Spec => []SuccessMeansPosted
<1>1. InductiveInvariant => SuccessMeansPosted
  BY DEF InductiveInvariant
<1> QED
  BY <1>1, InvariantHolds, PTL

(* However often lock contention gives an attempt back, a row enters the     *)
(* chain of publishers at most max_attempts times.                           *)
THEOREM AttemptsBoundEntries == Spec => []EntriesWithinBudget
<1>1. InductiveInvariant => EntriesWithinBudget
  BY DEF InductiveInvariant
<1> QED
  BY <1>1, InvariantHolds, PTL

\* The executor that is about to close the row does not know the outcome.
Doubted(j) ==
    \E w \in Executors : /\ exec[w].at = "committing" /\ exec[w].job = j
                         /\ exec[w].result = "unknown"

(* A receipt that proves an effect is only dropped with a row that is closed *)
(* with the proof, or in doubt by an executor that did not know.             *)
LEMMA StepKeepsProof ==
    ASSUME InductiveInvariant, [Next]_vars, NEW j \in Jobs,
           receipt[j] \in Confirmed, receipt'[j] \notin Confirmed
    PROVE  \/ ClosedWithProof(j)'
           \/ Doubted(j) /\ ClosedInDoubt(j)'
<1> USE DEF InductiveInvariant
<1>1. receipt' # receipt
  OBVIOUS
<1>2. ASSUME NEW w \in Executors, NEW k \in Jobs, Claim(w, k)
      PROVE  FALSE
  <2>1. k = j
    BY <1>2 DEF Claim, TypeOK
  <2> QED
    BY <1>2, <2>1 DEF Claim, CanClaim, ClaimableUnposted, Unposted, ReceiptHonest
<1>3. ASSUME NEW w \in Executors, NEW k \in Jobs, NEW r \in Confirmed, AdapterJournals(w, k, r)
      PROVE  FALSE
  BY <1>3 DEF AdapterJournals, TypeOK
<1>4. ASSUME NEW w \in Executors, NEW k \in Jobs, NEW r \in Receipts, PublisherReturns(w, k, r)
      PROVE  FALSE
  <2>1. k = j /\ receipt'[j] = r /\ r \in Reportable(w, k)
    BY <1>1, <1>4 DEF PublisherReturns, TypeOK
  <2> QED
    BY <2>1 DEF Reportable
<1>5. ASSUME NEW w \in Executors, NEW k \in Jobs, FinalCommit(w, k)
      PROVE  ClosedWithProof(j)' \/ (Doubted(j) /\ ClosedInDoubt(j)')
  <2> DEFINE r == exec[w].result
  <2>1. /\ exec[w].at = "committing" /\ exec[w].job = j
        /\ status' = [status EXCEPT ![j] = FinalStatus(j, r)]
        /\ evidence' = [evidence EXCEPT ![j] = FinalEvidence(r)]
    <3>1. k = j
      BY <1>1, <1>5 DEF FinalCommit, TypeOK
    <3> QED
      BY <1>5, <3>1 DEF FinalCommit
  <2>2. r \in Confirmed \cup {"unknown"}
    BY <2>1 DEF ClaimantKnows, KnowsPlatform, Claimant
  <2>3. status'[j] = FinalStatus(j, r) /\ evidence'[j] = FinalEvidence(r)
    BY <2>1 DEF TypeOK
  <2>4. CASE r = "published"
    BY <2>3, <2>4 DEF FinalStatus, ClosedWithProof
  <2>5. CASE r = "partial"
    <3>1. FinalStatus(j, r) = "failed" /\ FinalEvidence(r) = {"effect_applied"}
      BY <2>5 DEF FinalStatus, FinalEvidence
    <3> QED
      BY <2>3, <3>1 DEF ClosedWithProof, Republishable
  <2>6. CASE r = "unknown"
    <3>1. FinalStatus(j, r) = "failed" /\ "outcome_uncertain" \in FinalEvidence(r)
      BY <2>6 DEF FinalStatus, FinalEvidence
    <3> QED
      BY <2>1, <2>3, <2>6, <3>1 DEF Doubted, ClosedInDoubt, Republishable
  <2> QED
    BY <2>2, <2>4, <2>5, <2>6 DEF Confirmed
<1>6. ASSUME NEW w \in Executors, NEW k \in Jobs, Start(w, k)
      PROVE  FALSE
  BY <1>1, <1>2, <1>6 DEF Start, ClaimDeferred, ClaimRefused, host
<1>7. ASSUME NEW w \in Executors, NEW k \in Jobs, Proceed(w, k)
      PROVE  \E v \in Executors, i \in Jobs : FinalCommit(v, i)
  BY <1>1, <1>3, <1>4, <1>7 DEF Proceed, TakeLease, LeaseUnavailable, PlatformAccepts,
     PublishTimesOut, FinalRead, Mark, host
<1>8. ASSUME NEW w \in Executors, NEW k \in Jobs, Interrupt(w, k)
      PROVE  FALSE
  BY <1>1, <1>8 DEF Interrupt, ClaimAborts, FinalAborts, CancelledWaiting,
     CancelledPublishing, host
<1>9. CASE \/ UNCHANGED vars
           \/ \E a \in Articles, rows \in SUBSET Jobs : Distribute(a, rows) \/ Schedule(a, rows)
           \/ \E w \in Executors : Crash(w)
           \/ \E k \in Jobs : \/ PlannedTimeComes(k) \/ OrphanLands(k) \/ GrowsStale(k)
                              \/ Reconcile(k)
           \/ \E old, new \in Jobs, checked \in BOOLEAN : Republish(old, new, checked)
           \/ \E a \in Shared : OutsiderTakes(a) \/ OutsiderReleases(a)
           \/ \E a \in Shared, g \in Gates : GateChanges(a, g)
  BY <1>1, <1>9 DEF vars, Distribute, Schedule, FanOut, Crash, PlannedTimeComes, OrphanLands,
     GrowsStale, Reconcile, Republish, OutsiderTakes, OutsiderReleases, GateChanges, host
<1> QED
  BY <1>5, <1>6, <1>7, <1>8, <1>9 DEF Next

(* The sidecar that proves a post is dropped by nothing but the end of the   *)
(* attempt it belongs to, and then the row is closed with the proof, or, if  *)
(* the sidecar could not be read at the timeout, with a flag that demands a  *)
(* look at the platform, whoever else marked the row meanwhile.              *)
THEOREM LostProofsAreFlagged == Spec => LostProofIsFlagged
<1>1. InductiveInvariant /\ [Next]_vars =>
         [\A j \in Jobs :
             receipt[j] \in Confirmed /\ receipt'[j] \notin Confirmed
             => \/ ClosedWithProof(j)'
                \/ /\ \E w \in Executors : /\ exec[w].at = "committing" /\ exec[w].job = j
                                           /\ exec[w].result = "unknown"
                   /\ ClosedInDoubt(j)']_vars
  BY StepKeepsProof DEF Doubted
<1> QED
  BY <1>1, InvariantHolds, PTL DEF Spec, LostProofIsFlagged

-----------------------------------------------------------------------------
(* The status of an article follows its rows.                                *)

(* A row that does not exist yet has no successor, so a row that comes into  *)
(* being is live; with that, ArticleFollowsJobs is inductive.                *)
AbsentIsFresh == \A j \in Jobs : status[j] = "absent" => successor[j] = NoJob

ArticleInvariant == AbsentIsFresh /\ ArticleFollowsJobs

(* Only the rows of an article matter to it.                                 *)
LEMMA OthersDoNotCount ==
    ASSUME NEW a \in Articles, ArticleFollowsJobs, articleStatus'[a] = articleStatus[a],
           \A j \in Jobs : ArticleOf[j] = a =>
              status'[j] = status[j] /\ successor'[j] = successor[j]
    PROVE  \/ \E j \in Jobs : ArticleOf[j] = a /\ status'[j] = "pending" /\ successor'[j] = NoJob
           \/ articleStatus'[a] = Aggregate(a, status)'
<1>1. Live(a, status)' = Live(a, status)
  BY DEF Live
<1>2. Aggregate(a, status)' = Aggregate(a, status)
  BY <1>1 DEF Aggregate
<1> QED
  BY <1>2 DEF ArticleFollowsJobs

(* Where a transaction sets one row and synchronises its article, the article *)
(* is right afterwards, whatever was set.                                    *)
LEMMA SyncFollows ==
    ASSUME TypeOK, ArticleInvariant, NEW j \in Jobs, NEW s, s # "absent",
           status[j] # "absent", status' = [status EXCEPT ![j] = s], Sync(j),
           successor' = successor
    PROVE  ArticleInvariant'
<1>1. /\ ArticleOf[j] \in Articles /\ status'[j] = s
      /\ \A k \in Jobs \ {j} : status'[k] = status[k]
  BY PublishJobsAssumption DEF TypeOK
<1>2. AbsentIsFresh'
  BY <1>1 DEF ArticleInvariant, AbsentIsFresh
<1>3. ASSUME NEW a \in Articles
      PROVE  \/ \E k \in Jobs : ArticleOf[k] = a /\ status'[k] = "pending" /\ successor'[k] = NoJob
             \/ articleStatus'[a] = Aggregate(a, status)'
  <2>1. CASE a = ArticleOf[j]
    <3>1. articleStatus'[a] = Aggregate(a, status')
      BY <2>1 DEF Sync, TypeOK
    <3>2. Live(a, status)' = Live(a, status')
      BY DEF Live
    <3> QED
      BY <3>1, <3>2 DEF Aggregate
  <2>2. CASE a # ArticleOf[j]
    <3>1. articleStatus'[a] = articleStatus[a]
      BY <1>1, <2>2 DEF Sync, TypeOK
    <3> QED
      BY <1>1, <2>2, <3>1, OthersDoNotCount DEF ArticleInvariant
  <2> QED
    BY <2>1, <2>2
<1> QED
  BY <1>2, <1>3 DEF ArticleInvariant, ArticleFollowsJobs

(* New rows keep their article waiting for them.                             *)
LEMMA NewRowsFollow ==
    ASSUME ArticleInvariant, NEW a \in Articles, NEW rows \in SUBSET Jobs, rows # {},
           \A j \in rows : /\ ArticleOf[j] = a /\ status'[j] = "pending"
                           /\ status[j] = "absent" /\ successor'[j] = successor[j],
           \A j \in Jobs \ rows :
              /\ status'[j] = status[j]
              /\ status[j] = "absent" \/ ArticleOf[j] # a => successor'[j] = successor[j],
           \A b \in Articles \ {a} : articleStatus'[b] = articleStatus[b]
    PROVE  ArticleInvariant'
<1>1. AbsentIsFresh'
  BY DEF ArticleInvariant, AbsentIsFresh
<1>2. ASSUME NEW b \in Articles
      PROVE  \/ \E k \in Jobs : ArticleOf[k] = b /\ status'[k] = "pending" /\ successor'[k] = NoJob
             \/ articleStatus'[b] = Aggregate(b, status)'
  <2>1. CASE a = b
    BY <2>1 DEF ArticleInvariant, AbsentIsFresh
  <2>2. CASE a # b
    BY <2>2, OthersDoNotCount DEF ArticleInvariant
  <2> QED
    BY <2>1, <2>2
<1> QED
  BY <1>1, <1>2 DEF ArticleInvariant, ArticleFollowsJobs

LEMMA ArticleStays ==
    ASSUME ArticleInvariant, UNCHANGED <<status, successor, articleStatus>>
    PROVE  ArticleInvariant'
<1>1. AbsentIsFresh'
  BY DEF ArticleInvariant, AbsentIsFresh
<1>2. ASSUME NEW a \in Articles
      PROVE  \/ \E k \in Jobs : ArticleOf[k] = a /\ status'[k] = "pending" /\ successor'[k] = NoJob
             \/ articleStatus'[a] = Aggregate(a, status)'
  BY OthersDoNotCount DEF ArticleInvariant
<1> QED
  BY <1>1, <1>2 DEF ArticleInvariant, ArticleFollowsJobs

LEMMA StartFollows ==
    ASSUME TypeOK, ArticleInvariant, NEW w \in Executors, NEW j \in Jobs, Start(w, j)
    PROVE  ArticleInvariant'
<1>1. status[j] # "absent" /\ Sync(j) /\ successor' = successor
  BY DEF Start, Claim, ClaimDeferred, ClaimRefused, CanClaim, Claimable
<1>2. \E s : s # "absent" /\ status' = [status EXCEPT ![j] = s]
  BY DEF Start, Claim, ClaimDeferred, ClaimRefused
<1> QED
  BY <1>1, <1>2, SyncFollows

LEMMA MarkUncertainFollows ==
    ASSUME TypeOK, ArticleInvariant, NEW j \in Jobs, status[j] # "absent", NEW known,
           MarkUncertain(j, known)
    PROVE  ArticleInvariant'
BY SyncFollows DEF MarkUncertain

(* FinalCommit writes without a condition, but only a row that was claimed.  *)
LEMMA FinalCommitFollows ==
    ASSUME InductiveInvariant, ArticleInvariant, NEW w \in Executors, NEW j \in Jobs,
           FinalCommit(w, j)
    PROVE  ArticleInvariant'
<1> DEFINE s == FinalStatus(j, exec[w].result)
<1>1. status' = [status EXCEPT ![j] = s] /\ Sync(j) /\ successor' = successor
  BY DEF FinalCommit
<1>2. s # "absent"
  BY DEF FinalStatus
<1>3. status[j] # "absent"
  BY DEF FinalCommit, InductiveInvariant, ClaimedRow, Claimant
<1> HIDE DEF s
<1> QED
  BY <1>1, <1>2, <1>3, SyncFollows DEF InductiveInvariant

LEMMA ProceedFollows ==
    ASSUME InductiveInvariant, ArticleInvariant, NEW w \in Executors, NEW j \in Jobs,
           Proceed(w, j)
    PROVE  ArticleInvariant'
<1>1. CASE FinalCommit(w, j)
  BY <1>1, FinalCommitFollows
<1>2. CASE Mark(w, j)
  <2>1. CASE UNCHANGED db
    BY <2>1, ArticleStays DEF db
  <2>2. ASSUME NEW known, status[j] = "running", MarkUncertain(j, known)
        PROVE  ArticleInvariant'
    BY <2>2, MarkUncertainFollows DEF InductiveInvariant
  <2> QED
    BY <1>2, <2>1, <2>2 DEF Mark
<1>3. CASE \/ TakeLease(w, j) \/ LeaseUnavailable(w, j) \/ PlatformAccepts(w, j)
           \/ \E r \in Confirmed : AdapterJournals(w, j, r)
           \/ \E r \in Receipts : PublisherReturns(w, j, r)
           \/ PublishTimesOut(w, j) \/ FinalRead(w, j)
  <2>1. UNCHANGED db
    BY <1>3 DEF TakeLease, LeaseUnavailable, PlatformAccepts, AdapterJournals, PublisherReturns,
       PublishTimesOut, FinalRead
  <2> QED
    BY <2>1, ArticleStays DEF db
<1> QED
  BY <1>1, <1>2, <1>3 DEF Proceed

LEMMA StepFollows ==
    ASSUME InductiveInvariant, ArticleInvariant, [Next]_vars
    PROVE  ArticleInvariant'
<1>1. CASE UNCHANGED vars
  BY <1>1, ArticleStays DEF vars
<1>2. ASSUME NEW a \in Articles, NEW rows \in SUBSET Jobs, NEW when, FanOut(a, rows, when)
      PROVE  ArticleInvariant'
  <2>1. \A b \in Articles \ {a} : articleStatus'[b] = articleStatus[b]
    BY <1>2 DEF FanOut, InductiveInvariant, TypeOK
  <2>2. successor' = successor /\ rows # {}
    BY <1>2 DEF FanOut
  <2>3. \A j \in rows : ArticleOf[j] = a /\ status'[j] = "pending" /\ status[j] = "absent"
    BY <1>2 DEF FanOut
  <2>4. \A j \in Jobs \ rows : status'[j] = status[j]
    BY <1>2 DEF FanOut
  <2> QED
    BY <2>1, <2>2, <2>3, <2>4, NewRowsFollow
<1>3. ASSUME NEW w \in Executors, NEW j \in Jobs, Start(w, j) PROVE ArticleInvariant'
  BY <1>3, StartFollows DEF InductiveInvariant
<1>4. ASSUME NEW w \in Executors, NEW j \in Jobs, Proceed(w, j) PROVE ArticleInvariant'
  BY <1>4, ProceedFollows
<1>5. ASSUME NEW w \in Executors, NEW j \in Jobs, Interrupt(w, j) PROVE ArticleInvariant'
  BY <1>5, ArticleStays
     DEF Interrupt, ClaimAborts, FinalAborts, CancelledWaiting, CancelledPublishing, db
<1>6. CASE \E w \in Executors : Crash(w)
  BY <1>6, ArticleStays DEF Crash, db
<1>7. CASE \E j \in Jobs : PlannedTimeComes(j) \/ OrphanLands(j) \/ GrowsStale(j)
  BY <1>7, ArticleStays DEF PlannedTimeComes, OrphanLands, GrowsStale, db
<1>8. ASSUME NEW j \in Jobs, Reconcile(j) PROVE ArticleInvariant'
  BY <1>8, MarkUncertainFollows DEF Reconcile, InductiveInvariant
<1>9. ASSUME NEW old \in Jobs, NEW new \in Jobs, NEW checked, Republish(old, new, checked)
      PROVE  ArticleInvariant'
  <2>1. /\ status[new] = "absent" /\ status[old] # "absent" /\ old # new
        /\ ArticleOf[new] = ArticleOf[old] /\ ArticleOf[new] \in Articles
        /\ articleStatus' = articleStatus
    BY <1>9, PublishJobsAssumption DEF Republish, Republishable
  <2>2. status'[new] = "pending" /\ \A j \in Jobs \ {new} : status'[j] = status[j]
    BY <1>9 DEF Republish, InductiveInvariant, TypeOK
  <2>3. \A j \in Jobs \ {old} : successor'[j] = successor[j]
    BY <1>9 DEF Republish, InductiveInvariant, TypeOK
  <2> DEFINE rows == {new}
  <2>4. /\ rows # {} /\ rows \in SUBSET Jobs
        /\ \A j \in rows : /\ ArticleOf[j] = ArticleOf[new] /\ status'[j] = "pending"
                           /\ status[j] = "absent" /\ successor'[j] = successor[j]
        /\ \A j \in Jobs \ rows :
              /\ status'[j] = status[j]
              /\ status[j] = "absent" \/ ArticleOf[j] # ArticleOf[new]
                    => successor'[j] = successor[j]
    BY <2>1, <2>2, <2>3
  <2> HIDE DEF rows
  <2> QED
    BY <2>1, <2>4, NewRowsFollow
<1>10. CASE \/ \E a \in Shared : OutsiderTakes(a) \/ OutsiderReleases(a)
            \/ \E a \in Shared, g \in Gates : GateChanges(a, g)
  BY <1>10, ArticleStays DEF OutsiderTakes, OutsiderReleases, GateChanges, db
<1>11. CASE \E a \in Articles, rows \in SUBSET Jobs : Distribute(a, rows) \/ Schedule(a, rows)
  BY <1>2, <1>11 DEF Distribute, Schedule
<1> QED
  BY <1>1, <1>3, <1>4, <1>5, <1>6, <1>7, <1>8, <1>9, <1>10, <1>11 DEF Next

(* Every transaction that moves a row takes the article along: no order of   *)
(* claims, outcomes, reconciliations and republications leaves an article    *)
(* with a status that its live rows do not give it.                          *)
THEOREM ArticlesFollow == Spec => []ArticleFollowsJobs
<1>1. Init => ArticleInvariant
  <2> SUFFICES ASSUME Init PROVE ArticleInvariant
    OBVIOUS
  <2>1. \A a \in Articles : Live(a, status) = {}
    BY DEF Init, Live
  <2> QED
    BY <2>1 DEF Init, ArticleInvariant, AbsentIsFresh, ArticleFollowsJobs, Aggregate
<1>2. InductiveInvariant /\ ArticleInvariant /\ [Next]_vars => ArticleInvariant'
  BY StepFollows
<1>3. ArticleInvariant => ArticleFollowsJobs
  BY DEF ArticleInvariant
<1> QED
  BY <1>1, <1>2, <1>3, InvariantHolds, PTL DEF Spec

-----------------------------------------------------------------------------
(* PublishJobs implements PublishOnce: a proof of KeepsContract.             *)

(* A step that touches one row at most changes its phase and verdict alone.  *)
LEMMA OneRowChanges ==
    ASSUME NEW j \in Jobs,
           \A k \in Jobs \ {j} : status'[k] = status[k] /\ evidence'[k] = evidence[k]
    PROVE  /\ [k \in Jobs |-> Phase(k)]' = [[k \in Jobs |-> Phase(k)] EXCEPT ![j] = Phase(j)']
           /\ [k \in Jobs |-> Verdict(k)]'
                 = [[k \in Jobs |-> Verdict(k)] EXCEPT ![j] = Verdict(j)']
<1>1. \A k \in Jobs \ {j} : Phase(k)' = Phase(k) /\ Verdict(k)' = Verdict(k)
  BY DEF Phase, Verdict, NeedsPlatformCheck
<1> QED
  BY <1>1

(* A step that leaves the rows alone leaves every phase and verdict alone.   *)
LEMMA RowsUnchanged ==
    ASSUME UNCHANGED <<status, evidence>>
    PROVE  UNCHANGED <<[k \in Jobs |-> Phase(k)], [k \in Jobs |-> Verdict(k)]>>
BY DEF Phase, Verdict, NeedsPlatformCheck

(* The phases and verdicts a status stands for.                              *)
LEMMA PhaseOfStatus ==
    ASSUME NEW j \in Jobs
    PROVE  /\ status[j] = "absent" => Phase(j) = "none" /\ Verdict(j) = "none"
           /\ status[j] \in Claimable => Phase(j) = "open" /\ Verdict(j) = "none"
           /\ status[j] = "running" => Phase(j) = "running" /\ Verdict(j) = "none"
           /\ status[j] = "success" => Phase(j) = "closed" /\ Verdict(j) = "published"
           /\ status[j] \in Republishable /\ NeedsPlatformCheck(j)
                 => Phase(j) = "closed" /\ Verdict(j) = "doubtful"
           /\ status[j] \in Republishable /\ ~NeedsPlatformCheck(j)
                 => Phase(j) = "closed" /\ Verdict(j) = "clean"
<1>1. /\ status[j] = "absent" => Phase(j) = "none" /\ Verdict(j) = "none"
      /\ status[j] \in Claimable => Phase(j) = "open" /\ Verdict(j) = "none"
  BY DEF Phase, Verdict, Claimable, Republishable
<1>2. /\ status[j] = "running" => Phase(j) = "running" /\ Verdict(j) = "none"
      /\ status[j] = "success" => Phase(j) = "closed" /\ Verdict(j) = "published"
  BY DEF Phase, Verdict, Claimable, Republishable
<1>3. status[j] \in Republishable => Phase(j) = "closed"
  BY DEF Phase, Claimable, Republishable
<1>4. /\ status[j] \in Republishable /\ NeedsPlatformCheck(j) => Verdict(j) = "doubtful"
      /\ status[j] \in Republishable /\ ~NeedsPlatformCheck(j) => Verdict(j) = "clean"
  BY DEF Verdict, Republishable
<1> QED
  BY <1>1, <1>2, <1>3, <1>4

(* Both specifications start with unposted rows. *)
LEMMA RefinementInit == Init => Contract!Init
<1> SUFFICES ASSUME Init PROVE Contract!Init
  OBVIOUS
<1>1. \A j \in Jobs : Phase(j) = "none" /\ Verdict(j) = "none"
  BY PhaseOfStatus DEF Init
<1>2. MayStillPost = {}
  BY DEF Init, MayStillPost, Idle
<1> QED
  BY <1>1, <1>2 DEF Init, Contract!Init

-----------------------------------------------------------------------------
(* Which requests may still arrive.                                          *)

(* Executors that were and stay out of the chain have none under way.        *)
LEMMA PendingUnchanged ==
    ASSUME UNCHANGED orphan,
           \A v \in Executors :
              \/ exec'[v] = exec[v]
              \/ exec[v].at # "publishing" /\ exec'[v].at # "publishing"
    PROVE  MayStillPost' = MayStillPost
BY DEF MayStillPost

(* A request of a row with a claimant out of the chain was already settled.  *)
LEMMA SettledNotPending ==
    ASSUME InductiveInvariant, NEW j \in Jobs, j \notin orphan,
           \A v \in Executors : exec[v].at = "publishing" => exec[v].job # j
    PROVE  j \notin MayStillPost
BY DEF MayStillPost

(* A step the contract does not see.                                         *)
LEMMA Stutters ==
    ASSUME UNCHANGED <<status, evidence, posts>>, MayStillPost' = MayStillPost
    PROVE  UNCHANGED Contract!vars
BY RowsUnchanged DEF Contract!vars

-----------------------------------------------------------------------------
(* The steps of the pipeline, as steps of the contract.                      *)

(* A claim is the contract's step into a run. *)
LEMMA ClaimRuns ==
    ASSUME InductiveInvariant, NEW w \in Executors, NEW j \in Jobs, Claim(w, j)
    PROVE  Contract!Run(j)
<1>1. /\ status[j] \in Claimable /\ status'[j] = "running"
      /\ \A k \in Jobs \ {j} : status'[k] = status[k] /\ evidence'[k] = evidence[k]
      /\ UNCHANGED <<posts, orphan>>
  BY DEF Claim, CanClaim, InductiveInvariant, TypeOK, world
<1>2. Unposted(j) /\ \A v \in Executors : exec[v].at \in Claimant => exec[v].job # j
  BY <1>1, ClaimableUnclaimed DEF InductiveInvariant, ClaimableUnposted
<1>3. j \notin MayStillPost
  BY <1>2, SettledNotPending DEF Unposted, Claimant
<1>4. MayStillPost' = MayStillPost
  <2>1. /\ \A v \in Executors \ {w} : exec'[v] = exec[v]
        /\ exec'[w] = [at |-> "leasing", job |-> j, result |-> "none",
                       turn |-> 1, wrote |-> FALSE]
        /\ exec[w].at = "idle"
    BY BeginsEffect DEF Claim, Places, InductiveInvariant
  <2> QED
    BY <1>1, <2>1, PendingUnchanged
<1>5. Phase(j) = "open" /\ Phase(j)' = "running" /\ Verdict(j) = "none" /\ Verdict(j)' = "none"
  BY <1>1, PhaseOfStatus DEF Phase, Verdict, Claimable, Republishable
<1>6. /\ [k \in Jobs |-> Phase(k)]' = [[k \in Jobs |-> Phase(k)] EXCEPT ![j] = "running"]
      /\ [k \in Jobs |-> Verdict(k)]' = [k \in Jobs |-> Verdict(k)]
  BY <1>1, <1>5, OneRowChanges
<1> QED
  BY <1>1, <1>2, <1>3, <1>4, <1>5, <1>6 DEF Contract!Run, Unposted

(* Closing a row: the status it had let the outcome be decided, and what is  *)
(* decided is true of the platform.                                          *)
LEMMA RowCloses ==
    ASSUME NEW j \in Jobs,
           \/ status[j] \in NonTerminal
           \/ status[j] = "failed" /\ NeedsPlatformCheck(j),
           status'[j] \in {"success", "failed", "dead"},
           status'[j] = "success" => posts[j] = 1,
           status'[j] # "success" /\ ~NeedsPlatformCheck(j)'
              => posts[j] = 0 /\ j \notin MayStillPost,
           \A k \in Jobs \ {j} : status'[k] = status[k] /\ evidence'[k] = evidence[k],
           UNCHANGED posts, MayStillPost' = MayStillPost
    PROVE  \E v \in {"published", "clean", "doubtful"} : Contract!Close(j, v)
<1>1. Phase(j) # "none" /\ Verdict(j) \in {"none", "doubtful"}
  BY PhaseOfStatus DEF NonTerminal, Claimable, Republishable
<1>2. PICK v \in {"published", "clean", "doubtful"} :
         /\ Phase(j)' = "closed" /\ Verdict(j)' = v
         /\ v = "published" => status'[j] = "success"
         /\ v = "clean" => status'[j] # "success" /\ ~NeedsPlatformCheck(j)'
  BY DEF Phase, Verdict, Claimable, Republishable
<1>3. /\ [k \in Jobs |-> Phase(k)]' = [[k \in Jobs |-> Phase(k)] EXCEPT ![j] = "closed"]
      /\ [k \in Jobs |-> Verdict(k)]' = [[k \in Jobs |-> Verdict(k)] EXCEPT ![j] = v]
  BY <1>2, OneRowChanges
<1> QED
  BY <1>1, <1>2, <1>3 DEF Contract!Close

(* A refusal closes the contract's row. *)
LEMMA ClaimRefusedCloses ==
    ASSUME InductiveInvariant, NEW w \in Executors, NEW j \in Jobs, ClaimRefused(w, j)
    PROVE  \E v \in {"published", "clean", "doubtful"} : Contract!Close(j, v)
<1>1. /\ status[j] \in Claimable /\ status'[j] = "failed"
      /\ \A k \in Jobs \ {j} : status'[k] = status[k] /\ evidence'[k] = evidence[k]
      /\ UNCHANGED <<posts, orphan, exec>>
  BY DEF ClaimRefused, CanClaim, InductiveInvariant, TypeOK, world
<1>2. Unposted(j) /\ \A v \in Executors : exec[v].at \in Claimant => exec[v].job # j
  BY <1>1, ClaimableUnclaimed DEF InductiveInvariant, ClaimableUnposted
<1>3. j \notin MayStillPost
  BY <1>2, SettledNotPending DEF Unposted, Claimant
<1>4. MayStillPost' = MayStillPost
  BY <1>1, PendingUnchanged
<1> QED
  BY <1>1, <1>2, <1>3, <1>4, RowCloses DEF Unposted, Claimable, NonTerminal

(* A deferral is invisible in the contract. *)
LEMMA ClaimDeferredStutters ==
    ASSUME InductiveInvariant, NEW w \in Executors, NEW j \in Jobs, ClaimDeferred(w, j)
    PROVE  UNCHANGED Contract!vars
<1>1. /\ status[j] \in Claimable /\ status'[j] = "retrying"
      /\ \A k \in Jobs \ {j} : status'[k] = status[k] /\ evidence'[k] = evidence[k]
      /\ UNCHANGED <<posts, orphan, exec>>
  BY DEF ClaimDeferred, CanClaim, InductiveInvariant, TypeOK, world
<1>2. Phase(j)' = Phase(j) /\ Verdict(j)' = Verdict(j)
  BY <1>1 DEF Phase, Verdict, Claimable, Republishable
<1>3. UNCHANGED <<[k \in Jobs |-> Phase(k)], [k \in Jobs |-> Verdict(k)]>>
  BY <1>1, <1>2, OneRowChanges
<1> QED
  BY <1>1, <1>3, PendingUnchanged DEF Contract!vars

(* Entering the publishers is the contract's sending. *)
LEMMA TakeLeaseSends ==
    ASSUME InductiveInvariant, NEW w \in Executors, NEW j \in Jobs, TakeLease(w, j)
    PROVE  Contract!Send(j)
<1>1. /\ exec[w].at = "leasing" /\ exec[w].job = j
      /\ UNCHANGED <<status, evidence, posts, orphan>>
  BY DEF TakeLease, db
<1>2. /\ \A v \in Executors \ {w} : exec'[v] = exec[v]
      /\ exec'[w].at = "publishing" /\ exec'[w].job = j /\ exec'[w].wrote = FALSE
  <2>1. TypeOK /\ Moves(w, "publishing", "none") /\ exec[w].wrote = FALSE
    BY <1>1 DEF InductiveInvariant, ExecutorShape, TypeOK, Executor, TakeLease
  <2>2. "publishing" \in Places /\ "none" \in Results
    BY DEF Places, Results
  <2>3. /\ \A v \in Executors \ {w} : exec'[v] = exec[v]
        /\ exec'[w] = [at |-> "publishing", job |-> exec[w].job, result |-> "none",
                       turn |-> exec[w].turn, wrote |-> exec[w].wrote]
    BY <2>1, <2>2, MovesEffect
  <2> QED
    BY <1>1, <2>1, <2>3
<1>3. MayStillPost' = MayStillPost \cup {j}
  BY <1>1, <1>2 DEF MayStillPost
<1>4. posts[j] = 0 /\ (status[j] = "running" \/ (status[j] = "failed" /\ NeedsPlatformCheck(j)))
  BY <1>1 DEF InductiveInvariant, ClaimantKnows, KnowsPlatform, ClaimedRow, Claimant, Unposted
<1>5. Phase(j) # "none" /\ Verdict(j) \in {"none", "doubtful"}
  BY <1>4, PhaseOfStatus DEF Republishable
<1>6. UNCHANGED <<[k \in Jobs |-> Phase(k)], [k \in Jobs |-> Verdict(k)]>>
  BY <1>1, RowsUnchanged
<1> QED
  BY <1>1, <1>3, <1>4, <1>5, <1>6 DEF Contract!Send

(* The platform's acceptance is the contract's post. *)
LEMMA PlatformAcceptsPosts ==
    ASSUME InductiveInvariant, NEW w \in Executors, NEW j \in Jobs, PlatformAccepts(w, j)
    PROVE  Contract!Post(j)
<1>1. /\ exec[w].at = "publishing" /\ exec[w].job = j /\ exec[w].wrote = FALSE
      /\ posts' = [posts EXCEPT ![j] = @ + 1]
      /\ UNCHANGED <<status, evidence, orphan>>
  BY DEF PlatformAccepts, db, InductiveInvariant, TypeOK, Executor
<1>2. /\ j \notin orphan
      /\ \A v \in Executors \ {w} : exec[v].at \in Claimant => exec[v].job # j
  BY <1>1 DEF InductiveInvariant, ClaimantKnows, KnowsPlatform, OneClaimant, Claimant
<1>3. /\ \A v \in Executors \ {w} : exec'[v] = exec[v]
      /\ exec'[w].at = "publishing" /\ exec'[w].job = j /\ exec'[w].wrote = TRUE
  BY <1>1 DEF PlatformAccepts, InductiveInvariant, TypeOK, Executor
<1>4. j \in MayStillPost /\ MayStillPost' = MayStillPost \ {j}
  BY <1>1, <1>2, <1>3 DEF MayStillPost, Claimant
<1> QED
  BY <1>1, <1>4, RowsUnchanged DEF Contract!Post

(* A late landing is the contract's post. *)
LEMMA OrphanLandsPosts ==
    ASSUME InductiveInvariant, NEW j \in Jobs, OrphanLands(j)
    PROVE  Contract!Post(j)
<1>1. /\ j \in orphan /\ orphan' = orphan \ {j}
      /\ posts' = [posts EXCEPT ![j] = @ + 1]
      /\ UNCHANGED <<status, evidence, exec>>
  BY DEF OrphanLands, db
<1>2. \A v \in Executors : exec[v].at = "publishing" => exec[v].job # j
  BY <1>1 DEF InductiveInvariant, ClaimantKnows, KnowsPlatform, Claimant
<1>3. j \in MayStillPost /\ MayStillPost' = MayStillPost \ {j}
  BY <1>1, <1>2 DEF MayStillPost
<1> QED
  BY <1>1, <1>3, RowsUnchanged DEF Contract!Post

(* An executor that leaves the chain takes its request back or abandons it.  *)
LEMMA LeavingLoses ==
    ASSUME InductiveInvariant, NEW w \in Executors, NEW j \in Jobs,
           exec[w].at = "publishing", exec[w].job = j,
           Abandon(w, j) \/ UNCHANGED orphan,
           \A v \in Executors \ {w} : exec'[v] = exec[v],
           exec'[w].at # "publishing",
           UNCHANGED <<status, evidence, posts>>
    PROVE  Contract!Lose(j) \/ UNCHANGED Contract!vars
<1>1. \A v \in Executors \ {w} : exec[v].at = "publishing" => exec[v].job # j
  BY LeavingChain DEF Claimant
<1>2. MayStillPost' = MayStillPost \/ MayStillPost' = MayStillPost \ {j}
  <2>1. CASE UNCHANGED orphan /\ exec[w].wrote
    BY <2>1 DEF MayStillPost
  <2>2. CASE UNCHANGED orphan /\ ~exec[w].wrote
    <3>1. j \notin orphan
      BY DEF InductiveInvariant, ClaimantKnows, KnowsPlatform, Claimant
    <3> QED
      BY <1>1, <2>2, <3>1 DEF MayStillPost
  <2>3. CASE ~exec[w].wrote /\ orphan' = orphan \cup {j}
    BY <1>1, <2>3 DEF MayStillPost
  <2> QED
    BY <2>1, <2>2, <2>3 DEF Abandon
<1>3. UNCHANGED <<[k \in Jobs |-> Phase(k)], [k \in Jobs |-> Verdict(k)], posts>>
  BY RowsUnchanged
<1> QED
  BY <1>2, <1>3 DEF Contract!Lose, Contract!vars

(* A publisher's answer stutters, or gives the request up. *)
LEMMA PublisherReturnsLoses ==
    ASSUME InductiveInvariant, NEW w \in Executors, NEW j \in Jobs, NEW r \in Receipts,
           PublisherReturns(w, j, r)
    PROVE  Contract!Lose(j) \/ UNCHANGED Contract!vars
<1>1. /\ exec[w].at = "publishing" /\ exec[w].job = j /\ (Abandon(w, j) \/ UNCHANGED orphan)
      /\ UNCHANGED <<status, evidence, posts>>
  BY DEF PublisherReturns, db
<1>2. CASE EndsChain(r, exec[w].turn, ChainLength(j))
  <2>1. TypeOK /\ Moves(w, "deciding", r) /\ "deciding" \in Places /\ r \in Results
    BY <1>2 DEF PublisherReturns, InductiveInvariant, Places, Receipts
  <2>2. /\ \A v \in Executors \ {w} : exec'[v] = exec[v]
        /\ exec'[w] = [at |-> "deciding", job |-> exec[w].job, result |-> r,
                       turn |-> exec[w].turn, wrote |-> exec[w].wrote]
    BY <2>1, MovesEffect
  <2>3. exec'[w].at # "publishing"
    BY <2>2
  <2> QED
    BY <1>1, <2>2, <2>3, LeavingLoses
<1>3. CASE ~EndsChain(r, exec[w].turn, ChainLength(j))
  <2>1. exec' = [exec EXCEPT ![w].turn = @ + 1] /\ UNCHANGED orphan
    BY <1>3 DEF PublisherReturns, EndsChain
  <2>2. \A v \in Executors : /\ exec'[v].at = exec[v].at /\ exec'[v].job = exec[v].job
                             /\ exec'[v].wrote = exec[v].wrote
    BY <2>1 DEF InductiveInvariant, TypeOK, Executor
  <2>3. MayStillPost' = MayStillPost
    BY <2>1, <2>2 DEF MayStillPost
  <2> QED
    BY <1>1, <2>3, Stutters
<1> QED
  BY <1>2, <1>3

(* An interrupted chain stutters, or gives the request up. *)
LEMMA ChainInterruptionLoses ==
    ASSUME InductiveInvariant, NEW w \in Executors, NEW j \in Jobs,
           PublishTimesOut(w, j) \/ CancelledPublishing(w, j)
    PROVE  Contract!Lose(j) \/ UNCHANGED Contract!vars
<1>1. /\ exec[w].at = "publishing" /\ exec[w].job = j /\ Abandon(w, j)
      /\ UNCHANGED <<status, evidence, posts>>
  BY DEF PublishTimesOut, CancelledPublishing, db
<1>2. PICK place \in {"deciding", "marking"}, result \in Results : Moves(w, place, result)
  <2>1. /\ ReceiptsRead(j) \subseteq Results
        /\ "unknown" \in Results /\ exec[w].result \in Results
    BY DEF InductiveInvariant, TypeOK, ReceiptsRead, Receipts, Results, Executor
  <2> QED
    BY <2>1 DEF PublishTimesOut, CancelledPublishing
<1>3. /\ \A v \in Executors \ {w} : exec'[v] = exec[v]
      /\ exec'[w].at = place
  <2>1. TypeOK /\ place \in Places
    BY DEF InductiveInvariant, Places
  <2>2. /\ \A v \in Executors \ {w} : exec'[v] = exec[v]
        /\ exec'[w] = [at |-> place, job |-> exec[w].job, result |-> result,
                       turn |-> exec[w].turn, wrote |-> exec[w].wrote]
    BY <1>2, <2>1, MovesEffect
  <2> QED
    BY <2>2
<1> QED
  BY <1>1, <1>3, LeavingLoses

(* A crash stutters, or gives the request up. *)
LEMMA CrashLoses ==
    ASSUME InductiveInvariant, NEW w \in Executors, Crash(w)
    PROVE  \/ \E j \in Jobs : Contract!Lose(j)
           \/ UNCHANGED Contract!vars
<1>1. /\ \A v \in Executors \ {w} : exec'[v] = exec[v]
      /\ exec'[w].at = "idle"
      /\ UNCHANGED <<status, evidence, posts>>
  <2>1. /\ \A v \in Executors \ {w} : exec'[v] = exec[v]
        /\ exec'[w] = [at |-> "idle", job |-> NoJob, result |-> "none",
                       turn |-> 1, wrote |-> FALSE]
    BY LetsGoEffect DEF Crash, InductiveInvariant
  <2> QED
    BY <2>1 DEF Crash, db
<1>2. CASE exec[w].at = "publishing"
  <2>1. exec[w].job \in Jobs /\ Abandon(w, exec[w].job)
    BY <1>2 DEF InductiveInvariant, ExecutorShape, Crash
  <2> QED
    BY <1>1, <1>2, <2>1, LeavingLoses
<1>3. CASE exec[w].at # "publishing"
  <2>1. UNCHANGED orphan
    BY <1>3 DEF Crash
  <2>2. MayStillPost' = MayStillPost
    BY <1>1, <1>3, <2>1, PendingUnchanged
  <2> QED
    BY <1>1, <2>2, Stutters
<1> QED
  BY <1>2, <1>3

(* The final transaction resolves the contract's row. *)
LEMMA FinalCommitResolves ==
    ASSUME InductiveInvariant, NEW w \in Executors, NEW j \in Jobs, FinalCommit(w, j)
    PROVE  \/ Contract!Reopen(j)
           \/ \E v \in {"published", "clean", "doubtful"} : Contract!Close(j, v)
<1> DEFINE r == exec[w].result
<1>1. /\ exec[w].at = "committing" /\ exec[w].job = j /\ LetsGo(w)
      /\ status' = [status EXCEPT ![j] = FinalStatus(j, r)]
      /\ evidence' = [evidence EXCEPT ![j] = FinalEvidence(r)]
      /\ UNCHANGED <<posts, orphan>>
  BY DEF FinalCommit, world
<1>2. InductiveInvariant'
  BY FinalCommitPreserves
<1>3. /\ status'[j] = FinalStatus(j, r)
      /\ \A k \in Jobs \ {j} : status'[k] = status[k] /\ evidence'[k] = evidence[k]
  BY <1>1 DEF InductiveInvariant, TypeOK
<1>4. \A v \in Executors \ {w} : exec[v].at \in Claimant => exec[v].job # j
  BY <1>1 DEF InductiveInvariant, OneClaimant, Claimant
<1>5. /\ \A v \in Executors \ {w} : exec'[v] = exec[v]
      /\ exec'[w] = [at |-> "idle", job |-> NoJob, result |-> "none",
                     turn |-> 1, wrote |-> FALSE]
  BY <1>1, LetsGoEffect DEF InductiveInvariant
<1>6. MayStillPost' = MayStillPost
  BY <1>1, <1>5, PendingUnchanged
<1>7. j \notin orphan => j \notin MayStillPost
  BY <1>1, <1>4, SettledNotPending DEF Claimant
<1>8. status[j] = "running" \/ (status[j] = "failed" /\ NeedsPlatformCheck(j))
  BY <1>1 DEF InductiveInvariant, ClaimedRow, Claimant
<1>9. FinalStatus(j, r) \in {"success", "retrying", "dead", "failed"}
  BY DEF FinalStatus
<1> HIDE DEF r
<1>10. CASE status'[j] = "retrying"
  <2>1. posts[j] = 0 /\ j \notin MayStillPost
    BY <1>1, <1>2, <1>7, <1>10 DEF InductiveInvariant, ClaimableUnposted, Claimable, Unposted
  <2>2. Phase(j) \in {"running", "closed"} /\ Verdict(j) \in {"none", "doubtful"}
    BY <1>8, PhaseOfStatus DEF Republishable
  <2>3. Phase(j)' = "open" /\ Verdict(j)' = "none"
    BY <1>10 DEF Phase, Verdict, Claimable, Republishable
  <2>4. /\ [k \in Jobs |-> Phase(k)]' = [[k \in Jobs |-> Phase(k)] EXCEPT ![j] = "open"]
        /\ [k \in Jobs |-> Verdict(k)]' = [[k \in Jobs |-> Verdict(k)] EXCEPT ![j] = "none"]
    BY <1>3, <2>3, OneRowChanges
  <2> QED
    BY <1>1, <1>6, <2>1, <2>2, <2>4 DEF Contract!Reopen
<1>11. CASE status'[j] # "retrying"
  <2>1. status'[j] \in {"success", "failed", "dead"}
    BY <1>3, <1>9, <1>11
  <2>2. status'[j] = "success" => posts[j] = 1
    BY <1>1, <1>2 DEF InductiveInvariant, SuccessMeansPosted
  <2>3. status'[j] # "success" /\ ~NeedsPlatformCheck(j)' => posts[j] = 0 /\ j \notin MayStillPost
    BY <1>1, <1>2, <1>7, <2>1
       DEF InductiveInvariant, UncheckedFailureIsClean, Republishable, InFlight
  <2> QED
    BY <1>1, <1>3, <1>6, <1>8, <2>1, <2>2, <2>3, RowCloses DEF NonTerminal
<1> QED
  BY <1>10, <1>11

(* Marking a RUNNING row closes it with an honest verdict, whoever marks it. *)
LEMMA MarkUncertainCloses ==
    ASSUME InductiveInvariant, InductiveInvariant', NEW j \in Jobs, NEW known \in Results,
           status[j] = "running", MarkUncertain(j, known), UNCHANGED <<posts, orphan>>,
           \A v \in Executors :
              \/ exec'[v] = exec[v]
              \/ exec[v].at # "publishing" /\ exec'[v].at # "publishing"
    PROVE  \E v \in {"published", "clean", "doubtful"} : Contract!Close(j, v)
<1>1. /\ status'[j] = "failed"
      /\ \A k \in Jobs \ {j} : status'[k] = status[k] /\ evidence'[k] = evidence[k]
  BY DEF MarkUncertain, InductiveInvariant, TypeOK
<1>2. MayStillPost' = MayStillPost
  BY PendingUnchanged
<1>3. ~NeedsPlatformCheck(j)' => posts[j] = 0 /\ j \notin MayStillPost
  BY <1>1, <1>2 DEF InductiveInvariant, UncheckedFailureIsClean, Republishable, InFlight,
     MayStillPost
<1> QED
  BY <1>1, <1>2, <1>3, RowCloses DEF NonTerminal

(* A mark closes the contract's row with a doubt, or is invisible. *)
LEMMA MarkCloses ==
    ASSUME InductiveInvariant, NEW w \in Executors, NEW j \in Jobs, Mark(w, j)
    PROVE  \/ \E v \in {"published", "clean", "doubtful"} : Contract!Close(j, v)
           \/ UNCHANGED Contract!vars
<1>1. /\ exec[w].at # "publishing" /\ UNCHANGED <<posts, orphan>> /\ LetsGo(w)
  BY DEF Mark, world
<1>2. \A v \in Executors :
         \/ exec'[v] = exec[v]
         \/ exec[v].at # "publishing" /\ exec'[v].at # "publishing"
  <2>1. /\ \A v \in Executors \ {w} : exec'[v] = exec[v]
        /\ exec'[w] = [at |-> "idle", job |-> NoJob, result |-> "none",
                       turn |-> 1, wrote |-> FALSE]
    BY <1>1, LetsGoEffect DEF InductiveInvariant
  <2> QED
    BY <1>1, <2>1
<1>3. CASE UNCHANGED db
  BY <1>1, <1>2, <1>3, PendingUnchanged, Stutters DEF db
<1>4. ASSUME status[j] = "running",
             NEW known \in IF exec[w].result = "none" THEN ReceiptsRead(j)
                           ELSE {exec[w].result},
             MarkUncertain(j, known)
      PROVE  \E v \in {"published", "clean", "doubtful"} : Contract!Close(j, v)
  <2>1. known \in Results
    BY DEF ReceiptsRead, InductiveInvariant, TypeOK, Receipts, Results, Executor
  <2>2. InductiveInvariant'
    BY MarkPreserves
  <2> QED
    BY <1>1, <1>2, <1>4, <2>1, <2>2, MarkUncertainCloses
<1> QED
  BY <1>3, <1>4 DEF Mark

(* A reconciliation closes the contract's row with a doubt, or is invisible. *)
LEMMA ReconcileCloses ==
    ASSUME InductiveInvariant, NEW j \in Jobs, Reconcile(j)
    PROVE  \E v \in {"published", "clean", "doubtful"} : Contract!Close(j, v)
<1>1. PICK known \in ReceiptsRead(j) : MarkUncertain(j, known)
  BY DEF Reconcile
<1>2. known \in Results
  BY DEF ReceiptsRead, InductiveInvariant, TypeOK, Receipts, Results
<1>3. InductiveInvariant'
  BY ReconcilePreserves
<1> QED
  BY <1>1, <1>2, <1>3, MarkUncertainCloses DEF Reconcile, world

(* New rows are opened together.                                             *)
LEMMA NewRowsOpen ==
    ASSUME NEW rows \in SUBSET Jobs,
           \A j \in rows : status[j] = "absent" /\ status'[j] = "pending",
           \A j \in Jobs \ rows : status'[j] = status[j],
           UNCHANGED <<evidence, exec, posts, orphan>>
    PROVE  Contract!Open(rows)
<1>1. \A j \in rows : /\ Phase(j) = "none" /\ Phase(j)' = "open"
                      /\ Verdict(j) = "none" /\ Verdict(j)' = "none"
  BY DEF Phase, Verdict, Claimable, Republishable
<1>2. \A j \in Jobs \ rows : Phase(j)' = Phase(j) /\ Verdict(j)' = Verdict(j)
  BY DEF Phase, Verdict, NeedsPlatformCheck
<1>3. [j \in Jobs |-> Phase(j)]' = [j \in Jobs |-> IF j \in rows THEN "open" ELSE Phase(j)]
  BY <1>1, <1>2
<1>4. UNCHANGED [j \in Jobs |-> Verdict(j)]
  BY <1>1, <1>2
<1>5. MayStillPost' = MayStillPost
  BY PendingUnchanged
<1> QED
  BY <1>1, <1>3, <1>4, <1>5 DEF Contract!Open

-----------------------------------------------------------------------------
(* Every step of the pipeline is a step of the contract or a stutter.        *)
LEMMA RefinementStep ==
    ASSUME InductiveInvariant, [Next]_vars
    PROVE  [Contract!Next]_(Contract!vars)
<1> USE DEF Contract!Next
<1>1. ASSUME UNCHANGED vars PROVE UNCHANGED Contract!vars
  BY <1>1, PendingUnchanged, Stutters DEF vars
<1>2. ASSUME NEW a \in Articles, NEW rows \in SUBSET Jobs, Distribute(a, rows) \/ Schedule(a, rows)
      PROVE  Contract!Open(rows)
  BY <1>2, NewRowsOpen DEF Distribute, Schedule, FanOut, world
<1>3. ASSUME NEW old \in Jobs, NEW new \in Jobs, NEW checked \in BOOLEAN,
             Republish(old, new, checked)
      PROVE  Contract!Open({new})
  <2>1. /\ status[new] = "absent" /\ status'[new] = "pending"
        /\ \A j \in Jobs \ {new} : status'[j] = status[j]
        /\ UNCHANGED <<evidence, exec, posts, orphan>>
    BY <1>3 DEF Republish, world, InductiveInvariant, TypeOK
  <2> QED
    BY <2>1, NewRowsOpen
<1>4. ASSUME NEW w \in Executors, NEW j \in Jobs, Start(w, j)
      PROVE  Contract!Next \/ UNCHANGED Contract!vars
  BY <1>4, ClaimRuns, ClaimRefusedCloses, ClaimDeferredStutters DEF Start
<1>5. ASSUME NEW w \in Executors, NEW j \in Jobs,
             \/ LeaseUnavailable(w, j) \/ CancelledWaiting(w, j) \/ ClaimAborts(w, j)
             \/ FinalAborts(w, j) \/ FinalRead(w, j)
      PROVE  UNCHANGED Contract!vars
  <2>1. UNCHANGED <<status, evidence, posts, orphan>> /\ exec[w].at # "publishing"
    BY <1>5 DEF LeaseUnavailable, CancelledWaiting, ClaimAborts, FinalAborts, FinalRead, db, world
  <2>2. /\ \A v \in Executors \ {w} : exec'[v] = exec[v]
        /\ exec'[w].at # "publishing"
    <3>1. TypeOK /\ exec[w].result \in Results /\ {"busy", "prewrite"} \subseteq Results
          /\ {"deciding", "marking", "committing", "unwinding"} \subseteq Places
      BY DEF InductiveInvariant, TypeOK, Executor, Results, NoEffect, Places
    <3>2. CASE LetsGo(w)
      <4>1. /\ \A v \in Executors \ {w} : exec'[v] = exec[v]
            /\ exec'[w] = [at |-> "idle", job |-> NoJob, result |-> "none",
                           turn |-> 1, wrote |-> FALSE]
        BY <3>1, <3>2, LetsGoEffect
      <4> QED
        BY <4>1
    <3>3. CASE Begins(w, j, "unwinding")
      <4>1. /\ \A v \in Executors \ {w} : exec'[v] = exec[v]
            /\ exec'[w] = [at |-> "unwinding", job |-> j, result |-> "none",
                           turn |-> 1, wrote |-> FALSE]
        BY <3>1, <3>3, BeginsEffect
      <4> QED
        BY <4>1
    <3>4. ASSUME NEW place \in {"deciding", "marking", "committing"},
                 NEW result \in {exec[w].result, "busy", "prewrite"},
                 Moves(w, place, result)
          PROVE  /\ \A v \in Executors \ {w} : exec'[v] = exec[v]
                 /\ exec'[w].at # "publishing"
      <4>1. /\ \A v \in Executors \ {w} : exec'[v] = exec[v]
            /\ exec'[w] = [at |-> place, job |-> exec[w].job, result |-> result,
                           turn |-> exec[w].turn, wrote |-> exec[w].wrote]
        BY <3>1, <3>4, MovesEffect
      <4> QED
        BY <4>1
    <3>5. \/ LetsGo(w) \/ Begins(w, j, "unwinding")
          \/ \E place \in {"deciding", "marking", "committing"},
                result \in {exec[w].result, "busy", "prewrite"} : Moves(w, place, result)
      <4>1. CASE LeaseUnavailable(w, j) \/ CancelledWaiting(w, j)
        BY <4>1 DEF LeaseUnavailable, CancelledWaiting
      <4>2. CASE ClaimAborts(w, j)
        BY <4>2 DEF ClaimAborts
      <4>3. CASE FinalAborts(w, j) \/ FinalRead(w, j)
        BY <4>3 DEF FinalAborts, FinalRead
      <4> QED
        BY <1>5, <4>1, <4>2, <4>3
    <3> QED
      BY <3>2, <3>3, <3>4, <3>5
  <2> QED
    BY <2>1, <2>2, PendingUnchanged, Stutters
<1>6. ASSUME NEW w \in Executors, NEW j \in Jobs, NEW r \in Confirmed, AdapterJournals(w, j, r)
      PROVE  UNCHANGED Contract!vars
  BY <1>6, PendingUnchanged, Stutters DEF AdapterJournals, db, world
<1>7. ASSUME NEW w \in Executors, NEW j \in Jobs, Proceed(w, j)
      PROVE  Contract!Next \/ UNCHANGED Contract!vars
  BY <1>5, <1>6, <1>7, TakeLeaseSends, PlatformAcceptsPosts, PublisherReturnsLoses,
     ChainInterruptionLoses, FinalCommitResolves, MarkCloses DEF Proceed
<1>8. ASSUME NEW w \in Executors, NEW j \in Jobs, Interrupt(w, j)
      PROVE  Contract!Next \/ UNCHANGED Contract!vars
  BY <1>5, <1>8, ChainInterruptionLoses DEF Interrupt
<1>9. ASSUME NEW j \in Jobs, PlannedTimeComes(j) \/ GrowsStale(j)
      PROVE  UNCHANGED Contract!vars
  BY <1>9, PendingUnchanged, Stutters DEF PlannedTimeComes, GrowsStale, world
<1>10. ASSUME \/ \E a \in Shared : OutsiderTakes(a) \/ OutsiderReleases(a)
              \/ \E a \in Shared, g \in Gates : GateChanges(a, g)
       PROVE  UNCHANGED Contract!vars
  BY <1>10, PendingUnchanged, Stutters DEF OutsiderTakes, OutsiderReleases, GateChanges, world, db
<1>11. ASSUME NEW w \in Executors, Crash(w)
       PROVE  Contract!Next \/ UNCHANGED Contract!vars
  BY <1>11, CrashLoses
<1>12. ASSUME NEW j \in Jobs, OrphanLands(j) \/ Reconcile(j)
       PROVE  Contract!Next
  BY <1>12, OrphanLandsPosts, ReconcileCloses
<1>13. ASSUME NEW a \in Articles, NEW rows \in SUBSET Jobs,
              Distribute(a, rows) \/ Schedule(a, rows)
       PROVE  Contract!Next
  BY <1>2, <1>13
<1>14. ASSUME NEW old \in Jobs, NEW new \in Jobs, NEW checked \in BOOLEAN,
              Republish(old, new, checked)
       PROVE  Contract!Next
  BY <1>3, <1>14
<1> HIDE DEF Contract!Next
<1> QED
  BY <1>1, <1>4, <1>7, <1>8, <1>9, <1>10, <1>11, <1>12, <1>13, <1>14 DEF Next

(* The pipeline keeps the promise of PublishOnce to whoever reads a row: a   *)
(* row is handed out again only while nothing was or can be posted, and the  *)
(* verdict of a closed row is true.                                          *)
THEOREM PipelineKeepsContract == Spec => KeepsContract
<1>1. InductiveInvariant /\ [Next]_vars => [Contract!Next]_(Contract!vars)
  BY RefinementStep
<1> QED
  BY RefinementInit, <1>1, InvariantHolds, PTL DEF Spec, KeepsContract, Contract!Spec
=============================================================================
