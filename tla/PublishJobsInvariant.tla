------------------------ MODULE PublishJobsInvariant ------------------------
(* The inductive strengthening of the safety invariants of PublishJobs.      *)
EXTENDS PublishJobs

(* What an executor knows at each place: whose row it works on, whether it    *)
(* has a result yet, and how far down the chain of publishers it may be.     *)
ExecutorShape ==
    \A w \in Executors :
        /\ exec[w].at # "idle" => exec[w].job \in Jobs
        /\ exec[w].at \in {"leasing", "publishing", "unwinding"} => exec[w].result = "none"
        /\ exec[w].at = "leasing" => ~exec[w].wrote
        /\ exec[w].at \in {"leasing", "publishing"} =>
              exec[w].turn <= ChainLength(exec[w].job)
        /\ exec[w].at \in {"deciding", "committing"} =>
              exec[w].result \notin {"none", "prewrite"}

(* A row has one claimant, and keeps it until the claimant lets go; meanwhile *)
(* others can at most mark it failed and in need of a check.                 *)
OneClaimant ==
    \A v, w \in Executors :
        /\ exec[v].at \in Claimant /\ exec[w].at \in Claimant
        /\ exec[v].job = exec[w].job
        => v = w

ClaimedRow ==
    \A w \in Executors :
        exec[w].at \in Claimant =>
            \/ status[exec[w].job] = "running"
            \/ status[exec[w].job] = "failed" /\ NeedsPlatformCheck(exec[w].job)

(* Nothing was or can be posted for a row that may be claimed.               *)
Unposted(j) == posts[j] = 0 /\ j \notin orphan

ClaimableUnposted ==
    \A j \in Jobs : status[j] \in Claimable \cup {"absent"} => Unposted(j)

(* What a claimant knows of the platform is true.                            *)
KnowsPlatform(w, j) ==
    /\ exec[w].at = "leasing" => Unposted(j)
    /\ exec[w].at = "publishing" =>
          /\ j \notin orphan
          /\ exec[w].wrote => posts[j] = 1
          /\ ~exec[w].wrote => posts[j] = 0
    /\ exec[w].at \notin {"leasing", "publishing"} =>
          /\ exec[w].result \in NoEffect => Unposted(j)
          /\ exec[w].result \in Confirmed => posts[j] = 1
    /\ exec[w].at \in {"deciding", "committing"} =>
          (receipt[j] \in Confirmed => exec[w].result \in Confirmed \cup {"unknown"})

ClaimantKnows ==
    \A w \in Executors, j \in Jobs :
        exec[w].at \in Claimant /\ exec[w].job = j => KnowsPlatform(w, j)

OrphanUnposted == \A j \in orphan : posts[j] = 0

ReceiptHonest == \A j \in Jobs : receipt[j] \in Confirmed => posts[j] = 1

(* Room for one more entry wherever one more entry is still possible.        *)
Budget ==
    \A j \in Jobs :
        /\ status[j] = "absent" => attempts[j] = 0
        /\ status[j] \in Claimable => attempts[j] < MaxAttempts
        /\ \A w \in Executors :
              /\ exec[w].at \in Claimant /\ exec[w].job = j
              /\ exec[w].at = "leasing" \/ exec[w].result = "busy"
              => entries[j] < attempts[j]

(* The conjunction that every step preserves; the post of a row is not the   *)
(* result of a single guard but of all of these together.                    *)
InductiveInvariant ==
    /\ TypeOK
    /\ ExecutorShape /\ OneClaimant /\ ClaimedRow
    /\ ClaimableUnposted /\ ClaimantKnows /\ OrphanUnposted /\ ReceiptHonest
    /\ AtMostOncePerJob /\ UncheckedFailureIsClean /\ SuccessMeansPosted
    /\ Budget /\ EntriesWithinBudget
=============================================================================
