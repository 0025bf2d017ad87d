----------------------------- MODULE AgentContract -----------------------------
(***************************************************************************)
(* The way of one article from a plan over an independent decision to      *)
(* durable jobs, and everybody who can touch it on that way: concurrent    *)
(* calls of the agent contract, operators who approve, move or distribute  *)
(* the article by the older routes, edits of the account, its pauses, and  *)
(* the worker.  Articles share no state here, so one is modelled.          *)
(*                                                                         *)
(* A call of the contract is one transaction under READ COMMITTED: it      *)
(* claims its idempotency key and reads (Begin...), and its conditional    *)
(* updates see what has been committed since (Commit...).  A call that is  *)
(* refused, or whose update hits no row, is rolled back with its key.  A   *)
(* definition named Bug... is a deliberate fault that only the mutation    *)
(* runs use.                                                               *)
(***************************************************************************)
EXTENDS Integers

CONSTANTS
    Plans,         \* potential rows of publication_plans
    Approvals,     \* potential rows of approval_requests
    Principals,    \* authenticated callers
    Humans,        \* those of type "human"
    Keys,          \* potential rows of agent_operations
    Owner,         \* the principal of each key
    Operation,     \* the operation of each key
    Callers,       \* transactions that may be open at once
    Moves,         \* changes of the article's status that operators make
    Aggregates,    \* what the states of the jobs may add up to
    Probes,        \* a bound: may a probe find the account runnable, or not?
    MaxChanges,    \* a bound: versions of the content and of the account
    MaxReopened,   \* a bound: times the article becomes schedulable again
    None

Operations == {"plan_publication", "request_approval", "decide_approval", "schedule"}

ArticleStatus ==
    {"draft", "ready", "scheduled", "publishing", "published", "failed", "dead"}

AllowedTransitions ==
    {<<"draft", "ready">>, <<"ready", "scheduled">>, <<"ready", "draft">>,
     <<"scheduled", "publishing">>, <<"scheduled", "ready">>,
     <<"publishing", "published">>, <<"publishing", "failed">>,
     <<"failed", "scheduled">>, <<"failed", "dead">>}

PlanState == {"absent", "draft", "approval_pending", "approved", "rejected", "scheduled"}

\* What a digest covers: the content and, by the account's binding, the account.
Digests == [content: 0..MaxChanges, edits: 0..MaxChanges, pauses: 0..MaxChanges]

PlannedRow == [digest: Digests, by: Principals]
RequestRow == [plan: Plans, digest: Digests, by: Principals]
VerdictRow == [status: {"pending", "approved", "rejected"}, by: Principals \cup {None},
               digest: Digests \cup {None}]

ASSUME AgentContractAssumption ==
    /\ Humans \subseteq Principals
    /\ Owner \in [Keys -> Principals]
    /\ Operation \in [Keys -> Operations]
    /\ Moves \subseteq AllowedTransitions
    /\ Aggregates \subseteq {"publishing", "published", "failed", "dead"}
    /\ Probes \subseteq BOOLEAN
    /\ MaxChanges \in Nat /\ MaxReopened \in Nat
    /\ None \notin Plans \cup Approvals \cup Principals \cup Keys \cup Digests
                   \cup PlannedRow \cup RequestRow \cup VerdictRow

VARIABLES
    article,       \* articles.status
    content,       \* how often the staged content was changed
    edits,         \* how often operators edited the account's profile or credential
    pauses,        \* what pauses and bans have left in the profile; 0: nothing
    runnable,      \* is the account HEALTHY or UNKNOWN?
    planState,
    planned,       \* the immutable columns of a plan: its digest and creator
    request,       \* the immutable columns of an approval: plan, digest, requester
    verdict,       \* its status, its decider, and the digest the decider named
    expired,       \* approvals whose expires_at has passed
    fanOuts,       \* per plan: how often its jobs were created
    claims,        \* how often schedule or distribute created the article's jobs
    ledger,        \* committed keys and the plan their response is about
    call,          \* the open transactions of the contract
    moving,        \* moves whose operator has read the status they start from
    reopened,      \* history: how often the article became schedulable again
    published      \* history: what workers handed to publishers

plan == <<planState, planned>>
approval == <<request, verdict>>
account == <<edits, pauses, runnable>>
jobs == <<fanOuts, claims>>
history == <<reopened, published>>
vars == <<article, content, account, plan, approval, expired, jobs, ledger,
          call, moving, history>>
-----------------------------------------------------------------------------
Schedulable == {"draft", "ready"}

\* content_snapshot and account_binding_digest, as they are now.
CurrentDigest == [content |-> content, edits |-> edits, pauses |-> pauses]

\* _verify_plan_snapshot: neither the content nor the target has drifted.
Verified(p) == CurrentDigest = planned[p].digest

BugIndependent(a, who) == who \in Humans /\ who # request[a].by

\* May this principal decide this approval?
Independent(a, who) ==
    /\ who \in Humans
    /\ who # request[a].by
    /\ who # planned[request[a].plan].by

Matching(p) ==
    {a \in Approvals : /\ request[a] # None
                       /\ request[a].plan = p
                       /\ request[a].digest = planned[p].digest
                       /\ verdict[a].status = "approved"}

Pending == [status |-> "pending", by |-> None, digest |-> None]

\* An open transaction: its key, and what it has read and been asked.
NoCall == [key |-> None, plan |-> None, approval |-> None, decision |-> None,
           digest |-> None]

Reading(k, p, digest) ==
    [key |-> k, plan |-> p, approval |-> None, decision |-> None, digest |-> digest]

BugClaimable(k) == ledger[k] = None

\* The ledger's row can be inserted: no committed and no open one has its key.
Claimable(k) == ledger[k] = None /\ \A c \in Callers : call[c].key # k

Opens(c, k, operation, reading) ==
    /\ call[c] = NoCall
    /\ Operation[k] = operation
    /\ Claimable(k)
    /\ call' = [call EXCEPT ![c] = reading]

InCall(c, operation) == call[c] # NoCall /\ Operation[call[c].key] = operation

\* The transaction of c commits with a response about plan p.
Closes(c, p) ==
    /\ ledger' = [ledger EXCEPT ![call[c].key] = p]
    /\ call' = [call EXCEPT ![c] = NoCall]
-----------------------------------------------------------------------------
(* stage_content or an older route has staged the article.                   *)
Init ==
    /\ article = "draft" /\ content = 0
    /\ edits = 0 /\ pauses = 0 /\ runnable = TRUE
    /\ planState = [p \in Plans |-> "absent"]
    /\ planned = [p \in Plans |-> None]
    /\ request = [a \in Approvals |-> None]
    /\ verdict = [a \in Approvals |-> None]
    /\ expired = {}
    /\ fanOuts = [p \in Plans |-> 0] /\ claims = 0
    /\ ledger = [k \in Keys |-> None]
    /\ call = [c \in Callers |-> NoCall]
    /\ moving = {}
    /\ reopened = 0 /\ published = {}

BeginPlan(c, k) ==
    /\ Opens(c, k, "plan_publication", Reading(k, None, CurrentDigest))
    /\ article = "draft"
    /\ runnable
    /\ UNCHANGED <<article, content, account, plan, approval, expired, jobs, ledger,
                   moving, history>>

CommitPlan(c, p) ==
    /\ InCall(c, "plan_publication")
    /\ planState[p] = "absent"
    /\ Closes(c, p)
    /\ planState' = [planState EXCEPT ![p] = "draft"]
    /\ planned' = [planned EXCEPT ![p] =
                     [digest |-> call[c].digest, by |-> Owner[call[c].key]]]
    /\ UNCHANGED <<article, content, account, approval, expired, jobs, moving, history>>

BeginRequest(c, k, p) ==
    /\ Opens(c, k, "request_approval", Reading(k, p, None))
    /\ planState[p] = "draft"
    /\ Verified(p)
    /\ UNCHANGED <<article, content, account, plan, approval, expired, jobs, ledger,
                   moving, history>>

Submits(c, a) ==
    LET p == call[c].plan
    IN  /\ request[a] = None
        /\ planState' = [planState EXCEPT ![p] = "approval_pending"]
        /\ request' = [request EXCEPT ![a] = [plan |-> p, digest |-> planned[p].digest,
                                             by |-> Owner[call[c].key]]]
        /\ verdict' = [verdict EXCEPT ![a] = Pending]
        /\ Closes(c, p)
        /\ UNCHANGED <<article, content, account, planned, expired, jobs, moving, history>>

BugCommitRequest(c, a) == InCall(c, "request_approval") /\ Submits(c, a)

CommitRequest(c, a) ==
    /\ InCall(c, "request_approval")
    /\ planState[call[c].plan] = "draft"
    /\ Submits(c, a)

(* A decision is accepted only with the digest that the human has reviewed,  *)
(* so it is the request's.                                                   *)
BeginDecide(c, k, a, decision) ==
    /\ request[a] # None
    /\ Opens(c, k, "decide_approval",
             [key |-> k, plan |-> request[a].plan, approval |-> a,
              decision |-> decision, digest |-> request[a].digest])
    /\ verdict[a].status = "pending"
    /\ a \notin expired
    /\ Independent(a, Owner[k])
    /\ request[a].digest = planned[request[a].plan].digest
    /\ Verified(request[a].plan)
    /\ UNCHANGED <<article, content, account, plan, approval, expired, jobs, ledger,
                   moving, history>>

\* The plan is written whatever its state is.
Decides(c) ==
    LET p == call[c].plan
    IN  /\ verdict' = [verdict EXCEPT ![call[c].approval] =
                         [status |-> call[c].decision, by |-> Owner[call[c].key],
                          digest |-> call[c].digest]]
        /\ planState' = [planState EXCEPT ![p] = call[c].decision]
        /\ Closes(c, p)
        /\ UNCHANGED <<article, content, account, planned, request, expired, jobs,
                       moving, history>>

BugCommitDecide(c) == InCall(c, "decide_approval") /\ Decides(c)

CommitDecide(c) ==
    /\ InCall(c, "decide_approval")
    /\ verdict[call[c].approval].status = "pending"
    /\ Decides(c)

Approved(p, a) == Matching(p) = {a} /\ Independent(a, verdict[a].by)

BugHoldsApproval(p) == \E a \in Approvals : Approved(p, a)

HoldsApproval(p) == \E a \in Approvals : Approved(p, a) /\ a \notin expired

BeginSchedule(c, k, p) ==
    /\ Opens(c, k, "schedule", Reading(k, p, None))
    /\ planState[p] = "approved"
    /\ HoldsApproval(p)
    /\ article \in Schedulable
    /\ Verified(p)
    /\ runnable
    /\ UNCHANGED <<article, content, account, plan, approval, expired, jobs, ledger,
                   moving, history>>

Schedules(c) ==
    LET p == call[c].plan
    IN  /\ planState[p] = "approved"
        /\ planState' = [planState EXCEPT ![p] = "scheduled"]
        /\ article' = "scheduled"
        /\ fanOuts' = [fanOuts EXCEPT ![p] = @ + 1]
        /\ claims' = claims + 1
        /\ Closes(c, p)
        /\ UNCHANGED <<content, account, planned, approval, expired, moving, history>>

BugCommitSchedule(c) == InCall(c, "schedule") /\ Schedules(c)

CommitSchedule(c) ==
    /\ InCall(c, "schedule")
    /\ article \in Schedulable
    /\ Schedules(c)

(* A plan that is scheduled already is answered with its jobs.               *)
ScheduleReplays(k, p) ==
    /\ Operation[k] = "schedule"
    /\ Claimable(k)
    /\ planState[p] = "scheduled" /\ fanOuts[p] > 0
    /\ ledger' = [ledger EXCEPT ![k] = p]
    /\ UNCHANGED <<article, content, account, plan, approval, expired, jobs, call,
                   moving, history>>

(* A refusal, an exception or a crash rolls the transaction back.            *)
CallAborts(c) ==
    /\ call[c] # NoCall
    /\ call' = [call EXCEPT ![c] = NoCall]
    /\ UNCHANGED <<article, content, account, plan, approval, expired, jobs, ledger,
                   moving, history>>
-----------------------------------------------------------------------------
Expires(a) ==
    /\ request[a] # None /\ a \notin expired
    /\ expired' = expired \cup {a}
    /\ UNCHANGED <<article, content, account, plan, approval, jobs, ledger, call,
                   moving, history>>

\* The versions differ from the first ones in few places.
Versions(c, e, p) == c + e + p <= MaxChanges

\* attach_asset; nothing is ever detached.
ContentGrows ==
    /\ Versions(content + 1, edits, pauses)
    /\ content' = content + 1
    /\ UNCHANGED <<article, account, plan, approval, expired, jobs, ledger, call,
                   moving, history>>

\* update_account; every edit is a new one, and none is taken back.
AccountEdited ==
    /\ Versions(content, edits + 1, pauses)
    /\ edits' = edits + 1
    /\ UNCHANGED <<article, content, pauses, runnable, plan, approval, expired, jobs,
                   ledger, call, moving, history>>

\* pause_account, with a deadline in the profile; a probe of a banned account
\* (record_banned_probe) leaves one as well.
AccountPaused ==
    /\ pauses' \in (1..MaxChanges) \ {pauses}
    /\ Versions(content, edits, pauses')
    /\ runnable' = FALSE
    /\ UNCHANGED <<article, content, edits, plan, approval, expired, jobs, ledger,
                   call, moving, history>>

\* recover_banned_account removes the deadline; what earlier probes of the ban
\* have left stays.
BanRecovers ==
    /\ ~runnable
    /\ pauses' \in {0} \cup 1..(pauses - 1)
    /\ runnable' = TRUE
    /\ UNCHANGED <<article, content, edits, plan, approval, expired, jobs, ledger,
                   call, moving, history>>

\* update_health after a probe.
HealthChanges ==
    /\ runnable' \in Probes
    /\ UNCHANGED <<article, content, edits, pauses, plan, approval, expired, jobs,
                   ledger, call, moving, history>>
-----------------------------------------------------------------------------
(* approve and transition_status read the status, test it and write the new  *)
(* one without a condition.                                                  *)
ReadForMove(m) ==
    /\ m \notin moving
    /\ article = m[1]
    /\ moving' = moving \cup {m}
    /\ UNCHANGED <<article, content, account, plan, approval, expired, jobs, ledger,
                   call, history>>

Reopens(status) == article \notin Schedulable /\ status \in Schedulable

WriteMove(m) ==
    /\ m \in moving
    /\ Reopens(m[2]) => reopened < MaxReopened
    /\ moving' = moving \ {m}
    /\ article' = m[2]
    /\ reopened' = IF Reopens(m[2]) THEN reopened + 1 ELSE reopened
    /\ UNCHANGED <<content, account, plan, approval, expired, jobs, ledger, call,
                   published>>

\* distribute claims the article by compare-and-swap and creates its jobs.
Distribute ==
    /\ article = "ready"
    /\ article' = "scheduled"
    /\ claims' = claims + 1
    /\ UNCHANGED <<content, account, plan, approval, expired, fanOuts, ledger, call,
                   moving, history>>

\* _sync_article_status, with the status of the jobs left open.
WorkerSyncs ==
    /\ claims > 0
    /\ article' \in Aggregates
    /\ UNCHANGED <<content, account, plan, approval, expired, jobs, ledger, call,
                   moving, history>>

\* _build_verified_contract_content: plan, approval and target still match.
Executable(p) ==
    /\ planState[p] = "scheduled"
    /\ edits = planned[p].digest.edits /\ pauses = planned[p].digest.pauses
    /\ \E a \in Approvals : Approved(p, a)

BugPayload(p) == CurrentDigest

\* What the worker publishes is built from the plan, not from the article.
Payload(p) == planned[p].digest

(* A worker has claimed a job of the plan and enters a publisher.            *)
Execute(p) ==
    /\ fanOuts[p] > 0
    /\ runnable
    /\ Executable(p)
    /\ published' = published \cup {[plan |-> p, digest |-> Payload(p)]}
    /\ UNCHANGED <<article, content, account, plan, approval, expired, jobs, ledger,
                   call, moving, reopened>>
-----------------------------------------------------------------------------
Planning == \E c \in Callers :
    \/ \E k \in Keys : BeginPlan(c, k)
    \/ \E p \in Plans : CommitPlan(c, p)

Requesting == \E c \in Callers :
    \/ \E k \in Keys, p \in Plans : BeginRequest(c, k, p)
    \/ \E a \in Approvals : CommitRequest(c, a)

Deciding == \E c \in Callers :
    \/ \E k \in Keys, a \in Approvals, decision \in {"approved", "rejected"} :
          BeginDecide(c, k, a, decision)
    \/ CommitDecide(c)

Scheduling ==
    \/ \E c \in Callers : \/ \E k \in Keys, p \in Plans : BeginSchedule(c, k, p)
                          \/ CommitSchedule(c)
    \/ \E k \in Keys, p \in Plans : ScheduleReplays(k, p)

Drift ==
    \/ \E a \in Approvals : Expires(a)
    \/ ContentGrows \/ AccountEdited \/ AccountPaused \/ BanRecovers \/ HealthChanges

OlderRoutes ==
    \/ \E m \in Moves : ReadForMove(m) \/ WriteMove(m)
    \/ Distribute

Working == WorkerSyncs \/ \E p \in Plans : Execute(p)

Next ==
    \/ Planning \/ Requesting \/ Deciding \/ Scheduling
    \/ \E c \in Callers : CallAborts(c)
    \/ Drift \/ OlderRoutes \/ Working

Spec == Init /\ [][Next]_vars
-----------------------------------------------------------------------------
KeysOf(operations) == {k \in Keys : Operation[k] \in operations}
PlanCall == [key: KeysOf({"plan_publication"}), plan: {None}, approval: {None},
             decision: {None}, digest: Digests]
RowCall == [key: KeysOf({"request_approval", "schedule"}), plan: Plans, approval: {None},
            decision: {None}, digest: {None}]
DecideCall == [key: KeysOf({"decide_approval"}), plan: Plans, approval: Approvals,
               decision: {"approved", "rejected"}, digest: Digests]
CallRow == PlanCall \cup RowCall \cup DecideCall \cup {NoCall}

RowsExist ==
    /\ \A p \in Plans : (planned[p] = None) <=> (planState[p] = "absent")
    /\ \A a \in Approvals : (request[a] = None) <=> (verdict[a] = None)
    /\ \A a \in Approvals : request[a] # None => planned[request[a].plan] # None
    /\ \A c \in Callers : call[c].plan # None => planned[call[c].plan] # None
    /\ \A c \in Callers : call[c].approval # None => request[call[c].approval] # None

(* Every variable has its type; rows exist as a whole or not at all, and     *)
(* what refers to a row finds it.                                            *)
TypeOK ==
    /\ RowsExist
    /\ article \in ArticleStatus
    /\ CurrentDigest \in Digests /\ runnable \in BOOLEAN
    /\ planState \in [Plans -> PlanState]
    /\ planned \in [Plans -> PlannedRow \cup {None}]
    /\ request \in [Approvals -> RequestRow \cup {None}]
    /\ verdict \in [Approvals -> VerdictRow \cup {None}]
    /\ expired \subseteq Approvals
    /\ fanOuts \in [Plans -> Nat] /\ claims \in Nat
    /\ ledger \in [Keys -> Plans \cup {None}]
    /\ call \in [Callers -> CallRow]
    /\ moving \subseteq Moves
    /\ reopened \in 0..MaxReopened
    /\ published \subseteq [plan: Plans, digest: Digests]

Requests(p) == {a \in Approvals : request[a] # None /\ request[a].plan = p}

(* A plan asks for one decision only, and its state, which decide writes     *)
(* without a condition, says what became of that decision, whichever calls   *)
(* compete for it.                                                           *)
PlanFollowsApproval ==
    \A p \in Plans :
        IF planState[p] \in {"absent", "draft"} THEN Requests(p) = {}
        ELSE \E a \in Approvals :
               /\ Requests(p) = {a}
               /\ (verdict[a].status = "pending") <=> (planState[p] = "approval_pending")
               /\ (verdict[a].status = "rejected") <=> (planState[p] = "rejected")

(* The jobs of a plan are created once, in the step that makes it scheduled, *)
(* however many calls ask for it and under however many keys.                *)
ScheduledOnce ==
    \A p \in Plans : fanOuts[p] = IF planState[p] = "scheduled" THEN 1 ELSE 0

(* Whatever reaches a publisher was approved, as the very same digest, by a  *)
(* human who neither created the plan nor asked for the approval, although   *)
(* content and account go on changing.                                       *)
PublishedAsApproved ==
    \A e \in published : \E a \in Approvals :
        /\ request[a] # None /\ request[a].plan = e.plan
        /\ verdict[a].status = "approved"
        /\ verdict[a].digest = e.digest
        /\ verdict[a].by \in Humans \ {request[a].by, planned[e.plan].by}

(* A retried plan_publication creates no second plan: every plan is the      *)
(* answer of exactly one key.                                                *)
OnePlanPerKey ==
    \A p \in Plans : planState[p] # "absent" =>
        \E k \in Keys : {x \in Keys : /\ ledger[x] = p
                                      /\ Operation[x] = "plan_publication"} = {k}

(* distribute and competing plans claim the article in turns: they create    *)
(* jobs again only after the article was made schedulable again (a row that  *)
(* republish_job replaces belongs to PublishJobs, and needs no claim).       *)
ClaimsAlternate == claims <= 1 + reopened

(* An approval that has expired before any call passed its checks schedules  *)
(* nothing any more.                                                         *)
Lapsed(p) ==
    /\ planState[p] # "scheduled"
    /\ Requests(p) # {} /\ Requests(p) \subseteq expired
    /\ \A c \in Callers : /\ call[c] # NoCall
                          /\ Operation[call[c].key] = "schedule"
                          => call[c].plan # p

ExpiryIsFinal == [][\A p \in Plans : Lapsed(p) => Lapsed(p)']_vars

(* The contract is an approval gate: see ApprovalGate.                       *)
Subject(p) == IF planned[p] = None THEN None ELSE planned[p].digest

Authors(p) == {planned[q].by : q \in {q \in {p} : planned[q] # None}}
                \cup {request[a].by : a \in Requests(p)}

Signers(p) == {verdict[a].by : a \in {a \in Requests(p) : verdict[a].status # "pending"}}

Gate == INSTANCE ApprovalGate WITH
    stage <- planState,
    subject <- [p \in Plans |-> Subject(p)],
    authors <- [p \in Plans |-> Authors(p)],
    signers <- [p \in Plans |-> Signers(p)],
    effects <- published

KeepsGate == Gate!Spec
=============================================================================
