-------------------------- MODULE AgentContractProofs --------------------------
(***************************************************************************)
(* The safety properties of the agent contract, proved for any sets of     *)
(* plans, approvals, principals, keys and callers.  The invariants come in *)
(* layers: types, the keys of the ledger, the rows and what open calls     *)
(* know of them, and the claims of the article.  Then its refinement of    *)
(* ApprovalGate.                                                           *)
(***************************************************************************)
EXTENDS AgentContract, TLAPS

(***************************************************************************)
(* Types.                                                                  *)
(***************************************************************************)

LEMMA InitTypes == Init => TypeOK
BY AgentContractAssumption DEF Init, TypeOK, RowsExist, NoCall, CallRow, ArticleStatus,
   PlanState, CurrentDigest, Digests

\* What UNCHANGED says of a type.
LEMMA StutterTypes == TypeOK /\ UNCHANGED vars => TypeOK'
BY DEF TypeOK, RowsExist, vars, plan, approval, account, jobs, history, CurrentDigest

\* An open call has the fields of its operation.
LEMMA OpenCalls ==
    ASSUME TypeOK, NEW c \in Callers, NEW operation, InCall(c, operation)
    PROVE  /\ call[c].key \in Keys /\ Operation[call[c].key] = operation
           /\ Owner[call[c].key] \in Principals
           /\ operation = "plan_publication" => call[c].digest \in Digests
           /\ operation # "plan_publication" => call[c].plan \in Plans
           /\ operation = "decide_approval" =>
                /\ call[c].approval \in Approvals
                /\ call[c].decision \in {"approved", "rejected"}
                /\ call[c].digest \in Digests
<1>1. call[c] \in PlanCall \cup RowCall \cup DecideCall
  BY DEF TypeOK, CallRow, InCall
<1>2. CASE call[c] \in PlanCall
  BY <1>2, AgentContractAssumption DEF PlanCall, KeysOf, InCall
<1>3. CASE call[c] \in RowCall
  BY <1>3, AgentContractAssumption DEF RowCall, KeysOf, InCall
<1>4. CASE call[c] \in DecideCall
  BY <1>4, AgentContractAssumption DEF DecideCall, KeysOf, InCall
<1> QED BY <1>1, <1>2, <1>3, <1>4

\* A call that begins changes nothing but itself.
LEMMA BeginTypes ==
    ASSUME TypeOK, NEW c \in Callers, NEW k \in Keys, NEW operation,
           NEW reading \in CallRow, Opens(c, k, operation, reading),
           reading.plan # None => planned[reading.plan] # None,
           reading.approval # None => request[reading.approval] # None,
           UNCHANGED <<article, content, account, plan, approval, expired, jobs, ledger,
                       moving, history>>
    PROVE  TypeOK'
<1>1. call' \in [Callers -> CallRow]
  BY DEF Opens, TypeOK
<1>2. RowsExist'
  BY DEF Opens, TypeOK, RowsExist, plan, approval
<1> QED
  BY <1>1, <1>2 DEF TypeOK, plan, approval, account, jobs, history, CurrentDigest

\* A transaction that closes leaves the other calls as they are, and no row of
\* a plan or an approval disappears.
LEMMA CloseTypes ==
    ASSUME TypeOK, NEW c \in Callers, NEW p \in Plans, Closes(c, p)
    PROVE  /\ ledger' \in [Keys -> Plans \cup {None}]
           /\ call' \in [Callers -> CallRow]
           /\ \A d \in Callers : call'[d] = call[d] \/ call'[d] = NoCall
BY DEF Closes, TypeOK, CallRow

LEMMA CallsKeepRows ==
    ASSUME TypeOK, call' \in [Callers -> CallRow],
           \A d \in Callers : call'[d] = call[d] \/ call'[d] = NoCall,
           \A p \in Plans : planned[p] # None => planned'[p] # None,
           \A a \in Approvals : request[a] # None => request'[a] # None
    PROVE  /\ \A d \in Callers : call'[d].plan # None => planned'[call'[d].plan] # None
           /\ \A d \in Callers : call'[d].approval # None => request'[call'[d].approval] # None
<1> SUFFICES ASSUME NEW d \in Callers, call'[d] # NoCall
             PROVE  /\ call'[d].plan # None => planned'[call'[d].plan] # None
                    /\ call'[d].approval # None => request'[call'[d].approval] # None
  BY DEF NoCall
<1>1. call'[d] = call[d]
  OBVIOUS
<1>2. /\ call[d].plan # None => planned[call[d].plan] # None
      /\ call[d].approval # None => request[call[d].approval] # None
  BY DEF TypeOK, RowsExist
<1>3. call[d].plan \in Plans \cup {None} /\ call[d].approval \in Approvals \cup {None}
  BY DEF TypeOK, CallRow, PlanCall, RowCall, DecideCall, NoCall
<1> QED BY <1>1, <1>2, <1>3

\* The part of the type invariant that says which rows there are.
LEMMA RowFacts ==
    ASSUME TypeOK
    PROVE  /\ RowsExist
           /\ planned \in [Plans -> PlannedRow \cup {None}]
           /\ planState \in [Plans -> PlanState]
           /\ request \in [Approvals -> RequestRow \cup {None}]
           /\ verdict \in [Approvals -> VerdictRow \cup {None}]
           /\ \A a \in Approvals : request[a] # None =>
                /\ request[a] \in RequestRow /\ verdict[a] \in VerdictRow
                /\ request[a].plan \in Plans /\ planned[request[a].plan] \in PlannedRow
<1>1. RowsExist /\ planned \in [Plans -> PlannedRow \cup {None}]
      /\ planState \in [Plans -> PlanState]
      /\ request \in [Approvals -> RequestRow \cup {None}]
      /\ verdict \in [Approvals -> VerdictRow \cup {None}]
  BY DEF TypeOK
<1>2. ASSUME NEW a \in Approvals, request[a] # None
      PROVE  /\ request[a] \in RequestRow /\ verdict[a] \in VerdictRow
             /\ request[a].plan \in Plans /\ planned[request[a].plan] \in PlannedRow
  <2>1. request[a] \in RequestRow
    BY <1>1, <1>2
  <2>2. verdict[a] # None
    BY <1>1, <1>2 DEF RowsExist
  <2>3. verdict[a] \in VerdictRow
    BY <1>1, <2>2
  <2>4. request[a].plan \in Plans
    BY <2>1 DEF RequestRow
  <2>5. planned[request[a].plan] # None
    BY <1>1, <1>2 DEF RowsExist
  <2> QED BY <1>1, <2>1, <2>3, <2>4, <2>5
<1> QED BY <1>1, <1>2

LEMMA PlanningTypes == TypeOK /\ Planning => TypeOK'
<1> SUFFICES ASSUME TypeOK, NEW c \in Callers,
                    \/ \E k \in Keys : BeginPlan(c, k)
                    \/ \E p \in Plans : CommitPlan(c, p)
             PROVE  TypeOK'
  BY DEF Planning
<1>1. ASSUME NEW k \in Keys, BeginPlan(c, k) PROVE TypeOK'
  <2>1. /\ Reading(k, None, CurrentDigest) \in CallRow
        /\ Reading(k, None, CurrentDigest).plan = None
        /\ Reading(k, None, CurrentDigest).approval = None
    BY <1>1 DEF BeginPlan, Opens, Reading, CallRow, PlanCall, KeysOf, TypeOK
  <2> QED BY <1>1, <2>1, BeginTypes DEF BeginPlan
<1>2. ASSUME NEW p \in Plans, CommitPlan(c, p) PROVE TypeOK'
  <2>1. [digest |-> call[c].digest, by |-> Owner[call[c].key]] \in PlannedRow
    BY <1>2, OpenCalls DEF CommitPlan, PlannedRow
  <2>2. /\ planned' \in [Plans -> PlannedRow \cup {None}]
        /\ planState' \in [Plans -> PlanState]
    BY <1>2, <2>1 DEF CommitPlan, TypeOK, PlanState
  <2>3. /\ ledger' \in [Keys -> Plans \cup {None}]
        /\ call' \in [Callers -> CallRow]
        /\ \A d \in Callers : call'[d] = call[d] \/ call'[d] = NoCall
    BY <1>2, CloseTypes DEF CommitPlan
  <2>4. \A q \in Plans : planned'[q] = IF q = p
                           THEN [digest |-> call[c].digest, by |-> Owner[call[c].key]]
                           ELSE planned[q]
    BY <1>2 DEF CommitPlan, TypeOK
  <2>5. /\ planned'[p] # None
        /\ \A q \in Plans : planned[q] # None => planned'[q] # None
        /\ \A a \in Approvals : request[a] # None => request'[a] # None
    BY <1>2, <2>1, <2>4, AgentContractAssumption DEF CommitPlan, approval
  <2>6. RowsExist'
    <3>1. \A q \in Plans : (planned'[q] = None) <=> (planState'[q] = "absent")
      BY <1>2, <2>4, <2>5 DEF TypeOK, RowsExist, CommitPlan
    <3>2. /\ \A a \in Approvals : (request'[a] = None) <=> (verdict'[a] = None)
          /\ \A a \in Approvals : request'[a] # None => planned'[request'[a].plan] # None
      <4>1. request' = request /\ verdict' = verdict
        BY <1>2 DEF CommitPlan, approval
      <4> QED BY <2>5, <4>1, RowFacts DEF RowsExist
    <3> QED BY <2>3, <2>5, <3>1, <3>2, CallsKeepRows DEF RowsExist
  <2> QED
    BY <1>2, <2>2, <2>3, <2>6
       DEF CommitPlan, TypeOK, account, approval, jobs, history, CurrentDigest
<1> QED BY <1>1, <1>2

LEMMA RequestingTypes == TypeOK /\ Requesting => TypeOK'
<1> SUFFICES ASSUME TypeOK, NEW c \in Callers,
                    \/ \E k \in Keys, p \in Plans : BeginRequest(c, k, p)
                    \/ \E a \in Approvals : CommitRequest(c, a)
             PROVE  TypeOK'
  BY DEF Requesting
<1>1. ASSUME NEW k \in Keys, NEW p \in Plans, BeginRequest(c, k, p) PROVE TypeOK'
  <2>1. /\ Reading(k, p, None) \in CallRow
        /\ Reading(k, p, None).plan = p
        /\ Reading(k, p, None).approval = None
    BY <1>1 DEF BeginRequest, Opens, Reading, CallRow, RowCall, KeysOf
  <2>2. planned[p] # None
    BY <1>1 DEF BeginRequest, TypeOK, RowsExist
  <2> QED BY <1>1, <2>1, <2>2, BeginTypes DEF BeginRequest
<1>2. ASSUME NEW a \in Approvals, CommitRequest(c, a) PROVE TypeOK'
  <2> DEFINE p == call[c].plan
             row == [plan |-> p, digest |-> planned[p].digest, by |-> Owner[call[c].key]]
  <2>1. p \in Plans /\ Owner[call[c].key] \in Principals
    BY <1>2, OpenCalls DEF CommitRequest
  <2>2. planned[p] \in PlannedRow /\ planned[p] # None
    BY <1>2, <2>1, AgentContractAssumption DEF TypeOK, RowsExist, CommitRequest
  <2>3. /\ row \in RequestRow /\ row.plan = p /\ Pending \in VerdictRow
        /\ row # None /\ Pending # None
    BY <2>1, <2>2, AgentContractAssumption
       DEF RequestRow, PlannedRow, Pending, VerdictRow
  <2>4. /\ request' = [request EXCEPT ![a] = row]
        /\ verdict' = [verdict EXCEPT ![a] = Pending]
        /\ planState' = [planState EXCEPT ![p] = "approval_pending"]
        /\ planState[p] = "draft"
        /\ Closes(c, p)
        /\ UNCHANGED <<article, content, account, planned, expired, jobs, moving, history>>
    BY <1>2 DEF CommitRequest, Submits
  <2> HIDE DEF p, row
  <2>5. request' \in [Approvals -> RequestRow \cup {None}]
        /\ verdict' \in [Approvals -> VerdictRow \cup {None}]
        /\ planState' \in [Plans -> PlanState]
    BY <2>1, <2>3, <2>4 DEF TypeOK, PlanState
  <2>6. /\ ledger' \in [Keys -> Plans \cup {None}]
        /\ call' \in [Callers -> CallRow]
        /\ \A d \in Callers : call'[d] = call[d] \/ call'[d] = NoCall
    BY <2>1, <2>4, CloseTypes
  <2>7. RowsExist'
    <3>1. \A q \in Plans : (planned'[q] = None) <=> (planState'[q] = "absent")
      BY <2>1, <2>4 DEF TypeOK, RowsExist
    <3>2. /\ \A x \in Approvals : (request'[x] = None) <=> (verdict'[x] = None)
          /\ \A x \in Approvals : request'[x] # None => planned'[request'[x].plan] # None
      BY <2>2, <2>3, <2>4, RowFacts DEF RowsExist
    <3>3. \A x \in Approvals : request[x] # None => request'[x] # None
      BY <2>3, <2>4 DEF TypeOK
    <3>4. \A q \in Plans : planned[q] # None => planned'[q] # None
      BY <2>4
    <3> QED BY <2>6, <3>1, <3>2, <3>3, <3>4, CallsKeepRows DEF RowsExist
  <2> QED
    BY <2>4, <2>5, <2>6, <2>7 DEF TypeOK, account, jobs, history, CurrentDigest
<1> QED BY <1>1, <1>2

LEMMA DecidingTypes == TypeOK /\ Deciding => TypeOK'
<1> SUFFICES ASSUME TypeOK, NEW c \in Callers,
                    \/ \E k \in Keys, a \in Approvals, decision \in {"approved", "rejected"} :
                         BeginDecide(c, k, a, decision)
                    \/ CommitDecide(c)
             PROVE  TypeOK'
  BY DEF Deciding
<1>1. ASSUME NEW k \in Keys, NEW a \in Approvals,
             NEW decision \in {"approved", "rejected"},
             BeginDecide(c, k, a, decision)
      PROVE  TypeOK'
  <2> DEFINE reading == [key |-> k, plan |-> request[a].plan, approval |-> a,
                         decision |-> decision, digest |-> request[a].digest]
  <2>1. /\ request[a] # None /\ request[a].plan \in Plans /\ request[a].digest \in Digests
        /\ planned[request[a].plan] # None
    BY <1>1, RowFacts DEF BeginDecide, RowsExist, RequestRow
  <2>2. reading \in CallRow /\ reading.plan = request[a].plan /\ reading.approval = a
    BY <1>1, <2>1 DEF BeginDecide, Opens, CallRow, DecideCall, KeysOf
  <2>3. /\ Opens(c, k, "decide_approval", reading)
        /\ UNCHANGED <<article, content, account, plan, approval, expired, jobs, ledger,
                       moving, history>>
    BY <1>1 DEF BeginDecide
  <2> HIDE DEF reading
  <2> QED BY <2>1, <2>2, <2>3, BeginTypes
<1>2. ASSUME CommitDecide(c) PROVE TypeOK'
  <2> DEFINE p == call[c].plan
             a == call[c].approval
             row == [status |-> call[c].decision, by |-> Owner[call[c].key],
                     digest |-> call[c].digest]
  <2>1. /\ p \in Plans /\ a \in Approvals /\ row \in VerdictRow
        /\ call[c].decision \in PlanState \ {"absent"}
    BY <1>2, OpenCalls DEF CommitDecide, VerdictRow, PlanState
  <2>2. row # None /\ verdict[a] # None /\ planned[p] # None
    <3>1. InCall(c, "decide_approval")
      BY <1>2 DEF CommitDecide
    <3>2. p # None /\ a # None
      BY <2>1, AgentContractAssumption
    <3>3. request[a] # None /\ planned[p] # None
      BY <3>2, RowFacts DEF RowsExist
    <3>4. verdict[a] # None
      BY <2>1, <3>3, RowFacts DEF RowsExist
    <3> QED BY <2>1, <3>3, <3>4, AgentContractAssumption
  <2>3. /\ verdict' = [verdict EXCEPT ![a] = row]
        /\ planState' = [planState EXCEPT ![p] = call[c].decision]
        /\ Closes(c, p)
        /\ UNCHANGED <<article, content, account, planned, request, expired, jobs,
                       moving, history>>
    BY <1>2 DEF CommitDecide, Decides
  <2> HIDE DEF p, a, row
  <2>4. verdict' \in [Approvals -> VerdictRow \cup {None}]
        /\ planState' \in [Plans -> PlanState]
    BY <2>1, <2>3 DEF TypeOK
  <2>5. /\ ledger' \in [Keys -> Plans \cup {None}]
        /\ call' \in [Callers -> CallRow]
        /\ \A d \in Callers : call'[d] = call[d] \/ call'[d] = NoCall
    BY <2>1, <2>3, CloseTypes
  <2>6. RowsExist'
    <3>1. \A q \in Plans : (planned'[q] = None) <=> (planState'[q] = "absent")
      BY <2>1, <2>2, <2>3, RowFacts DEF RowsExist
    <3>2. /\ \A x \in Approvals : (request'[x] = None) <=> (verdict'[x] = None)
          /\ \A x \in Approvals : request'[x] # None => planned'[request'[x].plan] # None
      BY <2>1, <2>2, <2>3, RowFacts DEF RowsExist
    <3>3. /\ \A q \in Plans : planned[q] # None => planned'[q] # None
          /\ \A x \in Approvals : request[x] # None => request'[x] # None
      BY <2>3
    <3> QED BY <2>5, <3>1, <3>2, <3>3, CallsKeepRows DEF RowsExist
  <2> QED
    BY <2>3, <2>4, <2>5, <2>6 DEF TypeOK, account, jobs, history, CurrentDigest
<1> QED BY <1>1, <1>2

LEMMA SchedulingTypes == TypeOK /\ Scheduling => TypeOK'
<1> SUFFICES ASSUME TypeOK, Scheduling PROVE TypeOK'
  OBVIOUS
<1>1. ASSUME NEW c \in Callers, NEW k \in Keys, NEW p \in Plans, BeginSchedule(c, k, p)
      PROVE  TypeOK'
  <2>1. /\ Reading(k, p, None) \in CallRow
        /\ Reading(k, p, None).plan = p
        /\ Reading(k, p, None).approval = None
    BY <1>1 DEF BeginSchedule, Opens, Reading, CallRow, RowCall, KeysOf
  <2>2. planned[p] # None
    BY <1>1 DEF BeginSchedule, TypeOK, RowsExist
  <2> QED BY <1>1, <2>1, <2>2, BeginTypes DEF BeginSchedule
<1>2. ASSUME NEW c \in Callers, CommitSchedule(c) PROVE TypeOK'
  <2> DEFINE p == call[c].plan
  <2>1. p \in Plans
    BY <1>2, OpenCalls DEF CommitSchedule
  <2>2. /\ planState[p] = "approved"
        /\ planState' = [planState EXCEPT ![p] = "scheduled"]
        /\ article' = "scheduled"
        /\ fanOuts' = [fanOuts EXCEPT ![p] = @ + 1]
        /\ claims' = claims + 1
        /\ Closes(c, p)
        /\ UNCHANGED <<content, account, planned, approval, expired, moving, history>>
    BY <1>2 DEF CommitSchedule, Schedules
  <2> HIDE DEF p
  <2>3. /\ planState' \in [Plans -> PlanState] /\ article' \in ArticleStatus
        /\ fanOuts' \in [Plans -> Nat] /\ claims' \in Nat
    BY <2>1, <2>2 DEF TypeOK, PlanState, ArticleStatus
  <2>4. /\ ledger' \in [Keys -> Plans \cup {None}]
        /\ call' \in [Callers -> CallRow]
        /\ \A d \in Callers : call'[d] = call[d] \/ call'[d] = NoCall
    BY <2>1, <2>2, CloseTypes
  <2>5. RowsExist'
    <3>1. \A q \in Plans : (planned'[q] = None) <=> (planState'[q] = "absent")
      BY <2>1, <2>2 DEF TypeOK, RowsExist
    <3>2. /\ \A x \in Approvals : (request'[x] = None) <=> (verdict'[x] = None)
          /\ \A x \in Approvals : request'[x] # None => planned'[request'[x].plan] # None
      BY <2>2, RowFacts DEF RowsExist, approval
    <3>3. /\ \A q \in Plans : planned[q] # None => planned'[q] # None
          /\ \A x \in Approvals : request[x] # None => request'[x] # None
      BY <2>2 DEF approval
    <3> QED BY <2>4, <3>1, <3>2, <3>3, CallsKeepRows DEF RowsExist
  <2> QED
    BY <2>2, <2>3, <2>4, <2>5 DEF TypeOK, account, approval, history, CurrentDigest
<1>3. ASSUME NEW k \in Keys, NEW p \in Plans, ScheduleReplays(k, p) PROVE TypeOK'
  <2>1. ledger' \in [Keys -> Plans \cup {None}]
    BY <1>3 DEF ScheduleReplays, TypeOK
  <2>2. RowsExist'
    BY <1>3 DEF ScheduleReplays, TypeOK, RowsExist, plan, approval
  <2> QED
    BY <1>3, <2>1, <2>2
       DEF ScheduleReplays, TypeOK, plan, account, approval, jobs, history, CurrentDigest
<1> QED BY <1>1, <1>2, <1>3 DEF Scheduling

LEMMA AbortTypes ==
    ASSUME TypeOK, NEW c \in Callers, CallAborts(c)
    PROVE  TypeOK'
<1>1. /\ call' \in [Callers -> CallRow]
      /\ \A d \in Callers : call'[d] = call[d] \/ call'[d] = NoCall
  BY DEF CallAborts, TypeOK, CallRow
<1>2. RowsExist'
  <2>1. /\ planned' = planned /\ planState' = planState
        /\ request' = request /\ verdict' = verdict
    BY DEF CallAborts, plan, approval
  <2> QED BY <1>1, <2>1, CallsKeepRows DEF RowsExist, TypeOK
<1> QED
  BY <1>1, <1>2
     DEF CallAborts, TypeOK, plan, account, approval, jobs, history, CurrentDigest

\* What no call of the contract does leaves the rows of plans and approvals alone.
LEMMA OutsideTypes == TypeOK /\ (Drift \/ OlderRoutes \/ Working) => TypeOK'
<1> SUFFICES ASSUME TypeOK, Drift \/ OlderRoutes \/ Working PROVE TypeOK'
  OBVIOUS
<1>1. UNCHANGED <<plan, approval, call, ledger, fanOuts>>
  BY DEF Drift, OlderRoutes, Working, Expires, ContentGrows, AccountEdited, AccountPaused,
     BanRecovers, HealthChanges, ReadForMove, WriteMove, Distribute, WorkerSyncs, Execute, jobs
<1>2. RowsExist'
  BY <1>1 DEF TypeOK, RowsExist, plan, approval
<1>3. CASE Drift
  <2>1. CurrentDigest' \in Digests
    <3>1. content \in 0..MaxChanges /\ edits \in 0..MaxChanges /\ pauses \in 0..MaxChanges
      BY DEF TypeOK, CurrentDigest, Digests
    <3>2. /\ content' \in 0..MaxChanges /\ edits' \in 0..MaxChanges
          /\ pauses' \in 0..MaxChanges
      BY <1>3, <3>1, AgentContractAssumption
         DEF Drift, Expires, ContentGrows, AccountEdited, AccountPaused, BanRecovers, HealthChanges,
             Versions, account
    <3> QED BY <3>2 DEF CurrentDigest, Digests
  <2>4. runnable' \in BOOLEAN
    <3>1. runnable \in BOOLEAN /\ Probes \subseteq BOOLEAN
      BY Zenon, AgentContractAssumption DEF TypeOK
    <3>2. runnable' \in {runnable, TRUE, FALSE} \cup Probes
      BY <1>3, Zenon DEF Drift, Expires, ContentGrows, AccountEdited, AccountPaused,
         BanRecovers, HealthChanges, account
    <3> QED BY <3>1, <3>2
  <2>2. expired' \subseteq Approvals
    BY <1>3 DEF Drift, Expires, ContentGrows, AccountEdited, AccountPaused, BanRecovers, HealthChanges, TypeOK
  <2>3. UNCHANGED <<article, claims, moving, history>>
    BY <1>3 DEF Drift, Expires, ContentGrows, AccountEdited, AccountPaused, BanRecovers, HealthChanges, jobs
  <2> QED BY <1>1, <1>2, <2>1, <2>2, <2>3, <2>4 DEF TypeOK, plan, approval, history
<1>4. CASE OlderRoutes
  <2>1. \A m \in Moves : m[2] \in ArticleStatus
    BY AgentContractAssumption DEF AllowedTransitions, ArticleStatus
  <2>2. /\ article' \in ArticleStatus /\ moving' \subseteq Moves /\ claims' \in Nat
        /\ reopened' \in 0..MaxReopened
    BY <1>4, <2>1, AgentContractAssumption
       DEF OlderRoutes, ReadForMove, WriteMove, Distribute, TypeOK, ArticleStatus, jobs, history
  <2>3. UNCHANGED <<content, account, expired, published>>
    BY <1>4 DEF OlderRoutes, ReadForMove, WriteMove, Distribute, history
  <2> QED BY <1>1, <1>2, <2>2, <2>3 DEF TypeOK, plan, approval, account, CurrentDigest
<1>5. CASE Working
  <2>1. article' \in ArticleStatus
    BY <1>5, AgentContractAssumption DEF Working, WorkerSyncs, Execute, TypeOK, ArticleStatus
  <2>2. published' \subseteq [plan: Plans, digest: Digests]
    <3>1. CASE WorkerSyncs
      BY <3>1 DEF WorkerSyncs, TypeOK, history
    <3>2. ASSUME NEW p \in Plans, Execute(p)
          PROVE  published' \subseteq [plan: Plans, digest: Digests]
      <4>1. planned[p] \in PlannedRow
        BY <3>2 DEF Execute, Executable, TypeOK, RowsExist
      <4>2. [plan |-> p, digest |-> Payload(p)] \in [plan: Plans, digest: Digests]
        BY <4>1 DEF Payload, PlannedRow
      <4> QED BY <3>2, <4>2 DEF Execute, TypeOK
    <3> QED BY <1>5, <3>1, <3>2 DEF Working
  <2>3. UNCHANGED <<content, account, expired, claims, moving, reopened>>
    BY <1>5 DEF Working, WorkerSyncs, Execute, jobs, history
  <2> QED BY <1>1, <1>2, <2>1, <2>2, <2>3 DEF TypeOK, plan, approval, account, CurrentDigest
<1> QED BY <1>3, <1>4, <1>5

LEMMA NextTypes == TypeOK /\ [Next]_vars => TypeOK'
BY PlanningTypes, RequestingTypes, DecidingTypes, SchedulingTypes, AbortTypes, OutsideTypes,
   StutterTypes DEF Next

(* Types hold, rows exist as a whole, and what refers to a row finds it.     *)
THEOREM RowsAndTypes == Spec => []TypeOK
<1>1. Init => TypeOK
  BY InitTypes
<1>2. TypeOK /\ [Next]_vars => TypeOK'
  BY NextTypes
<1> QED BY <1>1, <1>2, PTL DEF Spec

(***************************************************************************)
(* The ledger: open calls have keys of their own, none of them committed,  *)
(* and a key that has made a plan names one.                               *)
(***************************************************************************)
MadeBy(p) == {k \in Keys : Operation[k] = "plan_publication" /\ ledger[k] = p}

LedgerInv ==
    /\ \A c \in Callers : call[c] # NoCall => ledger[call[c].key] = None
    /\ \A c, d \in Callers : call[c] # NoCall /\ call[d].key = call[c].key => c = d
    /\ \A p \in Plans : planState[p] = "absent" => MadeBy(p) = {}
    /\ \A p \in Plans : planState[p] # "absent" => \E k \in Keys : MadeBy(p) = {k}

(***************************************************************************)
(* What rows say of each other, and what an open decision knows of them.   *)
(***************************************************************************)
DigestsAgree ==
    \A a \in Approvals : request[a] # None =>
        request[a].digest = planned[request[a].plan].digest

VerdictsHold ==
    \A a \in Approvals : request[a] # None /\ verdict[a].status # "pending" =>
        /\ verdict[a].digest = request[a].digest
        /\ Independent(a, verdict[a].by)

DecisionsInformed ==
    \A c \in Callers : InCall(c, "decide_approval") =>
        /\ call[c].plan = request[call[c].approval].plan
        /\ call[c].digest = request[call[c].approval].digest
        /\ Independent(call[c].approval, Owner[call[c].key])

PublishedFromPlan ==
    \A e \in published : planState[e.plan] = "scheduled" /\ e.digest = planned[e.plan].digest

RowInv ==
    /\ DigestsAgree /\ VerdictsHold /\ DecisionsInformed
    /\ PlanFollowsApproval /\ ScheduledOnce /\ PublishedFromPlan

ClaimsInv == claims <= 1 + reopened /\ (article \in Schedulable => claims <= reopened)


\* A call that begins has a key that nobody has.
LEMMA BeginLedger ==
    ASSUME TypeOK, LedgerInv, NEW c \in Callers, NEW k \in Keys, NEW operation,
           NEW reading \in CallRow, reading.key = k, Opens(c, k, operation, reading),
           UNCHANGED <<plan, ledger>>
    PROVE  LedgerInv'
<1>1. /\ call \in [Callers -> CallRow]
      /\ call' = [call EXCEPT ![c] = reading]
      /\ ledger[k] = None
      /\ \A d \in Callers : call[d].key # k
      /\ planState' = planState /\ ledger' = ledger
  BY DEF TypeOK, Opens, Claimable, plan
<1>2. \A d \in Callers : call'[d] = IF d = c THEN reading ELSE call[d]
  BY <1>1
<1>3. \A d \in Callers : call'[d] # NoCall => ledger'[call'[d].key] = None
  BY <1>1, <1>2 DEF LedgerInv
<1>4. \A d, e \in Callers : call'[d] # NoCall /\ call'[e].key = call'[d].key => d = e
  BY <1>1, <1>2 DEF LedgerInv
<1> QED BY <1>1, <1>3, <1>4 DEF LedgerInv, MadeBy

\* A transaction that closes keeps the other keys open and uncommitted.
LEMMA CloseLedger ==
    ASSUME TypeOK, LedgerInv, NEW c \in Callers, NEW p \in Plans, Closes(c, p),
           call[c] # NoCall
    PROVE  /\ \A d \in Callers : call'[d] # NoCall => ledger'[call'[d].key] = None
           /\ \A d, e \in Callers : call'[d] # NoCall /\ call'[e].key = call'[d].key => d = e
           /\ \A k \in Keys : ledger'[k] = IF k = call[c].key THEN p ELSE ledger[k]
           /\ ledger[call[c].key] = None
<1>1. /\ call \in [Callers -> CallRow] /\ ledger \in [Keys -> Plans \cup {None}]
      /\ call' = [call EXCEPT ![c] = NoCall]
      /\ ledger' = [ledger EXCEPT ![call[c].key] = p]
  BY DEF TypeOK, Closes
<1>2. \A d \in Callers : call'[d] = IF d = c THEN NoCall ELSE call[d]
  BY <1>1
<1>3. \A d \in Callers : call[d] # NoCall => call[d].key \in Keys
  BY <1>1 DEF CallRow, PlanCall, RowCall, DecideCall, KeysOf
<1>4. \A k \in Keys : ledger'[k] = IF k = call[c].key THEN p ELSE ledger[k]
  BY <1>1
<1>5. \A d \in Callers : d # c /\ call[d] # NoCall => call[d].key # call[c].key
  BY DEF LedgerInv
<1>6. \A d \in Callers : call'[d] # NoCall => ledger'[call'[d].key] = None
  BY <1>2, <1>3, <1>4, <1>5 DEF LedgerInv
<1>7. NoCall.key = None /\ None \notin Keys
  BY AgentContractAssumption DEF NoCall
<1>8. \A d, e \in Callers : call'[d] # NoCall /\ call'[e].key = call'[d].key => d = e
  BY <1>2, <1>3, <1>7 DEF LedgerInv
<1> QED BY <1>4, <1>6, <1>8 DEF LedgerInv

\* A step that commits no plan_publication leaves the makers of plans alone.
LEMMA MakersStay ==
    ASSUME LedgerInv,
           \A p \in Plans : (planState'[p] = "absent") <=> (planState[p] = "absent"),
           \A k \in Keys : Operation[k] = "plan_publication" => ledger'[k] = ledger[k]
    PROVE  /\ \A p \in Plans : planState'[p] = "absent" => MadeBy(p)' = {}
           /\ \A p \in Plans : planState'[p] # "absent" => \E k \in Keys : MadeBy(p)' = {k}
<1>1. \A p \in Plans : MadeBy(p)' = MadeBy(p)
  BY DEF MadeBy
<1> QED BY <1>1 DEF LedgerInv

LEMMA PlanningLedger == TypeOK /\ LedgerInv /\ Planning => LedgerInv'
<1> SUFFICES ASSUME TypeOK, LedgerInv, NEW c \in Callers,
                    \/ \E k \in Keys : BeginPlan(c, k)
                    \/ \E p \in Plans : CommitPlan(c, p)
             PROVE  LedgerInv'
  BY DEF Planning
<1>1. ASSUME NEW k \in Keys, BeginPlan(c, k) PROVE LedgerInv'
  <2>1. /\ Reading(k, None, CurrentDigest) \in CallRow
        /\ Reading(k, None, CurrentDigest).key = k
    BY <1>1 DEF BeginPlan, Opens, Reading, CallRow, PlanCall, KeysOf, TypeOK
  <2> QED BY <1>1, <2>1, BeginLedger DEF BeginPlan
<1>2. ASSUME NEW p \in Plans, CommitPlan(c, p) PROVE LedgerInv'
  <2> DEFINE key == call[c].key
  <2>1. /\ key \in Keys /\ Operation[key] = "plan_publication" /\ call[c] # NoCall
        /\ Closes(c, p) /\ planState[p] = "absent"
        /\ planState' = [planState EXCEPT ![p] = "draft"]
    BY <1>2, OpenCalls DEF CommitPlan, InCall
  <2>2. /\ \A d \in Callers : call'[d] # NoCall => ledger'[call'[d].key] = None
        /\ \A d, e \in Callers : call'[d] # NoCall /\ call'[e].key = call'[d].key => d = e
        /\ \A k \in Keys : ledger'[k] = IF k = key THEN p ELSE ledger[k]
        /\ ledger[key] = None
    BY <2>1, CloseLedger
  <2>3. \A q \in Plans : planState'[q] = IF q = p THEN "draft" ELSE planState[q]
    BY <2>1 DEF TypeOK
  <2>4. MadeBy(p)' = {key}
    BY <2>1, <2>2 DEF LedgerInv, MadeBy
  <2>5. \A q \in Plans : q # p => MadeBy(q)' = MadeBy(q)
    BY <2>2, AgentContractAssumption DEF MadeBy
  <2> HIDE DEF key
  <2> QED BY <2>1, <2>2, <2>3, <2>4, <2>5 DEF LedgerInv
<1> QED BY <1>1, <1>2

\* The commit of any other operation.
LEMMA OtherLedger ==
    ASSUME TypeOK, LedgerInv, NEW c \in Callers, NEW p \in Plans, NEW operation,
           InCall(c, operation), operation # "plan_publication", Closes(c, p),
           NEW stage, stage # "absent",
           planState[p] # "absent", planState' = [planState EXCEPT ![p] = stage]
    PROVE  LedgerInv'
<1>1. call[c] # NoCall /\ Operation[call[c].key] # "plan_publication"
  BY DEF InCall
<1>2. /\ \A d \in Callers : call'[d] # NoCall => ledger'[call'[d].key] = None
      /\ \A d, e \in Callers : call'[d] # NoCall /\ call'[e].key = call'[d].key => d = e
      /\ \A k \in Keys : ledger'[k] = IF k = call[c].key THEN p ELSE ledger[k]
  BY <1>1, CloseLedger
<1>3. \A q \in Plans : (planState'[q] = "absent") <=> (planState[q] = "absent")
  BY DEF TypeOK
<1>4. \A k \in Keys : Operation[k] = "plan_publication" => ledger'[k] = ledger[k]
  BY <1>1, <1>2
<1> QED BY <1>2, <1>3, <1>4, MakersStay DEF LedgerInv

LEMMA RequestingLedger == TypeOK /\ LedgerInv /\ Requesting => LedgerInv'
<1> SUFFICES ASSUME TypeOK, LedgerInv, NEW c \in Callers,
                    \/ \E k \in Keys, p \in Plans : BeginRequest(c, k, p)
                    \/ \E a \in Approvals : CommitRequest(c, a)
             PROVE  LedgerInv'
  BY DEF Requesting
<1>1. ASSUME NEW k \in Keys, NEW p \in Plans, BeginRequest(c, k, p) PROVE LedgerInv'
  <2>1. Reading(k, p, None) \in CallRow /\ Reading(k, p, None).key = k
    BY <1>1 DEF BeginRequest, Opens, Reading, CallRow, RowCall, KeysOf
  <2> QED BY <1>1, <2>1, BeginLedger DEF BeginRequest
<1>2. ASSUME NEW a \in Approvals, CommitRequest(c, a) PROVE LedgerInv'
  <2>1. /\ InCall(c, "request_approval") /\ call[c].plan \in Plans
        /\ Closes(c, call[c].plan) /\ planState[call[c].plan] = "draft"
        /\ planState' = [planState EXCEPT ![call[c].plan] = "approval_pending"]
    BY <1>2, OpenCalls DEF CommitRequest, Submits
  <2> QED BY <2>1, OtherLedger
<1> QED BY <1>1, <1>2

LEMMA DecidingLedger == TypeOK /\ LedgerInv /\ Deciding => LedgerInv'
<1> SUFFICES ASSUME TypeOK, LedgerInv, NEW c \in Callers,
                    \/ \E k \in Keys, a \in Approvals, decision \in {"approved", "rejected"} :
                         BeginDecide(c, k, a, decision)
                    \/ CommitDecide(c)
             PROVE  LedgerInv'
  BY DEF Deciding
<1>1. ASSUME NEW k \in Keys, NEW a \in Approvals,
             NEW decision \in {"approved", "rejected"},
             BeginDecide(c, k, a, decision)
      PROVE  LedgerInv'
  <2> DEFINE reading == [key |-> k, plan |-> request[a].plan, approval |-> a,
                         decision |-> decision, digest |-> request[a].digest]
  <2>1. request[a].plan \in Plans /\ request[a].digest \in Digests
    BY <1>1, RowFacts DEF BeginDecide, RequestRow
  <2>2. reading \in CallRow /\ reading.key = k
    BY <1>1, <2>1 DEF BeginDecide, Opens, CallRow, DecideCall, KeysOf
  <2>3. Opens(c, k, "decide_approval", reading) /\ UNCHANGED <<plan, ledger>>
    BY <1>1 DEF BeginDecide
  <2> HIDE DEF reading
  <2> QED BY <2>2, <2>3, BeginLedger
<1>2. ASSUME CommitDecide(c) PROVE LedgerInv'
  <2>1. /\ InCall(c, "decide_approval") /\ Closes(c, call[c].plan)
        /\ planState' = [planState EXCEPT ![call[c].plan] = call[c].decision]
    BY <1>2 DEF CommitDecide, Decides
  <2>2. call[c].plan \in Plans /\ call[c].decision # "absent"
    BY <2>1, OpenCalls
  <2>3. planState[call[c].plan] # "absent"
    BY <2>2, RowFacts, AgentContractAssumption DEF RowsExist
  <2> QED BY <2>1, <2>2, <2>3, OtherLedger
<1> QED BY <1>1, <1>2

LEMMA SchedulingLedger == TypeOK /\ LedgerInv /\ Scheduling => LedgerInv'
<1> SUFFICES ASSUME TypeOK, LedgerInv, Scheduling PROVE LedgerInv'
  OBVIOUS
<1>1. ASSUME NEW c \in Callers, NEW k \in Keys, NEW p \in Plans, BeginSchedule(c, k, p)
      PROVE  LedgerInv'
  <2>1. Reading(k, p, None) \in CallRow /\ Reading(k, p, None).key = k
    BY <1>1 DEF BeginSchedule, Opens, Reading, CallRow, RowCall, KeysOf
  <2> QED BY <1>1, <2>1, BeginLedger DEF BeginSchedule
<1>2. ASSUME NEW c \in Callers, CommitSchedule(c) PROVE LedgerInv'
  <2>1. /\ InCall(c, "schedule") /\ call[c].plan \in Plans
        /\ Closes(c, call[c].plan) /\ planState[call[c].plan] = "approved"
        /\ planState' = [planState EXCEPT ![call[c].plan] = "scheduled"]
    BY <1>2, OpenCalls DEF CommitSchedule, Schedules
  <2> QED BY <2>1, OtherLedger
<1>3. ASSUME NEW k \in Keys, NEW p \in Plans, ScheduleReplays(k, p) PROVE LedgerInv'
  <2>1. /\ Operation[k] = "schedule" /\ ledger[k] = None
        /\ \A c \in Callers : call[c].key # k
        /\ ledger' = [ledger EXCEPT ![k] = p]
        /\ planState' = planState /\ call' = call
    BY <1>3 DEF ScheduleReplays, Claimable, plan
  <2>2. \A x \in Keys : ledger'[x] = IF x = k THEN p ELSE ledger[x]
    BY <2>1 DEF TypeOK
  <2>3. \A c \in Callers : call[c] # NoCall => call[c].key \in Keys
    BY DEF TypeOK, CallRow, PlanCall, RowCall, DecideCall, KeysOf
  <2>4. \A c \in Callers : call'[c] # NoCall => ledger'[call'[c].key] = None
    BY <2>1, <2>2, <2>3 DEF LedgerInv
  <2>5. \A x \in Keys : Operation[x] = "plan_publication" => ledger'[x] = ledger[x]
    BY <2>1, <2>2
  <2> QED BY <2>1, <2>4, <2>5, MakersStay DEF LedgerInv
<1> QED BY <1>1, <1>2, <1>3 DEF Scheduling

LEMMA AbortLedger ==
    ASSUME TypeOK, LedgerInv, NEW c \in Callers, CallAborts(c)
    PROVE  LedgerInv'
<1>1. /\ planState' = planState /\ ledger' = ledger
      /\ \A d \in Callers : call'[d] = IF d = c THEN NoCall ELSE call[d]
  BY DEF CallAborts, TypeOK, plan
<1>2. \A d \in Callers : call[d] # NoCall => call[d].key \in Keys
  BY DEF TypeOK, CallRow, PlanCall, RowCall, DecideCall, KeysOf
<1>3. NoCall.key = None /\ None \notin Keys
  BY AgentContractAssumption DEF NoCall
<1>4. \A d \in Callers : call'[d] # NoCall => ledger'[call'[d].key] = None
  BY <1>1 DEF LedgerInv
<1>5. \A d, e \in Callers : call'[d] # NoCall /\ call'[e].key = call'[d].key => d = e
  BY <1>1, <1>2, <1>3 DEF LedgerInv
<1> QED BY <1>1, <1>4, <1>5, MakersStay DEF LedgerInv

LEMMA OutsideLedger == LedgerInv /\ (Drift \/ OlderRoutes \/ Working) => LedgerInv'
<1> SUFFICES ASSUME LedgerInv, Drift \/ OlderRoutes \/ Working PROVE LedgerInv'
  OBVIOUS
<1>1. planState' = planState /\ ledger' = ledger /\ call' = call
  BY DEF Drift, OlderRoutes, Working, Expires, ContentGrows, AccountEdited, AccountPaused,
     BanRecovers, HealthChanges, ReadForMove, WriteMove, Distribute, WorkerSyncs, Execute, plan
<1> QED BY <1>1, MakersStay DEF LedgerInv

LEMMA InitLedger == Init => LedgerInv
BY AgentContractAssumption DEF Init, LedgerInv, MadeBy, NoCall

LEMMA NextLedger == TypeOK /\ LedgerInv /\ [Next]_vars => LedgerInv'
<1>1. LedgerInv /\ UNCHANGED vars => LedgerInv'
  BY DEF LedgerInv, MadeBy, vars, plan
<1> QED
  BY <1>1, PlanningLedger, RequestingLedger, DecidingLedger, SchedulingLedger, AbortLedger,
     OutsideLedger DEF Next

(* A retried plan_publication creates no second plan: whatever calls compete, *)
(* every plan answers exactly one key.                                       *)
THEOREM PlansAnswerOneKey == Spec => []OnePlanPerKey
<1>1. Init => LedgerInv
  BY InitLedger
<1>2. TypeOK /\ LedgerInv /\ [Next]_vars => LedgerInv'
  BY NextLedger
<1>3. LedgerInv => OnePlanPerKey
  BY DEF LedgerInv, MadeBy, OnePlanPerKey
<1> QED BY <1>1, <1>2, <1>3, RowsAndTypes, PTL DEF Spec

(***************************************************************************)
(* Rows.                                                                   *)
(***************************************************************************)

\* Rows that are there keep what others know of them.
LEMMA KnowledgeStays ==
    ASSUME TypeOK,
           \A a \in Approvals : request[a] # None =>
             /\ request'[a] = request[a]
             /\ planned'[request[a].plan] = planned[request[a].plan]
    PROVE  /\ \A who : \A a \in Approvals : request[a] # None =>
                (Independent(a, who)' <=> Independent(a, who))
           /\ DecisionsInformed /\ (\A d \in Callers : call'[d] = call[d] \/ call'[d] = NoCall)
                => DecisionsInformed'
<1>1. \A who : \A a \in Approvals : request[a] # None =>
        (Independent(a, who)' <=> Independent(a, who))
  BY DEF Independent
<1>2. ASSUME DecisionsInformed, NEW d \in Callers, call'[d] = call[d] \/ call'[d] = NoCall,
             InCall(d, "decide_approval")'
      PROVE  /\ call'[d].plan = request'[call'[d].approval].plan
             /\ call'[d].digest = request'[call'[d].approval].digest
             /\ Independent(call[d].approval, Owner[call[d].key])'
  <2>1. call'[d] = call[d] /\ InCall(d, "decide_approval")
    BY <1>2 DEF InCall
  <2>2. call[d].approval \in Approvals /\ call[d].approval # None
    BY <2>1, OpenCalls, AgentContractAssumption
  <2>3. request[call[d].approval] # None
    BY <2>2 DEF TypeOK, RowsExist
  <2>4. /\ call[d].plan = request[call[d].approval].plan
        /\ call[d].digest = request[call[d].approval].digest
        /\ Independent(call[d].approval, Owner[call[d].key])
    BY <1>2, <2>1 DEF DecisionsInformed
  <2> QED BY <1>1, <2>1, <2>2, <2>3, <2>4
<1>3. DecisionsInformed /\ (\A d \in Callers : call'[d] = call[d] \/ call'[d] = NoCall)
        => DecisionsInformed'
  BY <1>2 DEF DecisionsInformed
<1> QED BY <1>1, <1>3

\* A step that writes no row, no job and publishes nothing.
LEMMA RowsUntouched ==
    ASSUME RowInv, UNCHANGED <<plan, approval, fanOuts, published>>, DecisionsInformed'
    PROVE  RowInv'
<1>1. /\ planState' = planState /\ planned' = planned
      /\ request' = request /\ verdict' = verdict
  BY DEF plan, approval
<1>2. DigestsAgree'
  BY <1>1 DEF RowInv, DigestsAgree
<1>3. VerdictsHold'
  BY <1>1 DEF RowInv, VerdictsHold, Independent
<1>4. PlanFollowsApproval'
  BY <1>1 DEF RowInv, PlanFollowsApproval, Requests
<1>5. ScheduledOnce'
  BY <1>1 DEF RowInv, ScheduledOnce
<1>6. PublishedFromPlan'
  BY <1>1 DEF RowInv, PublishedFromPlan
<1> QED BY <1>2, <1>3, <1>4, <1>5, <1>6 DEF RowInv

\* A call that begins, other than a decision.
LEMMA BeginRows ==
    ASSUME TypeOK, RowInv, NEW c \in Callers, NEW k \in Keys, NEW operation,
           operation # "decide_approval", NEW reading, reading.key = k,
           Opens(c, k, operation, reading), UNCHANGED <<plan, approval, fanOuts, published>>
    PROVE  RowInv'
<1>1. /\ request' = request /\ planned' = planned /\ Operation[k] = operation
      /\ \A d \in Callers : call'[d] = IF d = c THEN reading ELSE call[d]
  BY DEF Opens, TypeOK, plan, approval
<1>2. DecisionsInformed'
  BY <1>1 DEF RowInv, DecisionsInformed, InCall, Independent
<1> QED BY <1>2, RowsUntouched

\* An open plan_publication inserts a plan that nobody refers to.
LEMMA CommitPlanRows ==
    ASSUME TypeOK, RowInv, NEW c \in Callers, NEW p \in Plans, CommitPlan(c, p)
    PROVE  RowInv'
<1>1. /\ request' = request /\ verdict' = verdict /\ fanOuts' = fanOuts
      /\ published' = published
      /\ planState[p] = "absent" /\ Requests(p) = {}
      /\ planState' = [planState EXCEPT ![p] = "draft"]
      /\ \A q \in Plans : q # p => planned'[q] = planned[q]
      /\ \A d \in Callers : call'[d] = call[d] \/ call'[d] = NoCall
  BY CloseTypes DEF CommitPlan, TypeOK, RowInv, PlanFollowsApproval, approval, jobs, history
<1>2. \A q \in Plans : planState'[q] = IF q = p THEN "draft" ELSE planState[q]
  BY <1>1 DEF TypeOK
<1>3. \A a \in Approvals : request[a] # None =>
        request[a].plan # p /\ planned'[request[a].plan] = planned[request[a].plan]
  BY <1>1, RowFacts DEF Requests
<1>4. DecisionsInformed'
  BY <1>1, <1>3, KnowledgeStays DEF RowInv
<1>5. DigestsAgree'
  BY <1>1, <1>3 DEF RowInv, DigestsAgree
<1>6. VerdictsHold'
  BY <1>1, <1>3, KnowledgeStays DEF RowInv, VerdictsHold
<1>7. PlanFollowsApproval'
  <2>1. \A q \in Plans : Requests(q)' = Requests(q)
    BY <1>1 DEF Requests
  <2> QED BY <1>1, <1>2, <2>1 DEF RowInv, PlanFollowsApproval
<1>8. ScheduledOnce'
  BY <1>1, <1>2 DEF RowInv, ScheduledOnce
<1>9. PublishedFromPlan'
  <2>1. \A e \in published : e.plan \in Plans
    BY DEF TypeOK
  <2> QED BY <1>1, <1>2, <2>1 DEF RowInv, PublishedFromPlan
<1> QED BY <1>4, <1>5, <1>6, <1>7, <1>8, <1>9 DEF RowInv

LEMMA CommitRequestRows ==
    ASSUME TypeOK, RowInv, NEW c \in Callers, NEW a \in Approvals, CommitRequest(c, a)
    PROVE  RowInv'
<1>0. PICK p \in Plans : p = call[c].plan
  BY OpenCalls DEF CommitRequest
<1> DEFINE row == [plan |-> p, digest |-> planned[p].digest, by |-> Owner[call[c].key]]
<1>1. row # None
  <2>1. Owner[call[c].key] \in Principals
    BY OpenCalls DEF CommitRequest
  <2>2. planned[p] \in PlannedRow
    BY <1>0 DEF TypeOK, RowsExist, CommitRequest
  <2> QED BY <2>1, <2>2, AgentContractAssumption DEF RequestRow, PlannedRow
<1>2. /\ request[a] = None /\ planState[p] = "draft"
      /\ request' = [request EXCEPT ![a] = row]
      /\ verdict' = [verdict EXCEPT ![a] = Pending]
      /\ planState' = [planState EXCEPT ![p] = "approval_pending"]
      /\ planned' = planned /\ fanOuts' = fanOuts /\ published' = published
      /\ Closes(c, p)
  BY <1>0 DEF CommitRequest, Submits, jobs, history
<1>3. Requests(p) = {}
  BY <1>1, <1>2 DEF RowInv, PlanFollowsApproval
<1>4. row.plan = p /\ row.digest = planned[p].digest /\ Pending.status = "pending"
  BY DEF Pending
<1> HIDE DEF row
<1>5. /\ \A x \in Approvals : request'[x] = IF x = a THEN row ELSE request[x]
      /\ \A x \in Approvals : verdict'[x] = IF x = a THEN Pending ELSE verdict[x]
      /\ \A q \in Plans : planState'[q] = IF q = p THEN "approval_pending" ELSE planState[q]
      /\ \A d \in Callers : call'[d] = call[d] \/ call'[d] = NoCall
  BY <1>1, <1>2, CloseTypes DEF TypeOK
<1>6. \A x \in Approvals : request[x] # None =>
        request'[x] = request[x] /\ planned'[request[x].plan] = planned[request[x].plan]
  BY <1>2, <1>5
<1>7. DecisionsInformed'
  BY <1>5, <1>6, KnowledgeStays DEF RowInv
<1>8. DigestsAgree'
  BY <1>2, <1>4, <1>5 DEF RowInv, DigestsAgree
<1>9. VerdictsHold'
  BY <1>2, <1>4, <1>5, <1>6, KnowledgeStays DEF RowInv, VerdictsHold
<1>10. PlanFollowsApproval'
  <2>1. Requests(p)' = {a}
    BY <1>1, <1>2, <1>3, <1>4, <1>5 DEF Requests
  <2>2. \A q \in Plans : q # p => Requests(q)' = Requests(q) /\ a \notin Requests(q)
    BY <1>2, <1>4, <1>5 DEF Requests
  <2> QED BY <1>1, <1>4, <1>5, <2>1, <2>2 DEF RowInv, PlanFollowsApproval
<1>11. ScheduledOnce'
  BY <1>2, <1>5 DEF RowInv, ScheduledOnce
<1>12. PublishedFromPlan'
  <2>1. \A e \in published : e.plan \in Plans
    BY DEF TypeOK
  <2> QED BY <1>2, <1>5, <2>1 DEF RowInv, PublishedFromPlan
<1> QED BY <1>7, <1>8, <1>9, <1>10, <1>11, <1>12 DEF RowInv

LEMMA BeginDecideRows ==
    ASSUME TypeOK, RowInv, NEW c \in Callers, NEW k \in Keys, NEW a \in Approvals,
           NEW decision \in {"approved", "rejected"},
           BeginDecide(c, k, a, decision)
    PROVE  RowInv'
<1> DEFINE reading == [key |-> k, plan |-> request[a].plan, approval |-> a,
                       decision |-> decision, digest |-> request[a].digest]
<1>1. /\ request' = request /\ planned' = planned
      /\ Independent(a, Owner[k])
      /\ call' = [call EXCEPT ![c] = reading]
      /\ UNCHANGED <<plan, approval, fanOuts, published>>
  BY DEF BeginDecide, Opens, plan, approval, jobs, history
<1>2. /\ reading.key = k /\ reading.plan = request[a].plan /\ reading.approval = a
      /\ reading.digest = request[a].digest
  OBVIOUS
<1> HIDE DEF reading
<1>3. \A d \in Callers : call'[d] = IF d = c THEN reading ELSE call[d]
  BY <1>1 DEF TypeOK
<1>4. DecisionsInformed'
  BY <1>1, <1>2, <1>3 DEF RowInv, DecisionsInformed, InCall, Independent
<1> QED BY <1>1, <1>4, RowsUntouched

\* A pending decision belongs to the one request of a plan that waits for it.
LEMMA CommitDecideRows ==
    ASSUME TypeOK, RowInv, NEW c \in Callers, CommitDecide(c)
    PROVE  RowInv'
<1> DEFINE p == call[c].plan
           a == call[c].approval
           row == [status |-> call[c].decision, by |-> Owner[call[c].key],
                   digest |-> call[c].digest]
<1>1. /\ p \in Plans /\ a \in Approvals /\ call[c].decision \in {"approved", "rejected"}
      /\ InCall(c, "decide_approval") /\ verdict[a].status = "pending"
  BY OpenCalls DEF CommitDecide
<1>2. request[a] # None
  BY <1>1, AgentContractAssumption DEF TypeOK, RowsExist
<1>3. /\ request[a].plan = p /\ call[c].digest = request[a].digest
      /\ Independent(a, Owner[call[c].key])
  BY <1>1 DEF RowInv, DecisionsInformed
<1>4. /\ verdict' = [verdict EXCEPT ![a] = row]
      /\ planState' = [planState EXCEPT ![p] = call[c].decision]
      /\ Closes(c, p)
      /\ UNCHANGED <<planned, request, fanOuts, published>>
  BY DEF CommitDecide, Decides, jobs, history
<1>5. /\ row.status = call[c].decision /\ row.by = Owner[call[c].key]
      /\ row.digest = call[c].digest
  OBVIOUS
<1> HIDE DEF p, a, row
<1>6. /\ \A x \in Approvals : verdict'[x] = IF x = a THEN row ELSE verdict[x]
      /\ \A q \in Plans : planState'[q] = IF q = p THEN call[c].decision ELSE planState[q]
      /\ \A d \in Callers : call'[d] = call[d] \/ call'[d] = NoCall
  BY <1>1, <1>4, CloseTypes DEF TypeOK
<1>7. Requests(p) = {a} /\ planState[p] = "approval_pending"
  <2>1. a \in Requests(p)
    BY <1>1, <1>2, <1>3 DEF Requests
  <2> QED BY <1>1, <2>1 DEF RowInv, PlanFollowsApproval
<1>8. DecisionsInformed'
  BY <1>4, <1>6, KnowledgeStays DEF RowInv
<1>9. DigestsAgree'
  BY <1>4 DEF RowInv, DigestsAgree
<1>10. VerdictsHold'
  <2>1. \A who : \A x \in Approvals : request[x] # None =>
          (Independent(x, who)' <=> Independent(x, who))
    BY <1>4, KnowledgeStays
  <2> QED BY <1>1, <1>2, <1>3, <1>4, <1>5, <1>6, <2>1 DEF RowInv, VerdictsHold
<1>11. PlanFollowsApproval'
  <2>1. \A q \in Plans : Requests(q)' = Requests(q)
    BY <1>4 DEF Requests
  <2>2. \A q \in Plans : q # p => a \notin Requests(q)
    BY <1>3 DEF Requests
  <2> QED BY <1>1, <1>5, <1>6, <1>7, <2>1, <2>2 DEF RowInv, PlanFollowsApproval
<1>12. ScheduledOnce'
  BY <1>1, <1>4, <1>6, <1>7 DEF RowInv, ScheduledOnce
<1>13. PublishedFromPlan'
  <2>1. \A e \in published : e.plan \in Plans
    BY DEF TypeOK
  <2> QED BY <1>4, <1>6, <1>7, <2>1 DEF RowInv, PublishedFromPlan
<1> QED BY <1>8, <1>9, <1>10, <1>11, <1>12, <1>13 DEF RowInv

LEMMA CommitScheduleRows ==
    ASSUME TypeOK, RowInv, NEW c \in Callers, CommitSchedule(c)
    PROVE  RowInv'
<1> DEFINE p == call[c].plan
<1>1. /\ p \in Plans /\ planState[p] = "approved"
      /\ planState' = [planState EXCEPT ![p] = "scheduled"]
      /\ fanOuts' = [fanOuts EXCEPT ![p] = @ + 1]
      /\ Closes(c, p)
      /\ UNCHANGED <<planned, request, verdict, published>>
  BY OpenCalls DEF CommitSchedule, Schedules, approval, history
<1> HIDE DEF p
<1>2. /\ \A q \in Plans : planState'[q] = IF q = p THEN "scheduled" ELSE planState[q]
      /\ \A q \in Plans : fanOuts'[q] = IF q = p THEN fanOuts[p] + 1 ELSE fanOuts[q]
      /\ \A d \in Callers : call'[d] = call[d] \/ call'[d] = NoCall
  BY <1>1, CloseTypes DEF TypeOK
<1>3. DecisionsInformed'
  BY <1>1, <1>2, KnowledgeStays DEF RowInv
<1>4. DigestsAgree'
  BY <1>1 DEF RowInv, DigestsAgree
<1>5. VerdictsHold'
  BY <1>1 DEF RowInv, VerdictsHold, Independent
<1>6. PlanFollowsApproval'
  <2>1. \A q \in Plans : Requests(q)' = Requests(q)
    BY <1>1 DEF Requests
  <2> QED BY <1>1, <1>2, <2>1 DEF RowInv, PlanFollowsApproval
<1>7. ScheduledOnce'
  BY <1>1, <1>2 DEF RowInv, ScheduledOnce
<1>8. PublishedFromPlan'
  <2>1. \A e \in published : e.plan \in Plans
    BY DEF TypeOK
  <2> QED BY <1>1, <1>2, <2>1 DEF RowInv, PublishedFromPlan
<1> QED BY <1>3, <1>4, <1>5, <1>6, <1>7, <1>8 DEF RowInv

LEMMA ExecuteRows ==
    ASSUME RowInv, NEW p \in Plans, Execute(p)
    PROVE  RowInv'
<1>1. /\ planState' = planState /\ planned' = planned /\ request' = request
      /\ verdict' = verdict /\ fanOuts' = fanOuts /\ call' = call
      /\ planState[p] = "scheduled"
      /\ published' = published \cup {[plan |-> p, digest |-> planned[p].digest]}
  BY DEF Execute, Executable, Payload, plan, approval, jobs
<1>2. PublishedFromPlan'
  BY <1>1 DEF RowInv, PublishedFromPlan
<1>3. DigestsAgree' /\ VerdictsHold' /\ DecisionsInformed'
  BY <1>1 DEF RowInv, DigestsAgree, VerdictsHold, DecisionsInformed, InCall, Independent
<1>4. PlanFollowsApproval' /\ ScheduledOnce'
  BY <1>1 DEF RowInv, PlanFollowsApproval, Requests, ScheduledOnce
<1> QED BY <1>2, <1>3, <1>4 DEF RowInv

LEMMA NextRows == TypeOK /\ RowInv /\ [Next]_vars => RowInv'
<1> SUFFICES ASSUME TypeOK, RowInv, [Next]_vars PROVE RowInv'
  OBVIOUS
<1>1. ASSUME UNCHANGED <<plan, approval, fanOuts, published, call>> PROVE RowInv'
  <2>1. DecisionsInformed'
    BY <1>1 DEF RowInv, DecisionsInformed, InCall, Independent, plan, approval
  <2> QED BY <1>1, <2>1, RowsUntouched
<1>2. CASE UNCHANGED vars
  BY <1>1, <1>2 DEF vars, jobs, history
<1>3. CASE Planning
  <2>1. ASSUME NEW c \in Callers, NEW k \in Keys, BeginPlan(c, k) PROVE RowInv'
    <3>1. Reading(k, None, CurrentDigest).key = k
      BY DEF Reading
    <3> QED BY <2>1, <3>1, BeginRows DEF BeginPlan, jobs, history
  <2> QED BY <1>3, <2>1, CommitPlanRows DEF Planning
<1>4. CASE Requesting
  <2>1. ASSUME NEW c \in Callers, NEW k \in Keys, NEW p \in Plans, BeginRequest(c, k, p)
        PROVE  RowInv'
    <3>1. Reading(k, p, None).key = k
      BY DEF Reading
    <3> QED BY <2>1, <3>1, BeginRows DEF BeginRequest, jobs, history
  <2> QED BY <1>4, <2>1, CommitRequestRows DEF Requesting
<1>5. CASE Deciding
  BY <1>5, BeginDecideRows, CommitDecideRows DEF Deciding
<1>6. CASE Scheduling
  <2>1. ASSUME NEW c \in Callers, NEW k \in Keys, NEW p \in Plans, BeginSchedule(c, k, p)
        PROVE  RowInv'
    <3>1. Reading(k, p, None).key = k
      BY DEF Reading
    <3> QED BY <2>1, <3>1, BeginRows DEF BeginSchedule, jobs, history
  <2>2. ASSUME NEW k \in Keys, NEW p \in Plans, ScheduleReplays(k, p) PROVE RowInv'
    BY <1>1, <2>2 DEF ScheduleReplays, jobs, history
  <2> QED BY <1>6, <2>1, <2>2, CommitScheduleRows DEF Scheduling
<1>7. ASSUME NEW c \in Callers, CallAborts(c) PROVE RowInv'
  <2>1. /\ UNCHANGED <<plan, approval, fanOuts, published>>
        /\ \A d \in Callers : call'[d] = call[d] \/ call'[d] = NoCall
    BY <1>7 DEF CallAborts, TypeOK, jobs, history
  <2>2. request' = request /\ planned' = planned
    BY <2>1 DEF plan, approval
  <2>3. DecisionsInformed'
    BY <2>1, <2>2, KnowledgeStays DEF RowInv
  <2> QED BY <2>1, <2>3, RowsUntouched
<1>8. CASE Drift
  BY <1>1, <1>8 DEF Drift, Expires, ContentGrows, AccountEdited, AccountPaused, BanRecovers, HealthChanges,
     jobs, history
<1>9. CASE OlderRoutes
  BY <1>1, <1>9 DEF OlderRoutes, ReadForMove, WriteMove, Distribute, jobs, history
<1>10. CASE Working
  BY <1>1, <1>10, ExecuteRows DEF Working, WorkerSyncs, jobs, history
<1> QED
  BY <1>2, <1>3, <1>4, <1>5, <1>6, <1>7, <1>8, <1>9, <1>10 DEF Next

LEMMA InitRows == Init => RowInv
BY AgentContractAssumption
   DEF Init, RowInv, DigestsAgree, VerdictsHold, DecisionsInformed, InCall, NoCall,
       PlanFollowsApproval, Requests, ScheduledOnce, PublishedFromPlan

LEMMA RowsHold == Spec => []RowInv
<1>1. Init => RowInv
  BY InitRows
<1>2. TypeOK /\ RowInv /\ [Next]_vars => RowInv'
  BY NextRows
<1> QED BY <1>1, <1>2, RowsAndTypes, PTL DEF Spec

(* A plan asks once, and its state says what became of the decision, however *)
(* requests, decisions and schedules of the same plan overlap.               *)
THEOREM PlansFollowApprovals == Spec => []PlanFollowsApproval
<1>1. RowInv => PlanFollowsApproval
  BY DEF RowInv
<1> QED BY <1>1, RowsHold, PTL

(* The jobs of a plan are created once, in the step that schedules it.       *)
THEOREM PlansFanOutOnce == Spec => []ScheduledOnce
<1>1. RowInv => ScheduledOnce
  BY DEF RowInv
<1> QED BY <1>1, RowsHold, PTL

(* Workers publish only digests that an independent human approved.          *)
THEOREM OnlyApprovedIsPublished == Spec => []PublishedAsApproved
<1>1. TypeOK /\ RowInv => PublishedAsApproved
  <2> SUFFICES ASSUME TypeOK, RowInv, NEW e \in published
               PROVE  \E a \in Approvals :
                        /\ request[a] # None /\ request[a].plan = e.plan
                        /\ verdict[a].status = "approved"
                        /\ verdict[a].digest = e.digest
                        /\ verdict[a].by \in Humans \ {request[a].by, planned[e.plan].by}
    BY DEF PublishedAsApproved
  <2>1. /\ e.plan \in Plans /\ planState[e.plan] = "scheduled"
        /\ e.digest = planned[e.plan].digest
    BY DEF TypeOK, RowInv, PublishedFromPlan
  <2>2. PICK a \in Approvals : /\ Requests(e.plan) = {a}
                               /\ verdict[a].status # "pending"
                               /\ verdict[a].status # "rejected"
    BY <2>1 DEF RowInv, PlanFollowsApproval
  <2>3. request[a] # None /\ request[a].plan = e.plan
    BY <2>2 DEF Requests
  <2>4. verdict[a].status = "approved"
    <3>1. verdict[a] \in VerdictRow
      BY <2>3, RowFacts
    <3> QED BY <2>2, <3>1 DEF VerdictRow
  <2>5. verdict[a].digest = e.digest
    BY <2>1, <2>3, <2>4 DEF RowInv, VerdictsHold, DigestsAgree
  <2>6. verdict[a].by \in Humans \ {request[a].by, planned[e.plan].by}
    BY <2>3, <2>4 DEF RowInv, VerdictsHold, Independent
  <2> QED BY <2>3, <2>4, <2>5, <2>6
<1> QED BY <1>1, RowsAndTypes, RowsHold, PTL

(***************************************************************************)
(* Claims of the article, and expired approvals.                           *)
(***************************************************************************)

LEMMA NextClaims == TypeOK /\ ClaimsInv /\ [Next]_vars => ClaimsInv'
<1> SUFFICES ASSUME TypeOK, ClaimsInv, [Next]_vars PROVE ClaimsInv'
  OBVIOUS
<1>1. claims \in Nat /\ reopened \in Nat
  BY AgentContractAssumption DEF TypeOK
<1>2. ASSUME UNCHANGED <<article, claims, reopened>> PROVE ClaimsInv'
  BY <1>2 DEF ClaimsInv
<1>3. CASE UNCHANGED vars
  BY <1>2, <1>3 DEF vars, jobs, history
<1>4. CASE Planning \/ Requesting \/ Deciding
  BY <1>2, <1>4 DEF Planning, BeginPlan, CommitPlan, Requesting, BeginRequest, CommitRequest,
     Submits, Deciding, BeginDecide, CommitDecide, Decides, jobs, history
<1>5. CASE Scheduling
  <2>1. ASSUME NEW c \in Callers, CommitSchedule(c) PROVE ClaimsInv'
    BY <1>1, <2>1 DEF CommitSchedule, Schedules, ClaimsInv, Schedulable, history
  <2> QED
    BY <1>2, <1>5, <2>1 DEF Scheduling, BeginSchedule, ScheduleReplays, jobs, history
<1>6. ASSUME NEW c \in Callers, CallAborts(c) PROVE ClaimsInv'
  BY <1>2, <1>6 DEF CallAborts, jobs, history
<1>7. CASE Drift
  BY <1>2, <1>7 DEF Drift, Expires, ContentGrows, AccountEdited, AccountPaused, BanRecovers, HealthChanges,
     jobs, history
<1>8. CASE OlderRoutes
  <2>1. ASSUME NEW m \in Moves, WriteMove(m) PROVE ClaimsInv'
    BY <1>1, <2>1 DEF WriteMove, Reopens, ClaimsInv, jobs
  <2>2. CASE Distribute
    BY <1>1, <2>2 DEF Distribute, ClaimsInv, Schedulable, history
  <2> QED BY <1>2, <1>8, <2>1, <2>2 DEF OlderRoutes, ReadForMove, jobs, history
<1>9. CASE Working
  <2>1. CASE WorkerSyncs
    BY <2>1, AgentContractAssumption
       DEF WorkerSyncs, ClaimsInv, Schedulable, jobs, history
  <2> QED BY <1>2, <1>9, <2>1 DEF Working, Execute, jobs
<1> QED BY <1>3, <1>4, <1>5, <1>6, <1>7, <1>8, <1>9 DEF Next

(* Jobs are created again only after the article was made schedulable again. *)
THEOREM ClaimsTakeTurns == Spec => []ClaimsAlternate
<1>1. Init => ClaimsInv
  BY DEF Init, ClaimsInv
<1>2. TypeOK /\ ClaimsInv /\ [Next]_vars => ClaimsInv'
  BY NextClaims
<1>3. ClaimsInv => ClaimsAlternate
  BY DEF ClaimsInv, ClaimsAlternate
<1> QED BY <1>1, <1>2, <1>3, RowsAndTypes, PTL DEF Spec

\* A lapsed plan stays so if its requests stay and no schedule begins for it.
LEMMA StaysLapsed ==
    ASSUME NEW p \in Plans, Lapsed(p), planState'[p] # "scheduled",
           Requests(p)' = Requests(p), expired \subseteq expired',
           \A c \in Callers : \/ call'[c] = call[c]
                              \/ call'[c] = NoCall
                              \/ Operation[call'[c].key] # "schedule"
                              \/ call'[c].plan # p
    PROVE  Lapsed(p)'
<1>1. Requests(p)' # {} /\ Requests(p)' \subseteq expired'
  BY DEF Lapsed
<1>2. ASSUME NEW c \in Callers, call'[c] # NoCall, Operation[call'[c].key] = "schedule"
      PROVE  call'[c].plan # p
  BY <1>2 DEF Lapsed
<1> QED BY <1>1, <1>2 DEF Lapsed

LEMMA NextLapsed ==
    ASSUME TypeOK, RowInv, [Next]_vars, NEW p \in Plans, Lapsed(p)
    PROVE  Lapsed(p)'
<1>1. /\ planState[p] # "scheduled" /\ Requests(p) # {} /\ Requests(p) \subseteq expired
      /\ planState[p] # "absent" /\ planState[p] # "draft"
  BY DEF Lapsed, RowInv, PlanFollowsApproval
<1>2. planState \in [Plans -> PlanState] /\ call \in [Callers -> CallRow]
  BY DEF TypeOK
<1>3. ASSUME UNCHANGED <<plan, approval, call>>, expired \subseteq expired'
      PROVE  Lapsed(p)'
  <2>1. Requests(p)' = Requests(p) /\ planState'[p] # "scheduled"
    BY <1>1, <1>3 DEF Requests, plan, approval
  <2> QED BY <1>3, <2>1, StaysLapsed
<1>4. CASE UNCHANGED vars
  BY <1>3, <1>4 DEF vars
<1>5. CASE Planning
  <2>1. PICK c \in Callers : \/ \E k \in Keys : BeginPlan(c, k)
                             \/ \E q \in Plans : CommitPlan(c, q)
    BY <1>5 DEF Planning
  <2>2. /\ request' = request /\ expired' = expired
        /\ planState'[p] # "scheduled"
    BY <1>1, <1>2, <2>1 DEF BeginPlan, CommitPlan, plan, approval
  <2>3. \A d \in Callers : call'[d] = call[d] \/ call'[d] = NoCall
                           \/ Operation[call'[d].key] # "schedule"
    BY <1>2, <2>1 DEF BeginPlan, CommitPlan, Opens, Closes, Reading
  <2>4. Requests(p)' = Requests(p)
    BY <2>2 DEF Requests
  <2> QED BY <2>2, <2>3, <2>4, StaysLapsed
<1>6. CASE Requesting
  <2>1. PICK c \in Callers : \/ \E k \in Keys, q \in Plans : BeginRequest(c, k, q)
                             \/ \E a \in Approvals : CommitRequest(c, a)
    BY <1>6 DEF Requesting
  <2>2. expired' = expired /\ planState'[p] # "scheduled"
    BY <1>1, <1>2, <2>1 DEF BeginRequest, CommitRequest, Submits, plan
  <2>3. \A d \in Callers : call'[d] = call[d] \/ call'[d] = NoCall
                           \/ Operation[call'[d].key] # "schedule"
    BY <1>2, <2>1 DEF BeginRequest, CommitRequest, Submits, Opens, Closes, Reading
  <2>4. Requests(p)' = Requests(p)
    <3>1. CASE \E k \in Keys, q \in Plans : BeginRequest(c, k, q)
      BY <3>1 DEF BeginRequest, Requests, approval
    <3>2. ASSUME NEW a \in Approvals, CommitRequest(c, a)
          PROVE  Requests(p)' = Requests(p)
      <4> DEFINE row == [plan |-> call[c].plan, digest |-> planned[call[c].plan].digest,
                         by |-> Owner[call[c].key]]
      <4>1. /\ request' = [request EXCEPT ![a] = row] /\ row.plan = call[c].plan
            /\ request[a] = None /\ call[c].plan # p
        BY <1>1, <3>2 DEF CommitRequest, Submits
      <4> HIDE DEF row
      <4>2. \A x \in Approvals : request'[x] = IF x = a THEN row ELSE request[x]
        BY <4>1 DEF TypeOK
      <4> QED BY <4>1, <4>2 DEF Requests
    <3> QED BY <2>1, <3>1, <3>2
  <2> QED BY <2>2, <2>3, <2>4, StaysLapsed
<1>7. CASE Deciding
  <2>1. PICK c \in Callers :
               \/ \E k \in Keys, a \in Approvals, decision \in {"approved", "rejected"} :
                    BeginDecide(c, k, a, decision)
               \/ CommitDecide(c)
    BY <1>7 DEF Deciding
  <2>2. request' = request /\ expired' = expired
    BY <2>1 DEF BeginDecide, CommitDecide, Decides, approval
  <2>3. planState'[p] # "scheduled"
    <3>1. CASE CommitDecide(c)
      <4>1. call[c].decision \in {"approved", "rejected"} /\ call[c].plan \in Plans
        BY <3>1, OpenCalls DEF CommitDecide
      <4>2. planState' = [planState EXCEPT ![call[c].plan] = call[c].decision]
        BY <3>1 DEF CommitDecide, Decides
      <4> QED BY <1>1, <1>2, <4>1, <4>2
    <3>2. CASE planState' = planState
      BY <1>1, <3>2
    <3> QED BY <2>1, <3>1, <3>2 DEF BeginDecide, plan
  <2>4. \A d \in Callers : call'[d] = call[d] \/ call'[d] = NoCall
                           \/ Operation[call'[d].key] # "schedule"
    BY <1>2, <2>1 DEF BeginDecide, CommitDecide, Decides, Opens, Closes
  <2>5. Requests(p)' = Requests(p)
    BY <2>2 DEF Requests
  <2> QED BY <2>2, <2>3, <2>4, <2>5, StaysLapsed
<1>8. CASE Scheduling
  <2>1. ASSUME NEW c \in Callers, NEW k \in Keys, NEW q \in Plans, BeginSchedule(c, k, q)
        PROVE  Lapsed(p)'
    <3>1. q # p
      <4>1. PICK a \in Approvals : Approved(q, a) /\ a \notin expired
        BY <2>1 DEF BeginSchedule, HoldsApproval
      <4>2. a \in Requests(q)
        BY <4>1 DEF Approved, Matching, Requests
      <4> QED BY <1>1, <4>1, <4>2
    <3>2. /\ Requests(p)' = Requests(p) /\ planState'[p] # "scheduled" /\ expired' = expired
      BY <1>1, <2>1 DEF BeginSchedule, Requests, plan, approval
    <3>3. /\ Reading(k, q, None).plan = q
          /\ call' = [call EXCEPT ![c] = Reading(k, q, None)]
      BY <2>1 DEF BeginSchedule, Opens, Reading
    <3>4. \A d \in Callers : call'[d] = call[d] \/ call'[d].plan # p
      BY <1>2, <3>1, <3>3
    <3> QED BY <3>2, <3>4, StaysLapsed
  <2>2. ASSUME NEW c \in Callers, CommitSchedule(c) PROVE Lapsed(p)'
    <3>1. call[c].plan # p
      BY <2>2 DEF CommitSchedule, InCall, Lapsed
    <3>2. /\ Requests(p)' = Requests(p) /\ expired' = expired /\ planState'[p] # "scheduled"
      BY <1>1, <1>2, <2>2, <3>1 DEF CommitSchedule, Schedules, Requests, approval
    <3>3. \A d \in Callers : call'[d] = call[d] \/ call'[d] = NoCall
      BY <1>2, <2>2 DEF CommitSchedule, Schedules, Closes
    <3> QED BY <3>2, <3>3, StaysLapsed
  <2>3. ASSUME NEW k \in Keys, NEW q \in Plans, ScheduleReplays(k, q) PROVE Lapsed(p)'
    BY <1>3, <2>3 DEF ScheduleReplays
  <2> QED BY <1>8, <2>1, <2>2, <2>3 DEF Scheduling
<1>9. ASSUME NEW c \in Callers, CallAborts(c) PROVE Lapsed(p)'
  <2>1. /\ Requests(p)' = Requests(p) /\ expired' = expired /\ planState'[p] # "scheduled"
    BY <1>1, <1>9 DEF CallAborts, Requests, plan, approval
  <2>2. \A d \in Callers : call'[d] = call[d] \/ call'[d] = NoCall
    BY <1>2, <1>9 DEF CallAborts
  <2> QED BY <2>1, <2>2, StaysLapsed
<1>10. CASE Drift \/ OlderRoutes \/ Working
  <2>1. UNCHANGED <<plan, approval, call>> /\ expired \subseteq expired'
    BY <1>10 DEF Drift, Expires, ContentGrows, AccountEdited, AccountPaused, BanRecovers, HealthChanges,
       OlderRoutes, ReadForMove, WriteMove, Distribute, Working, WorkerSyncs, Execute
  <2> QED BY <1>3, <2>1
<1> QED BY <1>4, <1>5, <1>6, <1>7, <1>8, <1>9, <1>10 DEF Next

(* Once the approval of a plan has expired with no schedule under way, the   *)
(* plan is never scheduled.                                                  *)
THEOREM ExpiredNeverSchedules == Spec => ExpiryIsFinal
<1>1. TypeOK /\ RowInv /\ [Next]_vars => [\A p \in Plans : Lapsed(p) => Lapsed(p)']_vars
  BY NextLapsed
<1> QED BY <1>1, RowsAndTypes, RowsHold, PTL DEF Spec, ExpiryIsFinal

-----------------------------------------------------------------------------
(***************************************************************************)
(* The agent contract implements the approval gate of ApprovalGate: every  *)
(* commit of a call is one step of the gate, and everything else, drift,   *)
(* older routes and reads included, leaves the gate as it is.              *)
(***************************************************************************)

SubjectFn == [p \in Plans |-> Subject(p)]
AuthorsFn == [p \in Plans |-> Authors(p)]
SignersFn == [p \in Plans |-> Signers(p)]

\* The gate sees the rows and what was published, and nothing else.
LEMMA GateUntouched ==
    ASSUME UNCHANGED <<plan, approval, published>>
    PROVE  UNCHANGED Gate!vars
<1>1. /\ planState' = planState /\ planned' = planned /\ request' = request
      /\ verdict' = verdict /\ published' = published
  BY DEF plan, approval
<1>2. SubjectFn' = SubjectFn
  BY <1>1 DEF SubjectFn, Subject
<1>3. AuthorsFn' = AuthorsFn
  BY <1>1 DEF AuthorsFn, Authors, Requests
<1>4. SignersFn' = SignersFn
  BY <1>1 DEF SignersFn, Signers, Requests
<1> QED BY <1>1, <1>2, <1>3, <1>4 DEF Gate!vars, SubjectFn, AuthorsFn, SignersFn

LEMMA GateInit == Init => Gate!Init
<1> SUFFICES ASSUME Init PROVE Gate!Init
  OBVIOUS
<1>1. \A p \in Plans : Subject(p) = None /\ Authors(p) = {} /\ Signers(p) = {}
  BY DEF Init, Subject, Authors, Signers, Requests
<1> QED BY <1>1 DEF Init, Gate!Init

LEMMA ProposeStep ==
    ASSUME TypeOK, RowInv, NEW c \in Callers, NEW p \in Plans, CommitPlan(c, p)
    PROVE  Gate!Next
<1> DEFINE d == call[c].digest
           who == Owner[call[c].key]
<1>1. /\ request' = request /\ verdict' = verdict /\ published' = published
      /\ planState[p] = "absent" /\ Requests(p) = {}
      /\ planState' = [planState EXCEPT ![p] = "draft"]
      /\ planned' = [planned EXCEPT ![p] = [digest |-> d, by |-> who]]
  BY DEF CommitPlan, RowInv, PlanFollowsApproval, approval, history
<1>2. d \in Digests /\ who \in Principals
  BY OpenCalls DEF CommitPlan
<1> HIDE DEF d, who
<1>3. /\ planned'[p].digest = d /\ planned'[p].by = who /\ planned'[p] # None
      /\ \A q \in Plans : q # p => planned'[q] = planned[q]
  BY <1>1, <1>2, AgentContractAssumption DEF TypeOK, PlannedRow
<1>4. \A q \in Plans : Requests(q)' = Requests(q)
  BY <1>1 DEF Requests
<1>5. SubjectFn' = [SubjectFn EXCEPT ![p] = d]
  BY <1>3 DEF SubjectFn, Subject
<1>6. AuthorsFn' = [AuthorsFn EXCEPT ![p] = {who}]
  <2>1. Authors(p)' = {who}
    BY <1>1, <1>3, <1>4 DEF Authors
  <2>2. \A q \in Plans : q # p => Authors(q)' = Authors(q)
    BY <1>1, <1>3, <1>4 DEF Authors
  <2> QED BY <2>1, <2>2 DEF AuthorsFn
<1>7. SignersFn' = SignersFn
  BY <1>1, <1>4 DEF SignersFn, Signers
<1>8. Gate!Propose(p)
  BY <1>1, <1>2, <1>5, <1>6, <1>7
     DEF Gate!Propose, Gate!Advance, SubjectFn, AuthorsFn, SignersFn
<1> QED BY <1>8 DEF Gate!Next

LEMMA SubmitStep ==
    ASSUME TypeOK, RowInv, NEW c \in Callers, NEW a \in Approvals, CommitRequest(c, a)
    PROVE  Gate!Next
<1>1. PICK p \in Plans : p = call[c].plan
  BY OpenCalls DEF CommitRequest
<1> DEFINE who == Owner[call[c].key]
           row == [plan |-> p, digest |-> planned[p].digest, by |-> who]
<1>2. /\ request[a] = None /\ planState[p] = "draft"
      /\ request' = [request EXCEPT ![a] = row]
      /\ verdict' = [verdict EXCEPT ![a] = Pending]
      /\ planState' = [planState EXCEPT ![p] = "approval_pending"]
      /\ planned' = planned /\ published' = published
  BY <1>1 DEF CommitRequest, Submits, history
<1>3. who \in Principals
  BY OpenCalls DEF CommitRequest
<1>4. row # None
  <2>1. planned[p] \in PlannedRow
    BY <1>2 DEF TypeOK, RowsExist
  <2> QED BY <1>3, <2>1, AgentContractAssumption DEF RequestRow, PlannedRow
<1>5. row.plan = p /\ row.by = who /\ Pending.status = "pending"
  BY DEF Pending
<1> HIDE DEF row, who
<1>6. /\ \A x \in Approvals : request'[x] = IF x = a THEN row ELSE request[x]
      /\ \A x \in Approvals : verdict'[x] = IF x = a THEN Pending ELSE verdict[x]
  BY <1>2 DEF TypeOK
<1>7. Requests(p) = {} /\ Requests(p)' = {a}
  BY <1>2, <1>4, <1>5, <1>6 DEF RowInv, PlanFollowsApproval, Requests
<1>8. \A q \in Plans : q # p => Requests(q)' = Requests(q) /\ a \notin Requests(q)
  BY <1>2, <1>5, <1>6 DEF Requests
<1>9. \A q \in Plans : Requests(q) \subseteq Approvals
  BY DEF Requests
<1>10. SubjectFn' = SubjectFn
  BY <1>2 DEF SubjectFn, Subject
<1>11. AuthorsFn' = [AuthorsFn EXCEPT ![p] = @ \cup {who}]
  <2>1. Authors(p)' = Authors(p) \cup {who}
    BY <1>2, <1>5, <1>6, <1>7 DEF Authors
  <2>2. \A q \in Plans : q # p => Authors(q)' = Authors(q)
    BY <1>2, <1>6, <1>8, <1>9 DEF Authors
  <2> QED BY <2>1, <2>2 DEF AuthorsFn
<1>12. SignersFn' = SignersFn
  <2>1. Signers(p)' = Signers(p)
    BY <1>5, <1>6, <1>7 DEF Signers
  <2>2. \A q \in Plans : q # p => Signers(q)' = Signers(q)
    BY <1>6, <1>8, <1>9 DEF Signers
  <2> QED BY <2>1, <2>2 DEF SignersFn
<1>13. Gate!Submit(p)
  BY <1>2, <1>3, <1>10, <1>11, <1>12
     DEF Gate!Submit, Gate!Advance, SubjectFn, AuthorsFn, SignersFn
<1> QED BY <1>13 DEF Gate!Next

LEMMA DecideStep ==
    ASSUME TypeOK, RowInv, NEW c \in Callers, CommitDecide(c)
    PROVE  Gate!Next
<1>1. PICK p \in Plans : p = call[c].plan
  BY OpenCalls DEF CommitDecide
<1>2. PICK a \in Approvals : a = call[c].approval
  BY OpenCalls DEF CommitDecide
<1> DEFINE who == Owner[call[c].key]
           row == [status |-> call[c].decision, by |-> who, digest |-> call[c].digest]
<1>3. /\ call[c].decision \in {"approved", "rejected"} /\ who \in Principals
      /\ verdict[a].status = "pending"
      /\ verdict' = [verdict EXCEPT ![a] = row]
      /\ planState' = [planState EXCEPT ![p] = call[c].decision]
      /\ planned' = planned /\ request' = request /\ published' = published
  BY <1>1, <1>2, OpenCalls DEF CommitDecide, Decides, history
<1>4. request[a] # None
  BY <1>2, AgentContractAssumption DEF TypeOK, RowsExist
<1>5. request[a].plan = p /\ Independent(a, who)
  BY <1>1, <1>2 DEF RowInv, DecisionsInformed, CommitDecide
<1>6. row.status = call[c].decision /\ row.by = who
  OBVIOUS
<1> HIDE DEF row, who
<1>7. Requests(p) = {a} /\ planState[p] = "approval_pending"
  <2>1. a \in Requests(p)
    BY <1>4, <1>5 DEF Requests
  <2> QED BY <1>3, <2>1 DEF RowInv, PlanFollowsApproval
<1>8. \A x \in Approvals : verdict'[x] = IF x = a THEN row ELSE verdict[x]
  BY <1>3 DEF TypeOK
<1>9. \A q \in Plans : /\ Requests(q)' = Requests(q) /\ Requests(q) \subseteq Approvals
                       /\ q # p => a \notin Requests(q)
  BY <1>3, <1>5 DEF Requests
<1>10. SubjectFn' = SubjectFn /\ AuthorsFn' = AuthorsFn
  BY <1>3 DEF SubjectFn, Subject, AuthorsFn, Authors, Requests
<1>11. SignersFn' = [SignersFn EXCEPT ![p] = {who}]
  <2>1. Signers(p)' = {who}
    BY <1>3, <1>6, <1>7, <1>8, <1>9 DEF Signers
  <2>2. \A q \in Plans : q # p => Signers(q)' = Signers(q)
    BY <1>8, <1>9 DEF Signers
  <2> QED BY <2>1, <2>2 DEF SignersFn
<1>12. who \in Humans \ AuthorsFn[p]
  <2>1. Authors(p) \subseteq {planned[p].by, request[a].by}
    BY <1>7 DEF Authors
  <2> QED BY <1>5, <2>1 DEF Independent, AuthorsFn
<1>13. Gate!Decide(p, call[c].decision)
  BY <1>3, <1>7, <1>10, <1>11, <1>12
     DEF Gate!Decide, Gate!Advance, SubjectFn, AuthorsFn, SignersFn
<1> QED BY <1>3, <1>13 DEF Gate!Next

LEMMA ReleaseStep ==
    ASSUME TypeOK, NEW c \in Callers, CommitSchedule(c)
    PROVE  Gate!Next
<1>1. PICK p \in Plans : p = call[c].plan
  BY OpenCalls DEF CommitSchedule
<1>2. /\ planState[p] = "approved"
      /\ planState' = [planState EXCEPT ![p] = "scheduled"]
      /\ planned' = planned /\ request' = request /\ verdict' = verdict
      /\ published' = published
  BY <1>1 DEF CommitSchedule, Schedules, approval, history
<1>3. SubjectFn' = SubjectFn /\ AuthorsFn' = AuthorsFn
  BY <1>2 DEF SubjectFn, Subject, AuthorsFn, Authors, Requests
<1>4. SignersFn' = SignersFn
  BY <1>2 DEF SignersFn, Signers, Requests
<1>5. Gate!Release(p)
  BY <1>2, <1>3, <1>4 DEF Gate!Release, Gate!Advance, SubjectFn, AuthorsFn, SignersFn
<1> QED BY <1>5 DEF Gate!Next

LEMMA PerformStep ==
    ASSUME TypeOK, NEW p \in Plans, Execute(p)
    PROVE  Gate!Next
<1>1. /\ planState[p] = "scheduled"
      /\ published' = published \cup {[plan |-> p, digest |-> planned[p].digest]}
      /\ planState' = planState /\ planned' = planned /\ request' = request
      /\ verdict' = verdict
  BY DEF Execute, Executable, Payload, plan, approval
<1>2. SubjectFn[p] = planned[p].digest
  BY <1>1 DEF TypeOK, RowsExist, SubjectFn, Subject
<1>3. SubjectFn' = SubjectFn /\ AuthorsFn' = AuthorsFn
  BY <1>1 DEF SubjectFn, Subject, AuthorsFn, Authors, Requests
<1>4. SignersFn' = SignersFn
  BY <1>1 DEF SignersFn, Signers, Requests
<1>5. Gate!Perform(p)
  BY <1>1, <1>2, <1>3, <1>4 DEF Gate!Perform, SubjectFn, AuthorsFn, SignersFn
<1> QED BY <1>5 DEF Gate!Next

LEMMA GateStep == TypeOK /\ RowInv /\ [Next]_vars => [Gate!Next]_(Gate!vars)
<1> SUFFICES ASSUME TypeOK, RowInv, [Next]_vars
             PROVE  Gate!Next \/ UNCHANGED Gate!vars
  OBVIOUS
<1>1. CASE UNCHANGED vars
  BY <1>1, GateUntouched DEF vars, history
<1>2. CASE Planning
  BY <1>2, ProposeStep, GateUntouched DEF Planning, BeginPlan, history
<1>3. CASE Requesting
  BY <1>3, SubmitStep, GateUntouched DEF Requesting, BeginRequest, history
<1>4. CASE Deciding
  BY <1>4, DecideStep, GateUntouched DEF Deciding, BeginDecide, history
<1>5. CASE Scheduling
  BY <1>5, ReleaseStep, GateUntouched DEF Scheduling, BeginSchedule, ScheduleReplays, history
<1>6. ASSUME NEW c \in Callers, CallAborts(c) PROVE UNCHANGED Gate!vars
  BY <1>6, GateUntouched DEF CallAborts, history
<1>7. CASE Drift
  BY <1>7, GateUntouched DEF Drift, Expires, ContentGrows, AccountEdited, AccountPaused,
     BanRecovers, HealthChanges, history
<1>8. CASE OlderRoutes
  BY <1>8, GateUntouched DEF OlderRoutes, ReadForMove, WriteMove, Distribute, history
<1>9. CASE Working
  BY <1>9, PerformStep, GateUntouched DEF Working, WorkerSyncs, history
<1> QED
  BY <1>1, <1>2, <1>3, <1>4, <1>5, <1>6, <1>7, <1>8, <1>9 DEF Next

(* The contract implements ApprovalGate: a plan passes the gate once and in  *)
(* order, its decider is a human who wrote none of it, and what workers do   *)
(* is what was proposed.                                                     *)
THEOREM ContractKeepsGate == Spec => KeepsGate
<1>1. Init => Gate!Init
  BY GateInit
<1>2. TypeOK /\ RowInv /\ [Next]_vars => [Gate!Next]_(Gate!vars)
  BY GateStep
<1> QED BY <1>1, <1>2, RowsAndTypes, RowsHold, PTL DEF Spec, KeepsGate, Gate!Spec
=============================================================================
