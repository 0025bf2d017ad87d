--------------------------- MODULE MCAgentContract ---------------------------
(* Small instances of AgentContract for TLC.                                 *)
EXTENDS AgentContract, TLC

CONSTANTS agent, ann, bob, p1, p2, a1, a2, c1, c2

CONSTANTS planA, planB, requestA, requestB, decideB, decideC, scheduleA, scheduleB

\* A key stands for its principal, its operation and what the client chose.
KeyOwner == [k \in Keys |->
    CASE k \in {planA, requestA, scheduleA, scheduleB} -> agent
      [] k \in {planB, requestB, decideB} -> ann
      [] k = decideC -> bob]

KeyOperation == [k \in Keys |->
    CASE k \in {planA, planB} -> "plan_publication"
      [] k \in {requestA, requestB} -> "request_approval"
      [] k \in {decideB, decideC} -> "decide_approval"
      [] k \in {scheduleA, scheduleB} -> "schedule"]

Approvings == {<<"draft", "ready">>}

AndUnschedulings == Approvings \cup {<<"scheduled", "ready">>}

Schedulers == {k \in Keys : Operation[k] = "schedule"}

RowSymmetry == Permutations(Plans) \cup Permutations(Approvals) \cup Permutations(Callers)
                 \cup Permutations(Schedulers)
=============================================================================
