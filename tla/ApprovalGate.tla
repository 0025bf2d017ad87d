----------------------------- MODULE ApprovalGate -----------------------------
(***************************************************************************)
(* What the agent contract promises its readers: a subject is proposed and *)
(* submitted once, decided once by a human who is not one of its authors,  *)
(* released only if approved, and all that ever happens is that subject.   *)
(***************************************************************************)
CONSTANTS Plans, Principals, Humans, Digests, None

VARIABLES
    stage,
    subject,     \* what the plan would do
    authors,     \* who created it and who asked for its approval
    signers,     \* who decided
    effects      \* what was done, and for which plan

vars == <<stage, subject, authors, signers, effects>>

Init ==
    /\ stage = [p \in Plans |-> "absent"]
    /\ subject = [p \in Plans |-> None]
    /\ authors = [p \in Plans |-> {}]
    /\ signers = [p \in Plans |-> {}]
    /\ effects = {}

Advance(p, from, to) ==
    /\ stage[p] = from
    /\ stage' = [stage EXCEPT ![p] = to]

Propose(p) ==
    /\ Advance(p, "absent", "draft")
    /\ \E d \in Digests : subject' = [subject EXCEPT ![p] = d]
    /\ \E who \in Principals : authors' = [authors EXCEPT ![p] = {who}]
    /\ UNCHANGED <<signers, effects>>

Submit(p) ==
    /\ Advance(p, "draft", "approval_pending")
    /\ \E who \in Principals : authors' = [authors EXCEPT ![p] = @ \cup {who}]
    /\ UNCHANGED <<subject, signers, effects>>

Decide(p, decision) ==
    /\ Advance(p, "approval_pending", decision)
    /\ \E who \in Humans \ authors[p] : signers' = [signers EXCEPT ![p] = {who}]
    /\ UNCHANGED <<subject, authors, effects>>

Release(p) ==
    /\ Advance(p, "approved", "scheduled")
    /\ UNCHANGED <<subject, authors, signers, effects>>

Perform(p) ==
    /\ stage[p] = "scheduled"
    /\ effects' = effects \cup {[plan |-> p, digest |-> subject[p]]}
    /\ UNCHANGED <<stage, subject, authors, signers>>

Next == \E p \in Plans :
    \/ Propose(p) \/ Submit(p)
    \/ \E decision \in {"approved", "rejected"} : Decide(p, decision)
    \/ Release(p) \/ Perform(p)

Spec == Init /\ [][Next]_vars
=============================================================================
