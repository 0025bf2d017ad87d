---------------------------- MODULE EvidenceOnce ----------------------------
(***************************************************************************)
(* What an evidence window promises: it is open until it either gets one   *)
(* snapshot taken inside the window or fails, and stays as it ended.       *)
(***************************************************************************)
EXTENDS Naturals

CONSTANTS Tasks, Due, Deadline

VARIABLES
    now,
    outcome,     \* "open", "succeeded" or "failed"
    snapshots    \* times at which evidence of the window was taken

vars == <<now, outcome, snapshots>>

Init ==
    /\ now = 0
    /\ outcome = [t \in Tasks |-> "open"]
    /\ snapshots = [t \in Tasks |-> {}]

Pass ==
    /\ now' = now + 1
    /\ UNCHANGED <<outcome, snapshots>>

Take(t) ==
    /\ outcome[t] = "open"
    /\ Due[t] <= now /\ now < Deadline[t]
    /\ outcome' = [outcome EXCEPT ![t] = "succeeded"]
    /\ snapshots' = [snapshots EXCEPT ![t] = {now}]
    /\ UNCHANGED now

(* Several windows of a publication may be given up together.                *)
GiveUp(lost) ==
    /\ \A t \in lost : outcome[t] = "open"
    /\ outcome' = [t \in Tasks |-> IF t \in lost THEN "failed" ELSE outcome[t]]
    /\ UNCHANGED <<now, snapshots>>

Next ==
    \/ Pass
    \/ \E t \in Tasks : Take(t)
    \/ \E lost \in SUBSET Tasks : GiveUp(lost)

Spec == Init /\ [][Next]_vars
=============================================================================
