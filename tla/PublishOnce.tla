----------------------------- MODULE PublishOnce -----------------------------
(***************************************************************************)
(* What one row of the publishing pipeline promises whoever reads it, with *)
(* no executors, leases or files: the post is made at most once, a row is  *)
(* only handed out again while nothing was posted, and the verdict of a    *)
(* closed row can be acted upon.                                           *)
(***************************************************************************)
EXTENDS Naturals

CONSTANT Jobs

VARIABLES
    phase,     \* "none", "open" (may be run), "running", "closed"
    verdict,   \* of a closed row: "published", "clean" or "doubtful"
    posts,     \* posts made for the row
    pending    \* rows for which a post may still be made

vars == <<phase, verdict, posts, pending>>

Init ==
    /\ phase = [j \in Jobs |-> "none"]
    /\ verdict = [j \in Jobs |-> "none"]
    /\ posts = [j \in Jobs |-> 0]
    /\ pending = {}

(* A set of rows is created together.                                        *)
Open(rows) ==
    /\ \A j \in rows : phase[j] = "none"
    /\ phase' = [j \in Jobs |-> IF j \in rows THEN "open" ELSE phase[j]]
    /\ UNCHANGED <<verdict, posts, pending>>

Run(j) ==
    /\ phase[j] = "open"
    /\ posts[j] = 0 /\ j \notin pending
    /\ phase' = [phase EXCEPT ![j] = "running"]
    /\ UNCHANGED <<verdict, posts, pending>>

(* A request sets out; it may arrive or be lost.                             *)
Send(j) ==
    /\ phase[j] # "none" /\ verdict[j] \in {"none", "doubtful"}
    /\ posts[j] = 0
    /\ pending' = pending \cup {j}
    /\ UNCHANGED <<phase, verdict, posts>>

Post(j) ==
    /\ j \in pending
    /\ posts' = [posts EXCEPT ![j] = @ + 1]
    /\ pending' = pending \ {j}
    /\ UNCHANGED <<phase, verdict>>

Lose(j) ==
    /\ pending' = pending \ {j}
    /\ UNCHANGED <<phase, verdict, posts>>

(* The row can run again: nothing was posted and nothing can be any more.    *)
Reopen(j) ==
    /\ phase[j] \in {"open", "running", "closed"}
    /\ verdict[j] \in {"none", "doubtful"}
    /\ posts[j] = 0 /\ j \notin pending
    /\ phase' = [phase EXCEPT ![j] = "open"]
    /\ verdict' = [verdict EXCEPT ![j] = "none"]
    /\ UNCHANGED <<posts, pending>>

(* The row is closed, or a doubt about it is settled.                        *)
Close(j, v) ==
    /\ phase[j] # "none" /\ verdict[j] \in {"none", "doubtful"}
    /\ v = "published" => posts[j] = 1
    /\ v = "clean" => posts[j] = 0 /\ j \notin pending
    /\ phase' = [phase EXCEPT ![j] = "closed"]
    /\ verdict' = [verdict EXCEPT ![j] = v]
    /\ UNCHANGED <<posts, pending>>

Next ==
    \/ \E rows \in SUBSET Jobs : Open(rows)
    \/ \E j \in Jobs : Run(j) \/ Send(j) \/ Post(j) \/ Lose(j) \/ Reopen(j)
    \/ \E j \in Jobs, v \in {"published", "clean", "doubtful"} : Close(j, v)

Spec == Init /\ [][Next]_vars
=============================================================================
