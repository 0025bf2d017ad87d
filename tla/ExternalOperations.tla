-------------------------- MODULE ExternalOperations --------------------------
(* One idempotency key of AgentControlPlane.collect_metrics: a read of the   *)
(* platform that may be repeated, behind an answer that may not              *)
(* (agent_contract/service.py, scheduler/metrics.py).                        *)
(*                                                                           *)
(* A call takes a lease on the key's row, collects, stores one snapshot      *)
(* that belongs to the row, and writes the answer.  It may be slow, be       *)
(* cancelled or die at any point, and another call takes the lease over once *)
(* it ran out.  Process clocks and the database's differ by up to Skew.      *)
EXTENDS Integers

CONSTANTS
    Callers,   \* calls with the key; a client that tries again is another one
    KeyLease,  \* agent_external_operation_lease_seconds
    Skew,      \* bound on the difference of two clocks
    LastHour,  \* bound on the clock
    None

ASSUME ExternalOperationsAssumption ==
    /\ KeyLease \in Nat \ {0} /\ Skew \in Nat /\ LastHour \in Nat
    /\ None \notin Callers
    /\ None \notin {"collected", "skipped", "unavailable"}

VARIABLES
    clock,     \* the database's clock
    holder,    \* lease_token
    until,     \* lease_expires_at
    answer,    \* response_json
    evidence,  \* rows of Metrics with this agent_operation_id
    at,        \* place of every call
    result,    \* what a call has to report so far
    got        \* history: the answer a call has returned

key  == <<holder, until, answer>>
opVars == <<clock, key, evidence, at, result, got>>

Answers == {"collected", "skipped", "unavailable"}
CallPlaces == {"idle", "looking", "collecting", "storing", "checking", "finishing",
            "releasing", "ended"}

\* What a process may take for the time.
Clocks == {t \in 0..(LastHour + Skew) : clock - Skew <= t /\ t <= clock + Skew}

OpInit ==
    /\ clock = Skew
    /\ holder = None /\ until = 0 /\ answer = None
    /\ evidence = 0
    /\ at = [c \in Callers |-> "idle"]
    /\ result = [c \in Callers |-> None]
    /\ got = [c \in Callers |-> None]

OpTick ==
    /\ clock < LastHour /\ clock' = clock + 1
    /\ UNCHANGED <<key, evidence, at, result, got>>

MovesTo(c, place) == at' = [at EXCEPT ![c] = place] /\ UNCHANGED clock
Reports(c, r) == result' = [result EXCEPT ![c] = r] /\ UNCHANGED <<key, got>>

\* The row is still this call's, by the clock of the database.
HoldsKey(c) == holder = c /\ until > clock /\ answer = None

-----------------------------------------------------------------------------
(* _claim_external_operation                                                 *)

\* The key was answered before: the same answer again.
Replay(c) ==
    /\ at[c] = "idle" /\ answer # None
    /\ got' = [got EXCEPT ![c] = answer]
    /\ MovesTo(c, "ended") /\ UNCHANGED <<key, evidence, result>>

\* A new row, or one whose lease has run out by the clock of this process.
ClaimKey(c) ==
    /\ at[c] = "idle" /\ answer = None
    /\ \E t \in Clocks :
          /\ holder = None \/ until <= t
          /\ holder' = c /\ until' = t + KeyLease
    /\ MovesTo(c, "looking") /\ UNCHANGED <<answer, evidence, result, got>>

-----------------------------------------------------------------------------
(* collect_metrics and the collector (collect_one)                           *)

\* A predecessor may have left a snapshot.
Look(c) ==
    /\ at[c] = "looking"
    /\ IF evidence > 0
         THEN MovesTo(c, "finishing") /\ Reports(c, "collected")
         ELSE MovesTo(c, "collecting") /\ UNCHANGED <<key, result, got>>
    /\ UNCHANGED evidence

\* By now there is one; nothing to collect; it raises or takes too long.
CollectorEnds(c) ==
    /\ at[c] = "collecting" /\ MovesTo(c, "checking")
    /\ \/ evidence > 0 /\ Reports(c, "collected")
       \/ Reports(c, "skipped")
       \/ Reports(c, "unavailable")
    /\ UNCHANGED evidence

PlatformAnswers(c) ==
    /\ at[c] = "collecting" /\ MovesTo(c, "storing")
    /\ UNCHANGED <<key, evidence, result, got>>

\* One transaction of the fence and the insert, whose commit may be reported
\* as a failure all the same.
Store(c) ==
    /\ at[c] = "storing" /\ HoldsKey(c) /\ evidence = 0
    /\ evidence' = 1
    /\ MovesTo(c, "checking")
    /\ Reports(c, "collected") \/ Reports(c, "unavailable")

\* The lease was lost, or the transaction fails.
StoresNothing(c) ==
    /\ at[c] = "storing" /\ MovesTo(c, "checking")
    /\ \/ ~HoldsKey(c) /\ Reports(c, "skipped")
       \/ Reports(c, "unavailable")
    /\ UNCHANGED evidence

\* Bug: the collector's word is taken for the answer.
BugCheckEvidence(c) ==
    /\ at[c] = "checking" /\ MovesTo(c, "finishing")
    /\ UNCHANGED <<key, evidence, result, got>>

\* What is stored wins over what the collector reported.
CheckEvidence(c) ==
    /\ at[c] = "checking" /\ MovesTo(c, "finishing")
    /\ IF evidence > 0 THEN Reports(c, "collected")
                        ELSE UNCHANGED <<key, result, got>>
    /\ UNCHANGED evidence

-----------------------------------------------------------------------------
(* _finish_external_operation, _release_external_operation                   *)

\* Bug: the lease is not compared with the call's token.
BugFinish(c) ==
    /\ at[c] = "finishing"
    /\ holder' = None /\ until' = 0 /\ answer' = result[c]
    /\ got' = [got EXCEPT ![c] = result[c]] /\ MovesTo(c, "ended")
    /\ UNCHANGED <<evidence, result>>

\* Committed, and returned to the client unless the commit seems to have failed.
Finish(c) ==
    /\ at[c] = "finishing" /\ HoldsKey(c)
    /\ holder' = None /\ until' = 0 /\ answer' = result[c]
    /\ \/ got' = [got EXCEPT ![c] = result[c]] /\ MovesTo(c, "ended")
       \/ UNCHANGED got /\ MovesTo(c, "releasing")
    /\ UNCHANGED <<evidence, result>>

\* A statement fails, the lease is lost, or the request is cancelled while the
\* collector is awaited.
Fails(c) ==
    /\ at[c] \in {"looking", "collecting", "checking", "finishing"}
    /\ MovesTo(c, "releasing") /\ UNCHANGED <<key, evidence, result, got>>

\* The next call need not wait for the lease; if this fails, it must.
ReleaseKey(c) ==
    /\ at[c] = "releasing" /\ MovesTo(c, "ended")
    /\ \/ /\ holder = c /\ answer = None /\ until' \in Clocks
          /\ UNCHANGED <<holder, answer>>
       \/ UNCHANGED key
    /\ UNCHANGED <<evidence, result, got>>

CallerDies(c) ==
    /\ at[c] \notin {"idle", "ended"}
    /\ MovesTo(c, "ended") /\ UNCHANGED <<key, evidence, result, got>>

Collecting(c) ==
    Look(c) \/ CollectorEnds(c) \/ PlatformAnswers(c)
        \/ Store(c) \/ StoresNothing(c) \/ CheckEvidence(c)

OpStep(c) ==
    \/ Replay(c) \/ ClaimKey(c) \/ Collecting(c)
    \/ Finish(c) \/ Fails(c) \/ ReleaseKey(c) \/ CallerDies(c)

OpNext == OpTick \/ \E c \in Callers : OpStep(c)

OpSpec == OpInit /\ [][OpNext]_opVars

-----------------------------------------------------------------------------
(* Every variable has its type.                                              *)
OpTypeOK ==
    /\ clock \in Nat /\ until \in Nat /\ evidence \in 0..1
    /\ holder \in Callers \cup {None}
    /\ answer \in Answers \cup {None}
    /\ at \in [Callers -> CallPlaces]
    /\ result \in [Callers -> Answers \cup {None}]
    /\ got \in [Callers -> Answers \cup {None}]

(* The answer and the evidence agree for good: no key is answered with       *)
(* "unavailable" beside a snapshot, or gets a snapshot after it, however     *)
(* many owners follow each other and whichever of them wakes up late         *)
(* (service.py:1767 on a permanent replay beside a stored metric).           *)
AnswerMatchesEvidence ==
    answer # None => ((answer = "collected") <=> (evidence = 1))

(* A key has one answer: every call that returns one returns the same, also  *)
(* one whose lease was taken over while it collected.                        *)
SameAnswer == \A c \in Callers : got[c] # None => got[c] = answer
=============================================================================
