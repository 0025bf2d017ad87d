----------------------- MODULE ExternalOperationsProofs -----------------------
(* Proofs about a key of manual collections, for any number of calls, any    *)
(* lease and any difference of the clocks.                                   *)
EXTENDS ExternalOperations, TLAPS

(* The lease is held by a call that has begun.                               *)
HolderHasBegun == holder # None => at[holder] # "idle"

(* A call that is about to answer knows what is stored: a report of a        *)
(* snapshot is about one that is there, and any other report of the holder   *)
(* is still true, since nobody else could store one meanwhile.               *)
ReportIsTrue ==
    \A c \in Callers : at[c] = "finishing" =>
        /\ result[c] \in Answers
        /\ result[c] = "collected" => evidence = 1
        /\ result[c] # "collected" /\ holder = c => evidence = 0

(* What a call holds before it looks once more is a report of its own.       *)
CheckedReport ==
    \A c \in Callers : at[c] = "checking" =>
        /\ result[c] \in Answers
        /\ result[c] = "collected" => evidence = 1

(* An answered key is held by nobody.                                        *)
AnsweredIsFree == answer # None => holder = None

OperationInvariant ==
    /\ OpTypeOK /\ HolderHasBegun /\ CheckedReport /\ ReportIsTrue /\ AnsweredIsFree
    /\ AnswerMatchesEvidence /\ SameAnswer

USE ExternalOperationsAssumption

LEMMA OperationStarts == OpInit => OperationInvariant
  BY DEF OpInit, OperationInvariant, OpTypeOK, HolderHasBegun, CheckedReport, ReportIsTrue,
     AnsweredIsFree, AnswerMatchesEvidence, SameAnswer, CallPlaces, Answers

LEMMA ClocksAreTimes == ASSUME NEW t \in Clocks PROVE t \in Nat
  BY DEF Clocks

(* Moves of one call preserve the invariant.                                 *)
LEMMA OperationSteps ==
    ASSUME OperationInvariant, NEW c \in Callers, OpStep(c)
    PROVE  OperationInvariant'
  <1> USE DEF OperationInvariant, OpTypeOK, HolderHasBegun, CheckedReport, ReportIsTrue,
              AnsweredIsFree, AnswerMatchesEvidence, SameAnswer, CallPlaces, Answers,
              MovesTo, Reports, key
  <1>1. CASE Replay(c)
    BY <1>1 DEF Replay
  <1>2. CASE ClaimKey(c)
    <2>1. PICK t \in Clocks : (holder = None \/ until <= t) /\ holder' = c /\ until' = t + KeyLease
      BY <1>2 DEF ClaimKey
    <2>2. until' \in Nat
      BY <2>1, ClocksAreTimes
    <2>3. QED
      BY <1>2, <2>1, <2>2 DEF ClaimKey
  <1>3. CASE Look(c)
    BY <1>3 DEF Look
  <1>4. CASE CollectorEnds(c)
    BY <1>4 DEF CollectorEnds
  <1>5. CASE PlatformAnswers(c)
    BY <1>5 DEF PlatformAnswers
  <1>6. CASE Store(c)
    BY <1>6 DEF Store, HoldsKey
  <1>7. CASE StoresNothing(c)
    BY <1>7 DEF StoresNothing
  <1>8. CASE CheckEvidence(c)
    BY <1>8 DEF CheckEvidence
  <1>9. CASE Finish(c)
    BY <1>9 DEF Finish, HoldsKey
  <1>10. CASE Fails(c)
    BY <1>10 DEF Fails
  <1>11. CASE ReleaseKey(c)
    BY <1>11, ClocksAreTimes DEF ReleaseKey
  <1>12. CASE CallerDies(c)
    BY <1>12 DEF CallerDies
  <1>13. QED
    BY <1>1, <1>2, <1>3, <1>4, <1>5, <1>6, <1>7, <1>8, <1>9, <1>10, <1>11, <1>12
       DEF OpStep, Collecting

LEMMA OperationStays == OperationInvariant /\ [OpNext]_opVars => OperationInvariant'
  <1> SUFFICES ASSUME OperationInvariant, [OpNext]_opVars PROVE OperationInvariant'
    OBVIOUS
  <1>1. CASE OpTick
    BY <1>1 DEF OpTick, key, OperationInvariant, OpTypeOK, HolderHasBegun, CheckedReport,
       ReportIsTrue, AnsweredIsFree, AnswerMatchesEvidence, SameAnswer
  <1>2. CASE \E c \in Callers : OpStep(c)
    BY <1>2, OperationSteps
  <1>3. CASE UNCHANGED opVars
    BY <1>3 DEF opVars, key, OperationInvariant, OpTypeOK, HolderHasBegun, CheckedReport,
       ReportIsTrue, AnsweredIsFree, AnswerMatchesEvidence, SameAnswer
  <1>4. QED
    BY <1>1, <1>2, <1>3 DEF OpNext

(* The strengthening holds in every reachable state.                         *)
THEOREM OperationIsSound == OpSpec => []OperationInvariant
  BY OperationStarts, OperationStays, PTL DEF OpSpec

(* A key is answered with what is stored, and nothing is stored afterwards.  *)
THEOREM AnswersMatchEvidence == OpSpec => []AnswerMatchesEvidence
  <1>1. OperationInvariant => AnswerMatchesEvidence
    BY DEF OperationInvariant
  <1>2. QED
    BY <1>1, OperationIsSound, PTL

(* Every call that answers gives the same answer.                            *)
THEOREM AnswersAgree == OpSpec => []SameAnswer
  <1>1. OperationInvariant => SameAnswer
    BY DEF OperationInvariant
  <1>2. QED
    BY <1>1, OperationIsSound, PTL
=============================================================================
