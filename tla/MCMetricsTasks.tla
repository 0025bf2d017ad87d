--------------------------- MODULE MCMetricsTasks ---------------------------
(* Small instances of MetricsTasks for TLC.                                  *)
EXTENDS MetricsTasks, TLC

CONSTANTS r1, r2, j1

RetryBase == 1
DelayCap == 3

(* _metrics_task_retry_delay_seconds: doubled from the second attempt on, and *)
(* capped.                                                                   *)
BackOff ==
    [n \in 0..MaxAttempts |->
        LET doubled == RetryBase * 2 ^ (IF n <= 1 THEN 0 ELSE n - 1)
        IN  IF doubled < DelayCap THEN doubled ELSE DelayCap]

OneJob == [t \in Tasks |-> j1]
Windows == [t \in Tasks |-> IF t = 1 THEN 1 ELSE 5]
Deadlines == [t \in Tasks |-> IF t = 1 THEN 6 ELSE 9]
LongDeadlines == [t \in Tasks |-> 10]

RunnerSymmetry == Permutations(Runners)
=============================================================================
