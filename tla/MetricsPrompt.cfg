\* Two windows of one publication, two runners that meet their timeouts, crashes.
SPECIFICATION FairSpec
CONSTANTS
    r1 = r1
    r2 = r2
    j1 = j1
    Jobs = {j1}
    Tasks = {1, 2}
    JobOf <- OneJob
    Due <- Windows
    Deadline <- Deadlines
    Runners = {r1, r2}
    MaxAttempts = 2
    Lease = 3
    Timeout = 1
    Margin = 1
    RetryDelay <- BackOff
    Lag = 1
    Stalls = FALSE
    Horizon = 9
    Nobody = Nobody
    Never = Never
INVARIANTS
    FinishedWorkIsKept
    OneCollectorAtATime
PROPERTIES
    EveryTaskEnds
CHECK_DEADLOCK FALSE
