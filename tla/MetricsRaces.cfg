\* One window with two runners that may be suspended for any time; one key of
\* manual requests with three calls.
SPECIFICATION OwnersSpec
CONSTANTS
    r1 = r1
    r2 = r2
    j1 = j1
    Jobs = {j1}
    Tasks = {1}
    JobOf <- OneJob
    Due <- Windows
    Deadline <- LongDeadlines
    Runners = {r1, r2}
    MaxAttempts = 2
    Lease = 4
    Timeout = 1
    Margin = 1
    RetryDelay <- BackOff
    Lag = 1
    Stalls = TRUE
    Horizon = 11
    Nobody = Nobody
    Never = Never
    c1 = c1
    c2 = c2
    c3 = c3
    Callers = {c1, c2, c3}
    KeyLease = 2
    Skew = 1
    LastHour = 7
    None = None
SYMMETRY OwnersSymmetry
INVARIANTS
    RowIsConsistent
    AnswerMatchesEvidence
    SameAnswer
PROPERTIES
    KeepsEvidence
CHECK_DEADLOCK FALSE
