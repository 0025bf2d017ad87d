\* Two executions, the daily probe and an operator; deadlines scaled down.
SPECIFICATION Spec
CONSTANTS
    j1 = j1
    j2 = j2
    Jobs = {j1, j2}
    BanDays = 2
    DegradeDays = 1
    DeadLimit = 2
    BanRun = 2
    DegradeRun = 1
    Backlog = 0
    Credentials = 2
    Editors = TRUE
    None = None
    Closed = Closed
SYMMETRY JobSymmetry
INVARIANTS
    SetbackHolds
PROPERTIES
    VerdictIsCurrent
    RecoveryIsEarned
