\* One execution and a fair daily probe.
SPECIFICATION FairSpec
CONSTANTS
    j1 = j1
    j2 = j2
    Jobs = {j1}
    BanDays = 3
    DegradeDays = 1
    DeadLimit = 2
    BanRun = 2
    DegradeRun = 1
    Backlog = 1
    Credentials = 1
    Editors = FALSE
    None = None
    Closed = Closed
PROPERTIES
    BannedIsReexamined
    BansEnd
