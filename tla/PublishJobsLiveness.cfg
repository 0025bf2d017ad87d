\* Two siblings of an approved article, with crashes: every RUNNING row is resolved.
SPECIFICATION FairSpec
CONSTANTS
    e1 = e1
    e2 = e2
    a1 = a1
    a2 = a2
    p1 = p1
    p2 = p2
    Jobs = {1, 2}
    Articles = {p1}
    Accounts = {a1, a2}
    ArticleOf <- OneTargetArticleOf
    AccountOf <- TwoTargetsAccountOf
    ExactArticles = {p1}
    Executors = {e1}
    MaxAttempts = 2
    Publishers = 1
    SlowExecutors = FALSE
    Shared = {}
    NoJob = NoJob
    Free = Free
    Outsider = Outsider
INVARIANTS
    ArticleFollowsJobs
PROPERTIES
    RunningIsResolved
