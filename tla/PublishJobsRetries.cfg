\* One row, two executors, two publishers, two attempts, a shared account.
SPECIFICATION Spec
CONSTANTS
    e1 = e1
    e2 = e2
    a1 = a1
    a2 = a2
    p1 = p1
    p2 = p2
    Jobs = {1}
    Articles = {p1}
    Accounts = {a1}
    ArticleOf <- OneTargetArticleOf
    AccountOf <- OneTargetAccountOf
    ExactArticles = {}
    Executors = {e1, e2}
    MaxAttempts = 2
    Publishers = 2
    SlowExecutors = TRUE
    Shared = {a1}
    NoJob = NoJob
    Free = Free
    Outsider = Outsider
SYMMETRY ExecutorSymmetry
INVARIANTS
    AtMostOncePerJob
    UncheckedFailureIsClean
    EntriesWithinBudget
