\* A row and its replacement, two executors, two attempts: safety, aggregation, contract.
SPECIFICATION Spec
CONSTANTS
    e1 = e1
    e2 = e2
    a1 = a1
    a2 = a2
    p1 = p1
    p2 = p2
    Jobs = {1, 2}
    Articles = {p1}
    Accounts = {a1}
    ArticleOf <- OneTargetArticleOf
    AccountOf <- OneTargetAccountOf
    ExactArticles = {}
    Executors = {e1, e2}
    MaxAttempts = 2
    Publishers = 1
    SlowExecutors = TRUE
    Shared = {}
    NoJob = NoJob
    Free = Free
    Outsider = Outsider
SYMMETRY ExecutorSymmetry
PROPERTIES
    LostProofIsFlagged
    KeepsContract
