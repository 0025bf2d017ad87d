\* Two calls for one post, outsiders who take three steps, and late commands.
SPECIFICATION Spec
CONSTANTS
    r1 = r1
    r2 = r2
    post = post
    image = image
    other = other
    Runs = {r1, r2}
    Paths = {post, image, other}
    PathsOf <- TwoCalls
    Post <- OnePost
    Verified = {r1}
    None = None
    Outsider = Outsider
    MaxCommits = 4
    MaxOutside = 3
INVARIANTS
    HonestResult
    PushedAsApproved
PROPERTIES
    ForeignWorkSurvives
    RollbackLeavesNoTrace
CHECK_DEADLOCK FALSE
