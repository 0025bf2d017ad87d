\* Two plans for one article, two open calls, an operator and one change of each kind.
SPECIFICATION Spec
CONSTANTS
    agent = agent
    ann = ann
    bob = bob
    p1 = p1
    p2 = p2
    a1 = a1
    a2 = a2
    c1 = c1
    c2 = c2
    Plans = {p1, p2}
    Approvals = {a1, a2}
    Principals = {agent, ann, bob}
    Humans = {ann, bob}
    planA = planA
    planB = planB
    requestA = requestA
    requestB = requestB
    decideB = decideB
    decideC = decideC
    scheduleA = scheduleA
    scheduleB = scheduleB
    Keys = {planA, planB, requestA, requestB, decideB, decideC, scheduleA, scheduleB}
    Owner <- KeyOwner
    Operation <- KeyOperation
    Callers = {c1, c2}
    None = None
    Moves <- AndUnschedulings
    Aggregates = {"publishing"}
    Probes = {TRUE}
    MaxChanges = 1
    MaxReopened = 1
SYMMETRY RowSymmetry
INVARIANTS
    PlanFollowsApproval
    ScheduledOnce
    PublishedAsApproved
    OnePlanPerKey
    ClaimsAlternate
PROPERTIES
    ExpiryIsFinal
    KeepsGate
