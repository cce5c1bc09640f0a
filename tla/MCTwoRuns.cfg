\* Two runs under planners that heed stops race for one seat; an operator is about.
SPECIFICATION HSpec
CONSTANTS
    u1 = u1
    u2 = u2
    l1 = l1
    r1 = r1
    r2 = r2
    None = None
    ReadTools = {"get_user"}
    Runs = {r1, r2}
    Humans = {}
    Operators = {o1}
    Users = {u1, u2}
    Licences = {l1}
    SeatsTotal <- MCSeatsTotal
    MaxExtractionRequests = 0
    MaxRequests = 0
    MaxReads = 0
    MaxMutations = 1
    IgnoresStops = FALSE
SYMMETRY MCRunSymmetry
INVARIANTS
    VerdictWasTrue
PROPERTIES
    KeepsSeatLedger
    FollowsLifecycle
CHECK_DEADLOCK FALSE
