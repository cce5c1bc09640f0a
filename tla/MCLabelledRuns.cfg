\* A run that ends though the outcome of the call that changed something was
\* never recorded.
SPECIFICATION Spec
CONSTANTS
    u1 = u1
    u2 = u2
    l1 = l1
    r1 = r1
    None = None
    ReadTools = {"get_user"}
    Runs = {r1}
    Humans = {}
    Operators = {}
    Users = {u1}
    Licences = {l1}
    SeatsTotal <- MCSeatsTotal
    MaxExtractionRequests = 0
    MaxRequests = 1
    MaxReads = 0
    MaxMutations = 1
    IgnoresStops = FALSE
INVARIANTS
    LabelledRunsAreReconciled
CHECK_DEADLOCK FALSE
