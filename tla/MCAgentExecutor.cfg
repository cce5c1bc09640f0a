\* One run under any planner, with a person, an operator and crashes around it.
SPECIFICATION Spec
CONSTANTS
    u1 = u1
    u2 = u2
    l1 = l1
    r1 = r1
    None = None
    ReadTools = {"get_user"}
    Runs = {r1}
    Humans = {h1}
    Operators = {o1}
    Users = {u1, u2}
    Licences = {l1}
    SeatsTotal <- MCSeatsTotal
    MaxExtractionRequests = 1
    MaxRequests = 1
    MaxReads = 1
    MaxMutations = 1
    IgnoresStops = TRUE
SYMMETRY MCUserSymmetry
INVARIANTS
    RowsPassTheirChecks
    TraceIsOneOrder
    ChangesAreOnTheTrace
    OutcomeTellsTheChange
    LimitsHold
    ReturnedIsSettled
    UnfinishedCallIsTheLast
    TraceInv
PROPERTIES
    EndedStaysEnded
CHECK_DEADLOCK FALSE
