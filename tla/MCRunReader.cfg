\* One GET of one run: one user, one licence with one seat, an operator.
SPECIFICATION RSpec
CONSTANTS
    None = None
    r1 = r1
    u1 = u1
    l1 = l1
    ReadTools = {"get_user"}
    Runs = {r1}
    Humans = {}
    Operators = {o1}
    Users = {u1}
    Licences = {l1}
    SeatsTotal <- MCSeatsTotal
    MaxExtractionRequests = 0
    MaxRequests = 1
    MaxReads = 1
    MaxMutations = 1
    IgnoresStops = TRUE
INVARIANTS
    AnswerIsConsistent
    AnswerHasTheTrace
    AnswerTellsTheOutcome
CHECK_DEADLOCK FALSE
