\* A run under its own planners: what they say, and that it settles.
SPECIFICATION FairDSpec
CONSTANTS
    r1 = r1
    u1 = u1
    l1 = l1
    None = None
    ReadTools = {"get_user"}
    Runs = {r1}
    Humans = {h1}
    Operators = {o1}
    Users = {u1}
    Licences = {l1}
    SeatsTotal <- MCSeatsTotal
    MaxExtractionRequests = 3
    MaxRequests = 3
    MaxReads = 1
    MaxMutations = 1
    IgnoresStops = FALSE
    RecordedNames <- MCRecordedNames
    ExtractionRetries = 1
    OutputRetries = 1
    Extractions <- MCExtractions
    Answers <- MCAnswers
INVARIANTS
    TraceTellsTheConversation
    ExtractionIsBounded
    GoalIsGrounded
PROPERTIES
    RunsSettle
CHECK_DEADLOCK FALSE
