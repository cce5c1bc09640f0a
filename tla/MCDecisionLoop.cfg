\* Three requests, one output retry, at most two tool calls in a response.
SPECIFICATION FairSpec
CONSTANTS
    ReadTools = {"get_target_user"}
    OutputRetries = 1
    MaxRequests = 3
    MaxParts = 2
INVARIANTS
    TypeOK
    CallsFollowTheAsking
    RequestsAreCounted
PROPERTIES
    LoopEnds
    KeepsProtocol
CHECK_DEADLOCK FALSE
