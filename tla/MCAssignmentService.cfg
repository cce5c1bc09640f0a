\* Two clients, three requests each, on one seat; under fairness, all answered.
SPECIFICATION FairSpec
CONSTANTS
    u1 = u1
    u2 = u2
    u3 = u3
    l1 = l1
    c1 = c1
    c2 = c2
    Users = {u1, u2, u3}
    Licences = {l1}
    SeatsTotal <- MCSeatsTotal
    ActiveUsers = {u1, u2}
    Clients = {c1, c2}
    MaxRequests = 3
    None = None
INVARIANTS
    TypeOK
    AuditTellsTheRows
    OneActiveAssignment
    AnswerIsCommitted
PROPERTIES
    HistoryIsKept
    ImplementsSeatLedger
    EveryRequestIsAnswered
CHECK_DEADLOCK FALSE
