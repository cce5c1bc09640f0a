\* Two clients revoking one assignment at the same time.
SPECIFICATION Spec
CONSTANTS
    u1 = u1
    u2 = u2
    u3 = u3
    l1 = l1
    c1 = c1
    c2 = c2
    Users = {u1, u2, u3}
    Licences = {l1}
    SeatsTotal <- MCSeatsTotal
    ActiveUsers = {u1, u2}
    Clients = {c1, c2}
    MaxRequests = 2
    None = None
INVARIANTS
    LaterTimestampWins
CHECK_DEADLOCK FALSE
