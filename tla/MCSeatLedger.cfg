\* The seat ledger: three clients race for one seat; l2 has no seat at all.
SPECIFICATION Spec
CONSTANTS
    u1 = u1
    u2 = u2
    u3 = u3
    l1 = l1
    l2 = l2
    Users <- MCUsers
    Licences <- MCLicences
    SeatsTotal <- MCSeatsTotal
    Clients = {c1, c2, c3}
    None = None
INVARIANTS
    TypeOK
    OverfillBounded
