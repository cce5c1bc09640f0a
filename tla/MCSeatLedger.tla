---------------------------- MODULE MCSeatLedger ----------------------------
\* The seat ledger on a small instance: three clients, one contested licence
\* with a single seat and one that has none.
EXTENDS SeatLedger, TLC

CONSTANTS u1, u2, u3, l1, l2

MCUsers == {u1, u2, u3}
MCLicences == {l1, l2}
MCSeatsTotal == (l1 :> 1) @@ (l2 :> 0)
=============================================================================
