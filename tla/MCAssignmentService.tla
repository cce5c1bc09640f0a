------------------------- MODULE MCAssignmentService -------------------------
\* The assignment service on a small instance: one licence with one seat, two
\* active users and an inactive one, two clients.
EXTENDS AssignmentService, TLC

CONSTANTS u1, u2, u3, l1, c1, c2

MCSeatsTotal == l1 :> 1
=============================================================================
