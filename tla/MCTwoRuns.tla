------------------------------ MODULE MCTwoRuns ------------------------------
\* Two runs, and the history of what was true of their targets, over one licence
\* with one seat. Users, and runs, are interchangeable: nothing in the executor
\* tells one from another.
EXTENDS VerdictHistory, TLC

CONSTANTS u1, u2, l1, r1, r2

MCSeatsTotal == l1 :> 1
MCRunSymmetry == Permutations({r1, r2}) \cup Permutations({u1, u2})
=============================================================================
