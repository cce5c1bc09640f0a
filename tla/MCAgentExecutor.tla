--------------------------- MODULE MCAgentExecutor ---------------------------
\* The executor over one licence with one seat. Users are interchangeable.
EXTENDS AgentExecutor, TLC

CONSTANTS u1, u2, l1, r1

MCSeatsTotal == l1 :> 1
MCUserSymmetry == Permutations({u1, u2})
=============================================================================
