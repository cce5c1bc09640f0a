----------------------------- MODULE MCDirectory -----------------------------
\* Two clients create while one run resolves. Clients are interchangeable.
EXTENDS Directory, TLC

CONSTANTS c1, c2

MCSymmetry == Permutations({c1, c2})
=============================================================================
