---------------------------- MODULE MCRunReader ----------------------------
\* One reader of one run, whose planner may ignore stops.
EXTENDS RunReader, TLC

CONSTANTS r1, u1, l1

MCSeatsTotal == l1 :> 1
=============================================================================
