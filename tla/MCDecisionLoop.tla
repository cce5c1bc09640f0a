--------------------------- MODULE MCDecisionLoop ---------------------------
\* The decision loop on a small instance: one reading tool, responses of at
\* most two tool calls, three requests and one output retry.
EXTENDS DecisionLoop
=============================================================================
