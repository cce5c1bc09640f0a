-------------------------- MODULE PlannerProtocol --------------------------
(***************************************************************************)
(* How a decision planner may use what the executor hands it: the          *)
(* contract of DecisionPlanner.decide, CallTool and before_request.        *)
(*                                                                         *)
(* One request is in flight at a time, and no tool runs meanwhile; a call  *)
(* or a request that the application answers with DecisionStopped is the   *)
(* last; and a request is not left behind unrecorded, unless its recording *)
(* failed, which is then the last thing the planner did.                   *)
(***************************************************************************)
EXTENDS Naturals

VARIABLES
    phase,      \* "free", "requesting", or how decide() was left
    requests,   \* model requests made
    calls       \* tool calls made

vars == <<phase, requests, calls>>

Init == phase = "free" /\ requests = 0 /\ calls = 0

\* before_request has returned, and the request is made.
Request ==
    /\ phase = "free"
    /\ phase' = "requesting"
    /\ requests' = requests + 1
    /\ UNCHANGED calls

\* It has an outcome, which is recorded; the planner may conclude from it.
Record ==
    /\ phase = "requesting"
    /\ phase' \in {"free", "ended"}
    /\ UNCHANGED <<requests, calls>>

\* call_tool gives an observation, or raises.
Call ==
    /\ phase = "free"
    /\ phase' \in {"free", "stopped", "ended"}
    /\ calls' = calls + 1
    /\ UNCHANGED requests

\* before_request raises, for the limit or otherwise.
Refused ==
    /\ phase = "free"
    /\ phase' \in {"stopped", "ended"}
    /\ UNCHANGED <<requests, calls>>

Next == Request \/ Record \/ Call \/ Refused

Spec == Init /\ [][Next]_vars
=============================================================================
