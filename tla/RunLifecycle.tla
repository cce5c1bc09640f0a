---------------------------- MODULE RunLifecycle ----------------------------
(***************************************************************************)
(* What an agent run promises whoever reads its row: the transition table  *)
(* in the docstring of AgentRunStatus, and what an ending says about the   *)
(* change the run was asked for.                                           *)
(***************************************************************************)
EXTENDS AgentDomain

CONSTANT Runs

VARIABLES
    status,     \* of each run, None before its row exists
    reason,     \* why it ended, None until then
    changed     \* whether the run has changed anything, by its audit events

vars == <<status, reason, changed>>

Init ==
    /\ status = [r \in Runs |-> None]
    /\ reason = [r \in Runs |-> None]
    /\ changed = [r \in Runs |-> FALSE]

Move(r, from, to) ==
    /\ status[r] = from
    /\ status' = [status EXCEPT ![r] = to]
    /\ UNCHANGED <<reason, changed>>

End(r, from, to, why) ==
    /\ status[r] = from
    /\ status' = [status EXCEPT ![r] = to]
    /\ reason' = [reason EXCEPT ![r] = why]
    /\ UNCHANGED changed

Receive(r) == Move(r, None, "received")

\* RECEIVED -> RESOLVED; or ends NEEDS_CLARIFICATION, or FAILED
Understand(r) ==
    \/ Move(r, "received", "resolved")
    \/ \E why \in ReasonsOf.needs_clarification :
          End(r, "received", "needs_clarification", why)
    \/ \E why \in {"planner_error", "unexpected_error"} :
          End(r, "received", "failed", why)

\* RESOLVED -> EXECUTING, when its decision stage starts
Start(r) == Move(r, "resolved", "executing")

\* Only an EXECUTING run changes anything, and at most once.
Change(r) ==
    /\ status[r] = "executing"
    /\ ~changed[r]
    /\ changed' = [changed EXCEPT ![r] = TRUE]
    /\ UNCHANGED <<status, reason>>

\* EXECUTING -> VERIFYING, when the model concludes; AWAITING_APPROVAL, when
\* policy holds its mutation; or ends BLOCKED (policy denied it), or FAILED.
\* A run whose mutation policy held or denied has changed nothing.
Decide(r) ==
    \/ Move(r, "executing", "verifying")
    \/ ~changed[r] /\ Move(r, "executing", "awaiting_approval")
    \/ ~changed[r] /\ End(r, "executing", "blocked", "policy_denied")
    \/ \E why \in {"planner_error", "unexpected_error", "tool_failed", "step_limit"} :
          End(r, "executing", "failed", why)

\* VERIFYING -> ends COMPLETED, BLOCKED or FAILED. A completed run says
\* whether it changed anything, and says so truly.
Conclude(r) ==
    \/ changed[r] /\ End(r, "verifying", "completed", "goal_satisfied")
    \/ ~changed[r] /\ End(r, "verifying", "completed", "already_satisfied")
    \/ \E why \in ClaimReasons : End(r, "verifying", "blocked", why)
    \/ \E why \in {"verification_failed", "unexpected_error"} :
          End(r, "verifying", "failed", why)

Next ==
    \E r \in Runs :
        \/ Receive(r)
        \/ Understand(r)
        \/ Start(r)
        \/ Change(r)
        \/ Decide(r)
        \/ Conclude(r)

Spec == Init /\ [][Next]_vars
=============================================================================
