----------------------------- MODULE AgentDomain -----------------------------
(***************************************************************************)
(* The agent layer's vocabulary and its pure decisions: statuses, outcome  *)
(* reasons, the domain rules table, what a model is shown of a tool call,  *)
(* the outcome of a run whose model has concluded, and the CHECK           *)
(* constraints on the rows.  No state here.                                *)
(***************************************************************************)
EXTENDS Naturals

CONSTANTS
    None,         \* NULL
    ReadTools     \* the tools that only read (RECORDED_READS)

Mutation == "assign_licence"
Tools == ReadTools \cup {Mutation}

ASSUME AgentDomainAssumption == Mutation \notin ReadTools

-----------------------------------------------------------------------------
(* Statuses and reasons (models/agent_run.py, models/tool_call.py).        *)

OpenStatuses ==
    {"received", "resolved", "executing", "awaiting_approval", "verifying"}
EndedStatuses == {"completed", "needs_clarification", "blocked", "failed"}
Statuses == OpenStatuses \cup EndedStatuses

ExtractionReasons == {"unsupported_request", "instruction_unclear"}
ResolutionFailures ==
    {"invalid_input", "user_not_found", "licence_not_found", "licence_ambiguous"}

\* Which reason may go with which ending (CHECK outcome_matches_status).
ReasonsOf ==
    [completed |-> {"goal_satisfied", "already_satisfied"},
     needs_clarification |-> ExtractionReasons \cup ResolutionFailures,
     blocked |-> {"no_seats_available", "user_inactive", "policy_denied"},
     failed |-> {"planner_error", "goal_scope_violation", "tool_failed",
                 "verification_failed", "step_limit", "unexpected_error"}]

Reasons == UNION {ReasonsOf[s] : s \in EndedStatuses}

Policies == {"allow", "deny", "require_approval"}
CallStatuses == {"awaiting_approval", "started", "succeeded", "failed"}

\* What a decision model concludes: its kind, and the reason it gives.
ClaimReasons == {"no_seats_available", "user_inactive"}
Proposals == {[kind |-> k, reason_code |-> None] : k \in {"goal_reached",
                                                          "no_action_needed"}}
        \cup {[kind |-> "cannot_proceed", reason_code |-> c] : c \in ClaimReasons}

-----------------------------------------------------------------------------
(* Tool outcomes (agent/tools.py).  "ok", or the code of the error.        *)

\* DOMAIN_RULES: the rejections of a mutation a model is shown, and as what.
ShownAs ==
    [assignment_already_exists |-> "already_assigned",
     no_seats_available |-> "no_seats_available",
     user_inactive |-> "user_inactive"]

\* The errors recorded with a call that ran or was refused.
ErrorCodes == DOMAIN ShownAs \cup {"unexpected_error", "step_limit",
                                   "policy_denied"}

\* tool_error and its normal counterpart: what a business transaction leaves.
Outcomes == {"ok", "unexpected_error"} \cup DOMAIN ShownAs

Observations == {"facts", "assigned"} \cup {ShownAs[c] : c \in DOMAIN ShownAs}

\* blocking_reason: the BLOCKED reason of a rejection, if its rule blocks.
BlockingReason(code) == IF code \in ClaimReasons THEN code ELSE None

\* observe: what the model is shown of a call, or None: then the run ends.
Observe(tool, outcome) ==
    IF tool = Mutation
    THEN IF outcome = "ok" THEN "assigned"
         ELSE IF outcome \in DOMAIN ShownAs THEN ShownAs[outcome] ELSE None
    ELSE IF outcome = "ok" THEN "facts" ELSE None

-----------------------------------------------------------------------------
(* decision_outcome (agent/decision.py): a verdict is what the executor    *)
(* knows when it concludes.                                                *)

Verdicts == [changed : BOOLEAN, rejection : ClaimReasons \cup {None},
             satisfied : BOOLEAN, confirmed : BOOLEAN]

\* Mutant of DecisionOutcome: the model's word that it assigned is taken.
ProposalTellsTheChange(proposal, v) ==
    IF v.satisfied
    THEN [status |-> "completed",
          reason |-> IF proposal.kind = "goal_reached"
                     THEN "goal_satisfied" ELSE "already_satisfied"]
    ELSE IF v.rejection # None
    THEN [status |-> "blocked", reason |-> v.rejection]
    ELSE IF proposal.kind = "cannot_proceed" /\ v.confirmed
    THEN [status |-> "blocked", reason |-> proposal.reason_code]
    ELSE [status |-> "failed", reason |-> "verification_failed"]

DecisionOutcome(proposal, v) ==
    IF v.satisfied
    THEN [status |-> "completed",
          reason |-> IF v.changed THEN "goal_satisfied" ELSE "already_satisfied"]
    ELSE IF v.rejection # None
    THEN [status |-> "blocked", reason |-> v.rejection]
    ELSE IF proposal.kind = "cannot_proceed" /\ v.confirmed
    THEN [status |-> "blocked", reason |-> proposal.reason_code]
    ELSE [status |-> "failed", reason |-> "verification_failed"]

-----------------------------------------------------------------------------
(* The CHECK constraints of the tables: a commit that breaks one fails.    *)

RunRowPasses(row) ==
    /\ row.target # None => row.goal
    /\ row.outcome_reason \in ExtractionReasons => ~row.goal
    /\ \/ row.status \in {"resolved", "executing", "awaiting_approval",
                          "verifying", "completed", "blocked"}
          /\ row.target # None
       \/ row.status \in {"received", "needs_clarification"}
          /\ row.target = None
       \/ row.status = "failed"
    /\ row.completed_at <=> row.status \notin OpenStatuses
    /\ IF row.status \in OpenStatuses
       THEN row.outcome_reason = None
       ELSE row.outcome_reason \in ReasonsOf[row.status]
    /\ row.context => row.target # None
    /\ row.proposal # None => row.context
    /\ (row.proposal # None /\ row.proposal.kind = "cannot_proceed")
          <=> (row.proposal # None /\ row.proposal.reason_code # None)

ToolCallRowPasses(row) ==
    /\ row.status \in {"awaiting_approval", "started"}
          => ~row.completed_at /\ row.error = None /\ row.observation = None
    /\ row.status = "succeeded" => row.completed_at /\ row.error = None
    /\ row.status = "failed" => row.completed_at /\ row.error # None
    /\ row.status = "awaiting_approval" => row.policy_decision = "require_approval"
    /\ row.policy_decision = "deny" => row.status = "failed"
=============================================================================
