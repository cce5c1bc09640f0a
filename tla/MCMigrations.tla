----------------------------- MODULE MCMigrations -----------------------------
\* Migrations over one run: every row the CHECKs accept, of one target, one
\* claim, one tool and one policy, with the reasons that tell two revisions or
\* two statuses apart.
EXTENDS Migrations

Reached == [kind |-> "goal_reached", reason_code |-> None]

MCReasons ==
    {"goal_satisfied", "instruction_unclear", "user_not_found",
     "no_seats_available", "policy_denied", "planner_error", "step_limit"}

MCRunRows ==
    {row \in [status : Statuses, goal : BOOLEAN, target : {None, "target"},
              context : BOOLEAN, proposal : {None, Reached},
              outcome_reason : MCReasons \cup {None}, completed_at : BOOLEAN,
              last_sequence_no : {0}] : RunRowPasses(row)}

MCCallRows ==
    {row \in [tool_name : {Mutation}, status : CallStatuses,
              policy_decision : {None, "require_approval"},
              error : {None, "policy_denied"}, observation : {None, "assigned"},
              completed_at : BOOLEAN] : ToolCallRowPasses(row)}
=============================================================================
