--------------------------- MODULE VerdictHistory ---------------------------
(***************************************************************************)
(* The executor with a history variable: what has been true of a run's     *)
(* target at some instant since its proposal was recorded and before its   *)
(* outcome was.  verify, check_block and the outcome are transactions of   *)
(* their own, so what they say can only be about those instants.           *)
(***************************************************************************)
EXTENDS AgentExecutor

VARIABLE witnessed

hvars == <<vars, witnessed>>

\* What is true of a run's target at this instant.
Facts(r) ==
    LET target == run[r].target
    IN  {IF target \in held THEN "held" ELSE "not_held"}
          \cup (IF Seats!SeatsUsed(target[2]) >= SeatsTotal[target[2]]
                THEN {"no_seats_available"} ELSE {})
          \cup (IF target[1] \in inactive THEN {"user_inactive"} ELSE {})

HInit == Init /\ witnessed = [r \in Runs |-> {}]

HNext ==
    /\ Next
    /\ witnessed' = [r \in Runs |-> IF run'[r].status = "verifying"
                                    THEN witnessed[r] \cup Facts(r)'
                                    ELSE witnessed[r]]

HSpec == HInit /\ [][HNext]_hvars

\* A verdict is about what was true while the run was VERIFYING, though the
\* verifier, the block check and the outcome are three transactions: a
\* completed run's goal held at some instant of it, a failed verification's
\* did not, and a block is one that a rule of the application found, in the
\* run's own attempt or in the state.
VerdictWasTrue ==
    \A r \in Runs :
        /\ run[r].status = "completed" => "held" \in witnessed[r]
        /\ run[r].outcome_reason \in ClaimReasons \cup {"verification_failed"}
              => "not_held" \in witnessed[r]
        /\ run[r].outcome_reason \in ClaimReasons
              => \/ run[r].outcome_reason \in witnessed[r]
                 \/ \E n \in CallsOf(r, {Mutation}) :
                       tool_calls[r][n].error = run[r].outcome_reason
=============================================================================
