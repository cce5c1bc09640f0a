----------------------------- MODULE MCDrivenRun -----------------------------
\* A driven run on a small instance: one user, one licence, one read tool, and
\* the responses of the models that differ in what becomes of them.
EXTENDS DrivenRun, TLC

CONSTANTS r1, u1, l1

MCSeatsTotal == l1 :> 1
MCRecordedNames == "get_target_user" :> "get_user"

Call(tool, valid, email, product) ==
    [tool |-> tool, valid |-> valid,
     goal |-> [user_email |-> email, product |-> product]]

MCExtractions ==
    LET goal == Call("ensure_assignment", TRUE, "copied", "copied")
        unclear == Call("needs_clarification", TRUE, "blank", "blank")
    IN  {<<>>, <<goal>>, <<goal, goal>>, <<unclear>>,
         <<Call("ensure_assignment", TRUE, "copied", "invented")>>,
         <<Call("ensure_assignment", TRUE, "blank", "copied")>>,
         <<Call("ensure_assignment", FALSE, "copied", "copied")>>,
         <<Call("unsupported", TRUE, "blank", "blank")>>}

Asks(tool) == [tool |-> tool, args |-> "none"]
Claims == [tool |-> "cannot_proceed", args |-> "reason_code"]

MCAnswers ==
    LET read == Asks("get_target_user")
        assign == Asks("assign_target_licence")
        reached == Asks("goal_reached")
    IN  {<<>>, <<read>>, <<assign>>, <<read, assign>>, <<assign, assign>>,
         <<assign, reached>>, <<reached>>, <<Claims>>, <<Asks("other")>>,
         <<[assign EXCEPT !.args = "anything"]>>}
=============================================================================
