--------------------------- MODULE IntentExtraction ---------------------------
(***************************************************************************)
(* PydanticAIIntentPlanner.plan: the model is asked what an instruction    *)
(* asks for, its response is checked and recorded, and a rejected one is   *)
(* sent back, until one is accepted or the retry budget has run out.       *)
(*                                                                         *)
(* Nothing counts the requests before they are made: the model has no      *)
(* function tools, so the retry budget is their only bound.                *)
(*                                                                         *)
(* A text is what it is to the instruction: "copied" (it occurs there, but *)
(* for case and surrounding space), "invented", or "blank".                *)
(***************************************************************************)
EXTENDS Naturals, Sequences

CONSTANTS
    ExtractionRetries,   \* OUTPUT_RETRIES of the intent planner
    MaxResults           \* bound: result calls in one response

VARIABLES
    at,         \* where plan() is
    response,   \* the response being checked
    recorded,   \* extraction requests on the run's trace
    rejected,   \* responses rejected
    intent      \* what plan() returned or raised

vars == <<at, response, recorded, rejected, intent>>

Texts == {"copied", "invented", "blank"}
Goals == [user_email : Texts, product : Texts]
NoGoal == [user_email |-> "blank", product |-> "blank"]

ResultTools == {"ensure_assignment", "needs_clarification", "unsupported"}
Errors == {"planner_error", "error"}

\* A call in a response: its arguments validate for its tool, or do not.
Calls == [tool : ResultTools \cup {"other"}, valid : BOOLEAN, goal : Goals]
Responses == UNION {[1 .. n -> Calls] : n \in 0 .. MaxResults}

\* What plan() returns is a result and its texts; what it raises has none.
Raised(how) == [kind |-> how, goal |-> NoGoal]

\* Mutant of Ungrounded: a blank text occurs in every instruction.
UngroundedUnlessBlank(goal) == {f \in DOMAIN goal : goal[f] = "invented"}

\* ungrounded_fields
Ungrounded(goal) == {f \in DOMAIN goal : goal[f] # "copied"}

\* parse_output accepts this response.
Accepted(calls) ==
    /\ Len(calls) = 1
    /\ calls[1].tool \in ResultTools
    /\ calls[1].valid
    /\ calls[1].tool = "ensure_assignment" => Ungrounded(calls[1].goal) = {}

\* What _record_extraction ends the run with, or "goal": the run has one. The
\* text is checked again there, whatever the planner is.
Recorded(i) ==
    CASE i.kind = "ensure_assignment" ->
            IF Ungrounded(i.goal) = {} THEN "goal" ELSE "planner_error"
      [] i.kind = "needs_clarification" -> "instruction_unclear"
      [] i.kind = "unsupported" -> "unsupported_request"
      [] i.kind = "planner_error" -> "planner_error"
      [] OTHER -> "unexpected_error"

Init ==
    /\ at = "loop"
    /\ response = <<>>
    /\ recorded = 0
    /\ rejected = 0
    /\ intent = Raised("none")

Leave(i) == at' = "done" /\ intent' = i

\* The model is asked: there is no before_request.
Ask ==
    /\ at = "loop"
    /\ at' = "provider"
    /\ UNCHANGED <<response, recorded, rejected, intent>>

ProviderFails ==
    /\ at = "provider"
    /\ recorded' = recorded + 1
    /\ \E how \in Errors : Leave(Raised(how))
    /\ UNCHANGED <<response, rejected>>

ProviderAnswers ==
    /\ at = "provider"
    /\ at' = "check"
    /\ response' \in Responses
    /\ UNCHANGED <<recorded, rejected, intent>>

\* Mutant of Reject: one retry too many.
RejectOnceMore ==
    /\ at = "check"
    /\ ~Accepted(response)
    /\ recorded' = recorded + 1
    /\ rejected' = rejected + 1
    /\ response' = <<>>
    /\ IF rejected > ExtractionRetries
       THEN Leave(Raised("planner_error"))
       ELSE at' = "loop" /\ UNCHANGED intent

\* Recorded, and sent back to the model, unless the budget has run out.
Reject ==
    /\ at = "check"
    /\ ~Accepted(response)
    /\ recorded' = recorded + 1
    /\ rejected' = rejected + 1
    /\ response' = <<>>
    /\ IF rejected' > ExtractionRetries
       THEN Leave(Raised("planner_error"))
       ELSE at' = "loop" /\ UNCHANGED intent

\* Only an assignment has texts; what else the model says of it is dropped.
Accept ==
    /\ at = "check"
    /\ Accepted(response)
    /\ recorded' = recorded + 1
    /\ response' = <<>>
    /\ Leave([kind |-> response[1].tool, goal |-> response[1].goal])
    /\ UNCHANGED rejected

\* The log transaction of record() fails; or no request is made, because no
\* model can be built.
LogFails ==
    /\ at \in {"loop", "provider", "check"}
    /\ \E how \in Errors : Leave(Raised(how))
    /\ response' = <<>>
    /\ UNCHANGED <<recorded, rejected>>

Next ==
    \/ Ask
    \/ ProviderFails
    \/ ProviderAnswers
    \/ Reject
    \/ Accept
    \/ LogFails

Spec == Init /\ [][Next]_vars
-----------------------------------------------------------------------------
(* Why the retry budget bounds the requests: see DrivenRunProofs.          *)

\* "One plan makes at most 1 + OUTPUT_RETRIES requests", though nothing counts
\* them: each one after the first answers a rejected response.
RequestsAreBounded == recorded <= 1 + ExtractionRetries

\* The inductive invariant behind it: while plan() runs, the requests on the
\* trace are the rejected ones, and the budget still has one for the next.
OnlyRejectionsSoFar ==
    at # "done" => recorded = rejected /\ rejected <= ExtractionRetries
=============================================================================
