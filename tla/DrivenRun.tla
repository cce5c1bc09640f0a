------------------------------ MODULE DrivenRun ------------------------------
(***************************************************************************)
(* A run under this program's own planners: AgentExecutor, where a planner *)
(* may do anything, with IntentExtraction and DecisionLoop as what it does.*)
(* Control is inverted while a planner runs (the docstring of decide): the *)
(* loop calls back into the executor, which records, answers, or stops it. *)
(* So each callback is a step of both: the executor's action, and the      *)
(* loop's, which must agree on what was recorded and what was answered.    *)
(*                                                                         *)
(* Between callbacks, people and operators act as before.  Crashes are     *)
(* left to AgentExecutor: they only cut a trace short.                     *)
(***************************************************************************)
EXTENDS AgentExecutor, Functions, Sequences

CONSTANTS
    RecordedNames,      \* of the target tools that read (RECORDED_NAMES)
    ExtractionRetries,  \* OUTPUT_RETRIES of the intent planner
    OutputRetries,      \* OUTPUT_RETRIES of the decision planner
    Extractions,        \* bound: responses of the extraction model
    Answers             \* bound: responses of the decision model

VARIABLES
    \* IntentExtraction
    xat, xresponse, xrejected, intent,
    \* DecisionLoop
    at, response, batch, made, rejected, asked, called, result

xvars == <<xat, xresponse, xrejected, intent>>
lvars == <<at, response, batch, made, rejected, asked, called, result>>
dvars == <<vars, xvars, lvars>>

\* The one run.
d == CHOOSE r \in Runs : TRUE

Extraction == INSTANCE IntentExtraction WITH
    MaxResults <- 2, at <- xat, response <- xresponse, rejected <- xrejected,
    recorded <- Cardinality(RequestsMade(d, "extraction"))

Loop == INSTANCE DecisionLoop WITH
    ReadTools <- DOMAIN RecordedNames, MaxParts <- 2,
    recorded <- Cardinality(RequestsMade(d, "decision"))

ASSUME DrivenRunAssumption ==
    /\ \E r \in Runs : Runs = {r}
    /\ ~IgnoresStops
    /\ {ExtractionRetries, OutputRetries} \subseteq Nat
    /\ Range(RecordedNames) = ReadTools
    /\ DOMAIN RecordedNames \cap {"assign_target_licence", "cannot_proceed",
                                 "goal_reached", "other"} = {}
    /\ Extractions \subseteq Extraction!Responses
    /\ Answers \subseteq Loop!Responses

\* The name a target tool's calls are recorded under.
Recorded(tool) ==
    IF tool = "assign_target_licence" THEN Mutation ELSE RecordedNames[tool]

\* The request was recorded, and as this.
RequestRecordedAs(ok) == model_calls'[d][NextSeq(d)].succeeded = ok

\* The run's row tells this reason, if this step ended it.
EndedFor(reason) == run'[d] # run[d] => run'[d].outcome_reason = reason

DInit == Init /\ Extraction!Init /\ Loop!Init
-----------------------------------------------------------------------------
(* extract_intent: plan, and what is recorded of it.                       *)

AskExtraction ==
    /\ pc[d] = "extracting"
    /\ UNCHANGED <<vars, lvars>>
    /\ Extraction!Ask

ExtractionAnswered ==
    /\ UNCHANGED <<vars, lvars>>
    /\ xresponse' \in Extractions
    /\ Extraction!ProviderAnswers

ExtractionRecorded ==
    /\ ExtractionRequest(d)
    /\ \/ Extraction!Accept /\ RequestRecordedAs(TRUE)
       \/ Extraction!Reject /\ RequestRecordedAs(FALSE)
       \/ Extraction!ProviderFails /\ RequestRecordedAs(FALSE)
    /\ UNCHANGED lvars

ExtractionLogFails ==
    /\ pc[d] = "extracting"
    /\ UNCHANGED <<vars, lvars>>
    /\ Extraction!LogFails

\* plan has returned or raised: the run has a goal, or it ends.
RecordExtraction ==
    /\ xat = "done"
    /\ IF Extraction!Recorded(intent) = "goal"
       THEN ExtractGoal(d)
       ELSE ExtractNothing(d) /\ EndedFor(Extraction!Recorded(intent))
    /\ UNCHANGED <<xvars, lvars>>
-----------------------------------------------------------------------------
(* decide: the model's requests.                                           *)

MakeRequest ==
    /\ \/ BeforeRequest(d) /\ Loop!BeforeRequest
       \/ RequestOverLimit(d) /\ Loop!RequestOverLimit
    /\ UNCHANGED xvars

ModelAnswers ==
    /\ UNCHANGED <<vars, xvars>>
    /\ response' \in Answers
    /\ Loop!ProviderAnswers

DecisionRecorded ==
    /\ RecordRequest(d)
    /\ \/ Loop!AcceptTools /\ RequestRecordedAs(TRUE)
       \/ Loop!AcceptProposal /\ RequestRecordedAs(TRUE)
       \/ Loop!Reject /\ RequestRecordedAs(FALSE)
       \/ Loop!ProviderFails /\ RequestRecordedAs(FALSE)
    /\ UNCHANGED xvars

\* Before a request, the executor has only failed to count; after it, it has
\* failed to record.
DecisionLogFails ==
    /\ \/ pc[d] = "planning" /\ at = "loop" /\ UNCHANGED vars
       \/ RecordRequestFails(d)
    /\ Loop!LogFails
    /\ UNCHANGED xvars
-----------------------------------------------------------------------------
(* decide: the model's tool calls, in the order of the batch.              *)

\* The call is admitted, and the loop waits for what comes of it.
CallAdmitted ==
    /\ at = "tools"
    /\ \E tool \in Tools : tool = Recorded(Head(batch)) /\ AdmitCall(d, tool)
    /\ UNCHANGED <<xvars, lvars>>

\* The call ends or pauses the run before it is made.
CallStopped ==
    /\ at = "tools"
    /\ \/ \E tool \in Tools :
             tool = Recorded(Head(batch)) /\ CallOverLimit(d, tool)
       \/ Recorded(Head(batch)) = Mutation /\ (DenyCall(d) \/ HoldCall(d))
    /\ Loop!Stopped
    /\ UNCHANGED xvars

\* The call's outcome is recorded: the model is shown it, or never told.
CallRecorded ==
    /\ RecordOutcome(d)
    /\ IF raised'[d] = None THEN Loop!Observed ELSE Loop!Stopped
    /\ UNCHANGED xvars

CallLogFails ==
    /\ RecordOutcomeFails(d)
    /\ Loop!CallRaises
    /\ UNCHANGED xvars
-----------------------------------------------------------------------------
(* decide has its planner's answer.  The executor refuses these planners   *)
(* neither a call nor a proposal: if it ever did, the run would be stuck   *)
(* here, and would not settle.                                             *)

\* The proposals that a result of the loop stands for.
ProposalsOf(how) ==
    {p \in Proposals : (p.kind = "cannot_proceed") <=> (how = "cannot_proceed")}

DecisionEnds ==
    /\ at = "done"
    /\ \/ result = "decision_stopped" /\ StopReachesDecide(d)
       \/ result = "planner_error" /\ ErrorReachesDecide(d)
             /\ EndedFor("planner_error")
       \/ result = "error" /\ ErrorReachesDecide(d) /\ EndedFor("unexpected_error")
       \/ result \in Loop!ProposalTools /\ RecordProposal(d)
             /\ run'[d].proposal \in ProposalsOf(result)
    /\ UNCHANGED <<xvars, lvars>>
-----------------------------------------------------------------------------
(* The specification.                                                      *)

\* The steps of the executor in which no planner takes part.
ExecutorAlone ==
    /\ \/ ReceiveRun(d)
       \/ ResolveGoal(d)
       \/ ResolveNothing(d)
       \/ StartDecision(d)
       \/ ReadTarget(d)
       \/ CheckUser(d)
       \/ CountSeats(d)
       \/ InsertAssignment(d)
       \/ VerifyGoal(d)
       \/ CheckBlock(d)
       \/ Conclude(d)
    /\ UNCHANGED <<xvars, lvars>>

FaultAlone ==
    /\ BusinessFails(d) \/ VerificationFails(d)
    /\ UNCHANGED <<xvars, lvars>>

OthersAlone == Others /\ UNCHANGED <<xvars, lvars>>

GoesOn ==
    \/ ExecutorAlone
    \/ AskExtraction
    \/ ExtractionAnswered
    \/ ExtractionRecorded
    \/ RecordExtraction
    \/ MakeRequest
    \/ ModelAnswers
    \/ DecisionRecorded
    \/ CallAdmitted
    \/ CallStopped
    \/ CallRecorded
    \/ DecisionEnds

DNext ==
    \/ GoesOn
    \/ ExtractionLogFails
    \/ DecisionLogFails
    \/ CallLogFails
    \/ FaultAlone
    \/ OthersAlone

DSpec == DInit /\ [][DNext]_dvars

\* Model requests time out and statements do not block for ever, so the driver
\* or its planner, whichever has control, takes its step. No fault need happen.
FairDSpec == DSpec /\ WF_dvars(GoesOn)
-----------------------------------------------------------------------------
(* Properties.                                                             *)

\* The trace tells the conversation as it went. The extraction comes first,
\* and the accepted answer is its last, without which there is no goal; every
\* tool was asked for by the accepted answer that comes next before it, and no
\* answer is recorded between; its k-th call is the k-th that accepted answers
\* asked for; what ended or paused the run in a call is the last entry, as the
\* answer that a proposal was made in is.
TraceTellsTheConversation ==
    LET extractions == RequestsMade(d, "extraction")
        decisions == RequestsMade(d, "decision")
        accepted == {n \in DOMAIN model_calls[d] : model_calls[d][n].succeeded}
        last == run[d].last_sequence_no
        place(n) == Cardinality({m \in DOMAIN tool_calls[d] : m <= n})
        LastBefore(S, n) == {m \in S : m < n /\ \A k \in S : k < n => k <= m}
    IN  /\ \A n \in extractions, m \in decisions \cup DOMAIN tool_calls[d] : n < m
        /\ \A n \in extractions \cap accepted, m \in extractions : m <= n
        /\ run[d].goal => extractions \cap accepted # {}
        /\ \A n \in DOMAIN tool_calls[d] :
              /\ LastBefore(decisions, n) \cap accepted # {}
              /\ tool_calls[d][n].tool_name = Recorded(asked[place(n)])
              /\ \/ tool_calls[d][n].status = "started"
                 \/ tool_calls[d][n].observation # None
                 \/ n = last
        /\ run[d].proposal # None => last \in decisions \cap accepted

\* The extraction's requests are bounded by its retry budget alone, though
\* neither the executor nor the trace counts them.
ExtractionIsBounded ==
    Cardinality(RequestsMade(d, "extraction")) <= 1 + ExtractionRetries

\* A goal's texts occur in the instruction, neither of them blank: what the
\* model invents is never resolved.
GoalIsGrounded ==
    run[d].goal => intent.goal = [user_email |-> "copied", product |-> "copied"]
=============================================================================
