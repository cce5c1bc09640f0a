---------------------------- MODULE DecisionLoop ----------------------------
(***************************************************************************)
(* PydanticAIDecisionPlanner.decide: the model is asked, its response is   *)
(* checked and recorded, its tools are called one by one, and it is asked  *)
(* again, until it concludes or the loop is stopped.                       *)
(*                                                                         *)
(* The executor appears as what it answers (AgentExecutor): an observation *)
(* of a call, DecisionStopped, or an error of its own; the provider as any *)
(* response, or a failure; PydanticAI, which is not part of this program,  *)
(* as its settings make it: "sequential" tools, no tool retries, and an    *)
(* output retry budget that may or may not start again after an accepted   *)
(* response.                                                               *)
(***************************************************************************)
EXTENDS Naturals, SequencesExt

CONSTANTS
    ReadTools,      \* names of the target tools that only read
    OutputRetries,  \* OUTPUT_RETRIES
    MaxRequests,    \* MAX_DECISION_MODEL_REQUESTS
    MaxParts        \* bound: tool calls in one response

ASSUME DecisionLoopAssumption ==
    /\ {OutputRetries, MaxRequests, MaxParts} \subseteq Nat
    /\ ReadTools \cap {"assign_target_licence", "cannot_proceed", "goal_reached",
                       "other"} = {}

VARIABLES
    at,         \* where decide() is
    response,   \* the response being processed
    batch,      \* its tools that have not been called
    made,       \* requests made of the provider
    recorded,   \* decision requests on the run's trace
    rejected,   \* responses rejected, since the budget was full
    asked,      \* the tools that accepted responses asked for, in order
    called,     \* the tools that were called
    result      \* what decide() returned or raised

vars == <<at, response, batch, made, recorded, rejected, asked, called, result>>
counts == <<made, recorded, rejected>>
tools == <<asked, called, batch>>

TargetTools == ReadTools \cup {"assign_target_licence"}

\* no_action_needed is to the loop what goal_reached is.
ProposalTools == {"goal_reached", "cannot_proceed"}

\* A tool call in a response: its arguments are none, a reason_code that
\* cannot_proceed takes, or anything else.
Parts == [tool : TargetTools \cup ProposalTools \cup {"other"},
          args : {"none", "reason_code", "anything"}]

Responses == UNION {[1 .. n -> Parts] : n \in 0 .. MaxParts}

ToolNames(parts) == [i \in DOMAIN parts |-> parts[i].tool]

ValidProposal(part) ==
    \/ part.tool = "goal_reached" /\ part.args = "none"
    \/ part.tool = "cannot_proceed" /\ part.args = "reason_code"

OnlyTools(parts) ==
    \A i \in DOMAIN parts : parts[i].tool \in TargetTools /\ parts[i].args = "none"

\* Mutant of Parse: tools next to a conclusion are run, as PydanticAI would.
ParseIgnoringConclusions(parts) ==
    IF parts = <<>> THEN "invalid"
    ELSE IF \E i \in DOMAIN parts : parts[i].tool \in TargetTools THEN "tools"
    ELSE IF Len(parts) = 1 /\ ValidProposal(parts[1]) THEN "proposal"
    ELSE "invalid"

\* parse_decision
Parse(parts) ==
    IF Len(parts) = 1 /\ ValidProposal(parts[1]) THEN "proposal"
    ELSE IF parts # <<>> /\ OnlyTools(parts) THEN "tools"
    ELSE "invalid"

Init ==
    /\ at = "loop"
    /\ response = <<>> /\ batch = <<>>
    /\ made = 0 /\ recorded = 0 /\ rejected = 0
    /\ asked = <<>> /\ called = <<>>
    /\ result = "none"

\* decide() is over: with a proposal, or with an exception. DecisionStopped
\* goes through unchanged; any other exception is a PlannerError, or goes
\* through, by as_planner_error: one with "Timeout" in its type's name is
\* taken for the provider's, wherever it came from.
Leave(how) == at' = "done" /\ result' = how

Errors == {"planner_error", "error"}
-----------------------------------------------------------------------------
(* A request (CheckAndRecordModelRequests.wrap_model_request).             *)

BeforeRequest ==
    /\ at = "loop"
    /\ recorded < MaxRequests
    /\ at' = "provider"
    /\ made' = made + 1
    /\ UNCHANGED <<response, tools, recorded, rejected, result>>

\* Mutant of RequestOverLimit: at the limit itself nothing is raised.
RequestPastLimit ==
    /\ at = "loop"
    /\ recorded > MaxRequests
    /\ Leave("decision_stopped")
    /\ UNCHANGED <<response, tools, counts>>

RequestOverLimit ==
    /\ at = "loop"
    /\ recorded >= MaxRequests
    /\ Leave("decision_stopped")
    /\ UNCHANGED <<response, tools, counts>>

\* The request fails: recorded, and re-raised.
ProviderFails ==
    /\ at = "provider"
    /\ recorded' = recorded + 1
    /\ \E how \in Errors : Leave(how)
    /\ UNCHANGED <<response, tools, made, rejected>>

ProviderAnswers ==
    /\ at = "provider"
    /\ at' = "check"
    /\ response' \in Responses
    /\ UNCHANGED <<tools, counts, result>>

\* Mutant of Reject: only accepted responses are recorded.
RejectUnrecorded ==
    /\ at = "check"
    /\ Parse(response) = "invalid"
    /\ rejected' = rejected + 1
    /\ IF rejected' > OutputRetries
       THEN Leave("planner_error")
       ELSE at' = "loop" /\ UNCHANGED result
    /\ UNCHANGED <<response, tools, made, recorded>>

\* Mutant of Reject: the tools of a rejected response are run all the same.
RejectAfterRunning ==
    /\ at = "check"
    /\ Parse(response) = "invalid"
    /\ recorded' = recorded + 1
    /\ rejected' = rejected + 1
    /\ batch' = SelectSeq(ToolNames(response), LAMBDA tool : tool \in TargetTools)
    /\ IF rejected' > OutputRetries
       THEN Leave("planner_error")
       ELSE at' = (IF batch' = <<>> THEN "loop" ELSE "tools") /\ UNCHANGED result
    /\ UNCHANGED <<response, made, asked, called>>

\* Recorded, and sent back to the model, unless the budget has run out.
Reject ==
    /\ at = "check"
    /\ Parse(response) = "invalid"
    /\ recorded' = recorded + 1
    /\ rejected' = rejected + 1
    /\ IF rejected' > OutputRetries
       THEN Leave("planner_error")
       ELSE at' = "loop" /\ UNCHANGED result
    /\ UNCHANGED <<response, tools, made>>

AcceptTools ==
    /\ at = "check"
    /\ Parse(response) = "tools"
    /\ recorded' = recorded + 1
    /\ rejected' \in {0, rejected}
    /\ at' = "tools"
    /\ batch' = ToolNames(response)
    /\ asked' = asked \o ToolNames(response)
    /\ UNCHANGED <<response, made, called, result>>

AcceptProposal ==
    /\ at = "check"
    /\ Parse(response) = "proposal"
    /\ recorded' = recorded + 1
    /\ Leave(response[1].tool)
    /\ UNCHANGED <<response, tools, made, rejected>>

\* A log transaction fails, in before_request or in record; or no request is
\* made, because no model can be built (no credentials are configured).
LogFails ==
    /\ at \in {"loop", "provider", "check"}
    /\ \E how \in Errors : Leave(how)
    /\ UNCHANGED <<response, tools, counts>>
-----------------------------------------------------------------------------
(* The tools of an accepted response.                                      *)

\* The call is over: the next one, or the next request.
CallNext(rest) ==
    /\ batch' = rest
    /\ at' = IF rest = <<>> THEN "loop" ELSE "tools"
    /\ UNCHANGED result

\* Mutant of Observed: the tools of a response run in any order.
ObservedInAnyOrder ==
    /\ at = "tools"
    /\ \E i \in DOMAIN batch :
          /\ called' = Append(called, batch[i])
          /\ CallNext(RemoveAt(batch, i))
    /\ UNCHANGED <<response, asked, counts>>

Observed ==
    /\ at = "tools"
    /\ called' = Append(called, Head(batch))
    /\ CallNext(Tail(batch))
    /\ UNCHANGED <<response, asked, counts>>

\* Mutant of Stopped: the exception reaches the model as an observation.
StopIsObserved ==
    /\ at = "tools"
    /\ called' = Append(called, Head(batch))
    /\ batch' = Tail(batch)
    /\ at' = IF batch' = <<>> THEN "loop" ELSE "tools"
    /\ result' = "decision_stopped"
    /\ UNCHANGED <<response, asked, counts>>

\* The application ended or paused the run: what is left of the batch is not
\* called, and the model is not asked again.
Stopped ==
    /\ at = "tools"
    /\ called' = Append(called, Head(batch))
    /\ Leave("decision_stopped")
    /\ UNCHANGED <<response, batch, asked, counts>>

CallRaises ==
    /\ at = "tools"
    /\ called' = Append(called, Head(batch))
    /\ \E how \in Errors : Leave(how)
    /\ UNCHANGED <<response, batch, asked, counts>>

\* The loop goes on: everything but a failing log.
Proceed ==
    \/ BeforeRequest
    \/ RequestOverLimit
    \/ ProviderFails
    \/ ProviderAnswers
    \/ Reject
    \/ AcceptTools
    \/ AcceptProposal
    \/ Observed
    \/ Stopped
    \/ CallRaises

Next == Proceed \/ LogFails

Spec == Init /\ [][Next]_vars

\* Requests time out, and calls return or raise. A log need not fail.
FairSpec == Spec /\ WF_vars(Proceed)
-----------------------------------------------------------------------------
(* Properties.                                                             *)

TypeOK ==
    /\ at \in {"loop", "provider", "check", "tools", "done"}
    /\ response \in Responses
    /\ \A s \in {batch, asked, called} : s \in Seq(TargetTools)
    /\ counts \in Nat \X Nat \X Nat
    /\ result \in {"none", "decision_stopped"} \cup ProposalTools \cup Errors

\* The tools that run are those that accepted responses asked for, in the
\* order they asked, and the model is asked again only when all of them have
\* answered ("Tool calls run one at a time, in the order the model asked for
\* them").
CallsFollowTheAsking ==
    /\ IsPrefix(called, asked)
    /\ at \in {"loop", "provider", "check"} => called = asked
    /\ at = "tools" => called \o batch = asked

\* Every request counts: those made are within the limit, rejected and failed
\* ones included, and all of them are on the trace, unless a log transaction
\* failed, which ended the loop.
RequestsAreCounted ==
    /\ made <= MaxRequests
    /\ at \in {"loop", "tools"} => recorded = made
    /\ made # recorded => at \in {"provider", "check"} \/ result \in Errors

\* decide() always returns or raises, whatever the model answers.
LoopEnds == <>(at = "done")

\* Where the loop is, as the protocol sees it.
Phase ==
    IF result = "decision_stopped" THEN "stopped"
    ELSE IF at = "done" THEN "ended"
    ELSE IF at \in {"provider", "check"} THEN "requesting"
    ELSE "free"

Protocol == INSTANCE PlannerProtocol WITH
    phase <- Phase,
    requests <- made,
    calls <- Len(called)

\* The loop keeps the contract the executor relies on: requests and calls one
\* at a time, nothing after DecisionStopped, which decide() raises unchanged.
KeepsProtocol == Protocol!Spec
=============================================================================
