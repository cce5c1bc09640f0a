---------------------------- MODULE DrivenRunProofs ----------------------------
(***************************************************************************)
(* A driven run is a run of the executor, and a conversation of each of    *)
(* its planners' loops, and so has what is proved of either: the trace     *)
(* invariant, the bound on the extraction's requests, and a goal whose     *)
(* texts are the instruction's.  With both sides in view, the trace tells  *)
(* the conversation as it went: the invariant is Conversation, what the    *)
(* loops know of the trace at each point of it.                            *)
(***************************************************************************)
EXTENDS DrivenRun, AgentExecutorProofs

\* The one run is one of them.
LEMMA DrivenIsARun == d \in Runs
  BY DrivenRunAssumption DEF d

\* Whatever the planners' loops do, the executor takes a step of its own, or
\* none.
LEMMA ExecutorSteps ==
  ASSUME DNext
  PROVE  Next \/ UNCHANGED vars
  <1>. USE DrivenIsARun
  <1>1. CASE ExecutorAlone
    BY <1>1 DEF ExecutorAlone, Next, NextWithoutCrash, Advance
  <1>2. CASE AskExtraction \/ ExtractionAnswered \/ ModelAnswers
                \/ ExtractionLogFails
    BY <1>2 DEF AskExtraction, ExtractionAnswered, ModelAnswers,
       ExtractionLogFails
  <1>3. CASE ExtractionRecorded \/ RecordExtraction
    BY <1>3 DEF ExtractionRecorded, RecordExtraction, Next,
       NextWithoutCrash, Advance
  <1>4. CASE MakeRequest \/ DecisionRecorded \/ DecisionLogFails
    BY <1>4 DEF MakeRequest, DecisionRecorded, DecisionLogFails, Next,
       NextWithoutCrash, Advance, Fault
  <1>5. CASE CallAdmitted \/ CallStopped \/ CallRecorded \/ CallLogFails
    BY <1>5 DEF CallAdmitted, CallStopped, CallRecorded, CallLogFails,
       Next, NextWithoutCrash, Advance, Fault
  <1>6. CASE DecisionEnds
    BY <1>6 DEF DecisionEnds, Next, NextWithoutCrash, Advance
  <1>7. CASE FaultAlone \/ OthersAlone
    BY <1>7 DEF FaultAlone, OthersAlone, Next, NextWithoutCrash, Fault
  <1>. QED
    BY <1>1, <1>2, <1>3, <1>4, <1>5, <1>6, <1>7 DEF DNext, GoesOn

\* A run under this program's planners is a run of AgentExecutor, where a
\* planner may do anything.
THEOREM DrivenIsExecuted == DSpec => Spec
  <1>1. DInit => Init
    BY DEF DInit
  <1>2. [DNext]_dvars => [Next]_vars
    BY ExecutorSteps DEF dvars, vars
  <1>. QED  BY <1>1, <1>2, PTL DEF DSpec, Spec
-----------------------------------------------------------------------------
(* The planners' side of a step.                                           *)

\* A request of one stage leaves the requests of the other as they were.
LEMMA OtherStageRests ==
  ASSUME TraceInv, NEW stage, NEW other, stage # other, NEW ok,
         RecordModelCall(d, stage, ok)
  PROVE  RequestsMade(d, other)' = RequestsMade(d, other)
  <1>. DEFINE n == NextSeq(d)
  <1>1. run[d].last_sequence_no \in Nat
    BY DrivenIsARun DEF TraceInv, TypeOK, RunRow
  <1>2. n \notin DOMAIN model_calls[d]
    BY <1>1, DrivenIsARun DEF TraceInv, TraceIsOneOrder, NextSeq
  <1>3. model_calls'[d] = Put(model_calls[d], n, [stage |-> stage, succeeded |-> ok])
    BY DrivenIsARun DEF TraceInv, TypeOK, RecordModelCall
  <1>. HIDE DEF n
  <1>. QED  BY <1>2, <1>3 DEF RequestsMade, Put

\* Where no request is recorded, none is counted.
LEMMA NoRequestRests ==
  ASSUME model_calls' = model_calls, NEW stage
  PROVE  RequestsMade(d, stage)' = RequestsMade(d, stage)
  BY DEF RequestsMade

\* The steps of the run between requests and calls leave its requests alone.
LEMMA QuietSteps ==
  ASSUME \/ ExecutorAlone \/ RecordExtraction \/ CallAdmitted \/ FaultAlone
         \/ OthersAlone \/ DecisionEnds
  PROVE  model_calls' = model_calls /\ UNCHANGED <<xvars, lvars>>
  <1>1. CASE ExecutorAlone
    BY <1>1 DEF ExecutorAlone, ReceiveRun, ResolveGoal, ResolveNothing,
       StartDecision, ReadTarget, CheckUser, CountSeats, InsertAssignment,
       VerifyGoal, CheckBlock, Conclude, tables
  <1>2. CASE RecordExtraction
    BY <1>2 DEF RecordExtraction, ExtractGoal, ExtractNothing
  <1>3. CASE CallAdmitted
    BY <1>3 DEF CallAdmitted, AdmitCall
  <1>4. CASE FaultAlone
    BY <1>4 DEF FaultAlone, BusinessFails, VerificationFails, tables
  <1>5. CASE OthersAlone
    BY <1>5 DEF OthersAlone, Others, HumanChecks, HumanAssigns,
       HumanRevokes, EditPolicy, DeactivateUser, tables
  <1>6. CASE DecisionEnds
    BY <1>6 DEF DecisionEnds, StopReachesDecide, ErrorReachesDecide,
       RecordProposal, tables
  <1>. QED  BY <1>1, <1>2, <1>3, <1>4, <1>5, <1>6

\* A step of the run is a step of the extraction's conversation, or none.
LEMMA ExtractionSteps ==
  ASSUME TraceInv, DNext
  PROVE  Extraction!Next \/ UNCHANGED Extraction!vars
  <1>1. CASE \/ ExecutorAlone \/ RecordExtraction \/ CallAdmitted \/ FaultAlone
             \/ OthersAlone \/ DecisionEnds
    BY <1>1, QuietSteps, NoRequestRests DEF Extraction!vars, xvars
  <1>2. CASE AskExtraction \/ ExtractionAnswered \/ ExtractionLogFails
                \/ ExtractionRecorded
    BY <1>2 DEF AskExtraction, ExtractionAnswered, ExtractionLogFails,
       ExtractionRecorded, Extraction!Next
  <1>3. CASE DecisionRecorded
    <2>1. PICK ok \in BOOLEAN : RecordModelCall(d, "decision", ok)
      BY <1>3 DEF DecisionRecorded, RecordRequest
    <2>. QED
      BY <1>3, <2>1, OtherStageRests DEF DecisionRecorded, Extraction!vars, xvars
  <1>4. CASE MakeRequest \/ ModelAnswers \/ DecisionLogFails
    <2>1. model_calls' = model_calls /\ UNCHANGED xvars
      BY <1>4 DEF MakeRequest, ModelAnswers, DecisionLogFails, BeforeRequest,
         RequestOverLimit, RecordRequestFails, tables, vars
    <2>. QED  BY <2>1, NoRequestRests DEF Extraction!vars, xvars
  <1>5. CASE CallStopped \/ CallRecorded \/ CallLogFails
    <2>1. model_calls' = model_calls /\ UNCHANGED xvars
      BY <1>5 DEF CallStopped, CallRecorded, CallLogFails, CallOverLimit,
         DenyCall, HoldCall, RecordOutcome, RecordOutcomeFails, tables
    <2>. QED  BY <2>1, NoRequestRests DEF Extraction!vars, xvars
  <1>. QED  BY <1>1, <1>2, <1>3, <1>4, <1>5 DEF DNext, GoesOn

\* A step of the run is a step of the decision's conversation, or none.
LEMMA LoopSteps ==
  ASSUME TraceInv, DNext
  PROVE  Loop!Next \/ UNCHANGED Loop!vars
  <1>1. CASE \/ ExecutorAlone \/ RecordExtraction \/ CallAdmitted \/ FaultAlone
             \/ OthersAlone \/ DecisionEnds
    BY <1>1, QuietSteps, NoRequestRests DEF Loop!vars, lvars
  <1>2. CASE AskExtraction \/ ExtractionAnswered \/ ExtractionLogFails
    <2>1. model_calls' = model_calls /\ UNCHANGED lvars
      BY <1>2 DEF AskExtraction, ExtractionAnswered, ExtractionLogFails,
         vars, tables
    <2>. QED  BY <2>1, NoRequestRests DEF Loop!vars, lvars
  <1>3. CASE ExtractionRecorded
    <2>1. PICK ok \in BOOLEAN : RecordModelCall(d, "extraction", ok)
      BY <1>3 DEF ExtractionRecorded, ExtractionRequest
    <2>. QED
      BY <1>3, <2>1, OtherStageRests DEF ExtractionRecorded, Loop!vars, lvars
  <1>4. CASE MakeRequest \/ ModelAnswers \/ DecisionLogFails \/ DecisionRecorded
    BY <1>4 DEF MakeRequest, ModelAnswers, DecisionLogFails,
       DecisionRecorded, Loop!Next, Loop!Proceed
  <1>5. CASE CallStopped \/ CallRecorded \/ CallLogFails
    BY <1>5 DEF CallStopped, CallRecorded, CallLogFails, Loop!Next,
       Loop!Proceed
  <1>. QED  BY <1>1, <1>2, <1>3, <1>4, <1>5 DEF DNext, GoesOn

LEMMA DrivenTraceInv == DSpec => []TraceInv
  BY DrivenIsExecuted, TraceInvariant, PTL

\* The callbacks of a run make up one conversation of the extraction planner,
\* with the trace as its record ...
THEOREM ExtractionIsHeld == DSpec => Extraction!Spec
  <1>1. DInit => Extraction!Init
    BY DEF DInit
  <1>2. TraceInv /\ [DNext]_dvars => [Extraction!Next]_(Extraction!vars)
    <2>1. UNCHANGED dvars => UNCHANGED Extraction!vars
      BY NoRequestRests DEF dvars, vars, tables, xvars, Extraction!vars
    <2>. QED  BY <2>1, ExtractionSteps
  <1>. QED  BY <1>1, <1>2, DrivenTraceInv, PTL DEF DSpec, Extraction!Spec

\* ... and one of the decision planner.
THEOREM DecisionIsHeld == DSpec => Loop!Spec
  <1>1. DInit => Loop!Init
    BY DEF DInit
  <1>2. TraceInv /\ [DNext]_dvars => [Loop!Next]_(Loop!vars)
    <2>1. UNCHANGED dvars => UNCHANGED Loop!vars
      BY NoRequestRests DEF dvars, vars, tables, lvars, Loop!vars
    <2>. QED  BY <2>1, LoopSteps
  <1>. QED  BY <1>1, <1>2, DrivenTraceInv, PTL DEF DSpec, Loop!Spec
-----------------------------------------------------------------------------
(* What is proved of the decision planner's loop, of the one in this run.  *)

Decision == INSTANCE DecisionLoopProofs WITH
    ReadTools <- DOMAIN RecordedNames, MaxParts <- 2,
    recorded <- Cardinality(RequestsMade(d, "decision"))

LEMMA LoopIsDecision ==
  /\ Decision!DecisionLoopAssumption
  /\ Loop!Init => Decision!Init
  /\ [Loop!Next]_(Loop!vars) => [Decision!Next]_(Decision!vars)
  <1>1. Decision!DecisionLoopAssumption
    BY DrivenRunAssumption, AgentExecutorAssumption
    DEF Decision!DecisionLoopAssumption
  <1>2. Loop!Init => Decision!Init
    BY DEF Loop!Init, Decision!Init
  <1>3. Loop!vars = Decision!vars /\ (UNCHANGED Loop!vars => UNCHANGED Decision!vars)
    BY DEF Loop!vars, Decision!vars
  <1>4. Loop!Next => Decision!Next
    BY DEF Loop!Next, Loop!Proceed, Loop!LogFails, Loop!BeforeRequest,
       Loop!RequestOverLimit, Loop!ProviderFails, Loop!ProviderAnswers,
       Loop!Reject, Loop!AcceptTools, Loop!AcceptProposal, Loop!Observed,
       Loop!Stopped, Loop!CallRaises, Loop!Leave, Loop!Errors, Loop!tools,
       Loop!counts, Loop!CallNext, Loop!Parse, Loop!ValidProposal,
       Loop!OnlyTools, Loop!ToolNames, Loop!Responses, Loop!Parts,
       Loop!TargetTools, Loop!ProposalTools,
       Decision!Next, Decision!Proceed, Decision!LogFails,
       Decision!BeforeRequest, Decision!RequestOverLimit,
       Decision!ProviderFails, Decision!ProviderAnswers, Decision!Reject,
       Decision!AcceptTools, Decision!AcceptProposal, Decision!Observed,
       Decision!Stopped, Decision!CallRaises, Decision!Leave,
       Decision!Errors, Decision!tools, Decision!counts, Decision!CallNext,
       Decision!Parse, Decision!ValidProposal, Decision!OnlyTools,
       Decision!ToolNames, Decision!Responses, Decision!Parts,
       Decision!TargetTools, Decision!ProposalTools
  <1>. QED  BY <1>1, <1>2, <1>3, <1>4

LEMMA DecisionSpec == DSpec => Decision!Spec
  BY DecisionIsHeld, LoopIsDecision, PTL DEF Loop!Spec, Decision!Spec

LEMMA DecisionInv == DSpec => []Decision!LoopInv
  BY DecisionSpec, LoopIsDecision, Decision!LoopIsSound, PTL

\* In a run, too, every request made of the decision model is within the limit,
\* and recorded before the loop goes on; if the record fails, the loop ends.
THEOREM DrivenRequestsCounted == DSpec => []Loop!RequestsAreCounted
  <1>1. Decision!LoopInv => Loop!RequestsAreCounted
    BY DEF Decision!LoopInv, Decision!LoopTypes, Decision!Counting,
       Decision!Errors, Loop!RequestsAreCounted, Loop!Errors
  <1>. QED  BY <1>1, DecisionInv, PTL

\* The planner of a run keeps the protocol that the executor relies on: one
\* thing at a time, and nothing after DecisionStopped.
THEOREM DrivenKeepsProtocol == DSpec => Loop!KeepsProtocol
  <1>1. Decision!Protocol!Init => Loop!Protocol!Init
    BY DEF Decision!Protocol!Init, Loop!Protocol!Init, Decision!Phase, Loop!Phase
  <1>2. [Decision!Protocol!Next]_(Decision!Protocol!vars)
           => [Loop!Protocol!Next]_(Loop!Protocol!vars)
    BY DEF Decision!Protocol!Next, Loop!Protocol!Next, Decision!Protocol!vars,
       Loop!Protocol!vars, Decision!Protocol!Request, Loop!Protocol!Request,
       Decision!Protocol!Record, Loop!Protocol!Record, Decision!Protocol!Call,
       Loop!Protocol!Call, Decision!Protocol!Refused, Loop!Protocol!Refused,
       Decision!Phase, Loop!Phase
  <1>. QED
    BY <1>1, <1>2, DecisionSpec, LoopIsDecision, Decision!ProtocolIsKept, PTL
    DEF Decision!KeepsProtocol, Loop!KeepsProtocol, Decision!Protocol!Spec,
        Loop!Protocol!Spec
-----------------------------------------------------------------------------
(* The extraction's bound.                                                 *)

\* While the planner runs, every request on the trace was answered by a
\* rejected response.
Budgeted ==
    /\ xrejected \in Nat
    /\ Extraction!OnlyRejectionsSoFar
    /\ Extraction!RequestsAreBounded

LEMMA BudgetInit == DInit => Budgeted
  BY DrivenRunAssumption DEF DInit, Extraction!Init, Budgeted,
     Extraction!OnlyRejectionsSoFar, Extraction!RequestsAreBounded

LEMMA BudgetStep ==
  ASSUME Budgeted, Extraction!Next
  PROVE  Budgeted'
  <1>. USE DrivenRunAssumption DEF Budgeted, Extraction!OnlyRejectionsSoFar,
           Extraction!RequestsAreBounded
  <1>1. CASE Extraction!Ask \/ Extraction!ProviderAnswers \/ Extraction!LogFails
    BY <1>1 DEF Extraction!Ask, Extraction!ProviderAnswers,
       Extraction!LogFails, Extraction!Leave
  <1>2. CASE Extraction!ProviderFails \/ Extraction!Accept
    BY <1>2 DEF Extraction!ProviderFails, Extraction!Accept, Extraction!Leave
  <1>3. CASE Extraction!Reject
    BY <1>3 DEF Extraction!Reject, Extraction!Leave
  <1>. QED  BY <1>1, <1>2, <1>3 DEF Extraction!Next

\* The retry budget alone bounds the extraction's requests on the trace: "one
\* plan makes at most 1 + OUTPUT_RETRIES requests".
THEOREM ExtractionBounded == DSpec => []ExtractionIsBounded
  <1>1. Budgeted /\ [Extraction!Next]_(Extraction!vars) => Budgeted'
    BY BudgetStep DEF Extraction!vars, Budgeted,
       Extraction!OnlyRejectionsSoFar, Extraction!RequestsAreBounded
  <1>2. Budgeted => ExtractionIsBounded
    BY DEF Budgeted, Extraction!RequestsAreBounded, ExtractionIsBounded
  <1>. QED
    BY BudgetInit, ExtractionIsHeld, <1>1, <1>2, PTL DEF DSpec, Extraction!Spec
-----------------------------------------------------------------------------
(* The goal.                                                               *)

\* A run that has a goal has it from a planner that is done, and that gave
\* texts of the instruction only.
GoalFromPlanner ==
    /\ run[d].goal => /\ xat = "done"
                      /\ intent.goal = [user_email |-> "copied",
                                        product |-> "copied"]
    /\ xat = "check" => xresponse \in Extraction!Responses
    /\ intent.kind = "ensure_assignment" => intent.goal \in Extraction!Goals

\* No write of a run but the extraction's gives it a goal.
LEMMA NumberedGoal ==
  ASSUME NEW row \in RunRow, NEW status, NEW reason
  PROVE  /\ Numbered(row).goal = row.goal
         /\ Moved(Numbered(row), status).goal = row.goal
         /\ Ended(row, status, reason).goal = row.goal
         /\ Ended(Numbered(row), status, reason).goal = row.goal
  BY DEF Numbered, Moved, Ended, RunRow

LEMMA OnlyExtractionSetsGoal ==
  ASSUME TypeOK, DNext, ~RecordExtraction, run'[d].goal
  PROVE  run[d].goal
  <1>. USE DrivenIsARun
  <1>0. run \in [Runs -> RunRow] /\ run[d] \in RunRow
    BY DEF TypeOK
  <1>1. ASSUME NEW row, WriteRun(d, row), row.goal = run[d].goal
        PROVE  run[d].goal
    BY <1>0, <1>1 DEF WriteRun
  <1>2. ASSUME NEW status, NEW reason,
               \/ WriteRun(d, Numbered(run[d]))
               \/ WriteRun(d, Moved(Numbered(run[d]), status))
               \/ WriteRun(d, Ended(run[d], status, reason))
               \/ WriteRun(d, Ended(Numbered(run[d]), status, reason))
        PROVE  run[d].goal
    BY <1>0, <1>2, NumberedGoal DEF WriteRun
  <1>3. CASE UNCHANGED run
    BY <1>3
  <1>4. CASE ExtractionRecorded \/ DecisionRecorded
    BY <1>2, <1>4 DEF ExtractionRecorded, DecisionRecorded,
       ExtractionRequest, RecordRequest, RecordModelCall
  <1>5. CASE MakeRequest
    BY <1>2, <1>5 DEF MakeRequest, BeforeRequest, RequestOverLimit, tables
  <1>6. CASE CallAdmitted
    BY <1>2, <1>6 DEF CallAdmitted, AdmitCall
  <1>7. CASE CallStopped
    BY <1>2, <1>7 DEF CallStopped, CallOverLimit, DenyCall, HoldCall
  <1>8. CASE CallRecorded
    BY <1>2, <1>8 DEF CallRecorded, RecordOutcome
  <1>9. CASE DecisionEnds
    <2>1. CASE RecordProposal(d)
      BY <1>0, <2>1 DEF RecordProposal, WriteRun, RunRow
    <2>2. CASE StopReachesDecide(d) \/ ErrorReachesDecide(d)
      BY <1>2, <2>2 DEF StopReachesDecide, ErrorReachesDecide, tables
    <2>. QED  BY <1>9, <2>1, <2>2 DEF DecisionEnds
  <1>10. CASE ExecutorAlone
    <2>1. CASE ReceiveRun(d)
      BY <1>0, <2>1 DEF ReceiveRun, WriteRun, NewRun
    <2>2. CASE ResolveGoal(d) \/ StartDecision(d)
      BY <1>0, <2>2 DEF ResolveGoal, StartDecision, WriteRun, RunRow
    <2>3. CASE ResolveNothing(d) \/ Conclude(d)
      BY <1>2, <2>3 DEF ResolveNothing, Conclude
    <2>4. CASE \/ ReadTarget(d) \/ CheckUser(d) \/ CountSeats(d)
               \/ InsertAssignment(d) \/ VerifyGoal(d) \/ CheckBlock(d)
      BY <2>4 DEF ReadTarget, CheckUser, CountSeats, InsertAssignment,
         VerifyGoal, CheckBlock, tables
    <2>. QED  BY <1>10, <2>1, <2>2, <2>3, <2>4 DEF ExecutorAlone
  <1>11. CASE FaultAlone
    BY <1>2, <1>11 DEF FaultAlone, BusinessFails, VerificationFails, tables
  <1>12. CASE OthersAlone
    BY <1>12 DEF OthersAlone, Others, HumanChecks, HumanAssigns,
       HumanRevokes, EditPolicy, DeactivateUser, tables
  <1>13. CASE \/ AskExtraction \/ ExtractionAnswered \/ ModelAnswers
              \/ ExtractionLogFails \/ DecisionLogFails \/ CallLogFails
    BY <1>13 DEF AskExtraction, ExtractionAnswered, ModelAnswers,
       ExtractionLogFails, DecisionLogFails, CallLogFails,
       RecordRequestFails, RecordOutcomeFails, vars, tables
  <1>. QED
    BY <1>4, <1>5, <1>6, <1>7, <1>8, <1>9, <1>10, <1>11, <1>12, <1>13
    DEF DNext, GoesOn

\* What plan() returns as an assignment has texts.
LEMMA PlannerStep ==
  ASSUME GoalFromPlanner, Extraction!Next
  PROVE  /\ xat # "done"
         /\ xat' = "check" => xresponse' \in Extraction!Responses
         /\ intent'.kind = "ensure_assignment" => intent'.goal \in Extraction!Goals
  <1>. USE DEF GoalFromPlanner
  <1>1. CASE Extraction!Accept
    <2>1. /\ xresponse \in Extraction!Responses /\ Len(xresponse) = 1
          /\ intent' = [kind |-> xresponse[1].tool, goal |-> xresponse[1].goal]
      BY <1>1 DEF Extraction!Accept, Extraction!Accepted, Extraction!Leave
    <2>2. xresponse[1] \in Extraction!Calls
      BY <2>1 DEF Extraction!Responses
    <2>3. xresponse[1].goal \in Extraction!Goals
      BY <2>2 DEF Extraction!Calls
    <2>. QED  BY <1>1, <2>1, <2>3 DEF Extraction!Accept, Extraction!Leave
  <1>2. CASE \/ Extraction!ProviderFails \/ Extraction!Reject
             \/ Extraction!LogFails
    BY <1>2 DEF Extraction!ProviderFails, Extraction!Reject,
       Extraction!LogFails, Extraction!Leave, Extraction!Raised,
       Extraction!Errors
  <1>3. CASE Extraction!Ask \/ Extraction!ProviderAnswers
    BY <1>3 DEF Extraction!Ask, Extraction!ProviderAnswers
  <1>. QED  BY <1>1, <1>2, <1>3 DEF Extraction!Next

LEMMA GoalStep ==
  ASSUME TraceInv, GoalFromPlanner, [DNext]_dvars
  PROVE  GoalFromPlanner'
  <1>1. CASE UNCHANGED dvars
    BY <1>1 DEF dvars, vars, tables, xvars, GoalFromPlanner
  <1>2. CASE RecordExtraction
    <2>1. UNCHANGED <<xat, xresponse, intent>> /\ xat = "done"
      BY <1>2 DEF RecordExtraction, xvars
    <2>2. CASE Extraction!Recorded(intent) = "goal"
      <3>1. /\ intent.kind = "ensure_assignment"
            /\ Extraction!Ungrounded(intent.goal) = {}
        BY <2>2 DEF Extraction!Recorded
      <3>2. intent.goal \in Extraction!Goals
        BY <3>1 DEF GoalFromPlanner
      <3>3. \A f \in DOMAIN intent.goal : intent.goal[f] = "copied"
        BY <3>1 DEF Extraction!Ungrounded
      <3>4. intent.goal = [user_email |-> "copied", product |-> "copied"]
        BY <3>2, <3>3 DEF Extraction!Goals
      <3>. QED  BY <2>1, <3>4 DEF GoalFromPlanner
    <2>3. CASE Extraction!Recorded(intent) # "goal"
      <3>1. \E status, reason : WriteRun(d, Ended(run[d], status, reason))
        BY <1>2, <2>3 DEF RecordExtraction, ExtractNothing
      <3>2. run'[d].goal = run[d].goal
        BY <3>1, DrivenIsARun, NumberedGoal DEF TraceInv, TypeOK, WriteRun
      <3>. QED  BY <2>1, <3>2 DEF GoalFromPlanner
    <2>. QED  BY <2>2, <2>3
  <1>3. CASE DNext /\ ~RecordExtraction
    <2>1. run'[d].goal => run[d].goal
      BY <1>3, OnlyExtractionSetsGoal DEF TraceInv
    <2>2. CASE Extraction!Next
      BY <2>1, <2>2, PlannerStep DEF GoalFromPlanner
    <2>3. CASE UNCHANGED Extraction!vars
      BY <2>1, <2>3 DEF GoalFromPlanner, Extraction!vars
    <2>. QED  BY <1>3, <2>2, <2>3, ExtractionSteps
  <1>. QED  BY <1>1, <1>2, <1>3

\* Whatever the model says: a run has a goal only if both of its texts occur
\* in the instruction, neither of them blank.
THEOREM GoalsAreGrounded == DSpec => []GoalIsGrounded
  <1>1. DInit => GoalFromPlanner
    BY DrivenIsARun DEF DInit, Init, NoRun, NewRun, Extraction!Init,
       Extraction!Raised, GoalFromPlanner
  <1>2. GoalFromPlanner => GoalIsGrounded
    BY DEF GoalFromPlanner, GoalIsGrounded
  <1>3. TraceInv /\ GoalFromPlanner /\ [DNext]_dvars => GoalFromPlanner'
    BY GoalStep
  <1>. QED  BY <1>1, <1>2, <1>3, DrivenTraceInv, PTL DEF DSpec
-----------------------------------------------------------------------------
(* The trace as the tale of the conversation.                              *)

ExtractionsMade == RequestsMade(d, "extraction")
DecisionsMade == RequestsMade(d, "decision")
AnswersAccepted == {n \in DOMAIN model_calls[d] : model_calls[d][n].succeeded}
CallsMade == DOMAIN tool_calls[d]
LastEntry == run[d].last_sequence_no

\* The latest answer of the decision model before n was accepted.
AskedForBefore(n) ==
    \E m \in DecisionsMade \cap AnswersAccepted :
        m < n /\ \A k \in DecisionsMade : k < n => k <= m

\* The call is not over, or the model was shown what came of it.
NotHeldBack(n) ==
    \/ tool_calls[d][n].status = "started"
    \/ tool_calls[d][n].observation # None

\* What of the trace the planners' loops know: until the decision begins there
\* is nothing of it; ...
DecisionNotBegun ==
    pc[d] \in {"new", "extracting", "resolving", "resolved"} =>
        /\ at = "loop" /\ result = "none"
        /\ DecisionsMade = {} /\ CallsMade = {}

\* ... the extraction is done once an answer is accepted, and an assignment
\* was one; ...
ExtractionEndsAccepted ==
    /\ xat # "done" => ExtractionsMade \cap AnswersAccepted = {}
    /\ intent.kind = "ensure_assignment" \/ run[d].goal
          => ExtractionsMade \cap AnswersAccepted # {}
    /\ \A n \in ExtractionsMade \cap AnswersAccepted, m \in ExtractionsMade : m <= n

\* ... tools are called after an accepted answer, and the call in flight is the
\* last entry; ...
ToolsFollowAcceptance ==
    /\ at = "tools" => \E m \in DecisionsMade \cap AnswersAccepted :
                          \A k \in DecisionsMade : k <= m
    /\ pc[d] \in CallingPCs => call[d] = LastEntry

\* ... a call the model was not told of ended the loop, and nothing is added to
\* the trace after that; ...
LoopEndsLast ==
    /\ \A n \in CallsMade : NotHeldBack(n) \/ (at = "done" /\ n = LastEntry)
    /\ result # "none" => at = "done"
    /\ result \in Loop!ProposalTools \/ run[d].proposal # None =>
          at = "done" /\ LastEntry \in DecisionsMade \cap AnswersAccepted

\* ... and the entries come in the order of the conversation.
EntriesInOrder ==
    /\ \A n \in ExtractionsMade, m \in DecisionsMade \cup CallsMade : n < m
    /\ \A n \in CallsMade : AskedForBefore(n)

Conversation ==
    /\ DecisionNotBegun
    /\ ExtractionEndsAccepted
    /\ ToolsFollowAcceptance
    /\ LoopEndsLast
    /\ EntriesInOrder
-----------------------------------------------------------------------------
(* What a step does to the trace of the run: nothing; or a request is      *)
(* recorded, a call is added, or a call is given its outcome.              *)

TraceRests ==
    /\ ExtractionsMade' = ExtractionsMade /\ DecisionsMade' = DecisionsMade
    /\ AnswersAccepted' = AnswersAccepted /\ LastEntry' = LastEntry
    /\ tool_calls'[d] = tool_calls[d]

\* The entries of the trace are numbers up to the last one.
LEMMA EntriesAreNumbered ==
  ASSUME TraceInv
  PROVE  /\ LastEntry \in Nat
         /\ \A n \in ExtractionsMade \cup DecisionsMade \cup AnswersAccepted
                       \cup CallsMade : n \in Nat /\ n <= LastEntry
         /\ (ExtractionsMade \cup DecisionsMade) \cap CallsMade = {}
         /\ NextSeq(d) = LastEntry + 1
  <1>. USE DrivenIsARun
  <1>1. LastEntry \in Nat
    BY DEF TraceInv, TypeOK, RunRow, LastEntry
  <1>2. /\ DOMAIN model_calls[d] \cup CallsMade = 1 .. LastEntry
        /\ DOMAIN model_calls[d] \cap CallsMade = {}
    BY DEF TraceInv, TraceIsOneOrder, CallsMade, LastEntry
  <1>3. /\ ExtractionsMade \cup DecisionsMade \cup AnswersAccepted
              \subseteq DOMAIN model_calls[d]
    BY DEF ExtractionsMade, DecisionsMade, AnswersAccepted, RequestsMade
  <1>4. NextSeq(d) = LastEntry + 1
    BY DEF NextSeq, LastEntry
  <1>. QED  BY <1>1, <1>2, <1>3, <1>4

LEMMA RequestIsRecorded ==
  ASSUME TraceInv, NEW stage \in {"extraction", "decision"}, NEW ok \in BOOLEAN,
         RecordModelCall(d, stage, ok)
  PROVE  /\ LastEntry' = LastEntry + 1
         /\ ExtractionsMade' = IF stage = "extraction"
                               THEN ExtractionsMade \cup {LastEntry'}
                               ELSE ExtractionsMade
         /\ DecisionsMade' = IF stage = "decision"
                             THEN DecisionsMade \cup {LastEntry'}
                             ELSE DecisionsMade
         /\ AnswersAccepted' = IF ok THEN AnswersAccepted \cup {LastEntry'}
                               ELSE AnswersAccepted
         /\ run'[d].goal = run[d].goal /\ run'[d].proposal = run[d].proposal
         /\ model_calls'[d][NextSeq(d)].succeeded = ok
  <1>. USE DrivenIsARun
  <1>. DEFINE n == NextSeq(d)
  <1>0. /\ n = LastEntry + 1 /\ LastEntry \in Nat
        /\ n \notin DOMAIN model_calls[d]
    BY EntriesAreNumbered DEF TraceInv, TraceIsOneOrder, LastEntry
  <1>1. model_calls'[d] = Put(model_calls[d], n, [stage |-> stage, succeeded |-> ok])
    BY DEF TraceInv, TypeOK, RecordModelCall
  <1>2. run[d] \in RunRow /\ run'[d] = Numbered(run[d])
    BY DEF TraceInv, TypeOK, RecordModelCall, WriteRun
  <1>3. /\ LastEntry' = LastEntry + 1
        /\ run'[d].goal = run[d].goal /\ run'[d].proposal = run[d].proposal
    BY <1>2 DEF LastEntry, Numbered, RunRow
  <1>. HIDE DEF n
  <1>4. /\ DOMAIN model_calls'[d] = DOMAIN model_calls[d] \cup {n}
        /\ model_calls'[d][n] = [stage |-> stage, succeeded |-> ok]
        /\ \A m \in DOMAIN model_calls[d] : model_calls'[d][m] = model_calls[d][m]
    BY <1>0, <1>1 DEF Put
  <1>5. LastEntry' = n
    BY <1>0, <1>3
  <1>6. AnswersAccepted' = IF ok THEN AnswersAccepted \cup {n} ELSE AnswersAccepted
    BY <1>0, <1>4 DEF AnswersAccepted
  <1>7. /\ ExtractionsMade' = IF stage = "extraction" THEN ExtractionsMade \cup {n}
                              ELSE ExtractionsMade
        /\ DecisionsMade' = IF stage = "decision" THEN DecisionsMade \cup {n}
                            ELSE DecisionsMade
    BY <1>0, <1>4 DEF ExtractionsMade, DecisionsMade, RequestsMade
  <1>8. model_calls'[d][NextSeq(d)].succeeded = ok
    BY <1>4 DEF n
  <1>. QED  BY <1>3, <1>5, <1>6, <1>7, <1>8

\* A row of the run's calls is written, added or not.
LEMMA CallIsWritten ==
  ASSUME TraceInv, NEW n, NEW row, WriteCall(d, n, row), model_calls' = model_calls
  PROVE  /\ CallsMade' = CallsMade \cup {n}
         /\ tool_calls'[d][n] = row
         /\ \A m \in CallsMade \ {n} : tool_calls'[d][m] = tool_calls[d][m]
         /\ ExtractionsMade' = ExtractionsMade /\ DecisionsMade' = DecisionsMade
         /\ AnswersAccepted' = AnswersAccepted
  <1>1. tool_calls'[d] = Put(tool_calls[d], n, row)
    BY DrivenIsARun DEF TraceInv, TypeOK, WriteCall
  <1>2. /\ CallsMade' = CallsMade \cup {n}
        /\ tool_calls'[d][n] = row
        /\ \A m \in CallsMade \ {n} : tool_calls'[d][m] = tool_calls[d][m]
    BY <1>1 DEF CallsMade, Put
  <1>. QED
    BY <1>2 DEF ExtractionsMade, DecisionsMade, AnswersAccepted, RequestsMade

LEMMA EndedLast ==
  ASSUME NEW row \in RunRow, NEW status, NEW reason
  PROVE  /\ Ended(row, status, reason).proposal = row.proposal
         /\ Ended(row, status, reason).last_sequence_no = row.last_sequence_no
         /\ Ended(Numbered(row), status, reason).proposal = row.proposal
         /\ Ended(Numbered(row), status, reason).last_sequence_no
               = row.last_sequence_no + 1
         /\ Moved(Numbered(row), status).proposal = row.proposal
         /\ Moved(Numbered(row), status).last_sequence_no = row.last_sequence_no + 1
         /\ Numbered(row).proposal = row.proposal
         /\ Numbered(row).last_sequence_no = row.last_sequence_no + 1
  BY DEF Ended, Numbered, Moved, RunRow

\* The steps between requests and calls leave the trace as it was, and only the
\* conclusion of the planner puts a proposal on the run.
LEMMA QuietTrace ==
  ASSUME TraceInv,
         \/ ExecutorAlone \/ AskExtraction \/ ExtractionAnswered
         \/ ExtractionLogFails \/ RecordExtraction \/ MakeRequest
         \/ ModelAnswers \/ DecisionLogFails \/ CallLogFails \/ DecisionEnds
         \/ FaultAlone \/ OthersAlone
  PROVE  /\ TraceRests
         /\ run'[d].proposal = run[d].proposal \/ RecordProposal(d)
  <1>. USE DrivenIsARun
  <1>0. run \in [Runs -> RunRow] /\ run[d] \in RunRow
    BY DEF TraceInv, TypeOK
  <1>. DEFINE Same == /\ run'[d].last_sequence_no = run[d].last_sequence_no
                      /\ run'[d].proposal = run[d].proposal \/ RecordProposal(d)
  <1>1. ASSUME NEW status, NEW reason, WriteRun(d, Ended(run[d], status, reason))
        PROVE  Same
    BY <1>0, <1>1, EndedLast DEF WriteRun
  <1>2. ASSUME UNCHANGED run
        PROVE  Same
    BY <1>2
  <1>3. ASSUME ExecutorAlone
        PROVE  Same /\ UNCHANGED <<model_calls, tool_calls>>
    <2>1. CASE ReceiveRun(d)
      <3>1. run[d] = NoRun
        BY <2>1 DEF TraceInv, DriverKnowsItsRun, ReceiveRun, At
      <3>. QED
        BY <1>0, <2>1, <3>1 DEF ReceiveRun, WriteRun, NewRun, NoRun
    <2>2. CASE ResolveGoal(d) \/ StartDecision(d)
      BY <1>0, <2>2 DEF ResolveGoal, StartDecision, WriteRun, RunRow
    <2>3. CASE ResolveNothing(d) \/ Conclude(d)
      <3>1. /\ \E status, reason : WriteRun(d, Ended(run[d], status, reason))
            /\ UNCHANGED <<model_calls, tool_calls>>
        BY <2>3 DEF ResolveNothing, Conclude
      <3>. HIDE DEF Same
      <3>. QED  BY <1>1, <3>1
    <2>4. CASE \/ ReadTarget(d) \/ CheckUser(d) \/ CountSeats(d)
               \/ InsertAssignment(d) \/ VerifyGoal(d) \/ CheckBlock(d)
      BY <2>4 DEF ReadTarget, CheckUser, CountSeats, InsertAssignment,
         VerifyGoal, CheckBlock, tables
    <2>. QED  BY <1>3, <2>1, <2>2, <2>3, <2>4 DEF ExecutorAlone
  <1>4. ASSUME RecordExtraction
        PROVE  Same /\ UNCHANGED <<model_calls, tool_calls>>
    <2>1. CASE ExtractGoal(d)
      BY <1>0, <2>1 DEF ExtractGoal, WriteRun, RunRow
    <2>2. CASE ExtractNothing(d)
      <3>1. /\ \E status, reason : WriteRun(d, Ended(run[d], status, reason))
            /\ UNCHANGED <<model_calls, tool_calls>>
        BY <2>2 DEF ExtractNothing
      <3>. HIDE DEF Same
      <3>. QED  BY <1>1, <3>1
    <2>. QED  BY <1>4, <2>1, <2>2 DEF RecordExtraction
  <1>5. ASSUME MakeRequest
        PROVE  Same /\ UNCHANGED <<model_calls, tool_calls>>
    <2>1. /\ \/ \E status, reason : WriteRun(d, Ended(run[d], status, reason))
             \/ UNCHANGED run
          /\ UNCHANGED <<model_calls, tool_calls>>
      BY <1>5 DEF MakeRequest, BeforeRequest, RequestOverLimit, tables
    <2>. HIDE DEF Same
    <2>. QED  BY <1>1, <1>2, <2>1
  <1>6. ASSUME DecisionEnds
        PROVE  Same /\ UNCHANGED <<model_calls, tool_calls>>
    <2>1. CASE RecordProposal(d)
      BY <1>0, <2>1 DEF RecordProposal, WriteRun, RunRow
    <2>2. CASE StopReachesDecide(d) \/ ErrorReachesDecide(d)
      <3>1. /\ \/ \E status, reason : WriteRun(d, Ended(run[d], status, reason))
               \/ UNCHANGED run
            /\ UNCHANGED <<model_calls, tool_calls>>
        BY <2>2 DEF StopReachesDecide, ErrorReachesDecide, tables
      <3>. HIDE DEF Same
      <3>. QED  BY <1>1, <1>2, <3>1
    <2>. QED  BY <1>6, <2>1, <2>2 DEF DecisionEnds
  <1>7. ASSUME FaultAlone
        PROVE  Same /\ UNCHANGED <<model_calls, tool_calls>>
    <2>1. /\ \/ \E status, reason : WriteRun(d, Ended(run[d], status, reason))
             \/ UNCHANGED run
          /\ UNCHANGED <<model_calls, tool_calls>>
      BY <1>7 DEF FaultAlone, BusinessFails, VerificationFails, tables
    <2>. HIDE DEF Same
    <2>. QED  BY <1>1, <1>2, <2>1
  <1>8. ASSUME \/ AskExtraction \/ ExtractionAnswered \/ ModelAnswers
               \/ ExtractionLogFails \/ DecisionLogFails \/ CallLogFails
               \/ OthersAlone
        PROVE  Same /\ UNCHANGED <<model_calls, tool_calls>>
    BY <1>8 DEF AskExtraction, ExtractionAnswered, ModelAnswers,
       ExtractionLogFails, DecisionLogFails, CallLogFails,
       RecordRequestFails, RecordOutcomeFails, OthersAlone, Others,
       HumanChecks, HumanAssigns, HumanRevokes, EditPolicy, DeactivateUser,
       vars, tables
  <1>9. Same /\ UNCHANGED <<model_calls, tool_calls>>
    <2>. HIDE DEF Same
    <2>. QED  BY <1>3, <1>4, <1>5, <1>6, <1>7, <1>8
  <1>. QED
    BY <1>9 DEF TraceRests, ExtractionsMade, DecisionsMade, AnswersAccepted,
       LastEntry, RequestsMade
-----------------------------------------------------------------------------
(* The conversation, step by step.                                         *)

\* A step that leaves the trace alone, and moves its teller only onwards.
TellerMovesOn ==
    /\ pc'[d] \in {"new", "extracting", "resolving", "resolved"} =>
          /\ pc[d] \in {"new", "extracting", "resolving", "resolved"}
          /\ at' = at /\ result' = result
    /\ xat' # "done" => xat # "done"
    /\ intent'.kind = "ensure_assignment" \/ run'[d].goal =>
          intent.kind = "ensure_assignment" \/ run[d].goal
    /\ at' = "tools" => at = "tools"
    /\ at = "done" => at' = "done"
    /\ pc'[d] \in CallingPCs => pc[d] \in CallingPCs /\ call'[d] = call[d]
    /\ result' # "none" => at' = "done"
    /\ result' \in Loop!ProposalTools \/ run'[d].proposal # None =>
          result \in Loop!ProposalTools \/ run[d].proposal # None

LEMMA TellerStep ==
  ASSUME Conversation, TraceRests, TellerMovesOn
  PROVE  Conversation'
  <1>. USE DEF TraceRests, TellerMovesOn, Conversation
  <1>0. CallsMade' = CallsMade
    BY DEF CallsMade
  <1>1. DecisionNotBegun'
    BY <1>0 DEF DecisionNotBegun
  <1>2. ExtractionEndsAccepted'
    BY DEF ExtractionEndsAccepted
  <1>3. ToolsFollowAcceptance'
    BY DEF ToolsFollowAcceptance
  <1>4. LoopEndsLast'
    <2>1. ASSUME NEW n \in CallsMade
          PROVE  NotHeldBack(n)' \/ (at' = "done" /\ n = LastEntry')
      BY <2>1 DEF LoopEndsLast, NotHeldBack
    <2>2. /\ result' # "none" => at' = "done"
          /\ result' \in Loop!ProposalTools \/ run'[d].proposal # None =>
                at' = "done" /\ LastEntry' \in (DecisionsMade \cap AnswersAccepted)'
      BY DEF LoopEndsLast
    <2>. QED  BY <1>0, <2>1, <2>2 DEF LoopEndsLast, Loop!ProposalTools
  <1>5. EntriesInOrder'
    BY <1>0 DEF EntriesInOrder, AskedForBefore
  <1>. QED  BY <1>1, <1>2, <1>3, <1>4, <1>5

\* Where the run is when its goal and its proposal are recorded.
LEMMA WhereRecorded ==
  /\ RecordExtraction => pc[d] = "extracting"
  /\ RecordProposal(d) => pc' = [pc EXCEPT ![d] = "verify"]
  BY DEF RecordExtraction, ExtractGoal, ExtractNothing, RecordProposal, At

\* The steps that leave the trace alone are such steps.
LEMMA MovesOn ==
  ASSUME TraceInv, Conversation,
         \/ ExecutorAlone \/ AskExtraction \/ ExtractionAnswered
         \/ ExtractionLogFails \/ RecordExtraction \/ MakeRequest
         \/ ModelAnswers \/ DecisionLogFails \/ CallLogFails \/ DecisionEnds
         \/ FaultAlone \/ OthersAlone
  PROVE  TellerMovesOn
  <1>. USE DrivenIsARun
  <1>0. pc \in [Runs -> PCs] /\ call \in [Runs -> Nat]
    BY DEF TraceInv, TypeOK
  <1>1. ASSUME ~RecordExtraction, run'[d].goal
        PROVE  run[d].goal
    <2>1. DNext
      BY DEF DNext, GoesOn
    <2>. QED  BY <1>1, <2>1, OnlyExtractionSetsGoal DEF TraceInv
  <1>2. run'[d].proposal = run[d].proposal \/ RecordProposal(d)
    BY QuietTrace
  <1>3. (result # "none" => at = "done") /\ (at = "done" \/ at # "done")
    BY DEF Conversation, LoopEndsLast
  <1>4. pc[d] \in {"new", "extracting", "resolving", "resolved"} => at = "loop"
    BY DEF Conversation, DecisionNotBegun
  <1>5. CASE ExecutorAlone
    <2>1. /\ UNCHANGED <<xvars, lvars, call>>
          /\ pc'[d] \in {"new", "extracting", "resolving", "resolved"} =>
                pc[d] \in {"new", "extracting", "resolving", "resolved"}
          /\ pc'[d] \in CallingPCs => pc[d] \in CallingPCs
      BY <1>0, <1>5 DEF ExecutorAlone, ReceiveRun, ResolveGoal, ResolveNothing,
         StartDecision, ReadTarget, CheckUser, CountSeats, InsertAssignment,
         VerifyGoal, CheckBlock, Conclude, At, memory, CallingPCs
    <2>2. ~RecordExtraction /\ ~RecordProposal(d)
      BY <1>0, <1>5, <2>1 DEF ExecutorAlone, ReceiveRun, ResolveGoal,
         ResolveNothing, StartDecision, ReadTarget, CheckUser, CountSeats,
         InsertAssignment, VerifyGoal, CheckBlock, Conclude, At,
         RecordExtraction, ExtractGoal, ExtractNothing, RecordProposal
    <2>. QED  BY <1>1, <1>2, <1>3, <2>1, <2>2 DEF TellerMovesOn, xvars, lvars
  <1>6. CASE FaultAlone \/ OthersAlone
    <2>1. /\ UNCHANGED <<xvars, lvars, call>>
          /\ pc'[d] \in {"new", "extracting", "resolving", "resolved"} =>
                pc[d] \in {"new", "extracting", "resolving", "resolved"}
          /\ pc'[d] \in CallingPCs => pc[d] \in CallingPCs
      BY <1>0, <1>6 DEF FaultAlone, BusinessFails, VerificationFails,
         OthersAlone, Others, HumanChecks, HumanAssigns, HumanRevokes,
         EditPolicy, DeactivateUser, memory, CallingPCs
    <2>2. ~RecordExtraction /\ ~RecordProposal(d)
      BY <1>0, <1>6 DEF FaultAlone, BusinessFails, VerificationFails,
         OthersAlone, Others, HumanChecks, HumanAssigns, HumanRevokes,
         EditPolicy, DeactivateUser, At, RecordExtraction, ExtractGoal,
         ExtractNothing, RecordProposal
    <2>. QED  BY <1>1, <1>2, <1>3, <2>1, <2>2 DEF TellerMovesOn, xvars, lvars
  <1>7. CASE AskExtraction \/ ExtractionAnswered \/ ExtractionLogFails
    <2>1. /\ UNCHANGED <<vars, lvars>>
          /\ xat' # "done" => xat # "done"
          /\ intent' = intent \/ \E how \in Extraction!Errors :
                                    intent' = Extraction!Raised(how)
      BY <1>7 DEF AskExtraction, ExtractionAnswered, ExtractionLogFails,
         Extraction!Ask, Extraction!ProviderAnswers, Extraction!LogFails,
         Extraction!Leave
    <2>2. intent'.kind = "ensure_assignment" => intent.kind = "ensure_assignment"
      BY <2>1 DEF Extraction!Errors, Extraction!Raised
    <2>. QED
      BY <1>3, <2>1, <2>2 DEF TellerMovesOn, vars, tables, memory, lvars
  <1>8. CASE RecordExtraction
    <2>1. /\ UNCHANGED <<xvars, lvars, call>>
          /\ pc[d] = "extracting"
          /\ pc'[d] \in {"resolving", "returned"}
      BY <1>0, <1>8 DEF RecordExtraction, ExtractGoal, ExtractNothing, At, memory
    <2>2. run'[d].goal => intent.kind = "ensure_assignment" \/ run[d].goal
      <3>1. CASE Extraction!Recorded(intent) = "goal"
        BY <3>1 DEF Extraction!Recorded
      <3>2. CASE Extraction!Recorded(intent) # "goal"
        <4>1. \E status, reason : WriteRun(d, Ended(run[d], status, reason))
          BY <1>8, <3>2 DEF RecordExtraction, ExtractNothing
        <4>. QED  BY <4>1, NumberedGoal DEF TraceInv, TypeOK, WriteRun
      <3>. QED  BY <3>1, <3>2
    <2>3. ~RecordProposal(d)
      BY <1>0, <2>1, WhereRecorded
    <2>. QED
      BY <1>2, <1>3, <2>1, <2>2, <2>3 DEF TellerMovesOn, xvars, lvars, CallingPCs
  <1>9. CASE MakeRequest \/ DecisionLogFails \/ CallLogFails
    <2>1. /\ UNCHANGED xvars
          /\ pc[d] \in {"planning", "requesting", "record"}
          /\ pc'[d] \in {"planning", "requesting"}
          /\ at # "done" /\ at' # "tools"
          /\ \/ result' = result
             \/ at' = "done" /\ result' \in Loop!Errors \cup {"decision_stopped"}
      <3>1. CASE MakeRequest
        BY <1>0, <3>1 DEF MakeRequest, BeforeRequest, RequestOverLimit, At,
           Loop!BeforeRequest, Loop!RequestOverLimit, Loop!Leave
      <3>2. CASE DecisionLogFails
        BY <1>0, <3>2 DEF DecisionLogFails, RecordRequestFails, At, vars,
           Loop!LogFails, Loop!Leave
      <3>3. CASE CallLogFails
        BY <1>0, <3>3 DEF CallLogFails, RecordOutcomeFails, At,
           Loop!CallRaises, Loop!Leave
      <3>. QED  BY <1>9, <3>1, <3>2, <3>3
    <2>2. ~RecordExtraction /\ ~RecordProposal(d)
      BY <1>0, <2>1, WhereRecorded
    <2>. QED
      BY <1>1, <1>2, <1>3, <2>1, <2>2 DEF TellerMovesOn, xvars, CallingPCs,
         Loop!Errors, Loop!ProposalTools
  <1>10. CASE ModelAnswers
    <2>1. /\ UNCHANGED <<vars, xvars, result>>
          /\ at = "provider" /\ at' = "check"
      BY <1>10 DEF ModelAnswers, Loop!ProviderAnswers
    <2>. QED
      BY <1>3, <1>4, <2>1 DEF TellerMovesOn, vars, tables, memory, xvars
  <1>11. CASE DecisionEnds
    <2>1. /\ UNCHANGED <<xvars, lvars, call>>
          /\ pc[d] = "planning" /\ pc'[d] \in {"returned", "verify"}
          /\ RecordProposal(d) => result \in Loop!ProposalTools
      BY <1>0, <1>11 DEF DecisionEnds, StopReachesDecide, ErrorReachesDecide,
         RecordProposal, At, memory
    <2>2. ~RecordExtraction
      BY <2>1, WhereRecorded
    <2>. QED
      BY <1>1, <1>2, <1>3, <2>1, <2>2 DEF TellerMovesOn, xvars, lvars, CallingPCs
  <1>. QED
    BY <1>5, <1>6, <1>7, <1>8, <1>9, <1>10, <1>11

LEMMA ExtractionTold ==
  ASSUME TraceInv, Conversation, ExtractionRecorded
  PROVE  Conversation'
  <1>. USE DrivenIsARun DEF Conversation
  <1>1. /\ pc[d] = "extracting" /\ pc'[d] = "extracting"
        /\ UNCHANGED <<tool_calls, lvars>>
    BY DEF ExtractionRecorded, ExtractionRequest, At, TraceInv, TypeOK
  <1>2. PICK ok \in BOOLEAN : RecordModelCall(d, "extraction", ok)
    BY DEF ExtractionRecorded, ExtractionRequest
  <1>3. /\ LastEntry \in Nat /\ LastEntry' = LastEntry + 1
        /\ ExtractionsMade' = ExtractionsMade \cup {LastEntry'}
        /\ DecisionsMade' = DecisionsMade
        /\ AnswersAccepted' = IF ok THEN AnswersAccepted \cup {LastEntry'}
                              ELSE AnswersAccepted
        /\ run'[d].goal = run[d].goal /\ run'[d].proposal = run[d].proposal
        /\ RequestRecordedAs(ok)
    BY <1>2, RequestIsRecorded, EntriesAreNumbered DEF RequestRecordedAs
  <1>4. \A n \in ExtractionsMade \cup AnswersAccepted : n \in Nat /\ n < LastEntry'
    BY <1>3, EntriesAreNumbered
  <1>5. /\ at = "loop" /\ result = "none"
        /\ DecisionsMade = {} /\ CallsMade = {} /\ CallsMade' = {}
        /\ run[d].proposal = None
    BY <1>1 DEF DecisionNotBegun, LoopEndsLast, CallsMade
  <1>6. xat # "done"
    BY DEF ExtractionRecorded, Extraction!Accept, Extraction!Reject,
       Extraction!ProviderFails
  <1>7. /\ ExtractionsMade \cap AnswersAccepted = {}
        /\ intent.kind # "ensure_assignment" /\ ~run[d].goal
    BY <1>6 DEF ExtractionEndsAccepted
  <1>8. /\ xat' # "done" => ~ok
        /\ intent'.kind = "ensure_assignment" => ok
    <2>1. CASE Extraction!Accept /\ RequestRecordedAs(TRUE)
      BY <1>3, <2>1 DEF RequestRecordedAs, Extraction!Accept, Extraction!Leave
    <2>2. CASE Extraction!Reject /\ RequestRecordedAs(FALSE)
      BY <1>3, <1>7, <2>2 DEF RequestRecordedAs, Extraction!Reject,
         Extraction!Leave, Extraction!Raised
    <2>3. CASE Extraction!ProviderFails /\ RequestRecordedAs(FALSE)
      BY <1>3, <2>3 DEF RequestRecordedAs, Extraction!ProviderFails,
         Extraction!Leave, Extraction!Raised, Extraction!Errors
    <2>. QED  BY <2>1, <2>2, <2>3 DEF ExtractionRecorded
  <1>9. DecisionNotBegun'
    BY <1>1, <1>3, <1>5 DEF DecisionNotBegun, lvars
  <1>10. ExtractionEndsAccepted'
    <2>1. (ExtractionsMade \cap AnswersAccepted)' = IF ok THEN {LastEntry'} ELSE {}
      BY <1>3, <1>4, <1>7
    <2>2. \A m \in ExtractionsMade' : m <= LastEntry'
      BY <1>3, <1>4
    <2>. QED
      BY <1>3, <1>7, <1>8, <2>1, <2>2 DEF ExtractionEndsAccepted
  <1>11. ToolsFollowAcceptance'
    BY <1>1, <1>5 DEF ToolsFollowAcceptance, CallingPCs, lvars
  <1>12. LoopEndsLast'
    BY <1>1, <1>3, <1>5 DEF LoopEndsLast, Loop!ProposalTools, lvars
  <1>13. EntriesInOrder'
    BY <1>3, <1>5 DEF EntriesInOrder
  <1>. QED  BY <1>9, <1>10, <1>11, <1>12, <1>13

LEMMA DecisionTold ==
  ASSUME TraceInv, Conversation, DecisionRecorded
  PROVE  Conversation'
  <1>. USE DrivenIsARun DEF Conversation
  <1>1. /\ pc[d] = "requesting" /\ pc'[d] = "planning"
        /\ UNCHANGED <<tool_calls, xvars>>
    BY DEF DecisionRecorded, RecordRequest, At, TraceInv, TypeOK
  <1>2. PICK ok \in BOOLEAN : RecordModelCall(d, "decision", ok)
    BY DEF DecisionRecorded, RecordRequest
  <1>3. /\ LastEntry \in Nat /\ LastEntry' = LastEntry + 1
        /\ ExtractionsMade' = ExtractionsMade
        /\ DecisionsMade' = DecisionsMade \cup {LastEntry'}
        /\ AnswersAccepted' = IF ok THEN AnswersAccepted \cup {LastEntry'}
                              ELSE AnswersAccepted
        /\ run'[d].goal = run[d].goal /\ run'[d].proposal = run[d].proposal
        /\ RequestRecordedAs(ok)
    BY <1>2, RequestIsRecorded, EntriesAreNumbered DEF RequestRecordedAs
  <1>4. /\ \A n \in ExtractionsMade \cup DecisionsMade \cup AnswersAccepted
                      \cup CallsMade : n \in Nat /\ n < LastEntry'
        /\ CallsMade' = CallsMade
    BY <1>1, <1>3, EntriesAreNumbered DEF CallsMade
  <1>5. at \in {"provider", "check"}
    BY DEF DecisionRecorded, Loop!AcceptTools, Loop!AcceptProposal,
       Loop!Reject, Loop!ProviderFails
  <1>6. /\ result = "none" /\ run[d].proposal = None
        /\ \A n \in CallsMade : NotHeldBack(n)
    BY <1>5 DEF LoopEndsLast
  <1>7. /\ at' = "tools" => ok
        /\ result' # "none" => at' = "done"
        /\ result' \in Loop!ProposalTools => ok
    <2>1. CASE Loop!AcceptTools /\ RequestRecordedAs(TRUE)
      BY <1>3, <1>6, <2>1 DEF RequestRecordedAs, Loop!AcceptTools
    <2>2. CASE Loop!AcceptProposal /\ RequestRecordedAs(TRUE)
      BY <1>3, <2>2 DEF RequestRecordedAs, Loop!AcceptProposal, Loop!Leave
    <2>3. CASE Loop!Reject /\ RequestRecordedAs(FALSE)
      BY <1>3, <1>6, <2>3 DEF RequestRecordedAs, Loop!Reject, Loop!Leave,
         Loop!ProposalTools
    <2>4. CASE Loop!ProviderFails /\ RequestRecordedAs(FALSE)
      BY <1>3, <2>4 DEF RequestRecordedAs, Loop!ProviderFails, Loop!Leave,
         Loop!Errors, Loop!ProposalTools
    <2>. QED  BY <2>1, <2>2, <2>3, <2>4 DEF DecisionRecorded
  <1>8. DecisionNotBegun'
    BY <1>1 DEF DecisionNotBegun
  <1>9. ExtractionEndsAccepted'
    <2>1. (ExtractionsMade \cap AnswersAccepted)' = ExtractionsMade \cap AnswersAccepted
      BY <1>3, <1>4
    <2>. QED  BY <1>1, <1>3, <2>1 DEF ExtractionEndsAccepted, xvars
  <1>10. ToolsFollowAcceptance'
    <2>1. ok => LastEntry' \in (DecisionsMade \cap AnswersAccepted)'
      BY <1>3
    <2>2. \A k \in DecisionsMade' : k <= LastEntry'
      BY <1>3, <1>4
    <2>. QED  BY <1>1, <1>7, <2>1, <2>2 DEF ToolsFollowAcceptance, CallingPCs
  <1>11. LoopEndsLast'
    <2>1. \A n \in CallsMade' : NotHeldBack(n)'
      BY <1>1, <1>4, <1>6 DEF NotHeldBack
    <2>2. ok => LastEntry' \in (DecisionsMade \cap AnswersAccepted)'
      BY <1>3
    <2>3. result' \in Loop!ProposalTools => result' # "none"
      BY DEF Loop!ProposalTools
    <2>. QED
      BY <1>3, <1>6, <1>7, <2>1, <2>2, <2>3 DEF LoopEndsLast, Loop!ProposalTools
  <1>12. EntriesInOrder'
    <2>1. ASSUME NEW n \in CallsMade
          PROVE  AskedForBefore(n)'
      <3>1. PICK m \in DecisionsMade \cap AnswersAccepted :
                m < n /\ \A k \in DecisionsMade : k < n => k <= m
        BY DEF EntriesInOrder, AskedForBefore
      <3>2. m \in (DecisionsMade \cap AnswersAccepted)'
        BY <1>3
      <3>3. \A k \in DecisionsMade' : k < n => k <= m
        BY <1>3, <1>4, <3>1
      <3>. QED  BY <3>1, <3>2, <3>3 DEF AskedForBefore
    <2>2. \A n \in ExtractionsMade', m \in (DecisionsMade \cup CallsMade)' : n < m
      BY <1>3, <1>4 DEF EntriesInOrder
    <2>. QED  BY <1>4, <2>1, <2>2 DEF EntriesInOrder
  <1>. QED  BY <1>8, <1>9, <1>10, <1>11, <1>12

\* A call that is added comes after the answer that asked for it, as the last
\* entry.
LEMMA CallIsAdded ==
  ASSUME TraceInv, Conversation, at = "tools", UNCHANGED xvars,
         NEW n, n = NextSeq(d), NEW row, WriteCall(d, n, row),
         model_calls' = model_calls, LastEntry' = n, run'[d].goal = run[d].goal
  PROVE  /\ CallsMade' = CallsMade \cup {n}
         /\ tool_calls'[d][n] = row
         /\ \A m \in CallsMade : NotHeldBack(m)'
         /\ ExtractionEndsAccepted'
         /\ EntriesInOrder'
  <1>. USE DEF Conversation
  <1>1. /\ n \in Nat
        /\ \A m \in ExtractionsMade \cup DecisionsMade \cup AnswersAccepted
                      \cup CallsMade : m \in Nat /\ m < n
    BY EntriesAreNumbered
  <1>2. /\ CallsMade' = CallsMade \cup {n}
        /\ tool_calls'[d][n] = row
        /\ \A m \in CallsMade \ {n} : tool_calls'[d][m] = tool_calls[d][m]
        /\ ExtractionsMade' = ExtractionsMade /\ DecisionsMade' = DecisionsMade
        /\ AnswersAccepted' = AnswersAccepted
    BY CallIsWritten
  <1>3. \A m \in CallsMade : NotHeldBack(m)'
    BY <1>1, <1>2 DEF LoopEndsLast, NotHeldBack
  <1>4. ExtractionEndsAccepted'
    BY <1>2 DEF ExtractionEndsAccepted, xvars
  <1>5. PICK m \in DecisionsMade \cap AnswersAccepted : \A k \in DecisionsMade : k <= m
    BY DEF ToolsFollowAcceptance
  <1>6. ASSUME NEW c \in CallsMade'
        PROVE  AskedForBefore(c)'
    <2>1. CASE c \in CallsMade
      BY <1>2, <2>1 DEF EntriesInOrder, AskedForBefore
    <2>2. CASE c = n
      BY <1>1, <1>2, <1>5, <2>2 DEF AskedForBefore
    <2>. QED  BY <1>2, <2>1, <2>2
  <1>7. EntriesInOrder'
    BY <1>1, <1>2, <1>6 DEF EntriesInOrder
  <1>. QED  BY <1>2, <1>3, <1>4, <1>7

LEMMA AdmittedTold ==
  ASSUME TraceInv, Conversation, CallAdmitted
  PROVE  Conversation'
  <1>. USE DrivenIsARun DEF Conversation
  <1>1. PICK n : n = NextSeq(d)
    OBVIOUS
  <1>2. PICK tool \in Tools : AdmitCall(d, tool)
    BY DEF CallAdmitted
  <1>3. PICK row : /\ WriteCall(d, n, row) /\ row.status = "started"
                   /\ WriteRun(d, Numbered(run[d])) /\ call'[d] = n
                   /\ model_calls' = model_calls
    BY <1>1, <1>2 DEF AdmitCall, Started, TraceInv, TypeOK
  <1>4. /\ at = "tools" /\ UNCHANGED <<xvars, lvars>>
        /\ pc'[d] = "business"
    BY <1>2 DEF CallAdmitted, AdmitCall, At, TraceInv, TypeOK
  <1>5. /\ run'[d].goal = run[d].goal /\ run'[d].proposal = run[d].proposal
        /\ LastEntry' = n
    BY <1>1, <1>3, NumberedGoal, EndedLast
    DEF WriteRun, TraceInv, TypeOK, LastEntry, NextSeq
  <1>6. /\ CallsMade' = CallsMade \cup {n}
        /\ tool_calls'[d][n] = row
        /\ \A m \in CallsMade : NotHeldBack(m)'
        /\ ExtractionEndsAccepted' /\ EntriesInOrder'
        /\ DecisionsMade' = DecisionsMade /\ AnswersAccepted' = AnswersAccepted
    BY <1>1, <1>3, <1>4, <1>5, CallIsAdded, CallIsWritten
  <1>7. DecisionNotBegun'
    BY <1>4 DEF DecisionNotBegun
  <1>8. ToolsFollowAcceptance'
    BY <1>3, <1>4, <1>5, <1>6 DEF ToolsFollowAcceptance, lvars
  <1>9. LoopEndsLast'
    <2>1. NotHeldBack(n)'
      BY <1>3, <1>6 DEF NotHeldBack
    <2>2. result = "none" /\ run[d].proposal = None
      BY <1>4 DEF LoopEndsLast
    <2>. QED
      BY <1>4, <1>5, <1>6, <2>1, <2>2 DEF LoopEndsLast, Loop!ProposalTools, lvars
  <1>. QED  BY <1>6, <1>7, <1>8, <1>9

LEMMA StoppedTold ==
  ASSUME TraceInv, Conversation, CallStopped
  PROVE  Conversation'
  <1>. USE DrivenIsARun DEF Conversation
  <1>1. PICK n : n = NextSeq(d)
    OBVIOUS
  <1>2. PICK row : WriteCall(d, n, row)
    BY <1>1 DEF CallStopped, CallOverLimit, DenyCall, HoldCall
  <1>3. /\ \E status, reason :
              \/ WriteRun(d, Ended(Numbered(run[d]), status, reason))
              \/ WriteRun(d, Moved(Numbered(run[d]), status))
        /\ model_calls' = model_calls
    BY DEF CallStopped, CallOverLimit, DenyCall, HoldCall
  <1>4. /\ at = "tools" /\ at' = "done" /\ result' = "decision_stopped"
        /\ UNCHANGED xvars
        /\ pc'[d] = "planning"
    BY DEF CallStopped, CallOverLimit, DenyCall, HoldCall, Loop!Stopped,
       Loop!Leave, At, TraceInv, TypeOK
  <1>5. /\ run'[d].goal = run[d].goal /\ run'[d].proposal = run[d].proposal
        /\ LastEntry' = n
    BY <1>1, <1>3, NumberedGoal, EndedLast
    DEF WriteRun, TraceInv, TypeOK, LastEntry, NextSeq
  <1>6. /\ CallsMade' = CallsMade \cup {n}
        /\ \A m \in CallsMade : NotHeldBack(m)'
        /\ ExtractionEndsAccepted' /\ EntriesInOrder'
    BY <1>1, <1>2, <1>3, <1>4, <1>5, CallIsAdded
  <1>7. DecisionNotBegun' /\ ToolsFollowAcceptance'
    BY <1>4 DEF DecisionNotBegun, ToolsFollowAcceptance, CallingPCs
  <1>8. LoopEndsLast'
    <2>1. run[d].proposal = None
      BY <1>4 DEF LoopEndsLast
    <2>. QED
      BY <1>4, <1>5, <1>6, <2>1 DEF LoopEndsLast, Loop!ProposalTools
  <1>. QED  BY <1>6, <1>7, <1>8

\* A call that gets its outcome is the last entry, and the loop is told of it
\* unless it is over.
LEMMA RecordedTold ==
  ASSUME TraceInv, Conversation, CallRecorded
  PROVE  Conversation'
  <1>. USE DrivenIsARun DEF Conversation
  <1>1. PICK n : n = call[d]
    OBVIOUS
  <1>2. PICK row : row = RecordedCall(d)
    OBVIOUS
  <1>3. /\ WriteCall(d, n, row) /\ model_calls' = model_calls
        /\ pc[d] = "record" /\ pc'[d] = "planning" /\ UNCHANGED xvars
    BY <1>1, <1>2 DEF CallRecorded, RecordOutcome, At, TraceInv, TypeOK
  <1>4. /\ n = LastEntry /\ n \in CallsMade
        /\ tool_calls[d][n] \in ToolCallRow
    BY <1>1, <1>3 DEF ToolsFollowAcceptance, CallingPCs, TraceInv,
       CallInFlightIsStarted, TypeOK, IsTable, CallsMade
  <1>5. row.observation = Observe(ToolInFlight(d), outcome[d])
    BY <1>1, <1>2, <1>4 DEF RecordedCall, ToolCallRow
  <1>6. /\ run'[d].goal = run[d].goal /\ run'[d].proposal = run[d].proposal
        /\ LastEntry' = LastEntry
    <2>1. \/ UNCHANGED run
          \/ \E status, reason : WriteRun(d, Ended(run[d], status, reason))
      BY DEF CallRecorded, RecordOutcome
    <2>. QED
      BY <2>1, NumberedGoal, EndedLast DEF WriteRun, TraceInv, TypeOK, LastEntry
  <1>7. at = "tools"
    BY DEF CallRecorded, Loop!Observed, Loop!Stopped
  <1>8. row.observation # None \/ at' = "done"
    <2>1. ASSUME row.observation = None
          PROVE  raised'[d] = "decision_stopped"
      BY <1>5, <2>1 DEF CallRecorded, RecordOutcome, Raise, TraceInv, TypeOK
    <2>2. CASE row.observation = None
      BY <2>1, <2>2, RaisedAssumption DEF CallRecorded, Loop!Stopped, Loop!Leave
    <2>. QED  BY <2>2
  <1>9. /\ result' # "none" => at' = "done"
        /\ result' \notin Loop!ProposalTools
        /\ run[d].proposal = None
    <2>1. result = "none" /\ run[d].proposal = None
      BY <1>7 DEF LoopEndsLast
    <2>2. CASE Loop!Observed
      BY <2>1, <2>2 DEF Loop!Observed, Loop!CallNext, Loop!ProposalTools
    <2>3. CASE Loop!Stopped
      BY <2>1, <2>3 DEF Loop!Stopped, Loop!Leave, Loop!ProposalTools
    <2>. QED  BY <2>1, <2>2, <2>3 DEF CallRecorded
  <1>10. /\ CallsMade' = CallsMade
         /\ tool_calls'[d][n] = row
         /\ \A m \in CallsMade \ {n} : tool_calls'[d][m] = tool_calls[d][m]
         /\ ExtractionsMade' = ExtractionsMade /\ DecisionsMade' = DecisionsMade
         /\ AnswersAccepted' = AnswersAccepted
    <2>1. /\ CallsMade' = CallsMade \cup {n}
          /\ tool_calls'[d][n] = row
          /\ \A m \in CallsMade \ {n} : tool_calls'[d][m] = tool_calls[d][m]
          /\ ExtractionsMade' = ExtractionsMade /\ DecisionsMade' = DecisionsMade
          /\ AnswersAccepted' = AnswersAccepted
      BY <1>3, CallIsWritten
    <2>. QED  BY <1>4, <2>1
  <1>11. DecisionNotBegun'
    BY <1>3 DEF DecisionNotBegun
  <1>12. ExtractionEndsAccepted'
    BY <1>3, <1>6, <1>10 DEF ExtractionEndsAccepted, xvars
  <1>13. ToolsFollowAcceptance'
    BY <1>3, <1>7, <1>10 DEF ToolsFollowAcceptance, CallingPCs
  <1>14. LoopEndsLast'
    <2>1. ASSUME NEW m \in CallsMade
          PROVE  NotHeldBack(m)' \/ (at' = "done" /\ m = LastEntry')
      <3>1. CASE m = n
        BY <1>4, <1>6, <1>8, <1>10, <3>1 DEF NotHeldBack
      <3>2. CASE m # n
        BY <1>7, <1>10, <3>2 DEF NotHeldBack, LoopEndsLast
      <3>. QED  BY <3>1, <3>2
    <2>. QED  BY <1>6, <1>9, <1>10, <2>1 DEF LoopEndsLast, Loop!ProposalTools
  <1>15. EntriesInOrder'
    BY <1>10 DEF EntriesInOrder, AskedForBefore
  <1>. QED  BY <1>11, <1>12, <1>13, <1>14, <1>15
-----------------------------------------------------------------------------
(* The k-th call on the trace is the k-th that was asked for.              *)

Place(n) == Cardinality({m \in CallsMade : m <= n})

\* The loop waits while a call is in flight, and has counted the others; each
\* is the one that was asked for in its place.
CallsAsAsked ==
    /\ pc[d] \in CallingPCs => at = "tools"
    /\ Cardinality(CallsMade)
          = IF pc[d] \in CallingPCs THEN Len(called) + 1 ELSE Len(called)
    /\ \A n \in CallsMade :
          /\ Place(n) \in 1 .. Len(asked)
          /\ tool_calls[d][n].tool_name = Recorded(asked[Place(n)])

\* What the loop's own invariant says of its sequences.
LoopSequences ==
    /\ asked \in Seq(Decision!TargetTools)
    /\ called \in Seq(Decision!TargetTools)
    /\ batch \in Seq(Decision!TargetTools)
    /\ response \in Decision!Responses
    /\ at = "tools" => batch # <<>> /\ called \o batch = asked

\* The next call of the batch is the next that was asked for.
LEMMA NextAsked ==
  ASSUME LoopSequences, at = "tools"
  PROVE  /\ Len(called) \in Nat
         /\ Len(called) + 1 \in 1 .. Len(asked)
         /\ asked[Len(called) + 1] = Head(batch)
  BY DEF LoopSequences

LEMMA CallsAreFinite ==
  ASSUME TraceInv
  PROVE  IsFiniteSet(CallsMade) /\ Cardinality(CallsMade) \in Nat
  <1>1. LastEntry \in Nat /\ CallsMade \subseteq 1 .. LastEntry
    BY EntriesAreNumbered, DrivenIsARun
    DEF TraceInv, TraceIsOneOrder, CallsMade, LastEntry
  <1>2. IsFiniteSet(1 .. LastEntry)
    BY <1>1, FS_Interval
  <1>. QED  BY <1>1, <1>2, FS_Subset, FS_CardinalityType

\* A call that is added takes the next place, and the others keep theirs.
LEMMA PlaceIsAdded ==
  ASSUME TraceInv, NEW n, n = LastEntry + 1, CallsMade' = CallsMade \cup {n}
  PROVE  /\ Cardinality(CallsMade)' = Cardinality(CallsMade) + 1
         /\ Place(n)' = Cardinality(CallsMade) + 1
         /\ \A m \in CallsMade : Place(m)' = Place(m)
  <1>1. \A m \in CallsMade : m \in Nat /\ m < n
    BY EntriesAreNumbered
  <1>2. n \in Nat /\ n \notin CallsMade
    BY <1>1, EntriesAreNumbered
  <1>3. Cardinality(CallsMade \cup {n}) = Cardinality(CallsMade) + 1
    BY <1>2, CallsAreFinite, FS_AddElement
  <1>4. {m \in CallsMade \cup {n} : m <= n} = CallsMade \cup {n}
    BY <1>1, <1>2
  <1>5. ASSUME NEW k \in CallsMade
        PROVE  {m \in CallsMade \cup {n} : m <= k} = {m \in CallsMade : m <= k}
    BY <1>1, <1>2
  <1>. QED  BY <1>3, <1>4, <1>5 DEF Place

\* A call is added: the one that is next in the batch.
LEMMA AddedAsAsked ==
  ASSUME TraceInv, LoopSequences, CallsAsAsked, at = "tools",
         pc[d] = "planning", asked' = asked,
         NEW n, n = NextSeq(d), NEW row, WriteCall(d, n, row),
         model_calls' = model_calls, row.tool_name = Recorded(Head(batch)),
         pc'[d] \in CallingPCs => at' = "tools",
         Len(called') = IF pc'[d] \in CallingPCs THEN Len(called)
                        ELSE Len(called) + 1
  PROVE  CallsAsAsked'
  <1>1. n = LastEntry + 1 /\ Cardinality(CallsMade) = Len(called)
    BY EntriesAreNumbered DEF CallsAsAsked, CallingPCs
  <1>2. /\ CallsMade' = CallsMade \cup {n}
        /\ tool_calls'[d][n] = row
        /\ \A m \in CallsMade \ {n} : tool_calls'[d][m] = tool_calls[d][m]
    BY CallIsWritten
  <1>3. /\ Cardinality(CallsMade)' = Cardinality(CallsMade) + 1
        /\ Place(n)' = Cardinality(CallsMade) + 1
        /\ \A m \in CallsMade : Place(m)' = Place(m)
    BY <1>1, <1>2, PlaceIsAdded
  <1>4. /\ Len(called) + 1 \in 1 .. Len(asked)
        /\ asked[Len(called) + 1] = Head(batch)
    BY NextAsked
  <1>5. n \notin CallsMade
    BY <1>1, EntriesAreNumbered
  <1>6. ASSUME NEW m \in CallsMade'
        PROVE  /\ Place(m)' \in 1 .. Len(asked')
               /\ tool_calls'[d][m].tool_name = Recorded(asked'[Place(m)'])
    <2>1. CASE m = n
      BY <1>1, <1>2, <1>3, <1>4, <2>1
    <2>2. CASE m # n
      BY <1>2, <1>3, <2>2 DEF CallsAsAsked
    <2>. QED  BY <2>1, <2>2
  <1>7. Cardinality(CallsMade)'
           = IF pc'[d] \in CallingPCs THEN Len(called') + 1 ELSE Len(called')
    BY <1>1, <1>3, NextAsked
  <1>. QED  BY <1>6, <1>7 DEF CallsAsAsked, Recorded

\* No call is added, and no call on the trace changes its name.
LEMMA SameCallsAsAsked ==
  ASSUME CallsAsAsked, CallsMade' = CallsMade,
         \A n \in CallsMade : tool_calls'[d][n].tool_name = tool_calls[d][n].tool_name,
         \A k \in 1 .. Len(asked) : k \in 1 .. Len(asked') /\ asked'[k] = asked[k],
         pc'[d] \in CallingPCs => at' = "tools",
         (IF pc'[d] \in CallingPCs THEN Len(called') + 1 ELSE Len(called'))
            = IF pc[d] \in CallingPCs THEN Len(called) + 1 ELSE Len(called)
  PROVE  CallsAsAsked'
  <1>1. \A n \in CallsMade : Place(n)' = Place(n)
    BY DEF Place
  <1>. QED  BY <1>1 DEF CallsAsAsked, Recorded

\* An accepted answer asks for more; what was asked for keeps its place.
LEMMA AskingGoesOn ==
  ASSUME LoopSequences, DecisionRecorded
  PROVE  /\ called' = called
         /\ \A k \in 1 .. Len(asked) : k \in 1 .. Len(asked') /\ asked'[k] = asked[k]
  <1>1. CASE Loop!AcceptTools
    <2>1. /\ asked' = asked \o Decision!ToolNames(response)
          /\ called' = called
          /\ Decision!Parse(response) = "tools"
      BY <1>1 DEF Loop!AcceptTools, Loop!ToolNames, Decision!ToolNames,
         Loop!Parse, Decision!Parse, Loop!ValidProposal,
         Decision!ValidProposal, Loop!OnlyTools, Decision!OnlyTools,
         Loop!TargetTools, Decision!TargetTools
    <2>2. Decision!ToolNames(response) \in Seq(Decision!TargetTools)
      BY <2>1, LoopIsDecision, Decision!ToolsAreTargets DEF LoopSequences
    <2>. QED  BY <2>1, <2>2 DEF LoopSequences
  <1>2. CASE Loop!AcceptProposal \/ Loop!Reject \/ Loop!ProviderFails
    BY <1>2 DEF Loop!AcceptProposal, Loop!Reject, Loop!ProviderFails,
       Loop!tools, LoopSequences
  <1>. QED  BY <1>1, <1>2 DEF DecisionRecorded

LEMMA AskedStep ==
  ASSUME TraceInv, LoopSequences, CallsAsAsked, DNext
  PROVE  CallsAsAsked'
  <1>. USE DrivenIsARun
  <1>0. /\ pc \in [Runs -> PCs]
        /\ run[d] \in RunRow
        /\ \A n \in CallsMade : tool_calls[d][n] \in ToolCallRow
    BY DEF TraceInv, TypeOK, IsTable, CallsMade
  <1>1. pc[d] \in CallingPCs => at = "tools"
    BY DEF CallsAsAsked
  <1>2. Len(called) \in Nat
    BY DEF LoopSequences
  <1>3. ASSUME \/ ExecutorAlone \/ RecordExtraction \/ FaultAlone \/ OthersAlone
               \/ DecisionEnds \/ AskExtraction \/ ExtractionAnswered
               \/ ExtractionLogFails \/ ExtractionRecorded \/ MakeRequest
               \/ ModelAnswers \/ DecisionLogFails
        PROVE  /\ CallsMade' = CallsMade /\ tool_calls'[d] = tool_calls[d]
               /\ UNCHANGED <<asked, called>>
               /\ pc'[d] \in CallingPCs => pc[d] \in CallingPCs /\ at' = at
               /\ pc[d] \in CallingPCs => pc'[d] \in CallingPCs
    <2>1. CASE ExecutorAlone
      <3>1. /\ pc'[d] \in CallingPCs <=> pc[d] \in CallingPCs
            /\ UNCHANGED lvars
        BY <1>0, <2>1 DEF ExecutorAlone, ReceiveRun, ResolveGoal,
           ResolveNothing, StartDecision, ReadTarget, CheckUser, CountSeats,
           InsertAssignment, VerifyGoal, CheckBlock, Conclude, At, CallingPCs
      <3>. QED  BY <2>1, <3>1, QuietTrace DEF TraceRests, CallsMade, lvars
    <2>2. CASE FaultAlone \/ OthersAlone
      <3>1. /\ pc'[d] \in CallingPCs <=> pc[d] \in CallingPCs
            /\ UNCHANGED lvars
        BY <1>0, <2>2 DEF FaultAlone, BusinessFails, VerificationFails,
           OthersAlone, Others, HumanChecks, HumanAssigns, HumanRevokes,
           EditPolicy, DeactivateUser, CallingPCs
      <3>. QED  BY <2>2, <3>1, QuietTrace DEF TraceRests, CallsMade, lvars
    <2>3. CASE RecordExtraction \/ DecisionEnds
      <3>1. /\ pc'[d] \notin CallingPCs /\ pc[d] \notin CallingPCs
            /\ UNCHANGED lvars
        BY <1>0, <2>3 DEF RecordExtraction, ExtractGoal, ExtractNothing,
           DecisionEnds, StopReachesDecide, ErrorReachesDecide,
           RecordProposal, At, CallingPCs
      <3>. QED  BY <2>3, <3>1, QuietTrace DEF TraceRests, CallsMade, lvars
    <2>4. CASE AskExtraction \/ ExtractionAnswered \/ ExtractionLogFails
      BY <2>4 DEF AskExtraction, ExtractionAnswered, ExtractionLogFails,
         vars, tables, lvars, CallsMade
    <2>5. CASE ExtractionRecorded
      BY <1>0, <2>5 DEF ExtractionRecorded, ExtractionRequest, At, lvars,
         CallsMade
    <2>6. CASE MakeRequest \/ DecisionLogFails
      <3>1. CASE MakeRequest
        BY <1>0, <3>1 DEF MakeRequest, BeforeRequest, RequestOverLimit, At,
           tables, Loop!BeforeRequest, Loop!RequestOverLimit, Loop!tools,
           CallsMade, CallingPCs
      <3>2. CASE DecisionLogFails
        BY <1>0, <3>2 DEF DecisionLogFails, RecordRequestFails, At, vars,
           tables, Loop!LogFails, Loop!tools, CallsMade, CallingPCs
      <3>. QED  BY <2>6, <3>1, <3>2
    <2>7. CASE ModelAnswers
      BY <1>1, <2>7 DEF ModelAnswers, vars, tables, Loop!ProviderAnswers,
         Loop!tools, CallsMade
    <2>. QED  BY <1>3, <2>1, <2>2, <2>3, <2>4, <2>5, <2>6, <2>7
  <1>4. CASE \/ ExecutorAlone \/ RecordExtraction \/ FaultAlone \/ OthersAlone
             \/ DecisionEnds \/ AskExtraction \/ ExtractionAnswered
             \/ ExtractionLogFails \/ ExtractionRecorded \/ MakeRequest
             \/ ModelAnswers \/ DecisionLogFails
    BY <1>1, <1>3, <1>4, SameCallsAsAsked DEF LoopSequences
  <1>5. CASE DecisionRecorded
    <2>1. /\ CallsMade' = CallsMade /\ tool_calls'[d] = tool_calls[d]
          /\ pc[d] \notin CallingPCs /\ pc'[d] \notin CallingPCs
      BY <1>0, <1>5 DEF DecisionRecorded, RecordRequest, At, CallsMade,
         CallingPCs
    <2>. QED  BY <1>5, <2>1, AskingGoesOn, SameCallsAsAsked
  <1>6. CASE CallAdmitted
    <2>1. PICK n : n = NextSeq(d)
      OBVIOUS
    <2>2. PICK tool \in Tools : tool = Recorded(Head(batch)) /\ AdmitCall(d, tool)
      BY <1>6 DEF CallAdmitted
    <2>3. PICK row : /\ WriteCall(d, n, row) /\ row.tool_name = tool
                     /\ model_calls' = model_calls
      BY <2>1, <2>2 DEF AdmitCall, Started
    <2>4. /\ at = "tools" /\ UNCHANGED lvars
          /\ pc[d] = "planning" /\ pc'[d] \in CallingPCs
      BY <1>0, <1>6, <2>2 DEF CallAdmitted, AdmitCall, At, CallingPCs
    <2>. QED  BY <2>1, <2>2, <2>3, <2>4, AddedAsAsked DEF lvars
  <1>7. CASE CallStopped
    <2>1. PICK n : n = NextSeq(d)
      OBVIOUS
    <2>2. PICK row : /\ WriteCall(d, n, row)
                     /\ row.tool_name = Recorded(Head(batch))
      <3>1. ASSUME NEW tool, CallOverLimit(d, tool)
            PROVE  \E row : WriteCall(d, n, row) /\ row.tool_name = tool
        <4>1. NeverRun(tool, None, "step_limit").tool_name = tool
          BY DEF NeverRun, Started
        <4>. QED  BY <2>1, <3>1, <4>1 DEF CallOverLimit
      <3>2. ASSUME DenyCall(d)
            PROVE  \E row : WriteCall(d, n, row) /\ row.tool_name = Mutation
        <4>1. NeverRun(Mutation, "deny", "policy_denied").tool_name = Mutation
          BY DEF NeverRun, Started
        <4>. QED  BY <2>1, <3>2, <4>1 DEF DenyCall
      <3>3. ASSUME HoldCall(d)
            PROVE  \E row : WriteCall(d, n, row) /\ row.tool_name = Mutation
        <4>1. PICK row : row = [Started(Mutation, "require_approval")
                                   EXCEPT !.status = "awaiting_approval"]
          OBVIOUS
        <4>2. row.tool_name = Mutation
          BY <4>1 DEF Started
        <4>. QED  BY <2>1, <3>3, <4>1, <4>2 DEF HoldCall
      <3>. QED  BY <1>7, <3>1, <3>2, <3>3 DEF CallStopped
    <2>3. /\ at = "tools" /\ asked' = asked /\ called' = Append(called, Head(batch))
          /\ pc[d] = "planning" /\ pc'[d] \notin CallingPCs
          /\ model_calls' = model_calls
      BY <1>0, <1>7 DEF CallStopped, CallOverLimit, DenyCall, HoldCall, At,
         CallingPCs, Loop!Stopped
    <2>4. Len(called') = Len(called) + 1
      BY <2>3 DEF LoopSequences
    <2>. QED  BY <2>1, <2>2, <2>3, <2>4, AddedAsAsked
  <1>8. CASE CallRecorded \/ CallLogFails
    <2>1. /\ at = "tools" /\ asked' = asked /\ called' = Append(called, Head(batch))
          /\ pc[d] \in CallingPCs /\ pc'[d] \notin CallingPCs
      BY <1>0, <1>8 DEF CallRecorded, RecordOutcome, CallLogFails,
         RecordOutcomeFails, At, CallingPCs, Loop!Observed, Loop!Stopped,
         Loop!CallRaises
    <2>2. Len(called') = Len(called) + 1
      BY <2>1 DEF LoopSequences
    <2>3. /\ CallsMade' = CallsMade
          /\ \A n \in CallsMade :
                tool_calls'[d][n].tool_name = tool_calls[d][n].tool_name
      <3>1. CASE CallLogFails
        BY <3>1 DEF CallLogFails, RecordOutcomeFails, tables, CallsMade
      <3>2. CASE CallRecorded
        <4>1. PICK n : n = call[d]
          OBVIOUS
        <4>2. PICK row : row = RecordedCall(d)
          OBVIOUS
        <4>3. WriteCall(d, n, row) /\ model_calls' = model_calls
          BY <3>2, <4>1, <4>2 DEF CallRecorded, RecordOutcome
        <4>4. n \in CallsMade /\ tool_calls[d][n] \in ToolCallRow
          BY <1>0, <2>1, <4>1 DEF TraceInv, CallInFlightIsStarted, CallsMade
        <4>5. row.tool_name = tool_calls[d][n].tool_name
          BY <4>1, <4>2, <4>4 DEF RecordedCall, ToolCallRow
        <4>. QED  BY <4>3, <4>4, <4>5, CallIsWritten
      <3>. QED  BY <1>8, <3>1, <3>2
    <2>. QED  BY <2>1, <2>2, <2>3, SameCallsAsAsked DEF LoopSequences
  <1>. QED
    BY <1>4, <1>5, <1>6, <1>7, <1>8 DEF DNext, GoesOn
-----------------------------------------------------------------------------
(* The whole invariant.                                                    *)

\* The conversation, told.
LEMMA ConversationIsTold ==
  ASSUME Conversation, CallsAsAsked
  PROVE  TraceTellsTheConversation
  <1>. USE DEF Conversation
  <1>1. /\ \A n \in ExtractionsMade, m \in DecisionsMade \cup CallsMade : n < m
        /\ \A n \in ExtractionsMade \cap AnswersAccepted, m \in ExtractionsMade :
              m <= n
        /\ run[d].goal => ExtractionsMade \cap AnswersAccepted # {}
        /\ run[d].proposal # None => LastEntry \in DecisionsMade \cap AnswersAccepted
    BY DEF EntriesInOrder, ExtractionEndsAccepted, LoopEndsLast
  <1>2. ASSUME NEW n \in CallsMade
        PROVE  /\ {m \in {m \in DecisionsMade : m < n
                                 /\ \A k \in DecisionsMade : k < n => k <= m} :
                      m \in AnswersAccepted} # {}
               /\ tool_calls[d][n].tool_name
                     = Recorded(asked[Cardinality({m \in CallsMade : m <= n})])
               /\ NotHeldBack(n) \/ n = LastEntry
    BY <1>2 DEF CallsAsAsked, Place, EntriesInOrder, AskedForBefore, LoopEndsLast
  <1>. QED
    BY <1>1, <1>2 DEF TraceTellsTheConversation, NotHeldBack, ExtractionsMade,
       DecisionsMade, AnswersAccepted, CallsMade, LastEntry

LEMMA ConversationInit == DInit => Conversation
  <1>. USE DrivenIsARun DEF DInit, Init
  <1>1. DInit => /\ ExtractionsMade = {} /\ DecisionsMade = {}
                 /\ AnswersAccepted = {} /\ CallsMade = {}
    BY DEF NoRows, ExtractionsMade, DecisionsMade, AnswersAccepted, CallsMade,
       RequestsMade
  <1>2. DInit => ~run[d].goal /\ run[d].proposal = None
    BY DEF NoRun, NewRun
  <1>3. DInit => /\ at = "loop" /\ result = "none"
                 /\ intent.kind # "ensure_assignment"
                 /\ pc[d] = "new"
    BY DEF Loop!Init, Extraction!Init, Extraction!Raised
  <1>. QED
    BY <1>1, <1>2, <1>3 DEF Conversation, DecisionNotBegun,
       ExtractionEndsAccepted, ToolsFollowAcceptance, LoopEndsLast,
       EntriesInOrder, CallingPCs, Loop!ProposalTools

LEMMA CallsAskedInit == DInit => CallsAsAsked
  <1>. SUFFICES ASSUME DInit PROVE CallsAsAsked
    OBVIOUS
  <1>1. CallsMade = {} /\ pc[d] = "new"
    BY DrivenIsARun DEF DInit, Init, NoRows, CallsMade
  <1>2. called = <<>> /\ Len(called) = 0
    BY DEF DInit, Loop!Init
  <1>. QED  BY <1>1, <1>2, FS_EmptySet DEF CallsAsAsked, CallingPCs

LEMMA ConversationStep ==
  ASSUME TraceInv, Conversation, [DNext]_dvars
  PROVE  Conversation'
  <1>1. CASE UNCHANGED dvars
    <2>1. TraceRests /\ TellerMovesOn
      BY <1>1 DEF dvars, vars, tables, memory, xvars, lvars, TraceRests,
         TellerMovesOn, ExtractionsMade, DecisionsMade, AnswersAccepted,
         LastEntry, RequestsMade, Conversation, LoopEndsLast
    <2>. QED  BY <2>1, TellerStep
  <1>2. CASE \/ ExecutorAlone \/ AskExtraction \/ ExtractionAnswered
             \/ ExtractionLogFails \/ RecordExtraction \/ MakeRequest
             \/ ModelAnswers \/ DecisionLogFails \/ CallLogFails \/ DecisionEnds
             \/ FaultAlone \/ OthersAlone
    BY <1>2, QuietTrace, MovesOn, TellerStep
  <1>3. CASE ExtractionRecorded \/ DecisionRecorded
    BY <1>3, ExtractionTold, DecisionTold
  <1>4. CASE CallAdmitted \/ CallStopped \/ CallRecorded
    BY <1>4, AdmittedTold, StoppedTold, RecordedTold
  <1>. QED  BY <1>1, <1>2, <1>3, <1>4 DEF DNext, GoesOn

\* The trace tells the conversation as it went, whatever the models answered,
\* whatever people did and whichever log transaction failed: its k-th call is
\* the k-th that accepted answers asked for, each comes after the answer that
\* asked for it and before the next, and the last entry is what ended it.
THEOREM TraceTellsIt == DSpec => []TraceTellsTheConversation
  <1>1. TraceInv /\ Conversation /\ [DNext]_dvars => Conversation'
    BY ConversationStep
  <1>2. DInit => CallsAsAsked
    BY CallsAskedInit
  <1>3. Decision!LoopInv => LoopSequences
    BY DEF Decision!LoopInv, Decision!LoopTypes, Decision!Following,
       LoopSequences
  <1>4. TraceInv /\ LoopSequences /\ CallsAsAsked /\ [DNext]_dvars => CallsAsAsked'
    <2>1. ASSUME CallsAsAsked, UNCHANGED dvars
          PROVE  CallsAsAsked'
      BY <2>1 DEF CallsAsAsked, Place, CallsMade, Recorded, dvars, vars,
         tables, lvars
    <2>. QED  BY <2>1, AskedStep
  <1>5. Conversation /\ CallsAsAsked => TraceTellsTheConversation
    BY ConversationIsTold
  <1>. QED
    BY ConversationInit, <1>1, <1>2, <1>3, <1>4, <1>5, DecisionInv,
       DrivenTraceInv, PTL DEF DSpec
=============================================================================
