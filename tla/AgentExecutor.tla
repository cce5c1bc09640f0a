---------------------------- MODULE AgentExecutor ----------------------------
(***************************************************************************)
(* AgentExecutor: agent runs, one driver per run, over a shared database.  *)
(*                                                                         *)
(* Each log transaction of the executor is one action here: it opens,      *)
(* reads, writes and commits with no other session of the run open, and    *)
(* SQLite's write lock keeps other writers out.  A tool call is three      *)
(* transactions (admit, run, record), and everybody else may act between   *)
(* any two of them: other runs, people using the HTTP API, an operator     *)
(* editing a licence or a user row.  The seats are those of SeatLedger,    *)
(* which AssignmentService implements.                                     *)
(*                                                                         *)
(* The decision planner is any program: it may ask for a model request, a  *)
(* tool or a conclusion in any order, and raise at any point.  A planner   *)
(* that heeds stops lets DecisionStopped and other exceptions of the       *)
(* executor through; with IgnoresStops it may carry on after them, as the  *)
(* module docstring of executor.py allows for ("Should a planner carry on  *)
(* anyway").  Every planner brackets a model request with before_request   *)
(* and record.                                                             *)
(***************************************************************************)
EXTENDS AgentDomain, FiniteSets

CONSTANTS
    Runs,          \* ids of agent runs
    Humans,        \* HTTP requests that assign licences
    Operators,     \* those who edit rows of the database directly
    Users,
    Licences,
    SeatsTotal,    \* licences.seats_total
    MaxExtractionRequests,  \* 1 + OUTPUT_RETRIES of the intent planner
    MaxRequests,   \* MAX_DECISION_MODEL_REQUESTS
    MaxReads,      \* MAX_DECISION_READ_CALLS
    MaxMutations,  \* MAX_DECISION_MUTATION_CALLS
    IgnoresStops   \* whether planners may carry on after DecisionStopped

Pairs == Users \X Licences
Clients == Runs \cup Humans

ASSUME AgentExecutorAssumption ==
    /\ {MaxExtractionRequests, MaxRequests, MaxReads, MaxMutations} \subseteq Nat
    /\ IgnoresStops \in BOOLEAN
    /\ Runs \cap Humans = {}
    /\ Runs \cup Humans # {}
    /\ IsFiniteSet(Users) /\ IsFiniteSet(Runs) /\ IsFiniteSet(Humans)
    /\ SeatsTotal \in [Licences -> Nat]
    /\ None \notin Pairs \cup Proposals \cup Statuses \cup Reasons \cup Policies
                       \cup ErrorCodes \cup Outcomes \cup Observations

\* Raising nothing is told from raising something.
ASSUME RaisedAssumption == None \notin {"decision_stopped", "error"}

VARIABLES
    \* The tables the executor writes, and what is committed of the business.
    run,           \* agent_runs
    model_calls,   \* model_calls of each run, by sequence_no
    tool_calls,    \* tool_calls of each run, by sequence_no
    held,          \* the active assignments (SeatLedger)
    changed_by,    \* audit events of actor agent:run-<id>: the calls behind them
    policy,        \* licences.agent_policy
    inactive,      \* the users whose status is "inactive"
    \* The memory of the processes: lost in a crash.
    pc,            \* the next transaction of each run's driver
    passed,        \* the seat each business transaction found free (SeatLedger)
    call,          \* the sequence_no of the tool call in flight, or 0
    outcome,       \* what the call's business transaction left, or None
    raised,        \* the exception the planner is being raised, or None
    verdict        \* what _finish_decision knows so far

tables == <<run, model_calls, tool_calls>>
business == <<held, changed_by>>
settings == <<policy, inactive>>
memory == <<call, outcome, raised, verdict>>
vars == <<tables, business, settings, memory, pc, passed>>

Seats == INSTANCE SeatLedger

CallingPCs == {"business", "count", "insert", "record"}
VerifyingPCs == {"verify", "check_block", "conclude"}

PCs == {"new", "extracting", "resolving", "resolved", "planning", "requesting",
        "returned", "gone"} \cup CallingPCs \cup VerifyingPCs
-----------------------------------------------------------------------------
(* Rows.                                                                   *)

NewRun == [status |-> "received", goal |-> FALSE, target |-> None,
           context |-> FALSE, proposal |-> None, outcome_reason |-> None,
           completed_at |-> FALSE, last_sequence_no |-> 0]

NoRun == [NewRun EXCEPT !.status = None]

NoRows == [n \in {} |-> None]

NoVerdict == [changed |-> FALSE, rejection |-> None, satisfied |-> FALSE,
              confirmed |-> FALSE]

\* A table with a row inserted, or updated.
Put(table, n, row) ==
    [m \in DOMAIN table \cup {n} |-> IF m = n THEN row ELSE table[m]]

Started(tool, decision) ==
    [tool_name |-> tool, status |-> "started", policy_decision |-> decision,
     error |-> None, observation |-> None, completed_at |-> FALSE]

NeverRun(tool, decision, code) ==
    [Started(tool, decision) EXCEPT !.status = "failed", !.error = code,
                                    !.completed_at = TRUE]

\* The three writes of a run's row that several steps share.
Numbered(row) == [row EXCEPT !.last_sequence_no = @ + 1]

Moved(row, status) == [row EXCEPT !.status = status]

\* Mutant of Ended: completed_at is forgotten.
EndedWithoutTime(row, status, reason) ==
    [row EXCEPT !.status = status, !.outcome_reason = reason]

Ended(row, status, reason) ==
    [row EXCEPT !.status = status, !.outcome_reason = reason,
                !.completed_at = TRUE]

\* Mutant of NextSeq: model calls and tool calls are each numbered by count.
NextSeqPerTable(r) == Cardinality(DOMAIN tool_calls[r]) + 1

\* next_sequence_no: one counter for both tables.
NextSeq(r) == run[r].last_sequence_no + 1

CallsOf(r, tools) ==
    {n \in DOMAIN tool_calls[r] : tool_calls[r][n].tool_name \in tools}

\* Mutant of AnyStarted: the guard against unfinished calls is dropped.
NeverAnyStarted(r) == FALSE

AnyStarted(r) == \E n \in DOMAIN tool_calls[r] : tool_calls[r][n].status = "started"

\* Mutant of Changed: an attempt counts, whatever became of it.
Attempted(r) == CallsOf(r, {Mutation}) # {}

\* any_succeeded of the mutations: this run changed something.
Changed(r) == \E n \in CallsOf(r, {Mutation}) : tool_calls[r][n].status = "succeeded"

\* _blocking_rejection of the latest mutation attempt.
Rejection(r) ==
    LET attempts == CallsOf(r, {Mutation})
        latest == CHOOSE n \in attempts : \A m \in attempts : m <= n
    IN  IF attempts # {} /\ tool_calls[r][latest].status = "failed"
        THEN BlockingReason(tool_calls[r][latest].error)
        ELSE None

RequestsMade(r, stage) ==
    {n \in DOMAIN model_calls[r] : model_calls[r][n].stage = stage}

\* Mutant of Limit: reads may go one past their limit.
LimitOneMore(tool) == IF tool = Mutation THEN MaxMutations ELSE MaxReads + 1

Limit(tool) == IF tool = Mutation THEN MaxMutations ELSE MaxReads
Kind(tool) == IF tool = Mutation THEN {Mutation} ELSE ReadTools

\* _exceeded_limit
OverLimit(r, tool) == Cardinality(CallsOf(r, Kind(tool))) >= Limit(tool)
-----------------------------------------------------------------------------
(* The whole state at the start, and steps many actions share.             *)

Init ==
    /\ run = [r \in Runs |-> NoRun]
    /\ model_calls = [r \in Runs |-> NoRows]
    /\ tool_calls = [r \in Runs |-> NoRows]
    /\ Seats!Init
    /\ changed_by = [r \in Runs |-> {}]
    /\ policy \in [Licences -> Policies]
    /\ inactive = {}
    /\ pc = [r \in Runs |-> "new"]
    /\ call = [r \in Runs |-> 0]
    /\ outcome = [r \in Runs |-> None]
    /\ raised = [r \in Runs |-> None]
    /\ verdict = [r \in Runs |-> NoVerdict]

At(r, here, next) == pc[r] = here /\ pc' = [pc EXCEPT ![r] = next]

WriteRun(r, row) == run' = [run EXCEPT ![r] = row]

WriteCall(r, n, row) ==
    tool_calls' = [tool_calls EXCEPT ![r] = Put(@, n, row)]

\* ModelCallLog.record: the request takes the run's next number. The run's
\* status is not looked at.
RecordModelCall(r, stage, ok) ==
    /\ WriteRun(r, Numbered(run[r]))
    /\ model_calls' = [model_calls EXCEPT
          ![r] = Put(@, NextSeq(r), [stage |-> stage, succeeded |-> ok])]

Raise(r, what) == raised' = [raised EXCEPT ![r] = what]

\* The planner has control: nothing is being raised, or it does not care.
PlannerFree(r) == raised[r] = None \/ IgnoresStops
-----------------------------------------------------------------------------
(* receive_run, extract_intent, resolve_run                                *)

ReceiveRun(r) ==
    /\ At(r, "new", "extracting")
    /\ WriteRun(r, NewRun)
    /\ UNCHANGED <<model_calls, tool_calls, business, settings, memory, passed>>

\* A model request of the extraction, recorded as soon as it has an outcome.
ExtractionRequest(r) ==
    /\ At(r, "extracting", "extracting")
    /\ Cardinality(RequestsMade(r, "extraction")) < MaxExtractionRequests
    /\ \E ok \in BOOLEAN : RecordModelCall(r, "extraction", ok)
    /\ UNCHANGED <<tool_calls, business, settings, memory, passed>>

\* The planner found an assignment intent, in words of the instruction.
ExtractGoal(r) ==
    /\ At(r, "extracting", "resolving")
    /\ WriteRun(r, [run[r] EXCEPT !.goal = TRUE])
    /\ UNCHANGED <<model_calls, tool_calls, business, settings, memory, passed>>

\* It found none, or its text was not in the instruction, or it failed.
ExtractNothing(r) ==
    /\ At(r, "extracting", "returned")
    /\ \/ \E reason \in ExtractionReasons :
             WriteRun(r, Ended(run[r], "needs_clarification", reason))
       \/ \E reason \in {"planner_error", "unexpected_error"} :
             WriteRun(r, Ended(run[r], "failed", reason))
    /\ UNCHANGED <<model_calls, tool_calls, business, settings, memory, passed>>

\* The extracted text names one user and one licence.
ResolveGoal(r) ==
    /\ At(r, "resolving", "resolved")
    /\ \E target \in Pairs :
          WriteRun(r, [run[r] EXCEPT !.status = "resolved", !.target = target])
    /\ UNCHANGED <<model_calls, tool_calls, business, settings, memory, passed>>

ResolveNothing(r) ==
    /\ At(r, "resolving", "returned")
    /\ \/ \E reason \in ResolutionFailures :
             WriteRun(r, Ended(run[r], "needs_clarification", reason))
       \/ WriteRun(r, Ended(run[r], "failed", "unexpected_error"))
    /\ UNCHANGED <<model_calls, tool_calls, business, settings, memory, passed>>
-----------------------------------------------------------------------------
(* decide: the planner's loop, and what it is answered.                    *)

StartDecision(r) ==
    /\ At(r, "resolved", "planning")
    /\ WriteRun(r, [run[r] EXCEPT !.status = "executing", !.context = TRUE])
    /\ UNCHANGED <<model_calls, tool_calls, business, settings, memory, passed>>

\* before_request, within the limit: the request is made.
BeforeRequest(r) ==
    /\ At(r, "planning", "requesting")
    /\ PlannerFree(r)
    /\ Cardinality(RequestsMade(r, "decision")) < MaxRequests
    /\ Raise(r, None)
    /\ UNCHANGED <<tables, business, settings, call, outcome, verdict, passed>>

\* Mutant of RequestOverLimit: _end does not look whether the run has ended.
RequestEndsAgain(r) ==
    /\ At(r, "planning", "planning")
    /\ PlannerFree(r)
    /\ Cardinality(RequestsMade(r, "decision")) >= MaxRequests
    /\ Raise(r, "decision_stopped")
    /\ WriteRun(r, Ended(run[r], "failed", "step_limit"))
    /\ UNCHANGED <<model_calls, tool_calls, business, settings, call, outcome,
                   verdict, passed>>

\* before_request at the limit: the run ends, and the loop is stopped. A run
\* that has ended stays ended: then _end raises RunNotExecutable instead.
RequestOverLimit(r) ==
    /\ At(r, "planning", "planning")
    /\ PlannerFree(r)
    /\ Cardinality(RequestsMade(r, "decision")) >= MaxRequests
    /\ IF run[r].completed_at
       THEN Raise(r, "error") /\ UNCHANGED run
       ELSE /\ Raise(r, "decision_stopped")
            /\ WriteRun(r, Ended(run[r], "failed", "step_limit"))
    /\ UNCHANGED <<model_calls, tool_calls, business, settings, call, outcome,
                   verdict, passed>>

RecordRequest(r) ==
    /\ At(r, "requesting", "planning")
    /\ \E ok \in BOOLEAN : RecordModelCall(r, "decision", ok)
    /\ UNCHANGED <<tool_calls, business, settings, memory, passed>>

\* That log transaction fails: the request was made and is not on the trace.
RecordRequestFails(r) ==
    /\ At(r, "requesting", "planning")
    /\ Raise(r, "error")
    /\ UNCHANGED <<tables, business, settings, call, outcome, verdict, passed>>

\* call_tool on a run that is not EXECUTING, or has an unfinished call.
RefuseCall(r) ==
    /\ At(r, "planning", "planning")
    /\ PlannerFree(r)
    /\ run[r].status # "executing" \/ AnyStarted(r)
    /\ Raise(r, "error")
    /\ UNCHANGED <<tables, business, settings, call, outcome, verdict, passed>>

\* What _start_call asks of the run before anything else.
MayCall(r) ==
    /\ PlannerFree(r)
    /\ run[r].status = "executing"
    /\ ~AnyStarted(r)

\* policy.evaluate: None for a read, which policy does not govern.
PolicyDecision(r, tool) ==
    IF tool = Mutation THEN policy[run[r].target[2]] ELSE None

\* The call is refused for a limit, before policy; recorded, and the run ends.
CallOverLimit(r, tool) ==
    /\ At(r, "planning", "planning")
    /\ MayCall(r)
    /\ OverLimit(r, tool)
    /\ WriteCall(r, NextSeq(r), NeverRun(tool, None, "step_limit"))
    /\ WriteRun(r, Ended(Numbered(run[r]), "failed", "step_limit"))
    /\ Raise(r, "decision_stopped")
    /\ UNCHANGED <<model_calls, business, settings, call, outcome, verdict, passed>>

\* Mutant of AdmitCall: a held call is started all the same.
AdmitUnlessDenied(r, tool) ==
    /\ At(r, "planning", "business")
    /\ MayCall(r)
    /\ ~OverLimit(r, tool)
    /\ PolicyDecision(r, tool) \in {None, "allow", "require_approval"}
    /\ WriteCall(r, NextSeq(r), Started(tool, PolicyDecision(r, tool)))
    /\ WriteRun(r, Numbered(run[r]))
    /\ call' = [call EXCEPT ![r] = NextSeq(r)]
    /\ Raise(r, None)
    /\ UNCHANGED <<model_calls, business, settings, outcome, verdict, passed>>

\* The call is admitted and recorded STARTED: its transaction comes next.
AdmitCall(r, tool) ==
    /\ At(r, "planning", "business")
    /\ MayCall(r)
    /\ ~OverLimit(r, tool)
    /\ PolicyDecision(r, tool) \in {None, "allow"}
    /\ WriteCall(r, NextSeq(r), Started(tool, PolicyDecision(r, tool)))
    /\ WriteRun(r, Numbered(run[r]))
    /\ call' = [call EXCEPT ![r] = NextSeq(r)]
    /\ Raise(r, None)
    /\ UNCHANGED <<model_calls, business, settings, outcome, verdict, passed>>

\* Policy denies the mutation: recorded FAILED, and the run ends BLOCKED.
DenyCall(r) ==
    /\ At(r, "planning", "planning")
    /\ MayCall(r)
    /\ ~OverLimit(r, Mutation)
    /\ PolicyDecision(r, Mutation) = "deny"
    /\ WriteCall(r, NextSeq(r), NeverRun(Mutation, "deny", "policy_denied"))
    /\ WriteRun(r, Ended(Numbered(run[r]), "blocked", "policy_denied"))
    /\ Raise(r, "decision_stopped")
    /\ UNCHANGED <<model_calls, business, settings, call, outcome, verdict, passed>>

\* Policy holds it for a person's approval: recorded, unrun, and the run waits.
HoldCall(r) ==
    /\ At(r, "planning", "planning")
    /\ MayCall(r)
    /\ ~OverLimit(r, Mutation)
    /\ PolicyDecision(r, Mutation) = "require_approval"
    /\ WriteCall(r, NextSeq(r),
                 [Started(Mutation, "require_approval")
                     EXCEPT !.status = "awaiting_approval"])
    /\ WriteRun(r, Moved(Numbered(run[r]), "awaiting_approval"))
    /\ Raise(r, "decision_stopped")
    /\ UNCHANGED <<model_calls, business, settings, call, outcome, verdict, passed>>
-----------------------------------------------------------------------------
(* The business transaction of the call in flight.                         *)

ToolInFlight(r) == tool_calls[r][call[r]].tool_name

\* The transaction is over, committed or rolled back, with this outcome.
Leaves(r, what) == outcome' = [outcome EXCEPT ![r] = what]

\* A tool that only reads.
ReadTarget(r) ==
    /\ At(r, "business", "record")
    /\ ToolInFlight(r) # Mutation
    /\ Leaves(r, "ok")
    /\ UNCHANGED <<tables, business, settings, call, raised, verdict, passed>>

\* assign_licence: the user's status and active assignment are read.
CheckUser(r) ==
    /\ pc[r] = "business"
    /\ ToolInFlight(r) = Mutation
    /\ \/ /\ run[r].target[1] \in inactive
          /\ At(r, "business", "record")
          /\ Leaves(r, "user_inactive")
       \/ /\ run[r].target[1] \notin inactive
          /\ run[r].target \in held
          /\ At(r, "business", "record")
          /\ Leaves(r, "assignment_already_exists")
       \/ /\ run[r].target[1] \notin inactive
          /\ run[r].target \notin held
          /\ At(r, "business", "count")
          /\ UNCHANGED outcome
    /\ UNCHANGED <<tables, business, settings, call, raised, verdict, passed>>

\* Mutant of CountSeats: the comparison lets one seat too many through.
CountSeatsOffByOne(r) ==
    /\ \/ /\ At(r, "count", "insert")
          /\ Seats!PassSeatCheckOffByOne(r, run[r].target)
          /\ UNCHANGED outcome
       \/ /\ At(r, "count", "record")
          /\ Seats!SeatsUsed(run[r].target[2]) > SeatsTotal[run[r].target[2]]
          /\ Leaves(r, "no_seats_available")
          /\ UNCHANGED <<held, passed>>
    /\ UNCHANGED <<tables, changed_by, settings, call, raised, verdict>>

\* The seats in use are counted: there is one free, or there is none.
CountSeats(r) ==
    /\ \/ /\ At(r, "count", "insert")
          /\ Seats!PassSeatCheck(r, run[r].target)
          /\ UNCHANGED outcome
       \/ /\ At(r, "count", "record")
          /\ Seats!SeatsUsed(run[r].target[2]) >= SeatsTotal[run[r].target[2]]
          /\ Leaves(r, "no_seats_available")
          /\ UNCHANGED <<held, passed>>
    /\ UNCHANGED <<tables, changed_by, settings, call, raised, verdict>>

\* The insert and its audit event commit, or meet the unique index.
InsertAssignment(r) ==
    /\ At(r, "insert", "record")
    /\ \/ /\ Seats!TakeSeat(r)
          /\ changed_by' = [changed_by EXCEPT ![r] = @ \cup {call[r]}]
          /\ Leaves(r, "ok")
       \/ /\ passed[r] \in held
          /\ Seats!GiveUp(r)
          /\ Leaves(r, "assignment_already_exists")
          /\ UNCHANGED changed_by
    /\ UNCHANGED <<tables, settings, call, raised, verdict>>

\* Any statement, or the commit, fails: the transaction is rolled back.
BusinessFails(r) ==
    /\ pc[r] \in {"business", "count", "insert"}
    /\ pc' = [pc EXCEPT ![r] = "record"]
    /\ Leaves(r, "unexpected_error")
    /\ passed' = [passed EXCEPT ![r] = None]
    /\ UNCHANGED <<tables, business, settings, call, raised, verdict>>
-----------------------------------------------------------------------------
(* The call's outcome is recorded.                                         *)

\* The row of the call in flight, with its outcome.
RecordedCall(r) ==
    [tool_calls[r][call[r]] EXCEPT
        !.status = IF outcome[r] = "ok" THEN "succeeded" ELSE "failed",
        !.error = IF outcome[r] = "ok" THEN None ELSE outcome[r],
        !.observation = Observe(ToolInFlight(r), outcome[r]),
        !.completed_at = TRUE]

\* Mutant of RecordOutcome: the loop is stopped, but the run is not ended.
StopWithoutEnding(r) ==
    /\ At(r, "record", "planning")
    /\ WriteCall(r, call[r], RecordedCall(r))
    /\ IF Observe(ToolInFlight(r), outcome[r]) = None
       THEN Raise(r, "decision_stopped")
       ELSE UNCHANGED raised
    /\ call' = [call EXCEPT ![r] = 0]
    /\ Leaves(r, None)
    /\ UNCHANGED <<run, model_calls, business, settings, verdict, passed>>

\* A failure the model is not shown ends the run and stops the loop.
RecordOutcome(r) ==
    /\ At(r, "record", "planning")
    /\ WriteCall(r, call[r], RecordedCall(r))
    /\ IF Observe(ToolInFlight(r), outcome[r]) = None
       THEN /\ WriteRun(r, Ended(run[r], "failed", "tool_failed"))
            /\ Raise(r, "decision_stopped")
       ELSE UNCHANGED <<run, raised>>
    /\ call' = [call EXCEPT ![r] = 0]
    /\ Leaves(r, None)
    /\ UNCHANGED <<model_calls, business, settings, verdict, passed>>

\* That log transaction fails ("database is locked", say): nothing is
\* recorded, and the exception goes to the planner.
RecordOutcomeFails(r) ==
    /\ At(r, "record", "planning")
    /\ Raise(r, "error")
    /\ call' = [call EXCEPT ![r] = 0]
    /\ Leaves(r, None)
    /\ UNCHANGED <<tables, business, settings, verdict, passed>>
-----------------------------------------------------------------------------
(* The planner is done: decide's except clauses, and _finish_decision.     *)

\* DecisionStopped reaches decide: the status the application set stands.
StopReachesDecide(r) ==
    /\ At(r, "planning", "returned")
    /\ raised[r] = "decision_stopped"
    /\ UNCHANGED <<tables, business, settings, memory, passed>>

\* Mutant of ErrorReachesDecide: only a PlannerError is caught.
OnlyPlannerErrorCaught(r) ==
    /\ pc[r] = "planning"
    /\ PlannerFree(r) \/ raised[r] = "error"
    /\ \/ /\ At(r, "planning", "returned")
          /\ IF run[r].status = "executing"
             THEN WriteRun(r, Ended(run[r], "failed", "planner_error"))
             ELSE UNCHANGED run
       \/ At(r, "planning", "gone") /\ UNCHANGED run
    /\ UNCHANGED <<model_calls, tool_calls, business, settings, memory, passed>>

\* A PlannerError or any other exception reaches decide: _end_decision. Which
\* of the two an exception of the executor's own becomes is the planner's
\* affair (as_planner_error takes every timeout for one of the provider).
ErrorReachesDecide(r) ==
    /\ At(r, "planning", "returned")
    /\ PlannerFree(r) \/ raised[r] = "error"
    /\ \E reason \in {"planner_error", "unexpected_error"} :
          IF run[r].status = "executing"
          THEN WriteRun(r, Ended(run[r], "failed", reason))
          ELSE UNCHANGED run
    /\ UNCHANGED <<model_calls, tool_calls, business, settings, memory, passed>>

\* The planner concludes, and the run may be verified.
RecordProposal(r) ==
    /\ At(r, "planning", "verify")
    /\ PlannerFree(r)
    /\ run[r].status = "executing"
    /\ ~AnyStarted(r)
    /\ \E proposal \in Proposals :
          WriteRun(r, [run[r] EXCEPT !.status = "verifying",
                                     !.proposal = proposal])
    /\ verdict' = [verdict EXCEPT ![r] = [NoVerdict EXCEPT
                      !.changed = Changed(r), !.rejection = Rejection(r)]]
    /\ UNCHANGED <<model_calls, tool_calls, business, settings, call, outcome,
                   raised, passed>>

\* The planner concludes, and the run may not: RunNotExecutable leaves run().
RefuseProposal(r) ==
    /\ At(r, "planning", "gone")
    /\ PlannerFree(r)
    /\ run[r].status # "executing" \/ AnyStarted(r)
    /\ UNCHANGED <<tables, business, settings, memory, passed>>

\* Mutant of GoalHolds: the run's own change is proof enough.
GoalHoldsOrChanged(r) == run[r].target \in held \/ verdict[r].changed

\* verify: an active assignment of exactly this licence to this user.
GoalHolds(r) == run[r].target \in held

\* check_block, by the rules assign_licence applies.
ClaimHolds(r) ==
    \/ /\ run[r].proposal.reason_code = "no_seats_available"
       /\ Seats!SeatsUsed(run[r].target[2]) >= SeatsTotal[run[r].target[2]]
    \/ /\ run[r].proposal.reason_code = "user_inactive"
       /\ run[r].target[1] \in inactive

VerifyGoal(r) ==
    /\ At(r, "verify", IF ~GoalHolds(r) /\ run[r].proposal.kind = "cannot_proceed"
                       THEN "check_block" ELSE "conclude")
    /\ verdict' = [verdict EXCEPT ![r].satisfied = GoalHolds(r)]
    /\ UNCHANGED <<tables, business, settings, call, outcome, raised, passed>>

\* A separate SELECT, at a later instant than the verifier's.
CheckBlock(r) ==
    /\ At(r, "check_block", "conclude")
    /\ verdict' = [verdict EXCEPT ![r].confirmed = ClaimHolds(r)]
    /\ UNCHANGED <<tables, business, settings, call, outcome, raised, passed>>

VerificationFails(r) ==
    /\ pc[r] \in {"verify", "check_block"}
    /\ pc' = [pc EXCEPT ![r] = "returned"]
    /\ WriteRun(r, Ended(run[r], "failed", "unexpected_error"))
    /\ UNCHANGED <<model_calls, tool_calls, business, settings, memory, passed>>

Conclude(r) ==
    /\ At(r, "conclude", "returned")
    /\ LET result == DecisionOutcome(run[r].proposal, verdict[r])
       IN  WriteRun(r, Ended(run[r], result.status, result.reason))
    /\ UNCHANGED <<model_calls, tool_calls, business, settings, memory, passed>>
-----------------------------------------------------------------------------
(* Everybody else.                                                         *)

\* The driver's process stops, or an exception leaves run(): a log transaction
\* outside the planner's loop failed. What was not committed is lost.
Crash(r) ==
    /\ pc[r] \notin {"new", "returned", "gone"}
    /\ pc' = [pc EXCEPT ![r] = "gone"]
    /\ passed' = [passed EXCEPT ![r] = None]
    /\ UNCHANGED <<tables, business, settings, memory>>

\* A person assigns a licence over HTTP: check, then insert or fail.
HumanChecks(h) ==
    /\ \E p \in Pairs :
          /\ p[1] \notin inactive
          /\ p \notin held
          /\ Seats!PassSeatCheck(h, p)
    /\ UNCHANGED <<tables, changed_by, settings, memory, pc>>

HumanAssigns(h) ==
    /\ Seats!TakeSeat(h) \/ Seats!GiveUp(h)
    /\ UNCHANGED <<tables, changed_by, settings, memory, pc>>

HumanRevokes ==
    /\ \E p \in Pairs : Seats!ReleaseSeat(p)
    /\ UNCHANGED <<tables, changed_by, settings, memory, pc>>

\* An operator edits a licence's agent_policy or deactivates a user, in the
\* database: no code of the application writes either after creation.
EditPolicy(o) ==
    /\ \E l \in Licences, p \in Policies : policy' = [policy EXCEPT ![l] = p]
    /\ UNCHANGED <<tables, business, inactive, memory, pc, passed>>

DeactivateUser(o) ==
    /\ \E u \in Users : inactive' = inactive \cup {u}
    /\ UNCHANGED <<tables, business, policy, memory, pc, passed>>
-----------------------------------------------------------------------------
(* The specification.                                                      *)

\* The steps by which a run gets on: everything but failures.
Advance(r) ==
    \/ ExtractionRequest(r)
    \/ ExtractGoal(r)
    \/ ExtractNothing(r)
    \/ ResolveGoal(r)
    \/ ResolveNothing(r)
    \/ StartDecision(r)
    \/ BeforeRequest(r)
    \/ RequestOverLimit(r)
    \/ RecordRequest(r)
    \/ RefuseCall(r)
    \/ \E tool \in Tools : CallOverLimit(r, tool)
    \/ \E tool \in Tools : AdmitCall(r, tool)
    \/ DenyCall(r)
    \/ HoldCall(r)
    \/ ReadTarget(r)
    \/ CheckUser(r)
    \/ CountSeats(r)
    \/ InsertAssignment(r)
    \/ RecordOutcome(r)
    \/ StopReachesDecide(r)
    \/ ErrorReachesDecide(r)
    \/ RecordProposal(r)
    \/ RefuseProposal(r)
    \/ VerifyGoal(r)
    \/ CheckBlock(r)
    \/ Conclude(r)

Fault(r) ==
    \/ RecordRequestFails(r)
    \/ BusinessFails(r)
    \/ RecordOutcomeFails(r)
    \/ VerificationFails(r)

Others ==
    \/ \E h \in Humans : HumanChecks(h)
    \/ \E h \in Humans : HumanAssigns(h)
    \/ HumanRevokes
    \/ \E o \in Operators : EditPolicy(o)
    \/ \E o \in Operators : DeactivateUser(o)

NextWithoutCrash ==
    \/ \E r \in Runs : ReceiveRun(r)
    \/ \E r \in Runs : Advance(r)
    \/ \E r \in Runs : Fault(r)
    \/ Others

Next ==
    \/ NextWithoutCrash
    \/ \E r \in Runs : Crash(r)

Spec == Init /\ [][Next]_vars
-----------------------------------------------------------------------------
(* Properties.                                                             *)

RunRow ==
    [status : Statuses \cup {None}, goal : BOOLEAN, target : Pairs \cup {None},
     context : BOOLEAN, proposal : Proposals \cup {None},
     outcome_reason : Reasons \cup {None}, completed_at : BOOLEAN,
     last_sequence_no : Nat]

ModelCallRow == [stage : {"extraction", "decision"}, succeeded : BOOLEAN]

ToolCallRow ==
    [tool_name : Tools, status : CallStatuses,
     policy_decision : Policies \cup {None}, error : ErrorCodes \cup {None},
     observation : Observations \cup {None}, completed_at : BOOLEAN]

\* A table of one run: its rows by sequence_no.
IsTable(table, Row) ==
    /\ table = [n \in DOMAIN table |-> table[n]]
    /\ DOMAIN table \subseteq Nat
    /\ \A n \in DOMAIN table : table[n] \in Row

TypeOK ==
    /\ run \in [Runs -> RunRow]
    /\ model_calls = [r \in Runs |-> model_calls[r]]
    /\ \A r \in Runs : IsTable(model_calls[r], ModelCallRow)
    /\ tool_calls = [r \in Runs |-> tool_calls[r]]
    /\ \A r \in Runs : IsTable(tool_calls[r], ToolCallRow)
    /\ Seats!TypeOK
    /\ changed_by \in [Runs -> SUBSET Nat]
    /\ policy \in [Licences -> Policies]
    /\ inactive \subseteq Users
    /\ pc \in [Runs -> PCs]
    /\ call \in [Runs -> Nat]
    /\ outcome \in [Runs -> Outcomes \cup {None}]
    /\ raised \in [Runs -> {None, "decision_stopped", "error"}]
    /\ verdict \in [Runs -> Verdicts]

\* Every row the executor commits passes the CHECK constraints of its table;
\* if one did not, the commit would fail and the run would be stuck.
RowsPassTheirChecks ==
    \A r \in Runs : run[r].status # None =>
        /\ RunRowPasses(run[r])
        /\ \A n \in DOMAIN tool_calls[r] : ToolCallRowPasses(tool_calls[r][n])

\* Model calls and tool calls form one trace: every number handed out, 1 to
\* last_sequence_no, is on exactly one row of one of the two tables, crashes
\* and failed transactions included.
TraceIsOneOrder ==
    \A r \in Runs :
        /\ DOMAIN model_calls[r] \cup DOMAIN tool_calls[r]
              = 1 .. run[r].last_sequence_no
        /\ DOMAIN model_calls[r] \cap DOMAIN tool_calls[r] = {}

MutationsWith(r, statuses) ==
    {n \in CallsOf(r, {Mutation}) : tool_calls[r][n].status \in statuses}

\* The trace accounts for the changes: each change is the work of a mutation
\* that policy allowed and whose row says SUCCEEDED, or still STARTED (the
\* crash window), and every SUCCEEDED mutation did change something. So what
\* was refused, denied, held, rejected or failed changed nothing.
ChangesAreOnTheTrace ==
    \A r \in Runs :
        /\ MutationsWith(r, {"succeeded"}) \subseteq changed_by[r]
        /\ changed_by[r] \subseteq MutationsWith(r, {"succeeded", "started"})
        /\ \A n \in changed_by[r] : tool_calls[r][n].policy_decision = "allow"

\* Why the trace accounts for the changes: the inductive invariant. The driver
\* knows where its run is, whatever its planner does ...
DriverKnowsItsRun ==
    \A r \in Runs :
        /\ pc[r] = "new" => run[r] = NoRun
        /\ pc[r] \in {"extracting", "resolving"} => run[r].status = "received"
        /\ pc[r] = "resolved" => run[r].status = "resolved"
        /\ pc[r] \in CallingPCs => run[r].status = "executing"
        /\ pc[r] \in VerifyingPCs => run[r].status = "verifying"

\* ... a run's row has what its status needs ...
RowHasWhatItNeeds ==
    \A r \in Runs :
        /\ run[r].status \in {"resolved", "executing"} => run[r].target \in Pairs
        /\ run[r].status \in {None, "received", "resolved", "executing"}
              => run[r].proposal = None
        /\ run[r].status = "verifying"
              => run[r].target \in Pairs /\ run[r].proposal \in Proposals
        /\ run[r].status = "completed" => run[r].completed_at

\* ... a call in flight is recorded STARTED, and has changed something exactly
\* if it is a mutation whose transaction has committed ...
CallInFlightIsStarted ==
    \A r \in Runs : pc[r] \in CallingPCs =>
        /\ call[r] \in DOMAIN tool_calls[r]
        /\ tool_calls[r][call[r]].status = "started"
        /\ pc[r] \in {"count", "insert"} => ToolInFlight(r) = Mutation
        /\ pc[r] = "record" => outcome[r] # None
        /\ call[r] \in changed_by[r]
              <=> pc[r] = "record" /\ outcome[r] = "ok" /\ ToolInFlight(r) = Mutation

\* ... policy allowed every mutation that got as far as a transaction ...
StartedMutationsWereAllowed ==
    \A r \in Runs : \A n \in MutationsWith(r, {"started", "succeeded"}) :
        tool_calls[r][n].policy_decision = "allow"

\* ... and a verdict in the making knows whether the run changed anything.
VerdictKnowsTheChange ==
    \A r \in Runs : pc[r] \in VerifyingPCs =>
        (verdict[r].changed <=> changed_by[r] # {})

\* A completed run tells truly whether it made the change: goal_satisfied when
\* it did, already_satisfied when it did not ("never labelled without knowing
\* whether it made a change").
OutcomeTellsTheChange ==
    \A r \in Runs : run[r].status = "completed" =>
        (run[r].outcome_reason = "goal_satisfied" <=> changed_by[r] # {})

\* The limits hold in the trace, counting every attempt: at most the one call
\* that was refused for the limit goes beyond it.
LimitsHold ==
    \A r \in Runs :
        /\ Cardinality(RequestsMade(r, "decision")) <= MaxRequests
        /\ \A tool \in Tools :
              Cardinality({n \in CallsOf(r, Kind(tool)) :
                              tool_calls[r][n].error # "step_limit"})
                  <= IF tool = Mutation THEN MaxMutations ELSE MaxReads
        /\ Cardinality({n \in DOMAIN tool_calls[r] :
                           tool_calls[r][n].error = "step_limit"}) <= 1

\* When run() returns, the run has ended, or it waits for a person's approval
\* of a call that is held and unrun.
ReturnedIsSettled ==
    \A r \in Runs : pc[r] = "returned" =>
        \/ run[r].completed_at
        \/ /\ run[r].status = "awaiting_approval"
           /\ MutationsWith(r, {"awaiting_approval"}) # {}
           /\ changed_by[r] = {}

\* "A run that has ended (completed_at is set) never changes again": neither
\* its row, but for the trace counter, nor its tool calls, nor the seats.
EndedStaysEnded ==
    [][ \A r \in Runs : run[r].completed_at =>
          /\ run'[r] = [run[r] EXCEPT !.last_sequence_no
                           = run'[r].last_sequence_no]
          /\ tool_calls'[r] = tool_calls[r]
          /\ changed_by'[r] = changed_by[r] ]_vars

\* An unfinished call is never lost track of: while it has no outcome, the run
\* makes no other call and is never verified.
UnfinishedCallIsTheLast ==
    \A r \in Runs : \A n \in DOMAIN tool_calls[r] :
        tool_calls[r][n].status = "started" =>
            /\ \A m \in DOMAIN tool_calls[r] : m <= n
            /\ run[r].proposal = None

\* The inductive invariant: see AgentExecutorProofs.
TraceInv ==
    /\ TypeOK
    /\ TraceIsOneOrder
    /\ DriverKnowsItsRun
    /\ RowHasWhatItNeeds
    /\ CallInFlightIsStarted
    /\ UnfinishedCallIsTheLast
    /\ StartedMutationsWereAllowed
    /\ ChangesAreOnTheTrace
    /\ VerdictKnowsTheChange
    /\ OutcomeTellsTheChange

\* The docstring of executor.py: a run with a STARTED call "is never labelled
\* without knowing whether it made a change". No run that made a change ends
\* while the trace leaves open what became of a call.
LabelledRunsAreReconciled ==
    \A r \in Runs :
        run[r].completed_at /\ changed_by[r] # {} => ~AnyStarted(r)

\* The docstring of AgentRunStatus: "Nothing leaves AWAITING_APPROVAL yet."
NothingLeavesApproval ==
    [][ \A r \in Runs : run[r].status = "awaiting_approval" =>
          run'[r].status = "awaiting_approval" ]_vars

\* Every run that is received ends, or comes to wait for approval, whatever
\* its planner asks for, and whatever faults and people come in between.
RunsSettle ==
    \A r \in Runs : run[r].status = "received"
        ~> run[r].completed_at \/ run[r].status = "awaiting_approval"

\* Runs take seats only as the ledger allows, with its bound on overfilling: a
\* run's transaction, like a person's request, counts the seats and then takes
\* one, and a fault or a crash between the two leaves nothing behind.
KeepsSeatLedger == Seats!Spec

\* What the row promises its readers: the transitions of AgentRunStatus, one
\* change at most, made while EXECUTING, and told truly by the outcome.
Lifecycle == INSTANCE RunLifecycle WITH
    status <- [r \in Runs |-> run[r].status],
    reason <- [r \in Runs |-> run[r].outcome_reason],
    changed <- [r \in Runs |-> changed_by[r] # {}]

\* Runs under planners that heed DecisionStopped follow that lifecycle.
FollowsLifecycle == Lifecycle!Spec
=============================================================================
