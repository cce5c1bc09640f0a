----------------------------- MODULE RunReader -----------------------------
(***************************************************************************)
(* GET /agent-runs/{id}, while the run may still be going on.              *)
(*                                                                         *)
(* AgentRuns.get reads the run's row, then its model calls, then its tool  *)
(* calls, in one session but with no transaction around the three SELECTs: *)
(* each sees what is committed at its own instant, and the run may advance *)
(* between them.  The answer is made from the three (AgentRunDetail.of):   *)
(* what an ending says in outcome_detail is shown in part, the rest of it  *)
(* being internal.                                                         *)
(***************************************************************************)
EXTENDS AgentExecutor

VARIABLES
    outcome_detail,   \* of each run, or None
    reading,          \* the run being read, or None
    next,             \* the next SELECT
    shown             \* what has been read so far

rvars == <<vars, outcome_detail, reading, next, shown>>

NothingRead == [row |-> NoRun, detail |-> None, model_calls |-> NoRows,
                tool_calls |-> NoRows]

RInit ==
    /\ Init
    /\ outcome_detail = [r \in Runs |-> None]
    /\ reading = None
    /\ next = "run"
    /\ shown = NothingRead

-----------------------------------------------------------------------------
(* outcome_detail, written where a run ends: its keys, and those of its    *)
(* values that a reader is shown. An id or a message is None.              *)

Rejections == [error : [code : ClaimReasons]]
BlockChecks == [reason : ClaimReasons, confirmed : BOOLEAN]
Verifications ==
    [satisfied : BOOLEAN, evidence : {None}, rejection : {None} \cup Rejections,
     block_check : {None} \cup BlockChecks]
Limits ==
    [limit : {"model_requests", "read_calls", "mutation_calls"}, maximum : {None}]

\* The limit that this step of the run goes over: a call's, or a request's.
LimitOf(r) ==
    IF tool_calls'[r] = tool_calls[r] THEN "model_requests"
    ELSE IF tool_calls'[r][NextSeq(r)].tool_name = Mutation THEN "mutation_calls"
    ELSE "read_calls"

\* The verification, the rejection that _finish_decision found, and the check of
\* the block that was claimed, if there was one.
Concluded(r) ==
    [satisfied |-> verdict[r].satisfied,
     evidence |-> None,
     rejection |-> IF verdict[r].rejection = None THEN None
                   ELSE [error |-> [code |-> verdict[r].rejection]],
     block_check |-> IF ~verdict[r].satisfied /\ run[r].proposal.kind = "cannot_proceed"
                     THEN [reason |-> run[r].proposal.reason_code,
                           confirmed |-> verdict[r].confirmed]
                     ELSE None]

\* What the step that ends a run with this reason writes.
DetailOf(r, reason) ==
    CASE pc[r] = "conclude" -> Concluded(r)
      [] reason \in ExtractionReasons -> [reason_code |-> "the model's"]
      [] reason = "planner_error" -> [stage |-> pc[r], code |-> "the planner's"]
      [] reason = "step_limit" -> [limit |-> LimitOf(r), maximum |-> None]
      [] reason \in {"tool_failed", "policy_denied"} ->
            [tool_call_id |-> None, error |-> None]
      [] reason = "unexpected_error" -> [stage |-> pc[r], error_type |-> None]
      [] OTHER -> [resolution |-> None]

\* _end: the detail is written with the reason, once.
DetailsWritten ==
    outcome_detail' =
        [r \in Runs |-> IF run'[r].outcome_reason = run[r].outcome_reason
                        THEN outcome_detail[r]
                        ELSE DetailOf(r, run'[r].outcome_reason)]
-----------------------------------------------------------------------------
(* The three SELECTs.                                                      *)

Select(here, then, what) ==
    /\ next = here
    /\ next' = then
    /\ shown' = what
    /\ UNCHANGED <<vars, outcome_detail>>

\* Mutant of ReadRun: the trace is read first, and the row last.
ReadRunLast(r) ==
    /\ run[r].status # None
    /\ \/ /\ Select("run", "model_calls", shown)
          /\ reading = None
          /\ reading' = r
       \/ /\ Select("done", "done", [shown EXCEPT !.row = run[r],
                                                  !.detail = outcome_detail[r]])
          /\ reading = r /\ shown.row = NoRun
          /\ UNCHANGED reading

\* A run that does not exist is answered 404.
ReadRun(r) ==
    /\ run[r].status # None
    /\ Select("run", "model_calls", [shown EXCEPT !.row = run[r],
                                                 !.detail = outcome_detail[r]])
    /\ reading = None
    /\ reading' = r

\* list_trace, its two SELECTs.
ReadModelCalls ==
    /\ Select("model_calls", "tool_calls",
              [shown EXCEPT !.model_calls = model_calls[reading]])
    /\ UNCHANGED reading

\* Mutant of ReadToolCalls: only the calls that are over.
ReadFinishedCalls ==
    /\ LET all == tool_calls[reading]
           over == {n \in DOMAIN all : all[n].status # "started"}
       IN  Select("tool_calls", "done",
                  [shown EXCEPT !.tool_calls = [n \in over |-> all[n]]])
    /\ UNCHANGED reading

ReadToolCalls ==
    /\ Select("tool_calls", "done",
              [shown EXCEPT !.tool_calls = tool_calls[reading]])
    /\ UNCHANGED reading

RNext ==
    \/ Next /\ DetailsWritten /\ UNCHANGED <<reading, next, shown>>
    \/ \E r \in Runs : ReadRun(r)
    \/ ReadModelCalls
    \/ ReadToolCalls

RSpec == RInit /\ [][RNext]_rvars
-----------------------------------------------------------------------------
(* The answer (schemas/agent_runs.py).                                     *)

\* A detail may lack the key.
Get(detail, key) ==
    IF detail # None /\ key \in DOMAIN detail THEN detail[key] ELSE None

OutcomeCode(row, detail) ==
    CASE row.outcome_reason \in ExtractionReasons -> Get(detail, "reason_code")
      [] row.outcome_reason = "planner_error" -> Get(detail, "code")
      [] row.outcome_reason = "step_limit" -> Get(detail, "limit")
      [] OTHER -> None

\* Mutant of Verification: a rejection is shown with a checked claim only.
RejectionWithClaimOnly(detail) ==
    IF Get(detail, "satisfied") = None THEN None
    ELSE [satisfied |-> detail.satisfied,
          blocking_rejection |-> IF detail.rejection = None \/ detail.block_check = None
                                 THEN None ELSE detail.rejection.error.code,
          block_check |-> detail.block_check]

\* What a reader is shown of one.
ShownVerifications ==
    [satisfied : BOOLEAN, blocking_rejection : {None} \cup ClaimReasons,
     block_check : {None} \cup BlockChecks]

\* NULL is told from every JSON value, kept or shown.
ASSUME DetailAssumption ==
    None \notin BOOLEAN \cup Rejections \cup BlockChecks \cup Verifications
                   \cup Limits \cup ShownVerifications

Verification(detail) ==
    IF Get(detail, "satisfied") = None THEN None
    ELSE [satisfied |-> detail.satisfied,
          blocking_rejection |-> IF detail.rejection = None THEN None
                                 ELSE detail.rejection.error.code,
          block_check |-> detail.block_check]

\* Each entry under its number; of a tool's name, whether it is the mutation's.
ModelCallEntry(row) == [kind |-> "model_call", stage |-> row.stage,
                        succeeded |-> row.succeeded]

ToolCallEntry(row) ==
    [kind |-> "tool_call", mutation |-> row.tool_name = Mutation,
     status |-> row.status, policy |-> row.policy_decision,
     error_code |-> row.error, observation |-> row.observation]

Trace ==
    [n \in DOMAIN shown.model_calls \cup DOMAIN shown.tool_calls |->
        IF n \in DOMAIN shown.model_calls
        THEN ModelCallEntry(shown.model_calls[n])
        ELSE ToolCallEntry(shown.tool_calls[n])]

Answer ==
    [status |-> shown.row.status,
     outcome_reason |-> shown.row.outcome_reason,
     outcome_code |-> OutcomeCode(shown.row, shown.detail),
     goal |-> shown.row.goal,
     decision_proposal |-> shown.row.proposal,
     completed_at |-> shown.row.completed_at,
     decision_context |-> shown.row.context,
     verification |-> Verification(shown.detail),
     trace |-> Trace]
-----------------------------------------------------------------------------
(* Properties.                                                             *)

Answered == next = "done" /\ shown.row # NoRun

\* The entries of the answer's trace for calls of the mutation, or of reads.
Attempts(mutation) ==
    {n \in DOMAIN Trace : /\ Trace[n].kind = "tool_call"
                          /\ Trace[n].mutation = mutation}

ShownMutations(status) == {n \in Attempts(TRUE) : Trace[n].status = status}

\* The trace in an answer accounts for the row in it, though they were read at
\* different instants: a completed run is shown with the mutation that
\* satisfied the goal, or with none; a waiting one with the call that is held;
\* and no ended one with a call that finishes after it.
AnswerIsConsistent ==
    Answered =>
        /\ shown.row.status = "completed" =>
              /\ shown.row.outcome_reason = "goal_satisfied"
                    <=> ShownMutations("succeeded") # {}
              /\ ShownMutations("started") = {}
        /\ shown.row.status = "awaiting_approval"
              => ShownMutations("awaiting_approval") # {}
        /\ shown.row.completed_at => shown.tool_calls = tool_calls[reading]

\* An answer shows at least the trace the row it shows had: no number up to
\* its last_sequence_no is missing. (Later ones may be shown with gaps.)
AnswerHasTheTrace ==
    Answered => 1 .. shown.row.last_sequence_no
                    \subseteq DOMAIN shown.model_calls \cup DOMAIN shown.tool_calls

\* What the answer shows is enough to tell why the run ended as it did, though
\* the detail is internal in part: a run whose goal was verified has the outcome
\* that the proposal, the trace's mutations and the verification lead to; a
\* blocking rejection is that of the last attempt on the trace; a run without a
\* verification either has no proposal or failed unexpectedly; and the limit in
\* outcome_code is one that the trace has reached.
AnswerTellsTheOutcome ==
    Answered /\ Answer.completed_at =>
        LET found == Answer.verification
            code == Answer.outcome_code
        IN  /\ IF found = None
               THEN \/ Answer.decision_proposal = None
                    \/ Answer.outcome_reason = "unexpected_error"
               ELSE [status |-> Answer.status, reason |-> Answer.outcome_reason]
                      = DecisionOutcome(Answer.decision_proposal,
                           [changed |-> ShownMutations("succeeded") # {},
                            rejection |-> found.blocking_rejection,
                            satisfied |-> found.satisfied,
                            confirmed |-> /\ found.block_check # None
                                          /\ found.block_check.confirmed])
            /\ found # None /\ found.blocking_rejection # None =>
                 \E n \in Attempts(TRUE) :
                    /\ \A m \in Attempts(TRUE) : m <= n
                    /\ Trace[n].error_code = found.blocking_rejection
            /\ Answer.outcome_reason = "step_limit" =>
                 \/ /\ code = "model_requests"
                    /\ Cardinality({n \in DOMAIN Trace :
                                       /\ Trace[n].kind = "model_call"
                                       /\ Trace[n].stage = "decision"}) >= MaxRequests
                 \/ /\ code = "read_calls"
                    /\ Cardinality(Attempts(FALSE)) > MaxReads
                 \/ /\ code = "mutation_calls"
                    /\ Cardinality(Attempts(TRUE)) > MaxMutations
=============================================================================
