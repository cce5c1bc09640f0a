------------------------- MODULE AgentExecutorProofs -------------------------
(***************************************************************************)
(* TraceInv is an invariant of the executor, for any number of runs,       *)
(* people, users, licences and seats, any limits and any planner; and with *)
(* it its parts: the types, the one order of the trace, the changes being  *)
(* on the trace, and the outcome telling them truly.                       *)
(*                                                                         *)
(* The argument has three layers.  TypeStep: a step keeps the types, given *)
(* what the driver knows of its run.  DriverStep: it keeps what the driver *)
(* knows.  TraceStep: it keeps the rest.  The last two are said of one run *)
(* first, as a predicate on values (RowFits, TraceFits): a step moves one  *)
(* run and leaves the others alone, so each action is shown to be one of   *)
(* nine kinds of step of those values.                                     *)
(***************************************************************************)
EXTENDS AgentExecutor, FiniteSetTheorems, TLAPS

-----------------------------------------------------------------------------
(* What the operators on rows and tables return.                           *)

\* Put inserts or replaces one row, and the table stays a table.
LEMMA PutIsTable ==
    ASSUME NEW table, NEW Row, IsTable(table, Row), NEW n \in Nat, NEW row \in Row
    PROVE  /\ IsTable(Put(table, n, row), Row)
           /\ DOMAIN Put(table, n, row) = DOMAIN table \cup {n}
           /\ Put(table, n, row)[n] = row
           /\ \A m \in DOMAIN table : m # n => Put(table, n, row)[m] = table[m]
  BY DEF IsTable, Put

\* _end leaves a row of the table ...
LEMMA EndedIsRow ==
    ASSUME NEW row \in RunRow, NEW status \in Statuses, NEW reason \in Reasons
    PROVE  Ended(row, status, reason) \in RunRow
  BY DEF Ended, RunRow

\* ... with the new status, reason and completed_at, and the rest as it was.
LEMMA EndedKeeps ==
    ASSUME NEW row \in RunRow, NEW status, NEW reason
    PROVE  /\ Ended(row, status, reason).status = status
           /\ Ended(row, status, reason).target = row.target
           /\ Ended(row, status, reason).proposal = row.proposal
           /\ Ended(row, status, reason).outcome_reason = reason
           /\ Ended(row, status, reason).completed_at
           /\ Ended(row, status, reason).last_sequence_no = row.last_sequence_no
  BY DEF Ended, RunRow

\* The other writes of a run leave a row as well: the goal is stored,
LEMMA GoalIsRow ==
    ASSUME NEW row \in RunRow
    PROVE  [row EXCEPT !.goal = TRUE] \in RunRow
  BY DEF RunRow

\* the goal is resolved,
LEMMA ResolvedIsRow ==
    ASSUME NEW row \in RunRow, NEW target \in Pairs
    PROVE  [row EXCEPT !.status = "resolved", !.target = target] \in RunRow
  BY DEF RunRow, Statuses, OpenStatuses

\* the run starts executing,
LEMMA ExecutingIsRow ==
    ASSUME NEW row \in RunRow
    PROVE  [row EXCEPT !.status = "executing", !.context = TRUE] \in RunRow
  BY DEF RunRow, Statuses, OpenStatuses

\* and it starts verifying, with a proposal.
LEMMA VerifyingIsRow ==
    ASSUME NEW row \in RunRow, NEW proposal \in Proposals
    PROVE  [row EXCEPT !.status = "verifying", !.proposal = proposal] \in RunRow
  BY DEF RunRow, Statuses, OpenStatuses

\* next_sequence_no advances the counter and nothing else.
LEMMA NumberedIsRow ==
    ASSUME NEW row \in RunRow
    PROVE  /\ Numbered(row) \in RunRow
           /\ Numbered(row).last_sequence_no = row.last_sequence_no + 1
           /\ Numbered(row).status = row.status
           /\ Numbered(row).target = row.target
           /\ Numbered(row).proposal = row.proposal
           /\ Numbered(row).outcome_reason = row.outcome_reason
           /\ Numbered(row).completed_at = row.completed_at
  BY DEF Numbered, RunRow

\* The reasons the executor ends runs with are among those of the table.
LEMMA ReasonsListed ==
    /\ ExtractionReasons \cup ResolutionFailures \subseteq Reasons
    /\ {"planner_error", "unexpected_error", "tool_failed", "step_limit",
        "verification_failed", "goal_satisfied", "already_satisfied",
        "policy_denied"} \cup ClaimReasons \subseteq Reasons
  BY DEF Reasons, ReasonsOf, EndedStatuses, ClaimReasons

\* Every outcome of a tool is shown, or not, as an observation of the table.
LEMMA ObserveType ==
    ASSUME NEW tool \in Tools, NEW what \in Outcomes
    PROVE  /\ Observe(tool, what) \in Observations \cup {None}
           /\ what # "ok" => what \in ErrorCodes
  BY DEF Observe, Observations, Outcomes, ErrorCodes, ShownAs

\* decision_outcome gives a status and a reason of the table, and completes a
\* run as goal_satisfied exactly if the verdict knows of a change.
LEMMA OutcomeType ==
    ASSUME NEW proposal \in Proposals, NEW v \in Verdicts
    PROVE  /\ DecisionOutcome(proposal, v).status \in Statuses
           /\ DecisionOutcome(proposal, v).reason \in Reasons
           /\ DecisionOutcome(proposal, v).status = "completed" =>
                (DecisionOutcome(proposal, v).reason = "goal_satisfied" <=> v.changed)
  BY ReasonsListed DEF DecisionOutcome, Verdicts, Statuses, EndedStatuses,
     Proposals, ClaimReasons

\* What the shared writes of a step do to the types of the tables.
LEMMA WriteRunTypes ==
    ASSUME TypeOK, NEW r \in Runs, NEW row \in RunRow, WriteRun(r, row)
    PROVE  /\ run' \in [Runs -> RunRow]
           /\ run'[r] = row
           /\ \A q \in Runs \ {r} : run'[q] = run[q]
  BY DEF TypeOK, WriteRun

\* Writing one tool call of a run keeps the type of the table.
LEMMA WriteCallTypes ==
    ASSUME TypeOK, NEW r \in Runs, NEW n \in Nat, NEW row \in ToolCallRow,
           WriteCall(r, n, row)
    PROVE  /\ tool_calls' = [q \in Runs |-> tool_calls'[q]]
           /\ \A q \in Runs : IsTable(tool_calls'[q], ToolCallRow)
           /\ tool_calls'[r] = Put(tool_calls[r], n, row)
           /\ \A q \in Runs \ {r} : tool_calls'[q] = tool_calls[q]
  <1>1. /\ tool_calls' = [q \in Runs |-> tool_calls'[q]]
        /\ tool_calls'[r] = Put(tool_calls[r], n, row)
        /\ \A q \in Runs \ {r} : tool_calls'[q] = tool_calls[q]
    BY DEF TypeOK, WriteCall
  <1>2. IsTable(tool_calls[r], ToolCallRow)
    BY DEF TypeOK
  <1>2b. IsTable(Put(tool_calls[r], n, row), ToolCallRow)
    BY <1>2, PutIsTable
  <1>2a. IsTable(tool_calls'[r], ToolCallRow)
    BY <1>1, <1>2b
  <1>3. \A q \in Runs \ {r} : IsTable(tool_calls'[q], ToolCallRow)
    BY <1>1 DEF TypeOK
  <1>. QED  BY <1>1, <1>2a, <1>3

\* Ending a run keeps the type of the runs.
LEMMA EndTypes ==
    ASSUME TypeOK, NEW r \in Runs, NEW status \in EndedStatuses,
           NEW reason \in Reasons, WriteRun(r, Ended(run[r], status, reason))
    PROVE  run' \in [Runs -> RunRow]
  <1>1. run[r] \in RunRow
    BY DEF TypeOK
  <1>2. Ended(run[r], status, reason) \in RunRow
    BY <1>1, EndedIsRow DEF Statuses
  <1>. QED  BY <1>2, WriteRunTypes

\* Recording a model call numbers it, and keeps the types of both tables.
LEMMA ModelCallTypes ==
    ASSUME TypeOK, NEW r \in Runs, NEW ok \in BOOLEAN,
           NEW stage \in {"extraction", "decision"}, RecordModelCall(r, stage, ok)
    PROVE  /\ run' \in [Runs -> RunRow]
           /\ run'[r] = Numbered(run[r])
           /\ \A q \in Runs \ {r} : run'[q] = run[q]
           /\ model_calls' = [q \in Runs |-> model_calls'[q]]
           /\ \A q \in Runs : IsTable(model_calls'[q], ModelCallRow)
           /\ DOMAIN model_calls'[r] = DOMAIN model_calls[r] \cup {NextSeq(r)}
           /\ \A q \in Runs \ {r} : model_calls'[q] = model_calls[q]
  <1>. DEFINE row == [stage |-> stage, succeeded |-> ok]
  <1>0. /\ run[r] \in RunRow /\ NextSeq(r) \in Nat
        /\ Numbered(run[r]) \in RunRow
        /\ IsTable(model_calls[r], ModelCallRow)
    BY NumberedIsRow DEF TypeOK, NextSeq, RunRow
  <1>1. /\ run' \in [Runs -> RunRow]
        /\ run'[r] = Numbered(run[r])
        /\ \A q \in Runs \ {r} : run'[q] = run[q]
    BY <1>0, WriteRunTypes DEF RecordModelCall
  <1>2. /\ model_calls' = [q \in Runs |-> model_calls'[q]]
        /\ model_calls'[r] = Put(model_calls[r], NextSeq(r), row)
        /\ \A q \in Runs \ {r} : model_calls'[q] = model_calls[q]
    BY DEF TypeOK, RecordModelCall
  <1>3. row \in ModelCallRow
    BY DEF ModelCallRow
  <1>4. /\ IsTable(model_calls'[r], ModelCallRow)
        /\ DOMAIN model_calls'[r] = DOMAIN model_calls[r] \cup {NextSeq(r)}
    BY <1>0, <1>2, <1>3, PutIsTable
  <1>5. \A q \in Runs \ {r} : IsTable(model_calls'[q], ModelCallRow)
    BY <1>2 DEF TypeOK
  <1>. QED  BY <1>1, <1>2, <1>4, <1>5
\* Every step keeps the types.
LEMMA TypeStep ==
    ASSUME TypeOK, DriverKnowsItsRun, RowHasWhatItNeeds, CallInFlightIsStarted,
           [Next]_vars
    PROVE  TypeOK'
  <1>. USE AgentExecutorAssumption, AgentDomainAssumption
  <1>1. ASSUME NEW r \in Runs, ReceiveRun(r)
        PROVE  TypeOK'
    BY <1>1 DEF TypeOK, ReceiveRun, NewRun, NoRun, Statuses, OpenStatuses,
       At, PCs, CallingPCs, VerifyingPCs, WriteRun, tables, business,
       settings, memory, Seats!TypeOK, RunRow
  <1>2. ASSUME NEW r \in Runs, ExtractionRequest(r)
        PROVE  TypeOK'
    BY <1>2, ModelCallTypes DEF TypeOK, ExtractionRequest, At, PCs,
       CallingPCs, VerifyingPCs, WriteRun, tables, business, settings,
       memory, Seats!TypeOK
  <1>3. ASSUME NEW r \in Runs, ExtractGoal(r)
        PROVE  TypeOK'
    <2>0. run[r] \in RunRow
      BY DEF TypeOK
    <2>1. [run[r] EXCEPT !.goal = TRUE] \in RunRow
      BY <2>0, GoalIsRow
    <2>2. run' \in [Runs -> RunRow]
      BY <1>3, <2>1, WriteRunTypes DEF ExtractGoal
    <2>. QED
      BY <1>3, <2>1, <2>2 DEF TypeOK, ExtractGoal, At, PCs, CallingPCs,
         VerifyingPCs, tables, business, settings, memory, Seats!TypeOK
  <1>4. ASSUME NEW r \in Runs, ExtractNothing(r)
        PROVE  TypeOK'
    <2>1. run' \in [Runs -> RunRow]
      BY <1>4, ReasonsListed, EndTypes DEF ExtractNothing, TypeOK,
         EndedStatuses, WriteRun
    <2>. QED
      BY <1>4, <2>1 DEF TypeOK, ExtractNothing, At, PCs, CallingPCs,
         VerifyingPCs, tables, business, settings, memory, Seats!TypeOK
  <1>5. ASSUME NEW r \in Runs, ResolveGoal(r)
        PROVE  TypeOK'
    <2>0. run[r] \in RunRow
      BY DEF TypeOK
    <2>1. \A target \in Pairs :
           [run[r] EXCEPT !.status = "resolved", !.target = target] \in RunRow
      BY <2>0, ResolvedIsRow
    <2>2. run' \in [Runs -> RunRow]
      BY <1>5, <2>1, WriteRunTypes DEF ResolveGoal
    <2>. QED
      BY <1>5, <2>1, <2>2 DEF TypeOK, ResolveGoal, At, PCs, CallingPCs,
         VerifyingPCs, tables, business, settings, memory, Seats!TypeOK
  <1>6. ASSUME NEW r \in Runs, ResolveNothing(r)
        PROVE  TypeOK'
    <2>1. run' \in [Runs -> RunRow]
      BY <1>6, ReasonsListed, EndTypes DEF ResolveNothing, TypeOK,
         EndedStatuses, WriteRun
    <2>. QED
      BY <1>6, <2>1 DEF TypeOK, ResolveNothing, At, PCs, CallingPCs,
         VerifyingPCs, tables, business, settings, memory, Seats!TypeOK
  <1>7. ASSUME NEW r \in Runs, StartDecision(r)
        PROVE  TypeOK'
    <2>0. run[r] \in RunRow
      BY DEF TypeOK
    <2>1. [run[r] EXCEPT !.status = "executing", !.context = TRUE] \in RunRow
      BY <2>0, ExecutingIsRow
    <2>2. run' \in [Runs -> RunRow]
      BY <1>7, <2>1, WriteRunTypes DEF StartDecision
    <2>. QED
      BY <1>7, <2>1, <2>2 DEF TypeOK, StartDecision, At, PCs, CallingPCs,
         VerifyingPCs, tables, business, settings, memory, Seats!TypeOK
  <1>8. ASSUME NEW r \in Runs, BeforeRequest(r)
        PROVE  TypeOK'
    BY <1>8 DEF TypeOK, BeforeRequest, Raise, At, PCs, CallingPCs,
       VerifyingPCs, WriteRun, tables, business, settings, memory,
       Seats!TypeOK
  <1>9. ASSUME NEW r \in Runs, RequestOverLimit(r)
        PROVE  TypeOK'
    <2>1. run' \in [Runs -> RunRow]
      BY <1>9, ReasonsListed, EndTypes DEF RequestOverLimit, TypeOK,
         EndedStatuses
    <2>. QED
      BY <1>9, <2>1 DEF TypeOK, RequestOverLimit, Raise, At, PCs,
         CallingPCs, VerifyingPCs, tables, business, settings, memory,
         Seats!TypeOK
  <1>10. ASSUME NEW r \in Runs, RecordRequest(r)
        PROVE  TypeOK'
    BY <1>10, ModelCallTypes DEF TypeOK, RecordRequest, At, PCs,
       CallingPCs, VerifyingPCs, WriteRun, tables, business, settings,
       memory, Seats!TypeOK
  <1>11. ASSUME NEW r \in Runs, RefuseCall(r)
        PROVE  TypeOK'
    BY <1>11 DEF TypeOK, RefuseCall, Raise, At, PCs, CallingPCs,
       VerifyingPCs, WriteRun, tables, business, settings, memory,
       Seats!TypeOK
  <1>12. ASSUME NEW r \in Runs, NEW tool \in Tools, CallOverLimit(r, tool)
        PROVE  TypeOK'
    <2>1. run[r] \in RunRow /\ NextSeq(r) \in Nat
      BY DEF TypeOK, NextSeq, RunRow
    <2>2. NeverRun(tool, None, "step_limit") \in ToolCallRow
      BY DEF NeverRun, Started, ToolCallRow, CallStatuses, ErrorCodes,
         ShownAs
    <2>3. Ended(Numbered(run[r]), "failed", "step_limit") \in RunRow
      BY <2>1, NumberedIsRow, EndedIsRow, ReasonsListed DEF Statuses,
         EndedStatuses
    <2>4. run' \in [Runs -> RunRow]
      BY <1>12, <2>3, WriteRunTypes DEF CallOverLimit
    <2>5. /\ tool_calls' = [q \in Runs |-> tool_calls'[q]]
        /\ \A q \in Runs : IsTable(tool_calls'[q], ToolCallRow)
      BY <1>12, <2>1, <2>2, WriteCallTypes DEF CallOverLimit
    <2>. QED
      BY <1>12, <2>1, <2>2, <2>3, <2>4, <2>5 DEF TypeOK, CallOverLimit,
         Raise, At, PCs, CallingPCs, VerifyingPCs, tables, business,
         settings, memory, Seats!TypeOK
  <1>13. ASSUME NEW r \in Runs, NEW tool \in Tools, AdmitCall(r, tool)
        PROVE  TypeOK'
    <2>1. run[r] \in RunRow /\ NextSeq(r) \in Nat
      BY DEF TypeOK, NextSeq, RunRow
    <2>2. PolicyDecision(r, tool) \in Policies \cup {None}
      BY <1>13 DEF AdmitCall, Policies
    <2>3. Started(tool, PolicyDecision(r, tool)) \in ToolCallRow
      BY <2>2 DEF Started, ToolCallRow, CallStatuses
    <2>4. Numbered(run[r]) \in RunRow
      BY <2>1, NumberedIsRow
    <2>5. run' \in [Runs -> RunRow]
      BY <1>13, <2>4, WriteRunTypes DEF AdmitCall
    <2>6. /\ tool_calls' = [q \in Runs |-> tool_calls'[q]]
        /\ \A q \in Runs : IsTable(tool_calls'[q], ToolCallRow)
      BY <1>13, <2>1, <2>3, WriteCallTypes DEF AdmitCall
    <2>. QED
      BY <1>13, <2>1, <2>2, <2>3, <2>4, <2>5, <2>6 DEF TypeOK, AdmitCall,
         Raise, At, PCs, CallingPCs, VerifyingPCs, tables, business,
         settings, memory, Seats!TypeOK
  <1>14. ASSUME NEW r \in Runs, DenyCall(r)
        PROVE  TypeOK'
    <2>1. run[r] \in RunRow /\ NextSeq(r) \in Nat
      BY DEF TypeOK, NextSeq, RunRow
    <2>2. NeverRun(Mutation, "deny", "policy_denied") \in ToolCallRow
      BY DEF NeverRun, Started, ToolCallRow, CallStatuses, ErrorCodes,
         ShownAs, Tools, Policies
    <2>3. Ended(Numbered(run[r]), "blocked", "policy_denied") \in RunRow
      BY <2>1, NumberedIsRow, EndedIsRow, ReasonsListed DEF Statuses,
         EndedStatuses
    <2>4. run' \in [Runs -> RunRow]
      BY <1>14, <2>3, WriteRunTypes DEF DenyCall
    <2>5. /\ tool_calls' = [q \in Runs |-> tool_calls'[q]]
        /\ \A q \in Runs : IsTable(tool_calls'[q], ToolCallRow)
      BY <1>14, <2>1, <2>2, WriteCallTypes DEF DenyCall
    <2>. QED
      BY <1>14, <2>1, <2>2, <2>3, <2>4, <2>5 DEF TypeOK, DenyCall, Raise,
         At, PCs, CallingPCs, VerifyingPCs, tables, business, settings,
         memory, Seats!TypeOK
  <1>15. ASSUME NEW r \in Runs, HoldCall(r)
        PROVE  TypeOK'
    <2>1. run[r] \in RunRow /\ NextSeq(r) \in Nat
      BY DEF TypeOK, NextSeq, RunRow
    <2>2. [Started(Mutation, "require_approval") EXCEPT !.status = "awaiting_approval"]
           \in ToolCallRow
      BY DEF Started, ToolCallRow, CallStatuses, Tools, Policies
    <2>3. Moved(Numbered(run[r]), "awaiting_approval") \in RunRow
      BY <2>1, NumberedIsRow DEF Moved, RunRow, Statuses, OpenStatuses
    <2>4. run' \in [Runs -> RunRow]
      BY <1>15, <2>3, WriteRunTypes DEF HoldCall
    <2>5. /\ tool_calls' = [q \in Runs |-> tool_calls'[q]]
        /\ \A q \in Runs : IsTable(tool_calls'[q], ToolCallRow)
      BY <1>15, <2>1, <2>2, WriteCallTypes DEF HoldCall
    <2>. QED
      BY <1>15, <2>1, <2>2, <2>3, <2>4, <2>5 DEF TypeOK, HoldCall, Raise,
         At, PCs, CallingPCs, VerifyingPCs, tables, business, settings,
         memory, Seats!TypeOK
  <1>16. ASSUME NEW r \in Runs, ReadTarget(r)
        PROVE  TypeOK'
    BY <1>16 DEF TypeOK, ReadTarget, Leaves, Outcomes, At, PCs, CallingPCs,
       VerifyingPCs, WriteRun, tables, business, settings, memory,
       Seats!TypeOK
  <1>17. ASSUME NEW r \in Runs, CheckUser(r)
        PROVE  TypeOK'
    BY <1>17 DEF TypeOK, CheckUser, Leaves, Outcomes, ShownAs, At, PCs,
       CallingPCs, VerifyingPCs, WriteRun, tables, business, settings,
       memory, Seats!TypeOK
  <1>18. ASSUME NEW r \in Runs, CountSeats(r)
        PROVE  TypeOK'
    <2>1. run[r].target \in Pairs
      BY <1>18 DEF CountSeats, At, TypeOK, RowHasWhatItNeeds,
         DriverKnowsItsRun, CallingPCs
    <2>2. Seats!TypeOK'
      BY <1>18, <2>1 DEF CountSeats, TypeOK, Seats!TypeOK,
         Seats!PassSeatCheck, Seats!Pairs, Pairs
    <2>3. outcome' \in [Runs -> Outcomes \cup {None}]
      BY <1>18 DEF CountSeats, TypeOK, Leaves, Outcomes, ShownAs
    <2>. QED
      BY <1>18, <2>1, <2>2, <2>3 DEF TypeOK, CountSeats, At, PCs,
         CallingPCs, tables, business, settings, memory
  <1>19. ASSUME NEW r \in Runs, InsertAssignment(r)
        PROVE  TypeOK'
    BY <1>19 DEF TypeOK, InsertAssignment, Leaves, Outcomes, ShownAs,
       Clients, CallInFlightIsStarted, Seats!TakeSeat, Seats!GiveUp, At,
       PCs, CallingPCs, VerifyingPCs, WriteRun, tables, business, settings,
       memory, Seats!TypeOK
  <1>20. ASSUME NEW r \in Runs, BusinessFails(r)
        PROVE  TypeOK'
    BY <1>20 DEF TypeOK, BusinessFails, Leaves, Outcomes, Clients, At, PCs,
       CallingPCs, VerifyingPCs, WriteRun, tables, business, settings,
       memory, Seats!TypeOK
  <1>21. ASSUME NEW r \in Runs, RecordOutcome(r)
        PROVE  TypeOK'
    <2>1. /\ run[r] \in RunRow /\ call[r] \in Nat
        /\ tool_calls[r][call[r]] \in ToolCallRow
        /\ outcome[r] \in Outcomes
      BY <1>21 DEF RecordOutcome, At, TypeOK, IsTable,
         CallInFlightIsStarted, CallingPCs
    <2>2. ToolInFlight(r) \in Tools
      BY <2>1 DEF ToolInFlight, ToolCallRow
    <2>3. RecordedCall(r) \in ToolCallRow
      BY <2>1, <2>2, ObserveType DEF RecordedCall, ToolCallRow,
         CallStatuses
    <2>4. run' \in [Runs -> RunRow]
      BY <1>21, ReasonsListed, EndTypes DEF RecordOutcome, TypeOK,
         EndedStatuses
    <2>5. /\ tool_calls' = [q \in Runs |-> tool_calls'[q]]
        /\ \A q \in Runs : IsTable(tool_calls'[q], ToolCallRow)
      BY <1>21, <2>1, <2>3, WriteCallTypes DEF RecordOutcome
    <2>. QED
      BY <1>21, <2>1, <2>2, <2>3, <2>4, <2>5 DEF TypeOK, RecordOutcome,
         Raise, Leaves, At, PCs, CallingPCs, VerifyingPCs, tables,
         business, settings, memory, Seats!TypeOK
  <1>22. ASSUME NEW r \in Runs, RecordOutcomeFails(r)
        PROVE  TypeOK'
    BY <1>22 DEF TypeOK, RecordOutcomeFails, Leaves, Raise, At, PCs,
       CallingPCs, VerifyingPCs, WriteRun, tables, business, settings,
       memory, Seats!TypeOK
  <1>40. ASSUME NEW r \in Runs, RecordRequestFails(r)
        PROVE  TypeOK'
    BY <1>40 DEF TypeOK, RecordRequestFails, Leaves, Raise, At, PCs,
       CallingPCs, VerifyingPCs, WriteRun, tables, business, settings,
       memory, Seats!TypeOK
  <1>23. ASSUME NEW r \in Runs, StopReachesDecide(r)
        PROVE  TypeOK'
    BY <1>23 DEF TypeOK, StopReachesDecide, At, PCs, CallingPCs,
       VerifyingPCs, WriteRun, tables, business, settings, memory,
       Seats!TypeOK
  <1>24. ASSUME NEW r \in Runs, ErrorReachesDecide(r)
        PROVE  TypeOK'
    <2>1. run' \in [Runs -> RunRow]
      BY <1>24, ReasonsListed, EndTypes DEF ErrorReachesDecide, TypeOK,
         EndedStatuses
    <2>. QED
      BY <1>24, <2>1 DEF TypeOK, ErrorReachesDecide, At, PCs, CallingPCs,
         VerifyingPCs, tables, business, settings, memory, Seats!TypeOK
  <1>25. ASSUME NEW r \in Runs, RecordProposal(r)
        PROVE  TypeOK'
    <2>0. run[r] \in RunRow
      BY DEF TypeOK
    <2>1. \A proposal \in Proposals :
           [run[r] EXCEPT !.status = "verifying", !.proposal = proposal] \in RunRow
      BY <2>0, VerifyingIsRow
    <2>2. run' \in [Runs -> RunRow]
      BY <1>25, <2>1, WriteRunTypes DEF RecordProposal
    <2>3. Changed(r) \in BOOLEAN /\ Rejection(r) \in ClaimReasons \cup {None}
      BY DEF Changed, Rejection, BlockingReason
    <2>4. verdict' \in [Runs -> Verdicts]
      BY <1>25, <2>3 DEF RecordProposal, TypeOK, Verdicts, NoVerdict
    <2>. QED
      BY <1>25, <2>1, <2>2, <2>3, <2>4 DEF TypeOK, RecordProposal, At,
         PCs, CallingPCs, VerifyingPCs, tables, business, settings,
         memory, Seats!TypeOK
  <1>26. ASSUME NEW r \in Runs, RefuseProposal(r)
        PROVE  TypeOK'
    BY <1>26 DEF TypeOK, RefuseProposal, At, PCs, CallingPCs, VerifyingPCs,
       WriteRun, tables, business, settings, memory, Seats!TypeOK
  <1>27. ASSUME NEW r \in Runs, VerifyGoal(r)
        PROVE  TypeOK'
    <2>1. GoalHolds(r) \in BOOLEAN
      BY DEF GoalHolds
    <2>2. [verdict[r] EXCEPT !.satisfied = GoalHolds(r)] \in Verdicts
      BY <2>1 DEF TypeOK, Verdicts
    <2>3. verdict' \in [Runs -> Verdicts]
      BY <1>27, <2>2 DEF VerifyGoal, TypeOK
    <2>. QED
      BY <1>27, <2>1, <2>2, <2>3 DEF TypeOK, VerifyGoal, At, PCs,
         CallingPCs, VerifyingPCs, tables, business, settings, memory,
         Seats!TypeOK
  <1>28. ASSUME NEW r \in Runs, CheckBlock(r)
        PROVE  TypeOK'
    <2>1. ClaimHolds(r) \in BOOLEAN
      BY DEF ClaimHolds
    <2>2. [verdict[r] EXCEPT !.confirmed = ClaimHolds(r)] \in Verdicts
      BY <2>1 DEF TypeOK, Verdicts
    <2>3. verdict' \in [Runs -> Verdicts]
      BY <1>28, <2>2 DEF CheckBlock, TypeOK
    <2>. QED
      BY <1>28, <2>1, <2>2, <2>3 DEF TypeOK, CheckBlock, At, PCs,
         CallingPCs, VerifyingPCs, tables, business, settings, memory,
         Seats!TypeOK
  <1>29. ASSUME NEW r \in Runs, VerificationFails(r)
        PROVE  TypeOK'
    <2>1. run' \in [Runs -> RunRow]
      BY <1>29, ReasonsListed, EndTypes DEF VerificationFails, TypeOK,
         EndedStatuses, WriteRun
    <2>. QED
      BY <1>29, <2>1 DEF TypeOK, VerificationFails, At, PCs, CallingPCs,
         VerifyingPCs, tables, business, settings, memory, Seats!TypeOK
  <1>30. ASSUME NEW r \in Runs, Conclude(r)
        PROVE  TypeOK'
    BY <1>30, OutcomeType, EndedIsRow DEF TypeOK, Conclude,
       DriverKnowsItsRun, RowHasWhatItNeeds, At, PCs, CallingPCs,
       VerifyingPCs, WriteRun, tables, business, settings, memory,
       Seats!TypeOK
  <1>31. ASSUME NEW r \in Runs, Crash(r)
        PROVE  TypeOK'
    BY <1>31 DEF TypeOK, Crash, Clients, At, PCs, CallingPCs, VerifyingPCs,
       WriteRun, tables, business, settings, memory, Seats!TypeOK
  <1>32. ASSUME NEW h \in Humans, HumanChecks(h)
        PROVE  TypeOK'
    BY <1>32 DEF TypeOK, HumanChecks, Clients, Seats!PassSeatCheck,
       Seats!Pairs, Pairs, At, PCs, CallingPCs, VerifyingPCs, WriteRun,
       tables, business, settings, memory, Seats!TypeOK
  <1>33. ASSUME NEW h \in Humans, HumanAssigns(h)
        PROVE  TypeOK'
    BY <1>33 DEF TypeOK, HumanAssigns, Clients, Seats!TakeSeat,
       Seats!GiveUp, At, PCs, CallingPCs, VerifyingPCs, WriteRun, tables,
       business, settings, memory, Seats!TypeOK
  <1>34. ASSUME HumanRevokes
        PROVE  TypeOK'
    BY <1>34 DEF TypeOK, HumanRevokes, Seats!ReleaseSeat, At, PCs,
       CallingPCs, VerifyingPCs, WriteRun, tables, business, settings,
       memory, Seats!TypeOK
  <1>35. ASSUME NEW o \in Operators, EditPolicy(o)
        PROVE  TypeOK'
    BY <1>35 DEF TypeOK, EditPolicy, At, PCs, CallingPCs, VerifyingPCs,
       WriteRun, tables, business, settings, memory, Seats!TypeOK
  <1>36. ASSUME NEW o \in Operators, DeactivateUser(o)
        PROVE  TypeOK'
    BY <1>36 DEF TypeOK, DeactivateUser, At, PCs, CallingPCs, VerifyingPCs,
       WriteRun, tables, business, settings, memory, Seats!TypeOK
  <1>37. CASE UNCHANGED vars
    BY <1>37 DEF TypeOK, IsTable, vars, At, PCs, CallingPCs, VerifyingPCs,
       WriteRun, tables, business, settings, memory, Seats!TypeOK
  <1>. QED
    BY <1>1, <1>2, <1>3, <1>4, <1>5, <1>6, <1>7, <1>8, <1>9, <1>10, <1>11,
       <1>12, <1>13, <1>14, <1>15, <1>16, <1>17, <1>18, <1>19, <1>20,
       <1>21, <1>22, <1>40, <1>23, <1>24, <1>25, <1>26, <1>27, <1>28, <1>29,
       <1>30, <1>31, <1>32, <1>33, <1>34, <1>35, <1>36, <1>37 DEF Next,
       NextWithoutCrash, Advance, Fault, Others
-----------------------------------------------------------------------------
(* Rows and drivers.                                                       *)

\* Both invariants, of one run.
RowFits(row, at) ==
    /\ at = "new" => row = NoRun
    /\ at \in {"extracting", "resolving"} => row.status = "received"
    /\ at = "resolved" => row.status = "resolved"
    /\ at \in CallingPCs => row.status = "executing"
    /\ at \in VerifyingPCs => row.status = "verifying"
    /\ row.status \in {"resolved", "executing"} => row.target \in Pairs
    /\ row.status \in {None, "received", "resolved", "executing"}
          => row.proposal = None
    /\ row.status = "verifying" => row.target \in Pairs /\ row.proposal \in Proposals
    /\ row.status = "completed" => row.completed_at

\* A step that moves one run's row need only be looked at there.
LEMMA OneRowMoves ==
    ASSUME DriverKnowsItsRun, RowHasWhatItNeeds, NEW r \in Runs,
           \A q \in Runs \ {r} : run'[q] = run[q] /\ pc'[q] = pc[q],
           RowFits(run'[r], pc'[r])
    PROVE  DriverKnowsItsRun' /\ RowHasWhatItNeeds'
  <1>1. \A q \in Runs : RowFits(run[q], pc[q])
    BY DEF RowFits, DriverKnowsItsRun, RowHasWhatItNeeds
  <1>2. \A q \in Runs : RowFits(run'[q], pc'[q])
    BY <1>1
  <1>. QED
    BY <1>2 DEF RowFits, DriverKnowsItsRun, RowHasWhatItNeeds

\* Whatever ends a run leaves its driver where it may be.
LEMMA EndingKeepsTheRows ==
    ASSUME TypeOK, DriverKnowsItsRun, RowHasWhatItNeeds, NEW r \in Runs,
           NEW row \in RunRow, NEW status \in EndedStatuses, NEW reason,
           NEW next \in {"planning", "returned"},
           run' = [run EXCEPT ![r] = Ended(row, status, reason)],
           pc' = [pc EXCEPT ![r] = next]
    PROVE  DriverKnowsItsRun' /\ RowHasWhatItNeeds'
  <1>. USE AgentDomainAssumption, AgentExecutorAssumption
  <1>1. /\ pc'[r] \in {"planning", "returned"}
        /\ run'[r].status \in EndedStatuses
        /\ run'[r].completed_at
    BY EndedKeeps DEF TypeOK
  <1>2. \A q \in Runs \ {r} : run'[q] = run[q] /\ pc'[q] = pc[q]
    BY DEF TypeOK
  <1>3. None \notin EndedStatuses
    BY DEF Statuses
  <1>4. RowFits(run'[r], pc'[r])
    BY <1>1, <1>3 DEF RowFits, EndedStatuses, CallingPCs, VerifyingPCs
  <1>. QED
    BY <1>2, <1>4, OneRowMoves

\* Every step keeps what a driver knows of its run, and what its row needs.
LEMMA DriverStep ==
    ASSUME TypeOK, DriverKnowsItsRun, RowHasWhatItNeeds, [Next]_vars
    PROVE  DriverKnowsItsRun' /\ RowHasWhatItNeeds'
  <1>. USE AgentExecutorAssumption, AgentDomainAssumption
  <1>1. ASSUME NEW r \in Runs, ReceiveRun(r)
        PROVE  DriverKnowsItsRun' /\ RowHasWhatItNeeds'
    <2>1. run[r] \in RunRow
      BY DEF TypeOK
    <2>2. run'[r] = NewRun /\ pc'[r] = "extracting"
      BY <1>1, <2>1 DEF TypeOK, WriteRun, At, RunRow, ReceiveRun, NewRun
    <2>3. \A q \in Runs \ {r} : run'[q] = run[q] /\ pc'[q] = pc[q]
      BY <1>1 DEF TypeOK, WriteRun, At, ReceiveRun
    <2>4. RowFits(run'[r], pc'[r])
      BY <1>1, <2>1, <2>2 DEF RowFits, CallingPCs, VerifyingPCs, MayCall,
         NewRun, Statuses, OpenStatuses, DriverKnowsItsRun,
         RowHasWhatItNeeds, ReceiveRun
    <2>. QED
      BY <2>3, <2>4, OneRowMoves
  <1>2. ASSUME NEW r \in Runs, ExtractionRequest(r)
        PROVE  DriverKnowsItsRun' /\ RowHasWhatItNeeds'
    BY <1>2, ModelCallTypes, NumberedIsRow DEF TypeOK, DriverKnowsItsRun,
       RowHasWhatItNeeds, At, CallingPCs, VerifyingPCs, tables, business,
       settings, memory, ExtractionRequest
  <1>3. ASSUME NEW r \in Runs, ExtractGoal(r)
        PROVE  DriverKnowsItsRun' /\ RowHasWhatItNeeds'
    BY <1>3 DEF TypeOK, DriverKnowsItsRun, RowHasWhatItNeeds, At,
       CallingPCs, VerifyingPCs, tables, business, settings, memory,
       ExtractGoal, WriteRun, RunRow
  <1>4. ASSUME NEW r \in Runs, ExtractNothing(r)
        PROVE  DriverKnowsItsRun' /\ RowHasWhatItNeeds'
    <2>1. run[r] \in RunRow
      BY DEF TypeOK
    <2>. QED
      BY <1>4, <2>1, EndingKeepsTheRows DEF ExtractNothing, At, WriteRun,
         EndedStatuses
  <1>5. ASSUME NEW r \in Runs, ResolveGoal(r)
        PROVE  DriverKnowsItsRun' /\ RowHasWhatItNeeds'
    BY <1>5 DEF TypeOK, DriverKnowsItsRun, RowHasWhatItNeeds, At,
       CallingPCs, VerifyingPCs, tables, business, settings, memory,
       ResolveGoal, WriteRun, RunRow
  <1>6. ASSUME NEW r \in Runs, ResolveNothing(r)
        PROVE  DriverKnowsItsRun' /\ RowHasWhatItNeeds'
    <2>1. run[r] \in RunRow
      BY DEF TypeOK
    <2>. QED
      BY <1>6, <2>1, EndingKeepsTheRows DEF ResolveNothing, At, WriteRun,
         EndedStatuses
  <1>7. ASSUME NEW r \in Runs, StartDecision(r)
        PROVE  DriverKnowsItsRun' /\ RowHasWhatItNeeds'
    BY <1>7 DEF TypeOK, DriverKnowsItsRun, RowHasWhatItNeeds, At,
       CallingPCs, VerifyingPCs, tables, business, settings, memory,
       StartDecision, WriteRun, RunRow
  <1>8. ASSUME NEW r \in Runs, BeforeRequest(r)
        PROVE  DriverKnowsItsRun' /\ RowHasWhatItNeeds'
    BY <1>8 DEF TypeOK, DriverKnowsItsRun, RowHasWhatItNeeds, At,
       CallingPCs, VerifyingPCs, tables, business, settings, memory,
       BeforeRequest
  <1>9. ASSUME NEW r \in Runs, RequestOverLimit(r)
        PROVE  DriverKnowsItsRun' /\ RowHasWhatItNeeds'
    <2>1. run[r] \in RunRow
      BY DEF TypeOK
    <2>2. CASE run' = run
      BY <1>9, <2>2 DEF TypeOK, DriverKnowsItsRun, RowHasWhatItNeeds, At,
         CallingPCs, VerifyingPCs, tables, business, settings, memory,
         RequestOverLimit
    <2>3. CASE run' # run
      BY <1>9, <2>1, <2>3, EndingKeepsTheRows DEF RequestOverLimit, At,
         WriteRun, EndedStatuses
    <2>. QED
      BY <2>2, <2>3
  <1>10. ASSUME NEW r \in Runs, RecordRequest(r)
        PROVE  DriverKnowsItsRun' /\ RowHasWhatItNeeds'
    BY <1>10, ModelCallTypes, NumberedIsRow DEF TypeOK, DriverKnowsItsRun,
       RowHasWhatItNeeds, At, CallingPCs, VerifyingPCs, tables, business,
       settings, memory, RecordRequest
  <1>11. ASSUME NEW r \in Runs, RefuseCall(r)
        PROVE  DriverKnowsItsRun' /\ RowHasWhatItNeeds'
    BY <1>11 DEF TypeOK, DriverKnowsItsRun, RowHasWhatItNeeds, At,
       CallingPCs, VerifyingPCs, tables, business, settings, memory,
       RefuseCall
  <1>12. ASSUME NEW r \in Runs, NEW tool \in Tools, CallOverLimit(r, tool)
        PROVE  DriverKnowsItsRun' /\ RowHasWhatItNeeds'
    <2>1. Numbered(run[r]) \in RunRow
      BY NumberedIsRow DEF TypeOK
    <2>. QED
      BY <1>12, <2>1, EndingKeepsTheRows DEF CallOverLimit, At, WriteRun,
         EndedStatuses
  <1>13. ASSUME NEW r \in Runs, NEW tool \in Tools, AdmitCall(r, tool)
        PROVE  DriverKnowsItsRun' /\ RowHasWhatItNeeds'
    <2>1. run[r] \in RunRow
      BY DEF TypeOK
    <2>2. /\ run'[r].status = run[r].status
           /\ run'[r].target = run[r].target
           /\ run'[r].proposal = run[r].proposal
           /\ run'[r].completed_at = run[r].completed_at
           /\ pc'[r] = "business"
      BY <1>13, <2>1, NumberedIsRow DEF TypeOK, WriteRun, At, RunRow,
         AdmitCall
    <2>3. \A q \in Runs \ {r} : run'[q] = run[q] /\ pc'[q] = pc[q]
      BY <1>13 DEF TypeOK, WriteRun, At, AdmitCall
    <2>4. RowFits(run'[r], pc'[r])
      BY <1>13, <2>1, <2>2 DEF RowFits, CallingPCs, VerifyingPCs,
         MayCall, NewRun, Statuses, OpenStatuses, DriverKnowsItsRun,
         RowHasWhatItNeeds, AdmitCall
    <2>. QED
      BY <2>3, <2>4, OneRowMoves
  <1>14. ASSUME NEW r \in Runs, DenyCall(r)
        PROVE  DriverKnowsItsRun' /\ RowHasWhatItNeeds'
    <2>1. Numbered(run[r]) \in RunRow
      BY NumberedIsRow DEF TypeOK
    <2>. QED
      BY <1>14, <2>1, EndingKeepsTheRows DEF DenyCall, At, WriteRun,
         EndedStatuses
  <1>15. ASSUME NEW r \in Runs, HoldCall(r)
        PROVE  DriverKnowsItsRun' /\ RowHasWhatItNeeds'
    <2>1. run[r] \in RunRow
      BY DEF TypeOK
    <2>2. /\ run'[r].status = "awaiting_approval"
           /\ pc'[r] = "planning"
      BY <1>15, <2>1 DEF TypeOK, WriteRun, At, RunRow, HoldCall, Moved,
         Numbered
    <2>3. \A q \in Runs \ {r} : run'[q] = run[q] /\ pc'[q] = pc[q]
      BY <1>15 DEF TypeOK, WriteRun, At, HoldCall
    <2>4. RowFits(run'[r], pc'[r])
      BY <1>15, <2>1, <2>2 DEF RowFits, CallingPCs, VerifyingPCs,
         MayCall, NewRun, Statuses, OpenStatuses, DriverKnowsItsRun,
         RowHasWhatItNeeds, HoldCall
    <2>. QED
      BY <2>3, <2>4, OneRowMoves
  <1>16. ASSUME NEW r \in Runs, ReadTarget(r)
        PROVE  DriverKnowsItsRun' /\ RowHasWhatItNeeds'
    BY <1>16 DEF TypeOK, DriverKnowsItsRun, RowHasWhatItNeeds, At,
       CallingPCs, VerifyingPCs, tables, business, settings, memory,
       ReadTarget
  <1>17. ASSUME NEW r \in Runs, CheckUser(r)
        PROVE  DriverKnowsItsRun' /\ RowHasWhatItNeeds'
    BY <1>17 DEF TypeOK, DriverKnowsItsRun, RowHasWhatItNeeds, At,
       CallingPCs, VerifyingPCs, tables, business, settings, memory,
       CheckUser
  <1>18. ASSUME NEW r \in Runs, CountSeats(r)
        PROVE  DriverKnowsItsRun' /\ RowHasWhatItNeeds'
    BY <1>18 DEF TypeOK, DriverKnowsItsRun, RowHasWhatItNeeds, At,
       CallingPCs, VerifyingPCs, tables, business, settings, memory,
       CountSeats
  <1>19. ASSUME NEW r \in Runs, InsertAssignment(r)
        PROVE  DriverKnowsItsRun' /\ RowHasWhatItNeeds'
    BY <1>19 DEF TypeOK, DriverKnowsItsRun, RowHasWhatItNeeds, At,
       CallingPCs, VerifyingPCs, tables, business, settings, memory,
       InsertAssignment
  <1>20. ASSUME NEW r \in Runs, BusinessFails(r)
        PROVE  DriverKnowsItsRun' /\ RowHasWhatItNeeds'
    BY <1>20 DEF TypeOK, DriverKnowsItsRun, RowHasWhatItNeeds, At,
       CallingPCs, VerifyingPCs, tables, business, settings, memory,
       BusinessFails
  <1>21. ASSUME NEW r \in Runs, RecordOutcome(r)
        PROVE  DriverKnowsItsRun' /\ RowHasWhatItNeeds'
    <2>1. run[r] \in RunRow
      BY DEF TypeOK
    <2>2. CASE run' = run
      BY <1>21, <2>2 DEF TypeOK, DriverKnowsItsRun, RowHasWhatItNeeds,
         At, CallingPCs, VerifyingPCs, tables, business, settings,
         memory, RecordOutcome
    <2>3. CASE run' # run
      BY <1>21, <2>1, <2>3, EndingKeepsTheRows DEF RecordOutcome, At,
         WriteRun, EndedStatuses
    <2>. QED
      BY <2>2, <2>3
  <1>22. ASSUME NEW r \in Runs, RecordOutcomeFails(r)
        PROVE  DriverKnowsItsRun' /\ RowHasWhatItNeeds'
    BY <1>22 DEF TypeOK, DriverKnowsItsRun, RowHasWhatItNeeds, At,
       CallingPCs, VerifyingPCs, tables, business, settings, memory,
       RecordOutcomeFails
  <1>40. ASSUME NEW r \in Runs, RecordRequestFails(r)
        PROVE  DriverKnowsItsRun' /\ RowHasWhatItNeeds'
    BY <1>40 DEF TypeOK, DriverKnowsItsRun, RowHasWhatItNeeds, At,
       CallingPCs, VerifyingPCs, tables, business, settings, memory,
       RecordRequestFails
  <1>23. ASSUME NEW r \in Runs, StopReachesDecide(r)
        PROVE  DriverKnowsItsRun' /\ RowHasWhatItNeeds'
    BY <1>23 DEF TypeOK, DriverKnowsItsRun, RowHasWhatItNeeds, At,
       CallingPCs, VerifyingPCs, tables, business, settings, memory,
       StopReachesDecide
  <1>24. ASSUME NEW r \in Runs, ErrorReachesDecide(r)
        PROVE  DriverKnowsItsRun' /\ RowHasWhatItNeeds'
    <2>1. run[r] \in RunRow
      BY DEF TypeOK
    <2>2. CASE run' = run
      BY <1>24, <2>2 DEF TypeOK, DriverKnowsItsRun, RowHasWhatItNeeds,
         At, CallingPCs, VerifyingPCs, tables, business, settings,
         memory, ErrorReachesDecide
    <2>3. CASE run' # run
      BY <1>24, <2>1, <2>3, EndingKeepsTheRows DEF ErrorReachesDecide,
         At, WriteRun, EndedStatuses
    <2>. QED
      BY <2>2, <2>3
  <1>25. ASSUME NEW r \in Runs, RecordProposal(r)
        PROVE  DriverKnowsItsRun' /\ RowHasWhatItNeeds'
    <2>1. run[r] \in RunRow
      BY DEF TypeOK
    <2>2. /\ run'[r].status = "verifying"
           /\ run'[r].target = run[r].target
           /\ run'[r].proposal \in Proposals
           /\ pc'[r] = "verify"
      BY <1>25, <2>1 DEF TypeOK, WriteRun, At, RunRow, RecordProposal
    <2>3. \A q \in Runs \ {r} : run'[q] = run[q] /\ pc'[q] = pc[q]
      BY <1>25 DEF TypeOK, WriteRun, At, RecordProposal
    <2>4. RowFits(run'[r], pc'[r])
      BY <1>25, <2>1, <2>2 DEF RowFits, CallingPCs, VerifyingPCs,
         MayCall, NewRun, Statuses, OpenStatuses, DriverKnowsItsRun,
         RowHasWhatItNeeds, RecordProposal
    <2>. QED
      BY <2>3, <2>4, OneRowMoves
  <1>26. ASSUME NEW r \in Runs, RefuseProposal(r)
        PROVE  DriverKnowsItsRun' /\ RowHasWhatItNeeds'
    BY <1>26 DEF TypeOK, DriverKnowsItsRun, RowHasWhatItNeeds, At,
       CallingPCs, VerifyingPCs, tables, business, settings, memory,
       RefuseProposal
  <1>27. ASSUME NEW r \in Runs, VerifyGoal(r)
        PROVE  DriverKnowsItsRun' /\ RowHasWhatItNeeds'
    BY <1>27 DEF TypeOK, DriverKnowsItsRun, RowHasWhatItNeeds, At,
       CallingPCs, VerifyingPCs, tables, business, settings, memory,
       VerifyGoal
  <1>28. ASSUME NEW r \in Runs, CheckBlock(r)
        PROVE  DriverKnowsItsRun' /\ RowHasWhatItNeeds'
    BY <1>28 DEF TypeOK, DriverKnowsItsRun, RowHasWhatItNeeds, At,
       CallingPCs, VerifyingPCs, tables, business, settings, memory,
       CheckBlock
  <1>29. ASSUME NEW r \in Runs, VerificationFails(r)
        PROVE  DriverKnowsItsRun' /\ RowHasWhatItNeeds'
    <2>1. run[r] \in RunRow
      BY DEF TypeOK
    <2>. QED
      BY <1>29, <2>1, EndingKeepsTheRows DEF VerificationFails, At,
         WriteRun, EndedStatuses
  <1>30. ASSUME NEW r \in Runs, Conclude(r)
        PROVE  DriverKnowsItsRun' /\ RowHasWhatItNeeds'
    <2>1. run[r] \in RunRow
      BY DEF TypeOK
    <2>2. DecisionOutcome(run[r].proposal, verdict[r]).status \in EndedStatuses
      BY DEF DecisionOutcome, EndedStatuses
    <2>. QED
      BY <1>30, <2>1, <2>2, EndingKeepsTheRows DEF Conclude, At,
         WriteRun, EndedStatuses
  <1>31. ASSUME NEW r \in Runs, Crash(r)
        PROVE  DriverKnowsItsRun' /\ RowHasWhatItNeeds'
    BY <1>31 DEF TypeOK, DriverKnowsItsRun, RowHasWhatItNeeds, At,
       CallingPCs, VerifyingPCs, tables, business, settings, memory, Crash
  <1>32. ASSUME NEW h \in Humans, HumanChecks(h)
        PROVE  DriverKnowsItsRun' /\ RowHasWhatItNeeds'
    BY <1>32 DEF TypeOK, DriverKnowsItsRun, RowHasWhatItNeeds, At,
       CallingPCs, VerifyingPCs, tables, business, settings, memory,
       HumanChecks
  <1>33. ASSUME NEW h \in Humans, HumanAssigns(h)
        PROVE  DriverKnowsItsRun' /\ RowHasWhatItNeeds'
    BY <1>33 DEF TypeOK, DriverKnowsItsRun, RowHasWhatItNeeds, At,
       CallingPCs, VerifyingPCs, tables, business, settings, memory,
       HumanAssigns
  <1>34. ASSUME HumanRevokes
        PROVE  DriverKnowsItsRun' /\ RowHasWhatItNeeds'
    BY <1>34 DEF TypeOK, DriverKnowsItsRun, RowHasWhatItNeeds, At,
       CallingPCs, VerifyingPCs, tables, business, settings, memory,
       HumanRevokes
  <1>35. ASSUME NEW o \in Operators, EditPolicy(o)
        PROVE  DriverKnowsItsRun' /\ RowHasWhatItNeeds'
    BY <1>35 DEF TypeOK, DriverKnowsItsRun, RowHasWhatItNeeds, At,
       CallingPCs, VerifyingPCs, tables, business, settings, memory,
       EditPolicy
  <1>36. ASSUME NEW o \in Operators, DeactivateUser(o)
        PROVE  DriverKnowsItsRun' /\ RowHasWhatItNeeds'
    BY <1>36 DEF TypeOK, DriverKnowsItsRun, RowHasWhatItNeeds, At,
       CallingPCs, VerifyingPCs, tables, business, settings, memory,
       DeactivateUser
  <1>37. CASE UNCHANGED vars
    BY <1>37 DEF DriverKnowsItsRun, RowHasWhatItNeeds, vars, tables,
       business, settings, memory
  <1>. QED
    BY <1>1, <1>2, <1>3, <1>4, <1>5, <1>6, <1>7, <1>8, <1>9, <1>10, <1>11,
       <1>12, <1>13, <1>14, <1>15, <1>16, <1>17, <1>18, <1>19, <1>20,
       <1>21, <1>22, <1>40, <1>23, <1>24, <1>25, <1>26, <1>27, <1>28, <1>29,
       <1>30, <1>31, <1>32, <1>33, <1>34, <1>35, <1>36, <1>37 DEF Next,
       NextWithoutCrash, Advance, Fault, Others
-----------------------------------------------------------------------------
(* The trace and the changes.  What TraceInv says of one run, in terms of  *)
(* its row, its two tables, what it changed, and its driver: where it is,  *)
(* the call in flight, what the call left, and the verdict.                *)

TraceFits(row, requests, calls, changes, at, n, what, v) ==
    /\ DOMAIN requests \cup DOMAIN calls = 1 .. row.last_sequence_no
    /\ DOMAIN requests \cap DOMAIN calls = {}
    /\ at \in CallingPCs =>
          /\ n \in DOMAIN calls
          /\ calls[n].status = "started"
          /\ at \in {"count", "insert"} => calls[n].tool_name = Mutation
          /\ at = "record" => what # None
          /\ n \in changes
                <=> at = "record" /\ what = "ok" /\ calls[n].tool_name = Mutation
    /\ \A m \in DOMAIN calls : calls[m].status = "started" =>
          (\A k \in DOMAIN calls : k <= m) /\ row.proposal = None
    /\ \A m \in DOMAIN calls :
          calls[m].tool_name = Mutation /\ calls[m].status \in {"started", "succeeded"}
              => calls[m].policy_decision = "allow"
    /\ \A m \in DOMAIN calls :
          calls[m].tool_name = Mutation /\ calls[m].status = "succeeded"
              => m \in changes
    /\ \A m \in changes :
          /\ m \in DOMAIN calls
          /\ calls[m].tool_name = Mutation
          /\ calls[m].status \in {"started", "succeeded"}
    /\ at \in VerifyingPCs => (v.changed <=> changes # {})
    /\ row.status = "completed"
          => (row.outcome_reason = "goal_satisfied" <=> changes # {})

RunTraceFits(r) ==
    TraceFits(run[r], model_calls[r], tool_calls[r], changed_by[r], pc[r],
              call[r], outcome[r], verdict[r])

\* The parts of TraceInv that are about the trace.
TraceParts ==
    /\ TraceIsOneOrder
    /\ CallInFlightIsStarted
    /\ UnfinishedCallIsTheLast
    /\ StartedMutationsWereAllowed
    /\ ChangesAreOnTheTrace
    /\ VerdictKnowsTheChange
    /\ OutcomeTellsTheChange

\* The parts hold if the predicate holds of each run ...
LEMMA TracePartsOfEach ==
    ASSUME TraceParts, NEW r \in Runs
    PROVE  RunTraceFits(r)
  BY DEF TraceParts, TraceIsOneOrder, CallInFlightIsStarted,
     UnfinishedCallIsTheLast, StartedMutationsWereAllowed,
     ChangesAreOnTheTrace, VerdictKnowsTheChange, OutcomeTellsTheChange,
     RunTraceFits, TraceFits, MutationsWith, CallsOf, ToolInFlight

\* What one step leaves of everybody else's runs.
OthersRest(r) ==
    \A q \in Runs \ {r} :
        /\ run'[q] = run[q] /\ model_calls'[q] = model_calls[q]
        /\ tool_calls'[q] = tool_calls[q] /\ changed_by'[q] = changed_by[q]
        /\ pc'[q] = pc[q] /\ call'[q] = call[q]
        /\ outcome'[q] = outcome[q] /\ verdict'[q] = verdict[q]

\* ... and, after a step, the other way round.
LEMMA EachTraceFits ==
    ASSUME \A q \in Runs : RunTraceFits(q)'
    PROVE  TraceParts'
  <1>1. TraceIsOneOrder' /\ CallInFlightIsStarted' /\ UnfinishedCallIsTheLast'
    BY DEF TraceIsOneOrder, CallInFlightIsStarted, UnfinishedCallIsTheLast,
       RunTraceFits, TraceFits, ToolInFlight
  <1>2. StartedMutationsWereAllowed' /\ ChangesAreOnTheTrace'
    BY DEF StartedMutationsWereAllowed, ChangesAreOnTheTrace, RunTraceFits,
       TraceFits, MutationsWith, CallsOf
  <1>3. VerdictKnowsTheChange' /\ OutcomeTellsTheChange'
    BY DEF VerdictKnowsTheChange, OutcomeTellsTheChange, RunTraceFits,
       TraceFits
  <1>. QED  BY <1>1, <1>2, <1>3 DEF TraceParts

\* A step that moves one run need only be looked at there.
LEMMA OneTraceMoves ==
    ASSUME TraceParts, NEW r \in Runs, OthersRest(r), RunTraceFits(r)'
    PROVE  TraceParts'
  <1>1. \A q \in Runs : RunTraceFits(q)
    BY TracePartsOfEach
  <1>2. \A q \in Runs : RunTraceFits(q)'
    BY <1>1 DEF OthersRest, RunTraceFits
  <1>. QED  BY <1>2, EachTraceFits

PutAt(calls, new, k) ==
    /\ DOMAIN Put(calls, k, new) = DOMAIN calls \cup {k}
    /\ Put(calls, k, new)[k] = new
    /\ \A m \in DOMAIN calls : m # k => Put(calls, k, new)[m] = calls[m]

\* PutIsTable, for tool calls and any number.
LEMMA PutCall ==
    ASSUME NEW calls, IsTable(calls, ToolCallRow), NEW new \in ToolCallRow
    PROVE  \A k \in Nat : PutAt(calls, new, k)
  BY PutIsTable DEF PutAt

\* A step that writes no call and concludes nothing: the row moves on, or ends.
LEMMA QuietStep ==
    ASSUME NEW row \in RunRow, NEW to \in RunRow, NEW requests, NEW calls,
           NEW changes, NEW at, NEW n, NEW what, NEW v,
           TraceFits(row, requests, calls, changes, at, n, what, v),
           to.last_sequence_no = row.last_sequence_no,
           to.proposal = row.proposal,
           to.status = "completed" => row.status = "completed"
                                      /\ to.outcome_reason = row.outcome_reason,
           NEW next \in PCs \ (CallingPCs \cup VerifyingPCs),
           NEW n2, NEW what2, NEW v2
    PROVE  TraceFits(to, requests, calls, changes, next, n2, what2, v2)
  BY DEF TraceFits

\* A model request is recorded under the run's next number.
LEMMA RequestStep ==
    ASSUME NEW row \in RunRow, NEW requests, NEW requests2, NEW calls,
           NEW changes, NEW at, NEW n, NEW what, NEW v,
           TraceFits(row, requests, calls, changes, at, n, what, v),
           DOMAIN requests2 = DOMAIN requests \cup {row.last_sequence_no + 1},
           NEW next \in PCs \ (CallingPCs \cup VerifyingPCs),
           NEW n2, NEW what2, NEW v2
    PROVE  TraceFits(Numbered(row), requests2, calls, changes, next, n2, what2, v2)
  <1>. DEFINE last == row.last_sequence_no
  <1>1. /\ last \in Nat
        /\ Numbered(row).last_sequence_no = last + 1
        /\ Numbered(row).status = row.status
        /\ Numbered(row).proposal = row.proposal
        /\ Numbered(row).outcome_reason = row.outcome_reason
    BY NumberedIsRow DEF RunRow
  <1>2. DOMAIN requests \cup DOMAIN calls = 1 .. last
        /\ DOMAIN requests \cap DOMAIN calls = {}
    BY DEF TraceFits
  <1>3. DOMAIN requests2 \cup DOMAIN calls = 1 .. last + 1
        /\ DOMAIN requests2 \cap DOMAIN calls = {}
    BY <1>1, <1>2
  <1>. QED  BY <1>1, <1>3 DEF TraceFits

\* A call is recorded, under the run's next number, and never runs.
LEMMA UnrunStep ==
    ASSUME NEW row \in RunRow, NEW to \in RunRow, NEW requests, NEW calls,
           IsTable(calls, ToolCallRow), NEW new \in ToolCallRow,
           NEW changes, NEW at, NEW n, NEW what, NEW v,
           TraceFits(row, requests, calls, changes, at, n, what, v),
           \A m \in DOMAIN calls : calls[m].status # "started",
           new.status \in {"failed", "awaiting_approval"},
           to.last_sequence_no = row.last_sequence_no + 1,
           to.status # "completed",
           NEW next \in PCs \ (CallingPCs \cup VerifyingPCs),
           NEW n2, NEW what2, NEW v2
    PROVE  TraceFits(to, requests, Put(calls, row.last_sequence_no + 1, new),
                     changes, next, n2, what2, v2)
  <1>. DEFINE last == row.last_sequence_no
              calls2 == Put(calls, last + 1, new)
  <1>1. last \in Nat /\ last + 1 \in Nat
    BY DEF RunRow
  <1>2. PutAt(calls, new, last + 1)
    BY <1>1, PutCall
  <1>3. DOMAIN requests \cup DOMAIN calls = 1 .. last
        /\ DOMAIN requests \cap DOMAIN calls = {}
    BY DEF TraceFits
  <1>4. DOMAIN requests \cup DOMAIN calls2 = 1 .. last + 1
        /\ DOMAIN requests \cap DOMAIN calls2 = {}
    BY <1>1, <1>2, <1>3 DEF PutAt
  <1>5. \A m \in DOMAIN calls : m # last + 1
    BY <1>1, <1>3
  <1>. HIDE DEF calls2
  <1>. QED
    BY <1>1, <1>2, <1>4, <1>5 DEF TraceFits, PutAt, calls2

\* A call is admitted: it is the call in flight, and has changed nothing yet.
LEMMA AdmitStep ==
    ASSUME NEW row \in RunRow, NEW to \in RunRow, NEW requests, NEW calls,
           IsTable(calls, ToolCallRow), NEW new \in ToolCallRow,
           NEW changes, NEW at, NEW n, NEW what, NEW v,
           TraceFits(row, requests, calls, changes, at, n, what, v),
           \A m \in DOMAIN calls : calls[m].status # "started",
           new.status = "started",
           new.tool_name = Mutation => new.policy_decision = "allow",
           NEW n2, n2 = row.last_sequence_no + 1,
           to.last_sequence_no = n2,
           to.proposal = None,
           to.status # "completed",
           NEW what2, NEW v2
    PROVE  TraceFits(to, requests, Put(calls, n2, new), changes, "business", n2,
                     what2, v2)
  <1>. DEFINE last == row.last_sequence_no
              calls2 == Put(calls, n2, new)
  <1>1. last \in Nat /\ n2 = last + 1 /\ n2 \in Nat
    BY DEF RunRow
  <1>2. PutAt(calls, new, n2)
    BY <1>1, PutCall
  <1>3. DOMAIN requests \cup DOMAIN calls = 1 .. last
        /\ DOMAIN requests \cap DOMAIN calls = {}
    BY DEF TraceFits
  <1>4. DOMAIN requests \cup DOMAIN calls2 = 1 .. last + 1
        /\ DOMAIN requests \cap DOMAIN calls2 = {}
    BY <1>1, <1>2, <1>3 DEF PutAt
  <1>5. /\ \A m \in DOMAIN calls : m # last + 1 /\ m <= last + 1
        /\ last + 1 \notin changes
    BY <1>1, <1>3 DEF TraceFits
  <1>. HIDE DEF calls2
  <1>. QED
    BY <1>1, <1>2, <1>4, <1>5 DEF TraceFits, PutAt, calls2, CallingPCs, VerifyingPCs

\* A business transaction gets on, or is over; only a commit changes anything.
LEMMA BusinessStep ==
    ASSUME NEW row, NEW requests, NEW calls, NEW changes, NEW at, NEW n,
           NEW what, NEW v,
           TraceFits(row, requests, calls, changes, at, n, what, v),
           at \in {"business", "count", "insert"},
           row.status # "completed",
           NEW next \in {"count", "insert", "record"}, NEW what2, NEW changes2,
           next # "record" => calls[n].tool_name = Mutation,
           next = "record" => what2 # None,
           IF next = "record" /\ what2 = "ok" /\ calls[n].tool_name = Mutation
           THEN changes2 = changes \cup {n} ELSE changes2 = changes
    PROVE  TraceFits(row, requests, calls, changes2, next, n, what2, v)
  BY DEF TraceFits, CallingPCs, VerifyingPCs

\* The outcome of the call in flight is recorded.
LEMMA OutcomeStep ==
    ASSUME NEW row \in RunRow, NEW to \in RunRow, NEW requests, NEW calls,
           IsTable(calls, ToolCallRow), NEW new \in ToolCallRow,
           NEW changes, NEW n, NEW what, NEW v,
           TraceFits(row, requests, calls, changes, "record", n, what, v),
           new.tool_name = calls[n].tool_name,
           new.policy_decision = calls[n].policy_decision,
           new.status = IF what = "ok" THEN "succeeded" ELSE "failed",
           to.last_sequence_no = row.last_sequence_no,
           to.proposal = row.proposal,
           to.status # "completed",
           NEW n2, NEW what2, NEW v2
    PROVE  TraceFits(to, requests, Put(calls, n, new), changes, "planning",
                     n2, what2, v2)
  <1>. DEFINE calls2 == Put(calls, n, new)
  <1>1. n \in DOMAIN calls /\ n \in Nat
    BY DEF TraceFits, CallingPCs, IsTable
  <1>2. /\ DOMAIN calls2 = DOMAIN calls
        /\ calls2[n] = new
        /\ \A m \in DOMAIN calls : m # n => calls2[m] = calls[m]
    BY <1>1, PutIsTable
  <1>. HIDE DEF calls2
  <1>3. n \in changes <=> what = "ok" /\ calls[n].tool_name = Mutation
    BY DEF TraceFits, CallingPCs
  <1>4. calls[n].tool_name = Mutation => calls[n].policy_decision = "allow"
    BY <1>1 DEF TraceFits, CallingPCs
  <1>. QED
    BY <1>1, <1>2, <1>3, <1>4 DEF TraceFits, calls2, CallingPCs, VerifyingPCs

\* Verification begins: with no call unfinished, the changes are exactly the
\* mutations that succeeded.
LEMMA ProposalStep ==
    ASSUME NEW row \in RunRow, NEW to \in RunRow, NEW requests, NEW calls,
           NEW changes, NEW at, NEW n, NEW what, NEW v,
           TraceFits(row, requests, calls, changes, at, n, what, v),
           \A m \in DOMAIN calls : calls[m].status # "started",
           to.last_sequence_no = row.last_sequence_no,
           to.status # "completed",
           NEW n2, NEW what2, NEW v2,
           v2.changed <=> \E m \in DOMAIN calls :
               calls[m].tool_name = Mutation /\ calls[m].status = "succeeded"
    PROVE  TraceFits(to, requests, calls, changes, "verify", n2, what2, v2)
  BY DEF TraceFits, CallingPCs, VerifyingPCs

\* Verification goes on, or is over: what it knows of the change stays.
LEMMA VerdictStep ==
    ASSUME NEW row \in RunRow, NEW to \in RunRow, NEW requests, NEW calls,
           NEW changes, NEW at \in VerifyingPCs, NEW n, NEW what, NEW v,
           TraceFits(row, requests, calls, changes, at, n, what, v),
           NEW next \in VerifyingPCs \cup {"returned"}, NEW v2,
           v2.changed <=> v.changed,
           to.last_sequence_no = row.last_sequence_no,
           to.proposal = row.proposal,
           to.status = "completed"
              => (to.outcome_reason = "goal_satisfied" <=> v.changed)
    PROVE  TraceFits(to, requests, calls, changes, next, n, what, v2)
  BY DEF TraceFits, CallingPCs, VerifyingPCs

\* A step of nobody's run leaves the trace alone.
LEMMA SameTrace ==
    ASSUME TraceParts,
           UNCHANGED <<run, model_calls, tool_calls, changed_by, pc, call,
                       outcome, verdict>>
    PROVE  TraceParts'
  <1>1. \A q \in Runs : RunTraceFits(q)
    BY TracePartsOfEach
  <1>. QED
    BY <1>1, EachTraceFits DEF RunTraceFits

\* The outcome of a call, recorded in its row.
LEMMA RecordedIsRow ==
    ASSUME NEW row \in ToolCallRow, NEW what \in Outcomes
    PROVE  [row EXCEPT
               !.status = IF what = "ok" THEN "succeeded" ELSE "failed",
               !.error = IF what = "ok" THEN None ELSE what,
               !.observation = Observe(row.tool_name, what),
               !.completed_at = TRUE] \in ToolCallRow
  BY ObserveType DEF ToolCallRow, CallStatuses

\* The kinds of step again, each as a step of the system: a quiet step,
LEMMA QuietRun ==
    ASSUME TypeOK, TypeOK', TraceParts, NEW r \in Runs, OthersRest(r),
           UNCHANGED <<model_calls, tool_calls, changed_by>>,
           run'[r].last_sequence_no = run[r].last_sequence_no,
           run'[r].proposal = run[r].proposal,
           run'[r].status = "completed" => run'[r] = run[r],
           pc'[r] \notin CallingPCs \cup VerifyingPCs
    PROVE  TraceParts'
  <1>1. /\ run[r] \in RunRow /\ run'[r] \in RunRow
        /\ pc'[r] \in PCs \ (CallingPCs \cup VerifyingPCs)
    BY DEF TypeOK
  <1>2. RunTraceFits(r)
    BY TracePartsOfEach
  <1>3. RunTraceFits(r)'
    BY <1>1, <1>2, QuietStep DEF RunTraceFits
  <1>. QED  BY <1>3, OneTraceMoves

\* a model request recorded,
LEMMA RequestRun ==
    ASSUME TypeOK, TypeOK', TraceParts, NEW r \in Runs, OthersRest(r),
           NEW ok \in BOOLEAN, NEW stage \in {"extraction", "decision"},
           RecordModelCall(r, stage, ok), UNCHANGED <<tool_calls, changed_by>>,
           pc'[r] \notin CallingPCs \cup VerifyingPCs
    PROVE  TraceParts'
  <1>1. /\ run[r] \in RunRow /\ run'[r] = Numbered(run[r])
        /\ DOMAIN model_calls'[r]
              = DOMAIN model_calls[r] \cup {run[r].last_sequence_no + 1}
        /\ pc'[r] \in PCs \ (CallingPCs \cup VerifyingPCs)
    BY ModelCallTypes DEF TypeOK, NextSeq
  <1>2. RunTraceFits(r)
    BY TracePartsOfEach
  <1>3. RunTraceFits(r)'
    BY <1>1, <1>2, RequestStep DEF RunTraceFits
  <1>. QED  BY <1>3, OneTraceMoves

\* a call recorded that never runs,
LEMMA UnrunRun ==
    ASSUME TypeOK, TypeOK', TraceParts, NEW r \in Runs, OthersRest(r),
           ~AnyStarted(r), NEW new \in ToolCallRow,
           new.status \in {"failed", "awaiting_approval"},
           WriteCall(r, NextSeq(r), new), UNCHANGED <<model_calls, changed_by>>,
           run'[r].last_sequence_no = run[r].last_sequence_no + 1,
           run'[r].status # "completed",
           pc'[r] \notin CallingPCs \cup VerifyingPCs
    PROVE  TraceParts'
  <1>1. /\ run[r] \in RunRow /\ run'[r] \in RunRow
        /\ IsTable(tool_calls[r], ToolCallRow)
        /\ pc'[r] \in PCs \ (CallingPCs \cup VerifyingPCs)
        /\ tool_calls'[r] = Put(tool_calls[r], run[r].last_sequence_no + 1, new)
        /\ \A m \in DOMAIN tool_calls[r] : tool_calls[r][m].status # "started"
    BY DEF TypeOK, WriteCall, NextSeq, AnyStarted
  <1>2. RunTraceFits(r)
    BY TracePartsOfEach
  <1>3. RunTraceFits(r)'
    BY <1>1, <1>2, UnrunStep DEF RunTraceFits
  <1>. QED  BY <1>3, OneTraceMoves

\* a step of a business transaction,
LEMMA BusinessRun ==
    ASSUME TypeOK, TypeOK', DriverKnowsItsRun, TraceParts, NEW r \in Runs,
           OthersRest(r),
           pc[r] \in {"business", "count", "insert"},
           pc'[r] \in {"count", "insert", "record"},
           UNCHANGED <<tables, call, verdict>>,
           pc'[r] # "record" => ToolInFlight(r) = Mutation,
           pc'[r] = "record" => outcome'[r] # None,
           IF pc'[r] = "record" /\ outcome'[r] = "ok" /\ ToolInFlight(r) = Mutation
           THEN changed_by'[r] = changed_by[r] \cup {call[r]}
           ELSE changed_by'[r] = changed_by[r]
    PROVE  TraceParts'
  <1>1. run[r].status # "completed"
    BY DEF DriverKnowsItsRun, CallingPCs
  <1>2. RunTraceFits(r)
    BY TracePartsOfEach
  <1>3. RunTraceFits(r)'
    BY <1>1, <1>2, BusinessStep DEF RunTraceFits, ToolInFlight, tables
  <1>. QED  BY <1>3, OneTraceMoves

\* a step of the verification.
LEMMA VerdictRun ==
    ASSUME TypeOK, TypeOK', TraceParts, NEW r \in Runs, OthersRest(r),
           UNCHANGED <<model_calls, tool_calls, changed_by, call, outcome>>,
           pc[r] \in VerifyingPCs, pc'[r] \in VerifyingPCs \cup {"returned"},
           verdict'[r].changed <=> verdict[r].changed,
           run'[r].last_sequence_no = run[r].last_sequence_no,
           run'[r].proposal = run[r].proposal,
           run'[r].status = "completed"
              => (run'[r].outcome_reason = "goal_satisfied" <=> verdict[r].changed)
    PROVE  TraceParts'
  <1>1. run[r] \in RunRow /\ run'[r] \in RunRow
    BY DEF TypeOK
  <1>2. RunTraceFits(r)
    BY TracePartsOfEach
  <1>3. RunTraceFits(r)'
    BY <1>1, <1>2, VerdictStep DEF RunTraceFits
  <1>. QED  BY <1>3, OneTraceMoves

\* Every step keeps the parts about the trace.
LEMMA TraceStep ==
    ASSUME TypeOK, TypeOK', DriverKnowsItsRun, RowHasWhatItNeeds, TraceParts,
           [Next]_vars
    PROVE  TraceParts'
  <1>. USE AgentExecutorAssumption, AgentDomainAssumption
  <1>1. ASSUME NEW r \in Runs, ReceiveRun(r)
        PROVE  TraceParts'
    <2>1. OthersRest(r)
      BY <1>1 DEF ReceiveRun, MayCall, OthersRest, TypeOK, At, WriteRun,
         WriteCall, RecordModelCall, Leaves, tables, business, settings,
         memory
    <2>2. run[r] \in RunRow /\ run'[r] \in RunRow
      BY DEF TypeOK
    <2>3. UNCHANGED <<model_calls, tool_calls, changed_by>>
      BY <1>1 DEF ReceiveRun, tables, business
    <2>4. pc'[r] \notin CallingPCs \cup VerifyingPCs
      BY <1>1 DEF ReceiveRun, At, TypeOK, CallingPCs, VerifyingPCs
    <2>5. /\ run'[r].last_sequence_no = run[r].last_sequence_no
          /\ run'[r].proposal = run[r].proposal
          /\ run'[r].status # "completed"
      BY <1>1, <2>2 DEF ReceiveRun, WriteRun, At, TypeOK,
         DriverKnowsItsRun, NewRun, NoRun, RunRow
    <2>. QED
      BY <2>1, <2>3, <2>4, <2>5, QuietRun
  <1>2. ASSUME NEW r \in Runs, ExtractionRequest(r)
        PROVE  TraceParts'
    <2>1. OthersRest(r)
      BY <1>2 DEF ExtractionRequest, MayCall, OthersRest, TypeOK, At,
         WriteRun, WriteCall, RecordModelCall, Leaves, tables, business,
         settings, memory
    <2>2. run[r] \in RunRow /\ run'[r] \in RunRow
      BY DEF TypeOK
    <2>3. pc'[r] \notin CallingPCs \cup VerifyingPCs
      BY <1>2 DEF ExtractionRequest, At, TypeOK, CallingPCs, VerifyingPCs
    <2>. QED
      BY <1>2, <2>1, <2>3, RequestRun DEF ExtractionRequest, business
  <1>3. ASSUME NEW r \in Runs, ExtractGoal(r)
        PROVE  TraceParts'
    <2>1. OthersRest(r)
      BY <1>3 DEF ExtractGoal, MayCall, OthersRest, TypeOK, At, WriteRun,
         WriteCall, RecordModelCall, Leaves, tables, business, settings,
         memory
    <2>2. run[r] \in RunRow /\ run'[r] \in RunRow
      BY DEF TypeOK
    <2>3. UNCHANGED <<model_calls, tool_calls, changed_by>>
      BY <1>3 DEF ExtractGoal, tables, business
    <2>4. pc'[r] \notin CallingPCs \cup VerifyingPCs
      BY <1>3 DEF ExtractGoal, At, TypeOK, CallingPCs, VerifyingPCs
    <2>5. /\ run'[r].last_sequence_no = run[r].last_sequence_no
          /\ run'[r].proposal = run[r].proposal
          /\ run'[r].status # "completed"
      BY <1>3, <2>2 DEF ExtractGoal, WriteRun, At, TypeOK,
         DriverKnowsItsRun, NewRun, NoRun, RunRow
    <2>. QED
      BY <2>1, <2>3, <2>4, <2>5, QuietRun
  <1>4. ASSUME NEW r \in Runs, ExtractNothing(r)
        PROVE  TraceParts'
    <2>1. OthersRest(r)
      BY <1>4 DEF ExtractNothing, MayCall, OthersRest, TypeOK, At,
         WriteRun, WriteCall, RecordModelCall, Leaves, tables, business,
         settings, memory
    <2>2. run[r] \in RunRow /\ run'[r] \in RunRow
      BY DEF TypeOK
    <2>3. UNCHANGED <<model_calls, tool_calls, changed_by>>
      BY <1>4 DEF ExtractNothing, tables, business
    <2>4. pc'[r] \notin CallingPCs \cup VerifyingPCs
      BY <1>4 DEF ExtractNothing, At, TypeOK, CallingPCs, VerifyingPCs
    <2>5. /\ run'[r].last_sequence_no = run[r].last_sequence_no
          /\ run'[r].proposal = run[r].proposal
          /\ run'[r].status = "completed" => run'[r] = run[r]
      BY <1>4, <2>2, EndedKeeps DEF ExtractNothing, WriteRun, At, TypeOK
    <2>. QED
      BY <2>1, <2>3, <2>4, <2>5, QuietRun
  <1>5. ASSUME NEW r \in Runs, ResolveGoal(r)
        PROVE  TraceParts'
    <2>1. OthersRest(r)
      BY <1>5 DEF ResolveGoal, MayCall, OthersRest, TypeOK, At, WriteRun,
         WriteCall, RecordModelCall, Leaves, tables, business, settings,
         memory
    <2>2. run[r] \in RunRow /\ run'[r] \in RunRow
      BY DEF TypeOK
    <2>3. UNCHANGED <<model_calls, tool_calls, changed_by>>
      BY <1>5 DEF ResolveGoal, tables, business
    <2>4. pc'[r] \notin CallingPCs \cup VerifyingPCs
      BY <1>5 DEF ResolveGoal, At, TypeOK, CallingPCs, VerifyingPCs
    <2>5. /\ run'[r].last_sequence_no = run[r].last_sequence_no
          /\ run'[r].proposal = run[r].proposal
          /\ run'[r].status # "completed"
      BY <1>5, <2>2 DEF ResolveGoal, WriteRun, At, TypeOK,
         DriverKnowsItsRun, NewRun, NoRun, RunRow
    <2>. QED
      BY <2>1, <2>3, <2>4, <2>5, QuietRun
  <1>6. ASSUME NEW r \in Runs, ResolveNothing(r)
        PROVE  TraceParts'
    <2>1. OthersRest(r)
      BY <1>6 DEF ResolveNothing, MayCall, OthersRest, TypeOK, At,
         WriteRun, WriteCall, RecordModelCall, Leaves, tables, business,
         settings, memory
    <2>2. run[r] \in RunRow /\ run'[r] \in RunRow
      BY DEF TypeOK
    <2>3. UNCHANGED <<model_calls, tool_calls, changed_by>>
      BY <1>6 DEF ResolveNothing, tables, business
    <2>4. pc'[r] \notin CallingPCs \cup VerifyingPCs
      BY <1>6 DEF ResolveNothing, At, TypeOK, CallingPCs, VerifyingPCs
    <2>5. /\ run'[r].last_sequence_no = run[r].last_sequence_no
          /\ run'[r].proposal = run[r].proposal
          /\ run'[r].status = "completed" => run'[r] = run[r]
      BY <1>6, <2>2, EndedKeeps DEF ResolveNothing, WriteRun, At, TypeOK
    <2>. QED
      BY <2>1, <2>3, <2>4, <2>5, QuietRun
  <1>7. ASSUME NEW r \in Runs, StartDecision(r)
        PROVE  TraceParts'
    <2>1. OthersRest(r)
      BY <1>7 DEF StartDecision, MayCall, OthersRest, TypeOK, At,
         WriteRun, WriteCall, RecordModelCall, Leaves, tables, business,
         settings, memory
    <2>2. run[r] \in RunRow /\ run'[r] \in RunRow
      BY DEF TypeOK
    <2>3. UNCHANGED <<model_calls, tool_calls, changed_by>>
      BY <1>7 DEF StartDecision, tables, business
    <2>4. pc'[r] \notin CallingPCs \cup VerifyingPCs
      BY <1>7 DEF StartDecision, At, TypeOK, CallingPCs, VerifyingPCs
    <2>5. /\ run'[r].last_sequence_no = run[r].last_sequence_no
          /\ run'[r].proposal = run[r].proposal
          /\ run'[r].status # "completed"
      BY <1>7, <2>2 DEF StartDecision, WriteRun, At, TypeOK,
         DriverKnowsItsRun, NewRun, NoRun, RunRow
    <2>. QED
      BY <2>1, <2>3, <2>4, <2>5, QuietRun
  <1>8. ASSUME NEW r \in Runs, BeforeRequest(r)
        PROVE  TraceParts'
    <2>1. OthersRest(r)
      BY <1>8 DEF BeforeRequest, MayCall, OthersRest, TypeOK, At,
         WriteRun, WriteCall, RecordModelCall, Leaves, tables, business,
         settings, memory
    <2>2. run[r] \in RunRow /\ run'[r] \in RunRow
      BY DEF TypeOK
    <2>3. UNCHANGED <<tables, changed_by>>
      BY <1>8 DEF BeforeRequest, tables, business
    <2>4. pc'[r] \notin CallingPCs \cup VerifyingPCs
      BY <1>8 DEF BeforeRequest, At, TypeOK, CallingPCs, VerifyingPCs
    <2>. QED
      BY <1>8, <2>1, <2>3, <2>4, QuietRun DEF tables
  <1>9. ASSUME NEW r \in Runs, RequestOverLimit(r)
        PROVE  TraceParts'
    <2>1. OthersRest(r)
      BY <1>9 DEF RequestOverLimit, MayCall, OthersRest, TypeOK, At,
         WriteRun, WriteCall, RecordModelCall, Leaves, tables, business,
         settings, memory
    <2>2. run[r] \in RunRow /\ run'[r] \in RunRow
      BY DEF TypeOK
    <2>3. UNCHANGED <<model_calls, tool_calls, changed_by>>
      BY <1>9 DEF RequestOverLimit, tables, business
    <2>4. pc'[r] \notin CallingPCs \cup VerifyingPCs
      BY <1>9 DEF RequestOverLimit, At, TypeOK, CallingPCs, VerifyingPCs
    <2>5. /\ run'[r].last_sequence_no = run[r].last_sequence_no
          /\ run'[r].proposal = run[r].proposal
          /\ run'[r].status = "completed" => run'[r] = run[r]
      BY <1>9, <2>2, EndedKeeps DEF RequestOverLimit, WriteRun, At,
         TypeOK
    <2>. QED
      BY <2>1, <2>3, <2>4, <2>5, QuietRun
  <1>10. ASSUME NEW r \in Runs, RecordRequest(r)
        PROVE  TraceParts'
    <2>1. OthersRest(r)
      BY <1>10 DEF RecordRequest, MayCall, OthersRest, TypeOK, At,
         WriteRun, WriteCall, RecordModelCall, Leaves, tables, business,
         settings, memory
    <2>2. run[r] \in RunRow /\ run'[r] \in RunRow
      BY DEF TypeOK
    <2>3. pc'[r] \notin CallingPCs \cup VerifyingPCs
      BY <1>10 DEF RecordRequest, At, TypeOK, CallingPCs, VerifyingPCs
    <2>. QED
      BY <1>10, <2>1, <2>3, RequestRun DEF RecordRequest, business
  <1>11. ASSUME NEW r \in Runs, RefuseCall(r)
        PROVE  TraceParts'
    <2>1. OthersRest(r)
      BY <1>11 DEF RefuseCall, MayCall, OthersRest, TypeOK, At, WriteRun,
         WriteCall, RecordModelCall, Leaves, tables, business, settings,
         memory
    <2>2. run[r] \in RunRow /\ run'[r] \in RunRow
      BY DEF TypeOK
    <2>3. UNCHANGED <<tables, changed_by>>
      BY <1>11 DEF RefuseCall, tables, business
    <2>4. pc'[r] \notin CallingPCs \cup VerifyingPCs
      BY <1>11 DEF RefuseCall, At, TypeOK, CallingPCs, VerifyingPCs
    <2>. QED
      BY <1>11, <2>1, <2>3, <2>4, QuietRun DEF tables
  <1>12. ASSUME NEW r \in Runs, NEW tool \in Tools, CallOverLimit(r, tool)
        PROVE  TraceParts'
    <2>1. OthersRest(r)
      BY <1>12 DEF CallOverLimit, MayCall, OthersRest, TypeOK, At,
         WriteRun, WriteCall, RecordModelCall, Leaves, tables, business,
         settings, memory
    <2>2. run[r] \in RunRow /\ run'[r] \in RunRow
      BY DEF TypeOK
    <2>. DEFINE new == NeverRun(tool, None, "step_limit")
    <2>3. pc'[r] \notin CallingPCs \cup VerifyingPCs
      BY <1>12 DEF CallOverLimit, At, TypeOK, CallingPCs, VerifyingPCs
    <2>4. /\ new \in ToolCallRow
          /\ new.status \in {"failed", "awaiting_approval"}
      BY DEF NeverRun, Started, ToolCallRow, CallStatuses, Tools,
         Policies, ErrorCodes
    <2>5. /\ Numbered(run[r]) \in RunRow
          /\ Numbered(run[r]).last_sequence_no = run[r].last_sequence_no + 1
      BY <2>2, NumberedIsRow
    <2>6. /\ run'[r].last_sequence_no = run[r].last_sequence_no + 1
          /\ run'[r].status # "completed"
      BY <1>12, <2>2, <2>5, EndedKeeps DEF CallOverLimit, WriteRun,
         TypeOK
    <2>. HIDE DEF new
    <2>7. /\ WriteCall(r, NextSeq(r), new) /\ ~AnyStarted(r)
          /\ UNCHANGED <<model_calls, changed_by>>
      BY <1>12 DEF CallOverLimit, MayCall, business, new
    <2>. QED
      BY <2>1, <2>3, <2>4, <2>6, <2>7, UnrunRun
  <1>13. ASSUME NEW r \in Runs, NEW tool \in Tools, AdmitCall(r, tool)
        PROVE  TraceParts'
    <2>1. OthersRest(r)
      BY <1>13 DEF AdmitCall, MayCall, OthersRest, TypeOK, At, WriteRun,
         WriteCall, RecordModelCall, Leaves, tables, business, settings,
         memory
    <2>2. run[r] \in RunRow /\ run'[r] \in RunRow
      BY DEF TypeOK
    <2>. DEFINE new == Started(tool, PolicyDecision(r, tool))
    <2>3. /\ run[r].status = "executing" /\ run[r].target \in Pairs
          /\ run[r].proposal = None
      BY <1>13 DEF AdmitCall, MayCall, RowHasWhatItNeeds
    <2>4. PolicyDecision(r, tool) \in Policies \cup {None}
      BY <2>3 DEF PolicyDecision, TypeOK, Pairs
    <2>5. tool = Mutation => PolicyDecision(r, tool) = "allow"
      BY <1>13, <2>3 DEF AdmitCall, PolicyDecision, TypeOK, Pairs
    <2>6. /\ new \in ToolCallRow /\ new.status = "started"
          /\ new.tool_name = Mutation => new.policy_decision = "allow"
      BY <2>4, <2>5 DEF Started, ToolCallRow, CallStatuses
    <2>7. /\ run'[r] = Numbered(run[r]) /\ pc'[r] = "business"
          /\ call'[r] = run[r].last_sequence_no + 1
          /\ UNCHANGED <<model_calls, changed_by>>
      BY <1>13 DEF AdmitCall, TypeOK, WriteRun, At, NextSeq, business
    <2>8. /\ run'[r].last_sequence_no = run[r].last_sequence_no + 1
          /\ run'[r].proposal = None /\ run'[r].status # "completed"
      BY <2>2, <2>3, <2>7, NumberedIsRow
    <2>9. /\ IsTable(tool_calls[r], ToolCallRow)
          /\ \A m \in DOMAIN tool_calls[r] : tool_calls[r][m].status # "started"
      BY <1>13 DEF AdmitCall, MayCall, AnyStarted, TypeOK
    <2>. HIDE DEF new
    <2>10. tool_calls'[r] = Put(tool_calls[r], call'[r], new)
      BY <1>13 DEF AdmitCall, WriteCall, TypeOK, NextSeq, new
    <2>11. RunTraceFits(r)
      BY TracePartsOfEach
    <2>12. TraceFits(run'[r], model_calls[r], Put(tool_calls[r], call'[r], new),
           changed_by[r], "business", call'[r], outcome'[r], verdict'[r])
      BY <2>2, <2>6, <2>7, <2>8, <2>9, <2>11, AdmitStep DEF RunTraceFits
    <2>13. RunTraceFits(r)'
      BY <2>7, <2>10, <2>12 DEF RunTraceFits
    <2>. QED
      BY <2>1, <2>13, OneTraceMoves
  <1>14. ASSUME NEW r \in Runs, DenyCall(r)
        PROVE  TraceParts'
    <2>1. OthersRest(r)
      BY <1>14 DEF DenyCall, MayCall, OthersRest, TypeOK, At, WriteRun,
         WriteCall, RecordModelCall, Leaves, tables, business, settings,
         memory
    <2>2. run[r] \in RunRow /\ run'[r] \in RunRow
      BY DEF TypeOK
    <2>. DEFINE new == NeverRun(Mutation, "deny", "policy_denied")
    <2>3. pc'[r] \notin CallingPCs \cup VerifyingPCs
      BY <1>14 DEF DenyCall, At, TypeOK, CallingPCs, VerifyingPCs
    <2>4. /\ new \in ToolCallRow
          /\ new.status \in {"failed", "awaiting_approval"}
      BY DEF NeverRun, Started, ToolCallRow, CallStatuses, Tools,
         Policies, ErrorCodes
    <2>5. /\ Numbered(run[r]) \in RunRow
          /\ Numbered(run[r]).last_sequence_no = run[r].last_sequence_no + 1
      BY <2>2, NumberedIsRow
    <2>6. /\ run'[r].last_sequence_no = run[r].last_sequence_no + 1
          /\ run'[r].status # "completed"
      BY <1>14, <2>2, <2>5, EndedKeeps DEF DenyCall, WriteRun, TypeOK
    <2>. HIDE DEF new
    <2>7. /\ WriteCall(r, NextSeq(r), new) /\ ~AnyStarted(r)
          /\ UNCHANGED <<model_calls, changed_by>>
      BY <1>14 DEF DenyCall, MayCall, business, new
    <2>. QED
      BY <2>1, <2>3, <2>4, <2>6, <2>7, UnrunRun
  <1>15. ASSUME NEW r \in Runs, HoldCall(r)
        PROVE  TraceParts'
    <2>1. OthersRest(r)
      BY <1>15 DEF HoldCall, MayCall, OthersRest, TypeOK, At, WriteRun,
         WriteCall, RecordModelCall, Leaves, tables, business, settings,
         memory
    <2>2. run[r] \in RunRow /\ run'[r] \in RunRow
      BY DEF TypeOK
    <2>. DEFINE new == [Started(Mutation, "require_approval") EXCEPT !.status = "awaiting_approval"]
    <2>3. pc'[r] \notin CallingPCs \cup VerifyingPCs
      BY <1>15 DEF HoldCall, At, TypeOK, CallingPCs, VerifyingPCs
    <2>4. /\ new \in ToolCallRow
          /\ new.status \in {"failed", "awaiting_approval"}
      BY DEF NeverRun, Started, ToolCallRow, CallStatuses, Tools,
         Policies, ErrorCodes
    <2>5. /\ run'[r].last_sequence_no = run[r].last_sequence_no + 1
          /\ run'[r].status # "completed"
      BY <1>15, <2>2 DEF HoldCall, WriteRun, TypeOK, RunRow, Moved,
         Numbered
    <2>. HIDE DEF new
    <2>6. /\ WriteCall(r, NextSeq(r), new) /\ ~AnyStarted(r)
          /\ UNCHANGED <<model_calls, changed_by>>
      BY <1>15 DEF HoldCall, MayCall, business, new
    <2>. QED
      BY <2>1, <2>3, <2>4, <2>5, <2>6, UnrunRun
  <1>16. ASSUME NEW r \in Runs, ReadTarget(r)
        PROVE  TraceParts'
    <2>1. OthersRest(r)
      BY <1>16 DEF ReadTarget, MayCall, OthersRest, TypeOK, At, WriteRun,
         WriteCall, RecordModelCall, Leaves, tables, business, settings,
         memory
    <2>2. run[r] \in RunRow /\ run'[r] \in RunRow
      BY DEF TypeOK
    <2>3. /\ pc[r] \in {"business", "count", "insert"}
          /\ pc'[r] \in {"count", "insert", "record"}
          /\ UNCHANGED <<tables, call, verdict>>
      BY <1>16 DEF ReadTarget, At, TypeOK, memory
    <2>4. pc'[r] # "record" => ToolInFlight(r) = Mutation
      BY <1>16 DEF ReadTarget, At, TypeOK, TraceParts,
         CallInFlightIsStarted, CallingPCs
    <2>5. pc'[r] = "record" => outcome'[r] # None
      BY <1>16 DEF ReadTarget, At, TypeOK, Leaves, Outcomes, ShownAs
    <2>6. IF pc'[r] = "record" /\ outcome'[r] = "ok" /\ ToolInFlight(r) = Mutation
          THEN changed_by'[r] = changed_by[r] \cup {call[r]}
          ELSE changed_by'[r] = changed_by[r]
      BY <1>16 DEF ReadTarget, At, TypeOK, Leaves, business, TraceParts,
         CallInFlightIsStarted, CallingPCs
    <2>. QED
      BY <2>1, <2>3, <2>4, <2>5, <2>6, BusinessRun
  <1>17. ASSUME NEW r \in Runs, CheckUser(r)
        PROVE  TraceParts'
    <2>1. OthersRest(r)
      BY <1>17 DEF CheckUser, MayCall, OthersRest, TypeOK, At, WriteRun,
         WriteCall, RecordModelCall, Leaves, tables, business, settings,
         memory
    <2>2. run[r] \in RunRow /\ run'[r] \in RunRow
      BY DEF TypeOK
    <2>3. /\ pc[r] \in {"business", "count", "insert"}
          /\ pc'[r] \in {"count", "insert", "record"}
          /\ UNCHANGED <<tables, call, verdict>>
      BY <1>17 DEF CheckUser, At, TypeOK, memory
    <2>4. pc'[r] # "record" => ToolInFlight(r) = Mutation
      BY <1>17 DEF CheckUser, At, TypeOK, TraceParts,
         CallInFlightIsStarted, CallingPCs
    <2>5. pc'[r] = "record" => outcome'[r] # None
      BY <1>17 DEF CheckUser, At, TypeOK, Leaves, Outcomes, ShownAs
    <2>6. IF pc'[r] = "record" /\ outcome'[r] = "ok" /\ ToolInFlight(r) = Mutation
          THEN changed_by'[r] = changed_by[r] \cup {call[r]}
          ELSE changed_by'[r] = changed_by[r]
      BY <1>17 DEF CheckUser, At, TypeOK, Leaves, business, TraceParts,
         CallInFlightIsStarted, CallingPCs
    <2>. QED
      BY <2>1, <2>3, <2>4, <2>5, <2>6, BusinessRun
  <1>18. ASSUME NEW r \in Runs, CountSeats(r)
        PROVE  TraceParts'
    <2>1. OthersRest(r)
      BY <1>18 DEF CountSeats, MayCall, OthersRest, TypeOK, At, WriteRun,
         WriteCall, RecordModelCall, Leaves, tables, business, settings,
         memory
    <2>2. run[r] \in RunRow /\ run'[r] \in RunRow
      BY DEF TypeOK
    <2>3. /\ pc[r] \in {"business", "count", "insert"}
          /\ pc'[r] \in {"count", "insert", "record"}
          /\ UNCHANGED <<tables, call, verdict>>
      BY <1>18 DEF CountSeats, At, TypeOK, memory
    <2>4. pc'[r] # "record" => ToolInFlight(r) = Mutation
      BY <1>18 DEF CountSeats, At, TypeOK, TraceParts,
         CallInFlightIsStarted, CallingPCs
    <2>5. pc'[r] = "record" => outcome'[r] # None
      BY <1>18 DEF CountSeats, At, TypeOK, Leaves, Outcomes, ShownAs
    <2>6. IF pc'[r] = "record" /\ outcome'[r] = "ok" /\ ToolInFlight(r) = Mutation
          THEN changed_by'[r] = changed_by[r] \cup {call[r]}
          ELSE changed_by'[r] = changed_by[r]
      BY <1>18 DEF CountSeats, At, TypeOK, Leaves, business, TraceParts,
         CallInFlightIsStarted, CallingPCs
    <2>. QED
      BY <2>1, <2>3, <2>4, <2>5, <2>6, BusinessRun
  <1>19. ASSUME NEW r \in Runs, InsertAssignment(r)
        PROVE  TraceParts'
    <2>1. OthersRest(r)
      BY <1>19 DEF InsertAssignment, MayCall, OthersRest, TypeOK, At,
         WriteRun, WriteCall, RecordModelCall, Leaves, tables, business,
         settings, memory
    <2>2. run[r] \in RunRow /\ run'[r] \in RunRow
      BY DEF TypeOK
    <2>3. /\ pc[r] \in {"business", "count", "insert"}
          /\ pc'[r] \in {"count", "insert", "record"}
          /\ UNCHANGED <<tables, call, verdict>>
      BY <1>19 DEF InsertAssignment, At, TypeOK, memory
    <2>4. pc'[r] # "record" => ToolInFlight(r) = Mutation
      BY <1>19 DEF InsertAssignment, At, TypeOK, TraceParts,
         CallInFlightIsStarted, CallingPCs
    <2>5. pc'[r] = "record" => outcome'[r] # None
      BY <1>19 DEF InsertAssignment, At, TypeOK, Leaves, Outcomes,
         ShownAs
    <2>6. IF pc'[r] = "record" /\ outcome'[r] = "ok" /\ ToolInFlight(r) = Mutation
          THEN changed_by'[r] = changed_by[r] \cup {call[r]}
          ELSE changed_by'[r] = changed_by[r]
      BY <1>19 DEF InsertAssignment, At, TypeOK, Leaves, business,
         TraceParts, CallInFlightIsStarted, CallingPCs
    <2>. QED
      BY <2>1, <2>3, <2>4, <2>5, <2>6, BusinessRun
  <1>20. ASSUME NEW r \in Runs, BusinessFails(r)
        PROVE  TraceParts'
    <2>1. OthersRest(r)
      BY <1>20 DEF BusinessFails, MayCall, OthersRest, TypeOK, At,
         WriteRun, WriteCall, RecordModelCall, Leaves, tables, business,
         settings, memory
    <2>2. run[r] \in RunRow /\ run'[r] \in RunRow
      BY DEF TypeOK
    <2>3. /\ pc[r] \in {"business", "count", "insert"}
          /\ pc'[r] \in {"count", "insert", "record"}
          /\ UNCHANGED <<tables, call, verdict>>
      BY <1>20 DEF BusinessFails, At, TypeOK, memory
    <2>4. pc'[r] # "record" => ToolInFlight(r) = Mutation
      BY <1>20 DEF BusinessFails, At, TypeOK, TraceParts,
         CallInFlightIsStarted, CallingPCs
    <2>5. pc'[r] = "record" => outcome'[r] # None
      BY <1>20 DEF BusinessFails, At, TypeOK, Leaves, Outcomes, ShownAs
    <2>6. IF pc'[r] = "record" /\ outcome'[r] = "ok" /\ ToolInFlight(r) = Mutation
          THEN changed_by'[r] = changed_by[r] \cup {call[r]}
          ELSE changed_by'[r] = changed_by[r]
      BY <1>20 DEF BusinessFails, At, TypeOK, Leaves, business,
         TraceParts, CallInFlightIsStarted, CallingPCs
    <2>. QED
      BY <2>1, <2>3, <2>4, <2>5, <2>6, BusinessRun
  <1>21. ASSUME NEW r \in Runs, RecordOutcome(r)
        PROVE  TraceParts'
    <2>1. OthersRest(r)
      BY <1>21 DEF RecordOutcome, MayCall, OthersRest, TypeOK, At,
         WriteRun, WriteCall, RecordModelCall, Leaves, tables, business,
         settings, memory
    <2>2. run[r] \in RunRow /\ run'[r] \in RunRow
      BY DEF TypeOK
    <2>. DEFINE new == RecordedCall(r)
    <2>3. /\ IsTable(tool_calls[r], ToolCallRow) /\ pc[r] = "record"
          /\ call[r] \in DOMAIN tool_calls[r] /\ call[r] \in Nat
          /\ outcome[r] \in Outcomes /\ run[r].status = "executing"
      BY <1>21 DEF RecordOutcome, At, TypeOK, TraceParts,
         CallInFlightIsStarted, CallingPCs, DriverKnowsItsRun
    <2>4. tool_calls[r][call[r]] \in ToolCallRow
      BY <2>3 DEF IsTable
    <2>5. /\ new.tool_name = tool_calls[r][call[r]].tool_name
          /\ new.policy_decision = tool_calls[r][call[r]].policy_decision
          /\ new.status = IF outcome[r] = "ok" THEN "succeeded" ELSE "failed"
      BY <2>4 DEF RecordedCall, ToolCallRow
    <2>6. new \in ToolCallRow
      BY <2>3, <2>4, RecordedIsRow DEF ToolInFlight, RecordedCall
    <2>7. /\ run'[r].last_sequence_no = run[r].last_sequence_no
          /\ run'[r].proposal = run[r].proposal
          /\ run'[r].status # "completed"
      BY <1>21, <2>2, <2>3, EndedKeeps DEF RecordOutcome, WriteRun,
         TypeOK
    <2>. HIDE DEF new
    <2>8. /\ tool_calls'[r] = Put(tool_calls[r], call[r], new)
          /\ UNCHANGED <<model_calls, changed_by>> /\ pc'[r] = "planning"
      BY <1>21 DEF RecordOutcome, At, WriteCall, TypeOK, business, new
    <2>9. RunTraceFits(r)
      BY TracePartsOfEach
    <2>10. RunTraceFits(r)'
      BY <2>2, <2>3, <2>5, <2>6, <2>7, <2>8, <2>9, OutcomeStep DEF
         RunTraceFits
    <2>. QED
      BY <2>1, <2>10, OneTraceMoves
  <1>22. ASSUME NEW r \in Runs, RecordOutcomeFails(r)
        PROVE  TraceParts'
    <2>1. OthersRest(r)
      BY <1>22 DEF RecordOutcomeFails, MayCall, OthersRest, TypeOK, At,
         WriteRun, WriteCall, RecordModelCall, Leaves, tables, business,
         settings, memory
    <2>2. run[r] \in RunRow /\ run'[r] \in RunRow
      BY DEF TypeOK
    <2>3. UNCHANGED <<tables, changed_by>>
      BY <1>22 DEF RecordOutcomeFails, tables, business
    <2>4. pc'[r] \notin CallingPCs \cup VerifyingPCs
      BY <1>22 DEF RecordOutcomeFails, At, TypeOK, CallingPCs,
         VerifyingPCs
    <2>. QED
      BY <1>22, <2>1, <2>3, <2>4, QuietRun DEF tables
  <1>40. ASSUME NEW r \in Runs, RecordRequestFails(r)
        PROVE  TraceParts'
    <2>1. OthersRest(r)
      BY <1>40 DEF RecordRequestFails, MayCall, OthersRest, TypeOK, At,
         WriteRun, WriteCall, RecordModelCall, Leaves, tables, business,
         settings, memory
    <2>2. run[r] \in RunRow /\ run'[r] \in RunRow
      BY DEF TypeOK
    <2>3. UNCHANGED <<tables, changed_by>>
      BY <1>40 DEF RecordRequestFails, tables, business
    <2>4. pc'[r] \notin CallingPCs \cup VerifyingPCs
      BY <1>40 DEF RecordRequestFails, At, TypeOK, CallingPCs,
         VerifyingPCs
    <2>. QED
      BY <1>40, <2>1, <2>3, <2>4, QuietRun DEF tables
  <1>23. ASSUME NEW r \in Runs, StopReachesDecide(r)
        PROVE  TraceParts'
    <2>1. OthersRest(r)
      BY <1>23 DEF StopReachesDecide, MayCall, OthersRest, TypeOK, At,
         WriteRun, WriteCall, RecordModelCall, Leaves, tables, business,
         settings, memory
    <2>2. run[r] \in RunRow /\ run'[r] \in RunRow
      BY DEF TypeOK
    <2>3. UNCHANGED <<tables, changed_by>>
      BY <1>23 DEF StopReachesDecide, tables, business
    <2>4. pc'[r] \notin CallingPCs \cup VerifyingPCs
      BY <1>23 DEF StopReachesDecide, At, TypeOK, CallingPCs,
         VerifyingPCs
    <2>. QED
      BY <1>23, <2>1, <2>3, <2>4, QuietRun DEF tables
  <1>24. ASSUME NEW r \in Runs, ErrorReachesDecide(r)
        PROVE  TraceParts'
    <2>1. OthersRest(r)
      BY <1>24 DEF ErrorReachesDecide, MayCall, OthersRest, TypeOK, At,
         WriteRun, WriteCall, RecordModelCall, Leaves, tables, business,
         settings, memory
    <2>2. run[r] \in RunRow /\ run'[r] \in RunRow
      BY DEF TypeOK
    <2>3. UNCHANGED <<model_calls, tool_calls, changed_by>>
      BY <1>24 DEF ErrorReachesDecide, tables, business
    <2>4. pc'[r] \notin CallingPCs \cup VerifyingPCs
      BY <1>24 DEF ErrorReachesDecide, At, TypeOK, CallingPCs,
         VerifyingPCs
    <2>5. /\ run'[r].last_sequence_no = run[r].last_sequence_no
          /\ run'[r].proposal = run[r].proposal
          /\ run'[r].status = "completed" => run'[r] = run[r]
      BY <1>24, <2>2, EndedKeeps DEF ErrorReachesDecide, WriteRun, At,
         TypeOK
    <2>. QED
      BY <2>1, <2>3, <2>4, <2>5, QuietRun
  <1>25. ASSUME NEW r \in Runs, RecordProposal(r)
        PROVE  TraceParts'
    <2>1. OthersRest(r)
      BY <1>25 DEF RecordProposal, MayCall, OthersRest, TypeOK, At,
         WriteRun, WriteCall, RecordModelCall, Leaves, tables, business,
         settings, memory
    <2>2. run[r] \in RunRow /\ run'[r] \in RunRow
      BY DEF TypeOK
    <2>3. /\ UNCHANGED <<model_calls, tool_calls, changed_by>> /\ pc'[r] = "verify"
          /\ \A m \in DOMAIN tool_calls[r] : tool_calls[r][m].status # "started"
      BY <1>25 DEF RecordProposal, At, TypeOK, business, AnyStarted
    <2>4. /\ run'[r].last_sequence_no = run[r].last_sequence_no
          /\ run'[r].status # "completed"
      BY <1>25, <2>2 DEF RecordProposal, WriteRun, TypeOK, RunRow
    <2>5. verdict'[r].changed = Changed(r)
      BY <1>25 DEF RecordProposal, TypeOK, NoVerdict
    <2>6. Changed(r) <=> \E m \in DOMAIN tool_calls[r] :
              /\ tool_calls[r][m].tool_name = Mutation
              /\ tool_calls[r][m].status = "succeeded"
      BY DEF Changed, CallsOf
    <2>7. RunTraceFits(r)
      BY TracePartsOfEach
    <2>8. RunTraceFits(r)'
      BY <2>2, <2>3, <2>4, <2>5, <2>6, <2>7, ProposalStep DEF
         RunTraceFits
    <2>. QED
      BY <2>1, <2>8, OneTraceMoves
  <1>26. ASSUME NEW r \in Runs, RefuseProposal(r)
        PROVE  TraceParts'
    <2>1. OthersRest(r)
      BY <1>26 DEF RefuseProposal, MayCall, OthersRest, TypeOK, At,
         WriteRun, WriteCall, RecordModelCall, Leaves, tables, business,
         settings, memory
    <2>2. run[r] \in RunRow /\ run'[r] \in RunRow
      BY DEF TypeOK
    <2>3. UNCHANGED <<tables, changed_by>>
      BY <1>26 DEF RefuseProposal, tables, business
    <2>4. pc'[r] \notin CallingPCs \cup VerifyingPCs
      BY <1>26 DEF RefuseProposal, At, TypeOK, CallingPCs, VerifyingPCs
    <2>. QED
      BY <1>26, <2>1, <2>3, <2>4, QuietRun DEF tables
  <1>27. ASSUME NEW r \in Runs, VerifyGoal(r)
        PROVE  TraceParts'
    <2>1. OthersRest(r)
      BY <1>27 DEF VerifyGoal, MayCall, OthersRest, TypeOK, At, WriteRun,
         WriteCall, RecordModelCall, Leaves, tables, business, settings,
         memory
    <2>2. run[r] \in RunRow /\ run'[r] \in RunRow
      BY DEF TypeOK
    <2>3. /\ UNCHANGED <<tables, changed_by, call, outcome>>
          /\ pc[r] \in VerifyingPCs /\ pc'[r] \in VerifyingPCs
          /\ run'[r] = run[r]
          /\ run[r].status # "completed"
      BY <1>27 DEF VerifyGoal, At, TypeOK, tables, business,
         VerifyingPCs, DriverKnowsItsRun
    <2>4. verdict'[r].changed <=> verdict[r].changed
      BY <1>27 DEF VerifyGoal, TypeOK, Verdicts
    <2>. QED
      BY <2>1, <2>3, <2>4, VerdictRun DEF tables
  <1>28. ASSUME NEW r \in Runs, CheckBlock(r)
        PROVE  TraceParts'
    <2>1. OthersRest(r)
      BY <1>28 DEF CheckBlock, MayCall, OthersRest, TypeOK, At, WriteRun,
         WriteCall, RecordModelCall, Leaves, tables, business, settings,
         memory
    <2>2. run[r] \in RunRow /\ run'[r] \in RunRow
      BY DEF TypeOK
    <2>3. /\ UNCHANGED <<tables, changed_by, call, outcome>>
          /\ pc[r] \in VerifyingPCs /\ pc'[r] \in VerifyingPCs
          /\ run'[r] = run[r]
          /\ run[r].status # "completed"
      BY <1>28 DEF CheckBlock, At, TypeOK, tables, business,
         VerifyingPCs, DriverKnowsItsRun
    <2>4. verdict'[r].changed <=> verdict[r].changed
      BY <1>28 DEF CheckBlock, TypeOK, Verdicts
    <2>. QED
      BY <2>1, <2>3, <2>4, VerdictRun DEF tables
  <1>29. ASSUME NEW r \in Runs, VerificationFails(r)
        PROVE  TraceParts'
    <2>1. OthersRest(r)
      BY <1>29 DEF VerificationFails, MayCall, OthersRest, TypeOK, At,
         WriteRun, WriteCall, RecordModelCall, Leaves, tables, business,
         settings, memory
    <2>2. run[r] \in RunRow /\ run'[r] \in RunRow
      BY DEF TypeOK
    <2>3. UNCHANGED <<model_calls, tool_calls, changed_by>>
      BY <1>29 DEF VerificationFails, tables, business
    <2>4. pc'[r] \notin CallingPCs \cup VerifyingPCs
      BY <1>29 DEF VerificationFails, At, TypeOK, CallingPCs,
         VerifyingPCs
    <2>5. /\ run'[r].last_sequence_no = run[r].last_sequence_no
          /\ run'[r].proposal = run[r].proposal
          /\ run'[r].status = "completed" => run'[r] = run[r]
      BY <1>29, <2>2, EndedKeeps DEF VerificationFails, WriteRun, At,
         TypeOK
    <2>. QED
      BY <2>1, <2>3, <2>4, <2>5, QuietRun
  <1>30. ASSUME NEW r \in Runs, Conclude(r)
        PROVE  TraceParts'
    <2>1. OthersRest(r)
      BY <1>30 DEF Conclude, MayCall, OthersRest, TypeOK, At, WriteRun,
         WriteCall, RecordModelCall, Leaves, tables, business, settings,
         memory
    <2>2. run[r] \in RunRow /\ run'[r] \in RunRow
      BY DEF TypeOK
    <2>3. /\ UNCHANGED <<model_calls, tool_calls, changed_by, call, outcome, verdict>>
          /\ pc[r] \in VerifyingPCs /\ pc'[r] = "returned"
      BY <1>30 DEF Conclude, At, TypeOK, business, memory, VerifyingPCs
    <2>. DEFINE result == DecisionOutcome(run[r].proposal, verdict[r])
    <2>4. run'[r] = Ended(run[r], result.status, result.reason)
      BY <1>30 DEF Conclude, WriteRun, TypeOK
    <2>5. result.status = "completed"
            => (result.reason = "goal_satisfied" <=> verdict[r].changed)
      BY <2>3, OutcomeType DEF TypeOK, DriverKnowsItsRun,
         RowHasWhatItNeeds
    <2>. HIDE DEF result
    <2>6. /\ run'[r].last_sequence_no = run[r].last_sequence_no
          /\ run'[r].proposal = run[r].proposal
          /\ run'[r].status = "completed"
               => (run'[r].outcome_reason = "goal_satisfied" <=> verdict[r].changed)
      BY <2>2, <2>4, <2>5, EndedKeeps
    <2>. QED
      BY <2>1, <2>3, <2>6, VerdictRun
  <1>31. ASSUME NEW r \in Runs, Crash(r)
        PROVE  TraceParts'
    <2>1. OthersRest(r)
      BY <1>31 DEF Crash, MayCall, OthersRest, TypeOK, At, WriteRun,
         WriteCall, RecordModelCall, Leaves, tables, business, settings,
         memory
    <2>2. run[r] \in RunRow /\ run'[r] \in RunRow
      BY DEF TypeOK
    <2>3. UNCHANGED <<tables, changed_by>>
      BY <1>31 DEF Crash, tables, business
    <2>4. pc'[r] \notin CallingPCs \cup VerifyingPCs
      BY <1>31 DEF Crash, At, TypeOK, CallingPCs, VerifyingPCs
    <2>. QED
      BY <1>31, <2>1, <2>3, <2>4, QuietRun DEF tables
  <1>32. ASSUME NEW h \in Humans, HumanChecks(h)
        PROVE  TraceParts'
    BY <1>32, SameTrace DEF HumanChecks, tables, memory, settings, business
  <1>33. ASSUME NEW h \in Humans, HumanAssigns(h)
        PROVE  TraceParts'
    BY <1>33, SameTrace DEF HumanAssigns, tables, memory, settings,
       business
  <1>34. ASSUME HumanRevokes
        PROVE  TraceParts'
    BY <1>34, SameTrace DEF HumanRevokes, tables, memory, settings,
       business
  <1>35. ASSUME NEW o \in Operators, EditPolicy(o)
        PROVE  TraceParts'
    BY <1>35, SameTrace DEF EditPolicy, tables, memory, settings, business
  <1>36. ASSUME NEW o \in Operators, DeactivateUser(o)
        PROVE  TraceParts'
    BY <1>36, SameTrace DEF DeactivateUser, tables, memory, settings,
       business
  <1>37. CASE UNCHANGED vars
    BY <1>37, SameTrace DEF vars, tables, business, memory
  <1>. QED
    BY <1>1, <1>2, <1>3, <1>4, <1>5, <1>6, <1>7, <1>8, <1>9, <1>10, <1>11,
       <1>12, <1>13, <1>14, <1>15, <1>16, <1>17, <1>18, <1>19, <1>20,
       <1>21, <1>22, <1>40, <1>23, <1>24, <1>25, <1>26, <1>27, <1>28, <1>29,
       <1>30, <1>31, <1>32, <1>33, <1>34, <1>35, <1>36, <1>37 DEF Next,
       NextWithoutCrash, Advance, Fault, Others
-----------------------------------------------------------------------------
(* The theorems.                                                           *)

\* The invariant holds at the start ...
LEMMA TraceInvInit == Init => TraceInv
  <1>. USE AgentExecutorAssumption, AgentDomainAssumption
  <1>. SUFFICES ASSUME Init PROVE TraceInv
    OBVIOUS
  <1>1. ASSUME NEW r \in Runs
        PROVE  /\ run[r] = NoRun /\ model_calls[r] = NoRows
               /\ tool_calls[r] = NoRows /\ changed_by[r] = {}
               /\ pc[r] = "new" /\ call[r] = 0
    BY DEF Init
  <1>2. DOMAIN NoRows = {} /\ NoRows = [n \in {} |-> None]
    BY DEF NoRows
  <1>3. NoRun \in RunRow /\ NoRun.status = None /\ NoRun.proposal = None
        /\ NoRun.last_sequence_no = 0
    BY DEF NoRun, NewRun, RunRow, Statuses, OpenStatuses
  <1>4. NoVerdict \in Verdicts
    BY DEF NoVerdict, Verdicts
  <1>5. TypeOK
    <2>1. \A r \in Runs : IsTable(model_calls[r], ModelCallRow)
                          /\ IsTable(tool_calls[r], ToolCallRow)
      BY <1>1, <1>2 DEF IsTable
    <2>2. Seats!TypeOK
      BY DEF Init, Seats!Init, Seats!TypeOK
    <2>3. run \in [Runs -> RunRow] /\ verdict \in [Runs -> Verdicts]
      BY <1>3, <1>4 DEF Init
    <2>4. /\ model_calls = [r \in Runs |-> model_calls[r]]
          /\ tool_calls = [r \in Runs |-> tool_calls[r]]
      BY DEF Init
    <2>. QED
      BY <2>1, <2>2, <2>3, <2>4 DEF Init, TypeOK, PCs
  <1>6. None \notin Statuses
    OBVIOUS
  <1>7. DriverKnowsItsRun /\ RowHasWhatItNeeds
    BY <1>1, <1>3, <1>6 DEF DriverKnowsItsRun, RowHasWhatItNeeds, CallingPCs,
       VerifyingPCs, Statuses, OpenStatuses, EndedStatuses
  <1>8. TraceIsOneOrder /\ CallInFlightIsStarted /\ UnfinishedCallIsTheLast
    BY <1>1, <1>2, <1>3 DEF TraceIsOneOrder, CallInFlightIsStarted,
       UnfinishedCallIsTheLast, CallingPCs
  <1>9. StartedMutationsWereAllowed /\ ChangesAreOnTheTrace
    BY <1>1, <1>2 DEF StartedMutationsWereAllowed, ChangesAreOnTheTrace,
       MutationsWith, CallsOf
  <1>10. VerdictKnowsTheChange /\ OutcomeTellsTheChange
    BY <1>1, <1>3, <1>6 DEF VerdictKnowsTheChange, OutcomeTellsTheChange,
       VerifyingPCs, Statuses, EndedStatuses
  <1>. QED  BY <1>5, <1>7, <1>8, <1>9, <1>10 DEF TraceInv

\* ... and every step keeps it.
LEMMA TraceInvStep == TraceInv /\ [Next]_vars => TraceInv'
  <1>. SUFFICES ASSUME TraceInv, [Next]_vars PROVE TraceInv'
    OBVIOUS
  <1>1. TypeOK /\ DriverKnowsItsRun /\ RowHasWhatItNeeds /\ TraceParts
    BY DEF TraceInv, TraceParts
  <1>2. TypeOK'
    BY <1>1, TypeStep DEF TraceParts
  <1>3. DriverKnowsItsRun' /\ RowHasWhatItNeeds'
    BY <1>1, DriverStep
  <1>4. TraceParts'
    BY <1>1, <1>2, TraceStep
  <1>. QED  BY <1>2, <1>3, <1>4 DEF TraceInv, TraceParts

\* Whatever the planners ask for, whoever else is at work, whatever fails or
\* stops: the invariant from which the rest follows.
THEOREM TraceInvariant == Spec => []TraceInv
  <1>. QED  BY TraceInvInit, TraceInvStep, PTL DEF Spec

\* Every row and every piece of the drivers' memory has its type.
THEOREM TypeCorrect == Spec => []TypeOK
  <1>1. TraceInv => TypeOK
    BY DEF TraceInv
  <1>. QED  BY <1>1, TraceInvariant, PTL

\* Every sequence_no handed out, 1 to last_sequence_no, is on exactly one row
\* of the run's two tables (next_sequence_no, list_trace).
THEOREM OneOrder == Spec => []TraceIsOneOrder
  <1>1. TraceInv => TraceIsOneOrder
    BY DEF TraceInv
  <1>. QED  BY <1>1, TraceInvariant, PTL

\* What a run changed is what its trace says, up to a mutation whose outcome
\* was never recorded; and policy allowed every one of its changes.
THEOREM ChangesAreTraced == Spec => []ChangesAreOnTheTrace
  <1>1. TraceInv => ChangesAreOnTheTrace
    BY DEF TraceInv
  <1>. QED  BY <1>1, TraceInvariant, PTL

\* A completed run tells truly whether it made the change itself.
THEOREM OutcomesAreTrue == Spec => []OutcomeTellsTheChange
  <1>1. TraceInv => OutcomeTellsTheChange
    BY DEF TraceInv
  <1>. QED  BY <1>1, TraceInvariant, PTL

\* After a call whose outcome is unknown the run makes no other, and is never
\* verified (UNFINISHED_CALL, _start_call, _finish_decision).
THEOREM NothingAfterUnfinished == Spec => []UnfinishedCallIsTheLast
  <1>1. TraceInv => UnfinishedCallIsTheLast
    BY DEF TraceInv
  <1>. QED  BY <1>1, TraceInvariant, PTL

-----------------------------------------------------------------------------
(* Runs take seats as the seat ledger allows.                              *)

\* Every step is a step of the seat ledger, or leaves the seats alone.
LEMMA SeatStep ==
    ASSUME TypeOK, DriverKnowsItsRun, RowHasWhatItNeeds, [Next]_vars
    PROVE  [Seats!Next]_(Seats!vars)
  <1>1. ASSUME NEW r \in Runs, CountSeats(r)
        PROVE  Seats!Next \/ UNCHANGED Seats!vars
    <2>1. run[r].target \in Pairs
      BY <1>1 DEF CountSeats, At, DriverKnowsItsRun, RowHasWhatItNeeds,
         CallingPCs
    <2>. QED
      BY <1>1, <2>1 DEF CountSeats, Seats!Next, Seats!vars, Seats!Pairs,
         Pairs, Clients
  <1>2. ASSUME NEW r \in Runs, InsertAssignment(r)
        PROVE  Seats!Next
    BY <1>2 DEF InsertAssignment, Seats!Next, Clients
  <1>3. ASSUME NEW r \in Runs, passed' = [passed EXCEPT ![r] = None], held' = held
        PROVE  Seats!Next \/ UNCHANGED Seats!vars
    <2>1. CASE passed[r] = None
      BY <1>3, <2>1 DEF Seats!vars, TypeOK, Seats!TypeOK, Clients
    <2>2. CASE passed[r] # None
      BY <1>3, <2>2 DEF Seats!Next, Seats!GiveUp, Clients
    <2>. QED  BY <2>1, <2>2
  <1>4. ASSUME NEW r \in Runs, Fault(r) \/ Crash(r)
        PROVE  Seats!Next \/ UNCHANGED Seats!vars
    BY <1>3, <1>4 DEF Fault, Crash, BusinessFails, RecordOutcomeFails,
       RecordRequestFails,
       VerificationFails, business, Seats!vars
  <1>5. ASSUME NEW h \in Humans, HumanChecks(h) \/ HumanAssigns(h)
        PROVE  Seats!Next
    BY <1>5 DEF HumanChecks, HumanAssigns, Seats!Next, Seats!Pairs, Pairs,
       Clients
  <1>6. ASSUME HumanRevokes
        PROVE  Seats!Next
    BY <1>6 DEF HumanRevokes, Seats!Next, Seats!Pairs, Pairs
  <1>7. ASSUME NEW r \in Runs, ReceiveRun(r) \/ Advance(r),
               ~CountSeats(r), ~InsertAssignment(r)
        PROVE  UNCHANGED Seats!vars
    BY <1>7 DEF ReceiveRun, Advance, ExtractionRequest, ExtractGoal,
       ExtractNothing, ResolveGoal, ResolveNothing, StartDecision,
       BeforeRequest, RequestOverLimit, RecordRequest, RefuseCall,
       CallOverLimit, AdmitCall, DenyCall, HoldCall, ReadTarget, CheckUser,
       RecordOutcome, StopReachesDecide, ErrorReachesDecide, RecordProposal,
       RefuseProposal, VerifyGoal, CheckBlock, Conclude, business, Seats!vars
  <1>8. ASSUME NEW o \in Operators, EditPolicy(o) \/ DeactivateUser(o)
        PROVE  UNCHANGED Seats!vars
    BY <1>8 DEF EditPolicy, DeactivateUser, business, Seats!vars
  <1>9. CASE UNCHANGED vars
    BY <1>9 DEF vars, business, Seats!vars
  <1>10. ASSUME NextWithoutCrash
         PROVE  Seats!Next \/ UNCHANGED Seats!vars
    BY <1>10, <1>1, <1>2, <1>4, <1>5, <1>6, <1>7, <1>8
    DEF NextWithoutCrash, Others
  <1>. QED  BY <1>4, <1>9, <1>10 DEF Next

\* Runs and people together take seats only as the seat ledger allows: the
\* executor implements SeatLedger.
THEOREM ImplementsSeatLedger == Spec => KeepsSeatLedger
  <1>1. Init => Seats!Init
    BY DEF Init
  <1>2. TraceInv /\ [Next]_vars => [Seats!Next]_(Seats!vars)
    BY SeatStep DEF TraceInv
  <1>. QED
    BY <1>1, <1>2, TraceInvariant, PTL DEF Spec, Seats!Spec, KeepsSeatLedger

\* What is proved of the ledger, of the seats the runs take.
SeatProofs == INSTANCE SeatLedgerProofs

LEMMA SeatsAreLedgers ==
  /\ SeatProofs!SeatLedgerAssumption
  /\ Seats!Init => SeatProofs!Init
  /\ [Seats!Next]_(Seats!vars) => [SeatProofs!Next]_(SeatProofs!vars)
  /\ SeatProofs!OverfillBounded => Seats!OverfillBounded
  /\ \A S : /\ SeatProofs!Cardinality(S) = Cardinality(S)
            /\ Seats!Cardinality(S) = Cardinality(S)
  <1>1. IsFiniteSet(Clients) /\ Clients # {}
    BY AgentExecutorAssumption, FS_Union DEF Clients
  <1>2. SeatProofs!SeatLedgerAssumption
    BY <1>1, AgentExecutorAssumption
    DEF SeatProofs!SeatLedgerAssumption, SeatProofs!Pairs, Pairs,
        SeatProofs!IsFiniteSet, IsFiniteSet
  <1>3. Seats!Init => SeatProofs!Init
    BY DEF Seats!Init, SeatProofs!Init
  <1>4. [Seats!Next]_(Seats!vars) => [SeatProofs!Next]_(SeatProofs!vars)
    BY DEF Seats!Next, Seats!vars, Seats!PassSeatCheck, Seats!TakeSeat,
       Seats!GiveUp, Seats!ReleaseSeat, Seats!SeatsUsed, Seats!ActiveSeats,
       Seats!Pairs, SeatProofs!Next, SeatProofs!vars,
       SeatProofs!PassSeatCheck, SeatProofs!TakeSeat, SeatProofs!GiveUp,
       SeatProofs!ReleaseSeat, SeatProofs!SeatsUsed, SeatProofs!ActiveSeats,
       SeatProofs!Pairs, Seats!Cardinality, SeatProofs!Cardinality
  <1>5. SeatProofs!OverfillBounded => Seats!OverfillBounded
    BY DEF Seats!OverfillBounded, Seats!SeatsUsed, Seats!ActiveSeats,
       SeatProofs!OverfillBounded, SeatProofs!SeatsUsed,
       SeatProofs!ActiveSeats, Seats!Cardinality, SeatProofs!Cardinality
  <1>6. \A S : /\ SeatProofs!Cardinality(S) = Cardinality(S)
               /\ Seats!Cardinality(S) = Cardinality(S)
    BY DEF SeatProofs!Cardinality, Seats!Cardinality, Cardinality
  <1>. QED  BY <1>2, <1>3, <1>4, <1>5, <1>6

\* Whatever planners ask for and wherever processes stop, the seats in use of a
\* licence of n seats are fewer than n and the number of runs and people
\* together: each of them counts the seats before it takes one.
THEOREM SeatsAreBounded == Spec => []Seats!OverfillBounded
  BY ImplementsSeatLedger, SeatsAreLedgers, SeatProofs!OverfillIsBounded, PTL
  DEF KeepsSeatLedger, Seats!Spec, SeatProofs!Spec

\* A run that has the application to itself never overfills a licence.
THEOREM AloneNeverOverfills ==
  ASSUME Cardinality(Clients) = 1
  PROVE  Spec => [](\A l \in Licences : Seats!SeatsUsed(l) <= SeatsTotal[l])
  <1>1. (\A l \in Licences : SeatProofs!SeatsUsed(l) <= SeatsTotal[l])
           => \A l \in Licences : Seats!SeatsUsed(l) <= SeatsTotal[l]
    BY SeatsAreLedgers
    DEF Seats!SeatsUsed, Seats!ActiveSeats, SeatProofs!SeatsUsed,
        SeatProofs!ActiveSeats
  <1>2. SeatProofs!Cardinality(Clients) = 1
    BY SeatsAreLedgers
  <1>. QED
    BY <1>1, <1>2, ImplementsSeatLedger, SeatsAreLedgers,
       SeatProofs!AloneNeverOverfills, PTL
    DEF KeepsSeatLedger, Seats!Spec, SeatProofs!Spec
=============================================================================
