--------------------------- MODULE RunEndingProofs ---------------------------
(***************************************************************************)
(* What ends a run of the executor, what can become of it afterwards, and  *)
(* what is told of it: that its verdict was true, and that an answer to a  *)
(* reader accounts for its outcome; for any number of runs, any limits,    *)
(* and any planner.                                                        *)
(***************************************************************************)
EXTENDS AgentExecutorProofs, RunReader, VerdictHistory, FiniteSetTheorems

\* The time a run ended is written with the status it ended with.
EndedIsCompleted ==
    \A r \in Runs : run[r].completed_at <=> run[r].status \in EndedStatuses

\* What a step may do to one run: nothing, ...
Untouched(r) ==
    run'[r] = run[r] /\ tool_calls'[r] = tool_calls[r]
        /\ changed_by'[r] = changed_by[r]

\* ... count one more model request, ...
OnlyCounted(r) ==
    run'[r] = Numbered(run[r]) /\ tool_calls'[r] = tool_calls[r]
        /\ changed_by'[r] = changed_by[r]

\* ... or anything, to a run that has not ended: it may, and then says when.
GoesOn(r) ==
    ~run[r].completed_at
        /\ (run'[r].completed_at <=> run'[r].status \in EndedStatuses)

\* The steps that leave every run's rows alone.
LEMMA NothingWritten ==
  ASSUME UNCHANGED <<run, tool_calls, changed_by>>
  PROVE  \A r \in Runs : Untouched(r)
  BY DEF Untouched

\* The steps of one run that write its row, or a call of it.
LEMMA OneRunWritten ==
  ASSUME TypeOK, NEW q \in Runs, NEW row, WriteRun(q, row),
         tool_calls' = tool_calls \/ \E n, c : WriteCall(q, n, c),
         changed_by' = changed_by
  PROVE  /\ run'[q] = row
         /\ \A r \in Runs \ {q} : Untouched(r)
  BY DEF TypeOK, WriteRun, WriteCall, Untouched

LEMMA EndsARun ==
  ASSUME TypeOK, NEW q \in Runs, NEW row \in RunRow, ~run[q].completed_at,
         NEW status \in EndedStatuses, NEW reason,
         WriteRun(q, Ended(row, status, reason)),
         tool_calls' = tool_calls \/ \E n, c : WriteCall(q, n, c),
         changed_by' = changed_by
  PROVE  \A r \in Runs : Untouched(r) \/ OnlyCounted(r) \/ GoesOn(r)
  <1>1. run'[q] = Ended(row, status, reason)
        /\ \A r \in Runs \ {q} : Untouched(r)
    BY OneRunWritten
  <1>2. GoesOn(q)
    BY <1>1, EndedKeeps DEF GoesOn
  <1>. QED  BY <1>1, <1>2

LEMMA MovesARun ==
  ASSUME TypeOK, NEW q \in Runs, NEW row, ~run[q].completed_at,
         row.completed_at = run[q].completed_at,
         row.status \in OpenStatuses, WriteRun(q, row),
         tool_calls' = tool_calls \/ \E n, c : WriteCall(q, n, c),
         changed_by' = changed_by
  PROVE  \A r \in Runs : Untouched(r) \/ OnlyCounted(r) \/ GoesOn(r)
  <1>1. run'[q] = row /\ \A r \in Runs \ {q} : Untouched(r)
    BY OneRunWritten
  <1>2. row.status \notin EndedStatuses
    BY DEF OpenStatuses, EndedStatuses
  <1>3. GoesOn(q)
    BY <1>1, <1>2 DEF GoesOn
  <1>. QED  BY <1>1, <1>3

LEMMA CountsARequest ==
  ASSUME TypeOK, NEW q \in Runs, NEW stage, NEW ok,
         RecordModelCall(q, stage, ok), UNCHANGED <<tool_calls, changed_by>>
  PROVE  \A r \in Runs : Untouched(r) \/ OnlyCounted(r) \/ GoesOn(r)
  BY DEF TypeOK, RecordModelCall, WriteRun, Untouched, OnlyCounted

\* A driver that has not finished with its run has a run that has not ended.
LEMMA AtWorkIsOpen ==
  ASSUME TraceInv, EndedIsCompleted, NEW q \in Runs,
         \/ pc[q] \in {"new", "extracting", "resolving", "resolved"}
         \/ pc[q] \in CallingPCs \cup VerifyingPCs
         \/ run[q].status = "executing"
  PROVE  ~run[q].completed_at
  <1>1. run[q].status \in {None, "received", "resolved", "executing", "verifying"}
    BY DEF TraceInv, DriverKnowsItsRun, NoRun, NewRun
  <1>2. run[q].status \notin EndedStatuses
    BY <1>1, AgentExecutorAssumption DEF EndedStatuses, Statuses
  <1>. QED  BY <1>2 DEF EndedIsCompleted

\* Each step does one of the three to each run.
LEMMA StepsOfRuns ==
  ASSUME TraceInv, EndedIsCompleted, [Next]_vars
  PROVE  \A r \in Runs : Untouched(r) \/ OnlyCounted(r) \/ GoesOn(r)
  <1>. DEFINE Good == \A r \in Runs : Untouched(r) \/ OnlyCounted(r) \/ GoesOn(r)
  <1>1. TypeOK /\ \A r \in Runs : run[r] \in RunRow
    BY DEF TraceInv, TypeOK
  <1>2. ASSUME UNCHANGED <<tables, changed_by>> PROVE Good
    BY <1>2, NothingWritten DEF tables
  <1>. HIDE DEF Good
  <1>3. ASSUME NEW q \in Runs, ReceiveRun(q) PROVE Good
    <2>1. pc[q] = "new" /\ WriteRun(q, NewRun)
          /\ UNCHANGED <<tool_calls, changed_by>>
      BY <1>3 DEF ReceiveRun, At, business
    <2>2. ~run[q].completed_at
      BY <2>1, AtWorkIsOpen
    <2>3. NewRun.completed_at = run[q].completed_at /\ NewRun.status \in OpenStatuses
      BY <1>1, <2>2 DEF NewRun, OpenStatuses, RunRow
    <2>. QED  BY <1>1, <2>1, <2>2, <2>3, MovesARun DEF Good
  <1>4. ASSUME NEW q \in Runs, ExtractionRequest(q) \/ RecordRequest(q)
        PROVE  Good
    <2>1. PICK stage, ok : RecordModelCall(q, stage, ok)
                           /\ UNCHANGED <<tool_calls, changed_by>>
      BY <1>4 DEF ExtractionRequest, RecordRequest, business
    <2>. QED  BY <1>1, <2>1, CountsARequest DEF Good
  <1>5. ASSUME NEW q \in Runs, ExtractGoal(q) \/ ResolveGoal(q)
                               \/ StartDecision(q) \/ RecordProposal(q)
        PROVE  Good
    <2>1. ~run[q].completed_at
      BY <1>5, AtWorkIsOpen DEF ExtractGoal, ResolveGoal, StartDecision,
         RecordProposal, At
    <2>2. UNCHANGED <<tool_calls, changed_by>>
      BY <1>5 DEF ExtractGoal, ResolveGoal, StartDecision, RecordProposal,
         business
    <2>3. PICK row : /\ WriteRun(q, row)
                     /\ row.completed_at = run[q].completed_at
                     /\ row.status \in OpenStatuses
      <3>1. CASE ExtractGoal(q)
        <4>1. run[q].status = "received"
          BY <3>1 DEF TraceInv, DriverKnowsItsRun, ExtractGoal, At
        <4>. QED  BY <1>1, <3>1, <4>1 DEF ExtractGoal, RunRow, OpenStatuses
      <3>2. CASE ResolveGoal(q)
        <4>1. PICK t \in Pairs :
                 WriteRun(q, [run[q] EXCEPT !.status = "resolved", !.target = t])
          BY <3>2 DEF ResolveGoal
        <4>. DEFINE row == [run[q] EXCEPT !.status = "resolved", !.target = t]
        <4>2. row.completed_at = run[q].completed_at /\ row.status = "resolved"
          BY <1>1 DEF RunRow
        <4>. QED  BY <4>1, <4>2 DEF OpenStatuses
      <3>3. CASE StartDecision(q)
        <4>. DEFINE row == [run[q] EXCEPT !.status = "executing", !.context = TRUE]
        <4>1. row.completed_at = run[q].completed_at /\ row.status = "executing"
          BY <1>1 DEF RunRow
        <4>. QED  BY <3>3, <4>1 DEF StartDecision, OpenStatuses
      <3>4. CASE RecordProposal(q)
        <4>1. PICK p \in Proposals :
                 WriteRun(q, [run[q] EXCEPT !.status = "verifying", !.proposal = p])
          BY <3>4 DEF RecordProposal
        <4>. DEFINE row == [run[q] EXCEPT !.status = "verifying", !.proposal = p]
        <4>2. row.completed_at = run[q].completed_at /\ row.status = "verifying"
          BY <1>1 DEF RunRow
        <4>. QED  BY <4>1, <4>2 DEF OpenStatuses
      <3>. QED  BY <1>5, <3>1, <3>2, <3>3, <3>4
    <2>. QED  BY <1>1, <2>1, <2>2, <2>3, MovesARun DEF Good
  <1>6. ASSUME NEW q \in Runs,
               ExtractNothing(q) \/ ResolveNothing(q) \/ VerificationFails(q)
        PROVE  Good
    <2>1. ~run[q].completed_at
      BY <1>6, AtWorkIsOpen DEF ExtractNothing, ResolveNothing,
         VerificationFails, At, VerifyingPCs
    <2>2. UNCHANGED <<tool_calls, changed_by>>
      BY <1>6 DEF ExtractNothing, ResolveNothing, VerificationFails, business
    <2>3. \E reason : \E status \in EndedStatuses :
             WriteRun(q, Ended(run[q], status, reason))
      BY <1>6 DEF ExtractNothing, ResolveNothing, VerificationFails,
         EndedStatuses
    <2>. QED  BY <1>1, <2>1, <2>2, <2>3, EndsARun DEF Good
  <1>7. ASSUME NEW q \in Runs, RequestOverLimit(q) \/ ErrorReachesDecide(q)
        PROVE  Good
    <2>1. CASE UNCHANGED run
      BY <1>2, <1>7, <2>1 DEF RequestOverLimit, ErrorReachesDecide, tables,
         business
    <2>2. CASE ~UNCHANGED run
      <3>1. ~run[q].completed_at
        BY <1>7, <2>2, AtWorkIsOpen DEF RequestOverLimit, ErrorReachesDecide
      <3>2. UNCHANGED <<tool_calls, changed_by>>
        BY <1>7 DEF RequestOverLimit, ErrorReachesDecide, business
      <3>3. \E reason : \E status \in EndedStatuses :
               WriteRun(q, Ended(run[q], status, reason))
        BY <1>7, <2>2 DEF RequestOverLimit, ErrorReachesDecide, EndedStatuses
      <3>. QED  BY <1>1, <3>1, <3>2, <3>3, EndsARun DEF Good
    <2>. QED  BY <2>1, <2>2
  <1>8. ASSUME NEW q \in Runs,
               DenyCall(q) \/ \E tool \in Tools : CallOverLimit(q, tool)
        PROVE  Good
    <2>1. ~run[q].completed_at
      BY <1>8, AtWorkIsOpen DEF DenyCall, CallOverLimit, MayCall
    <2>2. changed_by' = changed_by /\ \E n, c : WriteCall(q, n, c)
      BY <1>8 DEF DenyCall, CallOverLimit, business
    <2>3. Numbered(run[q]) \in RunRow
      BY <1>1, NumberedIsRow
    <2>4. \E reason : \E status \in EndedStatuses :
             WriteRun(q, Ended(Numbered(run[q]), status, reason))
      BY <1>8 DEF DenyCall, CallOverLimit, EndedStatuses
    <2>. QED  BY <1>1, <2>1, <2>2, <2>3, <2>4, EndsARun DEF Good
  <1>9. ASSUME NEW q \in Runs,
               HoldCall(q) \/ \E tool \in Tools : AdmitCall(q, tool)
        PROVE  Good
    <2>1. run[q].status = "executing" /\ ~run[q].completed_at
      BY <1>9, AtWorkIsOpen DEF HoldCall, AdmitCall, MayCall
    <2>2. changed_by' = changed_by /\ \E n, c : WriteCall(q, n, c)
      BY <1>9 DEF HoldCall, AdmitCall, business
    <2>3. /\ Numbered(run[q]) \in RunRow
          /\ Numbered(run[q]).completed_at = run[q].completed_at
          /\ Numbered(run[q]).status = "executing"
      BY <1>1, <2>1, NumberedIsRow
    <2>4. PICK row : /\ WriteRun(q, row)
                     /\ row.completed_at = run[q].completed_at
                     /\ row.status \in OpenStatuses
      BY <1>9, <2>3 DEF HoldCall, AdmitCall, Moved, OpenStatuses, RunRow
    <2>. QED  BY <1>1, <2>1, <2>2, <2>4, MovesARun DEF Good
  <1>10. ASSUME NEW q \in Runs, RecordOutcome(q)
         PROVE  Good
    <2>1. run[q].status = "executing" /\ ~run[q].completed_at
      BY <1>10, AtWorkIsOpen DEF RecordOutcome, At, CallingPCs, TraceInv,
         DriverKnowsItsRun
    <2>2. changed_by' = changed_by /\ \E n, c : WriteCall(q, n, c)
      BY <1>10 DEF RecordOutcome, business
    <2>3. CASE UNCHANGED run
      <3>1. WriteRun(q, run[q])
        BY <1>1, <2>3 DEF WriteRun, TypeOK
      <3>. QED
        BY <1>1, <2>1, <2>2, <3>1, MovesARun DEF Good, OpenStatuses
    <2>4. CASE ~UNCHANGED run
      <3>1. \E reason : \E status \in EndedStatuses :
               WriteRun(q, Ended(run[q], status, reason))
        BY <1>10, <2>4 DEF RecordOutcome, EndedStatuses
      <3>. QED  BY <1>1, <2>1, <2>2, <3>1, EndsARun DEF Good
    <2>. QED  BY <2>3, <2>4
  <1>11. ASSUME NEW q \in Runs, Conclude(q)
         PROVE  Good
    <2>1. ~run[q].completed_at
      BY <1>11, AtWorkIsOpen DEF Conclude, At, VerifyingPCs
    <2>2. UNCHANGED <<tool_calls, changed_by>>
      BY <1>11 DEF Conclude, business
    <2>3. DecisionOutcome(run[q].proposal, verdict[q]).status \in EndedStatuses
      BY DEF DecisionOutcome, EndedStatuses
    <2>4. \E reason : \E status \in EndedStatuses :
             WriteRun(q, Ended(run[q], status, reason))
      BY <1>11, <2>3 DEF Conclude
    <2>. QED  BY <1>1, <2>1, <2>2, <2>4, EndsARun DEF Good
  <1>12. ASSUME NEW q \in Runs, InsertAssignment(q)
         PROVE  Good
    <2>1. run[q].status = "executing" /\ ~run[q].completed_at
      BY <1>12, AtWorkIsOpen DEF InsertAssignment, At, CallingPCs, TraceInv,
         DriverKnowsItsRun
    <2>2. GoesOn(q)
      BY <1>12, <2>1 DEF InsertAssignment, GoesOn, tables, EndedStatuses
    <2>3. \A r \in Runs \ {q} : Untouched(r)
      BY <1>1, <1>12 DEF InsertAssignment, tables, Untouched, TypeOK
    <2>. QED  BY <2>2, <2>3 DEF Good
  <1>13. ASSUME NEW q \in Runs,
                \/ BeforeRequest(q) \/ RefuseCall(q) \/ ReadTarget(q)
                \/ CheckUser(q) \/ CountSeats(q) \/ StopReachesDecide(q)
                \/ RefuseProposal(q) \/ VerifyGoal(q) \/ CheckBlock(q)
                \/ RecordRequestFails(q) \/ BusinessFails(q)
                \/ RecordOutcomeFails(q) \/ Crash(q)
         PROVE  Good
    BY <1>2, <1>13 DEF BeforeRequest, RefuseCall, ReadTarget, CheckUser,
       CountSeats, StopReachesDecide, RefuseProposal, VerifyGoal, CheckBlock,
       RecordRequestFails, BusinessFails, RecordOutcomeFails, Crash, business
  <1>14. ASSUME Others PROVE Good
    BY <1>2, <1>14 DEF Others, HumanChecks, HumanAssigns, HumanRevokes,
       EditPolicy, DeactivateUser, business
  <1>15. ASSUME UNCHANGED vars PROVE Good
    BY <1>2, <1>15 DEF vars, tables, business
  <1>16. Good
    BY <1>3, <1>4, <1>5, <1>6, <1>7, <1>8, <1>9, <1>10, <1>11, <1>12, <1>13,
       <1>14, <1>15 DEF Next, NextWithoutCrash, Advance, Fault
  <1>. QED  BY <1>16 DEF Good
-----------------------------------------------------------------------------
LEMMA EndedAtFirst == Init => EndedIsCompleted
  BY AgentExecutorAssumption DEF Init, NoRun, NewRun, EndedIsCompleted, Statuses

LEMMA EndedStep ==
  ASSUME TraceInv, EndedIsCompleted, [Next]_vars
  PROVE  EndedIsCompleted'
  <1>1. \A r \in Runs : run[r] \in RunRow
    BY DEF TraceInv, TypeOK
  <1>2. ASSUME NEW r \in Runs
        PROVE  run'[r].completed_at <=> run'[r].status \in EndedStatuses
    BY <1>1, StepsOfRuns, NumberedIsRow
    DEF EndedIsCompleted, Untouched, OnlyCounted, GoesOn
  <1>. QED  BY <1>2 DEF EndedIsCompleted

THEOREM EndingsAreTimed == Spec => []EndedIsCompleted
  BY EndedAtFirst, EndedStep, TraceInvariant, PTL DEF Spec

\* Whatever its planner goes on to ask, and whoever else is at work: a run that
\* has ended keeps its row, but for the trace counter, its calls and its
\* changes ("A run that has ended never changes again").
THEOREM EndedIsFinal == Spec => EndedStaysEnded
  <1>. DEFINE Final == \A r \in Runs : run[r].completed_at =>
                /\ run'[r] = [run[r] EXCEPT !.last_sequence_no
                                 = run'[r].last_sequence_no]
                /\ tool_calls'[r] = tool_calls[r]
                /\ changed_by'[r] = changed_by[r]
  <1>1. ASSUME TraceInv, EndedIsCompleted, [Next]_vars PROVE Final
    <2>. SUFFICES ASSUME NEW r \in Runs, run[r].completed_at
                  PROVE  /\ run'[r] = [run[r] EXCEPT !.last_sequence_no
                                          = run'[r].last_sequence_no]
                         /\ tool_calls'[r] = tool_calls[r]
                         /\ changed_by'[r] = changed_by[r]
      OBVIOUS
    <2>1. run[r] \in RunRow
      BY <1>1 DEF TraceInv, TypeOK
    <2>2. Untouched(r) \/ OnlyCounted(r)
      BY <1>1, StepsOfRuns DEF GoesOn
    <2>3. CASE Untouched(r)
      BY <2>1, <2>3 DEF Untouched, RunRow
    <2>4. CASE OnlyCounted(r)
      BY <2>1, <2>4 DEF OnlyCounted, Numbered, RunRow
    <2>. QED  BY <2>2, <2>3, <2>4
  <1>2. TraceInv /\ EndedIsCompleted /\ [Next]_vars => [Final]_vars
    BY <1>1
  <1>. QED
    BY <1>2, TraceInvariant, EndingsAreTimed, PTL DEF Spec, EndedStaysEnded
-----------------------------------------------------------------------------
(* The limits.                                                             *)

\* The attempts a limit counts, and those it refused.
Counted(r, tool) ==
    {n \in CallsOf(r, Kind(tool)) : tool_calls[r][n].error # "step_limit"}

RefusedForLimit(r) ==
    {n \in DOMAIN tool_calls[r] : tool_calls[r][n].error = "step_limit"}

\* A request in flight is one of those the limit allows.
RequestsFit(r) ==
    /\ Cardinality(RequestsMade(r, "decision")) <= MaxRequests
    /\ pc[r] = "requesting" =>
          Cardinality(RequestsMade(r, "decision")) < MaxRequests

\* A call refused for a limit has ended its run.
CallsFit(r) ==
    /\ \A tool \in Tools : Cardinality(Counted(r, tool)) <= Limit(tool)
    /\ Cardinality(RefusedForLimit(r)) <= 1
    /\ RefusedForLimit(r) # {} => run[r].completed_at

RequestsWithinLimit == \A r \in Runs : RequestsFit(r)
CallsWithinLimit == \A r \in Runs : CallsFit(r)

LEMMA TablesAreFinite ==
  ASSUME TraceInv, NEW r \in Runs
  PROVE  IsFiniteSet(DOMAIN model_calls[r]) /\ IsFiniteSet(DOMAIN tool_calls[r])
  <1>1. run[r].last_sequence_no \in Nat
    BY DEF TraceInv, TypeOK, RunRow
  <1>2. IsFiniteSet(1 .. run[r].last_sequence_no)
    BY <1>1, FS_Interval
  <1>3. /\ DOMAIN model_calls[r] \subseteq 1 .. run[r].last_sequence_no
        /\ DOMAIN tool_calls[r] \subseteq 1 .. run[r].last_sequence_no
    BY DEF TraceInv, TraceIsOneOrder
  <1>. QED  BY <1>2, <1>3, FS_Subset

\* The next number is free.
LEMMA NextIsFree ==
  ASSUME TraceInv, NEW r \in Runs
  PROVE  /\ NextSeq(r) \in Nat
         /\ NextSeq(r) \notin DOMAIN model_calls[r] \cup DOMAIN tool_calls[r]
  <1>1. run[r].last_sequence_no \in Nat
    BY DEF TraceInv, TypeOK, RunRow
  <1>2. NextSeq(r) \notin 1 .. run[r].last_sequence_no
    BY <1>1 DEF NextSeq
  <1>3. DOMAIN model_calls[r] \cup DOMAIN tool_calls[r]
           = 1 .. run[r].last_sequence_no
    BY DEF TraceInv, TraceIsOneOrder
  <1>4. NextSeq(r) \in Nat
    BY <1>1 DEF NextSeq
  <1>. QED  BY <1>2, <1>3, <1>4

\* One element more makes a finite set larger by one at most.
LEMMA OneMore ==
  ASSUME NEW S, IsFiniteSet(S), NEW T, NEW e, T \subseteq S \cup {e}
  PROVE  /\ IsFiniteSet(T)
         /\ Cardinality(S) \in Nat /\ Cardinality(T) \in Nat
         /\ Cardinality(T) <= Cardinality(S) + 1
  <1>1. IsFiniteSet(S \cup {e}) /\ Cardinality(S \cup {e}) \in Nat
        /\ Cardinality(S) \in Nat
        /\ Cardinality(S \cup {e}) <= Cardinality(S) + 1
    <2>1. IsFiniteSet(S \cup {e}) /\ Cardinality(S \cup {e}) =
            IF e \in S THEN Cardinality(S) ELSE Cardinality(S) + 1
      BY FS_AddElement
    <2>2. Cardinality(S) \in Nat
      BY FS_CardinalityType
    <2>. QED  BY <2>1, <2>2
  <1>2. IsFiniteSet(T) /\ Cardinality(T) <= Cardinality(S \cup {e})
    BY <1>1, FS_Subset
  <1>. QED  BY <1>1, <1>2, FS_CardinalityType

\* Where no request is recorded, and none is made, the requests fit as before.
LEMMA RequestsRest ==
  ASSUME RequestsWithinLimit, UNCHANGED model_calls,
         \A r \in Runs : pc'[r] = "requesting" =>
            \/ pc[r] = "requesting"
            \/ Cardinality(RequestsMade(r, "decision")) < MaxRequests
  PROVE  RequestsWithinLimit'
  BY DEF RequestsWithinLimit, RequestsFit, RequestsMade

\* Who asks for a request in a step.
LEMMA OnlyBeforeRequest ==
  ASSUME TraceInv, [Next]_vars, NEW r \in Runs, pc'[r] = "requesting"
  PROVE  \/ pc[r] = "requesting"
         \/ Cardinality(RequestsMade(r, "decision")) < MaxRequests
  <1>1. pc \in [Runs -> PCs]
    BY DEF TraceInv, TypeOK
  <1>2. ASSUME NEW q \in Runs, BeforeRequest(q)
        PROVE  \/ pc[r] = "requesting"
               \/ Cardinality(RequestsMade(r, "decision")) < MaxRequests
    BY <1>1, <1>2 DEF BeforeRequest, At
  <1>3. ASSUME NEW q \in Runs, NEW there, there # "requesting",
               pc' = [pc EXCEPT ![q] = there]
        PROVE  pc[r] = "requesting"
    BY <1>1, <1>3
  <1>4. ASSUME NEW q \in Runs, Advance(q), ~BeforeRequest(q)
        PROVE  \E there : there # "requesting" /\ pc' = [pc EXCEPT ![q] = there]
    BY <1>4 DEF Advance, At, ExtractionRequest, ExtractGoal, ExtractNothing,
       ResolveGoal, ResolveNothing, StartDecision, RequestOverLimit,
       RecordRequest, RefuseCall, CallOverLimit, AdmitCall, DenyCall,
       HoldCall, ReadTarget, CheckUser, CountSeats, InsertAssignment,
       RecordOutcome, StopReachesDecide, ErrorReachesDecide, RecordProposal,
       RefuseProposal, VerifyGoal, CheckBlock, Conclude
  <1>5. ASSUME NEW q \in Runs, ReceiveRun(q) \/ Fault(q) \/ Crash(q)
        PROVE  \E there : there # "requesting" /\ pc' = [pc EXCEPT ![q] = there]
    BY <1>5 DEF ReceiveRun, At, Fault, RecordRequestFails, BusinessFails,
       RecordOutcomeFails, VerificationFails, Crash
  <1>6. ASSUME Others \/ UNCHANGED vars PROVE pc[r] = "requesting"
    BY <1>6 DEF Others, HumanChecks, HumanAssigns, HumanRevokes, EditPolicy,
       DeactivateUser, vars
  <1>. QED
    BY <1>2, <1>3, <1>4, <1>5, <1>6 DEF Next, NextWithoutCrash

\* Who records a request in a step.
LEMMA OnlyRecordedRequests ==
  ASSUME [Next]_vars, ~UNCHANGED model_calls
  PROVE  \E q \in Runs : ExtractionRequest(q) \/ RecordRequest(q)
  BY DEF Next, NextWithoutCrash, Advance, Fault, Others, Crash, ReceiveRun,
     ExtractGoal, ExtractNothing, ResolveGoal, ResolveNothing, StartDecision,
     BeforeRequest, RequestOverLimit, RefuseCall, CallOverLimit, AdmitCall,
     DenyCall, HoldCall, ReadTarget, CheckUser, CountSeats, InsertAssignment,
     RecordOutcome, StopReachesDecide, ErrorReachesDecide, RecordProposal,
     RefuseProposal, VerifyGoal, CheckBlock, Conclude, RecordRequestFails,
     BusinessFails, RecordOutcomeFails, VerificationFails, HumanChecks,
     HumanAssigns, HumanRevokes, EditPolicy, DeactivateUser, vars, tables

LEMMA RequestsStep ==
  ASSUME TraceInv, RequestsWithinLimit, [Next]_vars
  PROVE  RequestsWithinLimit'
  <1>1. CASE UNCHANGED model_calls
    BY <1>1, RequestsRest, OnlyBeforeRequest
  <1>2. CASE ~UNCHANGED model_calls
    <2>1. PICK q \in Runs : ExtractionRequest(q) \/ RecordRequest(q)
      BY <1>2, OnlyRecordedRequests
    <2>2. PICK stage \in {"extraction", "decision"}, ok \in BOOLEAN :
             /\ RecordModelCall(q, stage, ok)
             /\ stage = "decision" =>
                   pc[q] = "requesting" /\ pc' = [pc EXCEPT ![q] = "planning"]
             /\ stage = "extraction" => pc' = [pc EXCEPT ![q] = "extracting"]
      BY <2>1 DEF ExtractionRequest, RecordRequest, At
    <2>. DEFINE n == NextSeq(q)
    <2>3. TypeOK /\ IsTable(model_calls[q], ModelCallRow)
      BY DEF TraceInv, TypeOK
    <2>4. model_calls'[q] = Put(model_calls[q], n, [stage |-> stage, succeeded |-> ok])
          /\ \A r \in Runs \ {q} : model_calls'[r] = model_calls[r]
      BY <2>2, <2>3 DEF RecordModelCall, TypeOK
    <2>5. n \notin DOMAIN model_calls[q]
      BY NextIsFree
    <2>. HIDE DEF n
    <2>6. /\ stage = "extraction" =>
                RequestsMade(q, "decision")' = RequestsMade(q, "decision")
          /\ RequestsMade(q, "decision")' \subseteq
                RequestsMade(q, "decision") \cup {n}
      BY <2>2, <2>4, <2>5 DEF RequestsMade, Put
    <2>7. IsFiniteSet(RequestsMade(q, "decision"))
      <3>1. RequestsMade(q, "decision") \subseteq DOMAIN model_calls[q]
        BY DEF RequestsMade
      <3>. QED  BY <3>1, TablesAreFinite, FS_Subset
    <2>8. pc'[q] # "requesting" /\ \A r \in Runs \ {q} : pc'[r] = pc[r]
      BY <2>2, <2>3 DEF TypeOK
    <2>9. RequestsFit(q)'
      <3>. DEFINE before == Cardinality(RequestsMade(q, "decision"))
                  after == Cardinality(RequestsMade(q, "decision"))'
      <3>1. before \in Nat /\ after \in Nat /\ after <= before + 1
            /\ (stage = "extraction" => after = before)
        BY <2>6, <2>7, OneMore
      <3>2. before <= MaxRequests /\ (stage = "decision" => before < MaxRequests)
        BY <2>2 DEF RequestsWithinLimit, RequestsFit
      <3>. HIDE DEF before, after
      <3>3. after <= MaxRequests
        BY <2>2, <3>1, <3>2, AgentExecutorAssumption
      <3>. QED  BY <2>8, <3>3 DEF RequestsFit, after
    <2>10. \A r \in Runs \ {q} : RequestsFit(r)'
      BY <2>4, <2>8 DEF RequestsWithinLimit, RequestsFit, RequestsMade
    <2>. QED  BY <2>9, <2>10 DEF RequestsWithinLimit
  <1>. QED  BY <1>1, <1>2
\* Whoever acts: a run's calls stay, or one is added within its limit, or one
\* is refused for the limit and ends the run, or one gets its outcome.
Added(r, n, c, tool) ==
    /\ ~OverLimit(r, tool) /\ c.tool_name = tool /\ c.error # "step_limit"
    /\ n = NextSeq(r) /\ tool_calls'[r] = Put(tool_calls[r], n, c)

Turned(r, n, c) ==
    /\ c.error = "step_limit" /\ run'[r].completed_at
    /\ n = NextSeq(r) /\ tool_calls'[r] = Put(tool_calls[r], n, c)

GivenOutcome(r, n, c) ==
    /\ n \in DOMAIN tool_calls[r] /\ tool_calls[r][n].status = "started"
    /\ c.error # "step_limit" /\ c.tool_name = tool_calls[r][n].tool_name
    /\ tool_calls'[r] = Put(tool_calls[r], n, c)

\* The steps that write tool calls.
WritesACall(q) ==
    \/ \E tool \in Tools : AdmitCall(q, tool)
    \/ \E tool \in Tools : CallOverLimit(q, tool)
    \/ DenyCall(q)
    \/ HoldCall(q)
    \/ RecordOutcome(q)

LEMMA CallsAreWritten ==
  ASSUME [Next]_vars, ~UNCHANGED tool_calls
  PROVE  \E q \in Runs : WritesACall(q)
  BY DEF WritesACall, Next, NextWithoutCrash, Advance, Fault, Others, Crash,
     ReceiveRun, ExtractionRequest, ExtractGoal, ExtractNothing, ResolveGoal,
     ResolveNothing, StartDecision, BeforeRequest, RequestOverLimit,
     RecordRequest, RefuseCall, ReadTarget, CheckUser, CountSeats,
     InsertAssignment, StopReachesDecide, ErrorReachesDecide, RecordProposal,
     RefuseProposal, VerifyGoal, CheckBlock, Conclude, RecordRequestFails,
     BusinessFails, RecordOutcomeFails, VerificationFails, HumanChecks,
     HumanAssigns, HumanRevokes, EditPolicy, DeactivateUser, vars, tables

LEMMA StepsOfCalls ==
  ASSUME TraceInv, [Next]_vars, NEW r \in Runs
  PROVE  \/ tool_calls'[r] = tool_calls[r]
         \/ \E n, c : \E tool \in Tools : Added(r, n, c, tool)
         \/ \E n, c : Turned(r, n, c)
         \/ \E n, c : GivenOutcome(r, n, c)
  <1>. DEFINE Good == \/ tool_calls'[r] = tool_calls[r]
                      \/ \E n, c : \E tool \in Tools : Added(r, n, c, tool)
                      \/ \E n, c : Turned(r, n, c)
                      \/ \E n, c : GivenOutcome(r, n, c)
  <1>1. TypeOK /\ run[r] \in RunRow
    BY DEF TraceInv, TypeOK
  <1>2. tool_calls = [q \in Runs |-> tool_calls[q]] /\ run \in [Runs -> RunRow]
    BY <1>1 DEF TypeOK
  <1>3. CASE UNCHANGED tool_calls
    BY <1>3
  <1>4. ASSUME NEW q \in Runs, q # r, NEW n, NEW c, WriteCall(q, n, c)
        PROVE  Good
    BY <1>2, <1>4 DEF WriteCall
  <1>5. ASSUME NEW n, NEW c, WriteCall(r, n, c)
        PROVE  tool_calls'[r] = Put(tool_calls[r], n, c)
    BY <1>2, <1>5 DEF WriteCall
  <1>6. ASSUME NEW tool \in Tools, AdmitCall(r, tool) PROVE Good
    <2>. DEFINE c == Started(tool, PolicyDecision(r, tool))
    <2>1. WriteCall(r, NextSeq(r), c) /\ ~OverLimit(r, tool)
      BY <1>6 DEF AdmitCall
    <2>2. c.tool_name = tool /\ c.error = None
      BY DEF Started
    <2>3. Added(r, NextSeq(r), c, tool)
      BY <1>5, <2>1, <2>2, AgentExecutorAssumption DEF Added, ErrorCodes
    <2>. QED  BY <2>3
  <1>7. ASSUME DenyCall(r) PROVE Good
    <2>. DEFINE c == NeverRun(Mutation, "deny", "policy_denied")
    <2>1. WriteCall(r, NextSeq(r), c) /\ ~OverLimit(r, Mutation)
      BY <1>7 DEF DenyCall
    <2>2. c.tool_name = Mutation /\ c.error = "policy_denied"
      BY DEF Started, NeverRun
    <2>3. Added(r, NextSeq(r), c, Mutation) /\ Mutation \in Tools
      BY <1>5, <2>1, <2>2 DEF Added, Tools
    <2>. QED  BY <2>3
  <1>8. ASSUME HoldCall(r) PROVE Good
    <2>. DEFINE c == [Started(Mutation, "require_approval")
                         EXCEPT !.status = "awaiting_approval"]
    <2>1. WriteCall(r, NextSeq(r), c) /\ ~OverLimit(r, Mutation)
      BY <1>8 DEF HoldCall
    <2>2. c.tool_name = Mutation /\ c.error = None
      BY DEF Started
    <2>3. Added(r, NextSeq(r), c, Mutation) /\ Mutation \in Tools
      BY <1>5, <2>1, <2>2, AgentExecutorAssumption DEF Added, Tools, ErrorCodes
    <2>. QED  BY <2>3
  <1>9. ASSUME NEW tool \in Tools, CallOverLimit(r, tool) PROVE Good
    <2>. DEFINE c == NeverRun(tool, None, "step_limit")
    <2>1. /\ WriteCall(r, NextSeq(r), c)
          /\ run'[r] = Ended(Numbered(run[r]), "failed", "step_limit")
      BY <1>2, <1>9 DEF CallOverLimit, WriteRun
    <2>2. c.error = "step_limit" /\ run'[r].completed_at
      BY <1>1, <2>1, NumberedIsRow DEF Started, NeverRun, Ended, RunRow
    <2>3. Turned(r, NextSeq(r), c)
      BY <1>5, <2>1, <2>2 DEF Turned
    <2>. QED  BY <2>3
  <1>10. ASSUME RecordOutcome(r) PROVE Good
    <2>. DEFINE n == call[r]
                c == RecordedCall(r)
    <2>1. WriteCall(r, n, c) /\ pc[r] = "record"
      BY <1>10 DEF RecordOutcome, At
    <2>2. /\ n \in DOMAIN tool_calls[r] /\ tool_calls[r][n].status = "started"
          /\ outcome[r] \in Outcomes
      BY <1>1, <2>1 DEF TraceInv, CallInFlightIsStarted, CallingPCs, TypeOK
    <2>3. tool_calls[r][n] \in ToolCallRow
      BY <1>1, <2>2 DEF TypeOK, IsTable
    <2>4. c.tool_name = tool_calls[r][n].tool_name
      BY <2>3 DEF RecordedCall, ToolCallRow
    <2>5. c.error = IF outcome[r] = "ok" THEN None ELSE outcome[r]
      BY <2>3 DEF RecordedCall, ToolCallRow
    <2>6. c.error # "step_limit"
      BY <2>2, <2>5, AgentExecutorAssumption DEF Outcomes, ShownAs, ErrorCodes
    <2>7. GivenOutcome(r, n, c)
      BY <1>5, <2>1, <2>2, <2>4, <2>6 DEF GivenOutcome
    <2>. QED  BY <2>7
  <1>. HIDE DEF Good
  <1>11. Good
    <2>1. CASE UNCHANGED tool_calls
      BY <2>1 DEF Good
    <2>2. CASE ~UNCHANGED tool_calls
      <3>1. PICK q \in Runs : WritesACall(q)
        BY <2>2, CallsAreWritten
      <3>2. CASE q = r
        BY <1>6, <1>7, <1>8, <1>9, <1>10, <3>1, <3>2 DEF WritesACall
      <3>3. CASE q # r
        <4>1. \E n, c : WriteCall(q, n, c)
          BY <3>1 DEF WritesACall, AdmitCall, CallOverLimit, DenyCall,
             HoldCall, RecordOutcome
        <4>. QED  BY <1>4, <3>3, <4>1
      <3>. QED  BY <3>2, <3>3
    <2>. QED  BY <2>1, <2>2
  <1>. QED  BY <1>11 DEF Good

\* A tool is counted with its kind.
LEMMA KindsAndLimits ==
  ASSUME NEW t \in Tools, NEW tool \in Tools
  PROVE  /\ tool \in Kind(t) => Kind(t) = Kind(tool) /\ Limit(t) = Limit(tool)
         /\ Limit(t) \in Nat
  BY AgentDomainAssumption, AgentExecutorAssumption DEF Tools, Kind, Limit

LEMMA CallsStep ==
  ASSUME TraceInv, EndedIsCompleted, CallsWithinLimit, [Next]_vars
  PROVE  CallsWithinLimit'
  <1>. SUFFICES ASSUME NEW r \in Runs PROVE CallsFit(r)'
    BY DEF CallsWithinLimit
  <1>1. CallsFit(r) /\ run[r] \in RunRow
    BY DEF CallsWithinLimit, TraceInv, TypeOK
  <1>2. CASE Untouched(r) \/ OnlyCounted(r)
    <2>1. tool_calls'[r] = tool_calls[r]
          /\ run'[r].completed_at = run[r].completed_at
      BY <1>1, <1>2, NumberedIsRow DEF Untouched, OnlyCounted
    <2>. QED  BY <1>1, <2>1 DEF CallsFit, Counted, RefusedForLimit, CallsOf
  <1>3. CASE ~run[r].completed_at
    <2>1. RefusedForLimit(r) = {}
      BY <1>1, <1>3 DEF CallsFit
    <2>2. CASE tool_calls'[r] = tool_calls[r]
      BY <1>1, <2>1, <2>2 DEF CallsFit, Counted, RefusedForLimit, CallsOf
    <2>3. ASSUME NEW n, NEW c, NEW tool \in Tools, Added(r, n, c, tool)
          PROVE  CallsFit(r)'
      <3>1. /\ n \notin DOMAIN tool_calls[r]
            /\ tool_calls'[r] = Put(tool_calls[r], n, c)
            /\ c.tool_name = tool /\ c.error # "step_limit"
        BY <2>3, NextIsFree DEF Added
      <3>2. RefusedForLimit(r)' = {}
        BY <2>1, <3>1 DEF RefusedForLimit, Put
      <3>3. ASSUME NEW t \in Tools
            PROVE  Cardinality(Counted(r, t))' <= Limit(t)
        <4>1. CASE tool \in Kind(t)
          <5>1. /\ Kind(t) = Kind(tool) /\ Limit(t) = Limit(tool)
                /\ Limit(t) \in Nat
            BY <4>1, KindsAndLimits
          <5>. DEFINE before == CallsOf(r, Kind(t))
          <5>2. before \subseteq DOMAIN tool_calls[r] /\ IsFiniteSet(before)
            BY TablesAreFinite, FS_Subset DEF CallsOf
          <5>3. Counted(r, t)' \subseteq before \cup {n}
            BY <3>1 DEF Counted, CallsOf, Put
          <5>4. ~(Cardinality(before) >= Limit(t))
            BY <2>3, <5>1 DEF Added, OverLimit
          <5>5. /\ Cardinality(before) \in Nat
                /\ Cardinality(Counted(r, t))' \in Nat
                /\ Cardinality(Counted(r, t))' <= Cardinality(before) + 1
            BY <5>2, <5>3, OneMore
          <5>. HIDE DEF before
          <5>. QED  BY <5>1, <5>4, <5>5
        <4>2. CASE tool \notin Kind(t)
          <5>1. Counted(r, t)' = Counted(r, t)
            BY <3>1, <4>2 DEF Counted, CallsOf, Put
          <5>. QED  BY <1>1, <5>1 DEF CallsFit
        <4>. QED  BY <4>1, <4>2
      <3>. QED  BY <3>2, <3>3, FS_EmptySet DEF CallsFit, Limit
    <2>4. ASSUME NEW n, NEW c, Turned(r, n, c)
          PROVE  CallsFit(r)'
      <3>1. /\ n \notin DOMAIN tool_calls[r]
            /\ tool_calls'[r] = Put(tool_calls[r], n, c)
            /\ c.error = "step_limit" /\ run'[r].completed_at
        BY <2>4, NextIsFree DEF Turned
      <3>2. RefusedForLimit(r)' = {n}
        BY <2>1, <3>1 DEF RefusedForLimit, Put
      <3>3. \A t \in Tools : Counted(r, t)' = Counted(r, t)
        BY <3>1 DEF Counted, CallsOf, Put
      <3>4. Cardinality({n}) = 1
        BY FS_Singleton
      <3>. QED  BY <1>1, <3>1, <3>2, <3>3, <3>4 DEF CallsFit, Limit
    <2>5. ASSUME NEW n, NEW c, GivenOutcome(r, n, c)
          PROVE  CallsFit(r)'
      <3>1. /\ n \in DOMAIN tool_calls[r]
            /\ tool_calls'[r] = Put(tool_calls[r], n, c)
            /\ c.tool_name = tool_calls[r][n].tool_name
            /\ c.error # "step_limit"
        BY <2>5 DEF GivenOutcome
      <3>2. RefusedForLimit(r)' = {}
        BY <2>1, <3>1 DEF RefusedForLimit, Put
      <3>3. \A t \in Tools : Counted(r, t)' = Counted(r, t)
        BY <2>1, <3>1 DEF Counted, CallsOf, Put, RefusedForLimit
      <3>. QED  BY <1>1, <3>2, <3>3, FS_EmptySet DEF CallsFit, Limit
    <2>. QED  BY <2>2, <2>3, <2>4, <2>5, StepsOfCalls
  <1>. QED  BY <1>2, <1>3, StepsOfRuns DEF GoesOn

LEMMA LimitsAtFirst == Init => RequestsWithinLimit /\ CallsWithinLimit
  <1>. SUFFICES ASSUME Init, NEW r \in Runs
                PROVE  RequestsFit(r) /\ CallsFit(r)
    BY DEF RequestsWithinLimit, CallsWithinLimit
  <1>1. /\ DOMAIN model_calls[r] = {} /\ DOMAIN tool_calls[r] = {}
        /\ pc[r] = "new"
    BY DEF Init, NoRows
  <1>2. /\ RequestsMade(r, "decision") = {} /\ RefusedForLimit(r) = {}
        /\ \A t \in Tools : Counted(r, t) = {}
    BY <1>1 DEF RequestsMade, RefusedForLimit, Counted, CallsOf
  <1>3. Cardinality({}) = 0
    BY FS_EmptySet
  <1>4. MaxRequests \in Nat /\ \A t \in Tools : Limit(t) \in Nat
    BY AgentExecutorAssumption DEF Limit
  <1>. QED  BY <1>1, <1>2, <1>3, <1>4 DEF RequestsFit, CallsFit

\* The limits of a decision hold on the trace for every limit, planner, fault
\* and crash: requests within MaxRequests, attempts of each kind within theirs,
\* and one call at most that was refused for a limit.
THEOREM LimitsAreKept == Spec => []LimitsHold
  <1>1. RequestsWithinLimit /\ CallsWithinLimit => LimitsHold
    BY DEF RequestsWithinLimit, CallsWithinLimit, RequestsFit, CallsFit,
       LimitsHold, Counted, RefusedForLimit, Limit
  <1>. QED
    BY <1>1, LimitsAtFirst, RequestsStep, CallsStep, TraceInvariant,
       EndingsAreTimed, PTL DEF Spec
-----------------------------------------------------------------------------
(* The CHECK constraints.                                                  *)

\* A run's row passes, and has what its driver goes by next.
RunChecked(row, here) ==
    /\ row.status # None => RunRowPasses(row)
    /\ row.status = None => here = "new"
    /\ here = "extracting" => ~row.goal
    /\ here = "resolving" => row.goal
    /\ row.status = "executing" => row.context

RunsChecked == \A r \in Runs : RunChecked(run[r], pc[r])

CallsChecked ==
    \A r \in Runs : \A n \in DOMAIN tool_calls[r] :
        ToolCallRowPasses(tool_calls[r][n])

LEMMA NoneIsNoStatus == None \notin Statuses \cup Reasons \cup ClaimReasons
  BY AgentExecutorAssumption DEF Reasons, ReasonsOf, EndedStatuses, ClaimReasons

\* A row keeps passing when it is numbered, ...
LEMMA NumberedPasses ==
  ASSUME NEW row \in RunRow, RunRowPasses(row)
  PROVE  RunRowPasses(Numbered(row))
  BY DEF RunRowPasses, Numbered, RunRow

\* ... and when its run fails, for any reason there is.
LEMMA FailedPasses ==
  ASSUME NEW row \in RunRow, RunRowPasses(row), NEW reason \in ReasonsOf.failed
  PROVE  RunRowPasses(Ended(row, "failed", reason))
  <1>. DEFINE new == Ended(row, "failed", reason)
  <1>1. /\ new.status = "failed" /\ new.outcome_reason = reason
        /\ new.completed_at
        /\ new.goal = row.goal /\ new.target = row.target
        /\ new.context = row.context /\ new.proposal = row.proposal
    BY DEF Ended, RunRow
  <1>2. reason \notin ExtractionReasons
    BY DEF ReasonsOf, ExtractionReasons
  <1>3. "failed" \notin OpenStatuses /\ reason \in ReasonsOf["failed"]
    BY DEF OpenStatuses
  <1>. HIDE DEF new
  <1>4. /\ new.target # None => new.goal
        /\ new.context => new.target # None
        /\ new.proposal # None => new.context
        /\ (new.proposal # None /\ new.proposal.kind = "cannot_proceed")
              <=> (new.proposal # None /\ new.proposal.reason_code # None)
    BY <1>1 DEF RunRowPasses
  <1>5. RunRowPasses(new)
    BY <1>1, <1>2, <1>3, <1>4 DEF RunRowPasses
  <1>. QED  BY <1>5 DEF new

\* The steps of a run's driver leave a row that passes.
LEMMA DriverKeepsRowsChecked ==
  ASSUME TraceInv, EndedIsCompleted, RunsChecked, NEW r \in Runs,
         ReceiveRun(r) \/ Advance(r) \/ Fault(r) \/ Crash(r)
  PROVE  RunChecked(run'[r], pc'[r])
  <1>. DEFINE Good == RunChecked(run'[r], pc'[r])
  <1>0. /\ run \in [Runs -> RunRow] /\ pc \in [Runs -> PCs]
        /\ run[r] \in RunRow /\ pc[r] \in PCs
        /\ RunChecked(run[r], pc[r])
    BY DEF TraceInv, TypeOK, RunsChecked
  <1>1. ASSUME NEW row, WriteRun(r, row) PROVE run'[r] = row
    BY <1>0, <1>1 DEF WriteRun
  <1>2. ASSUME NEW there, pc' = [pc EXCEPT ![r] = there] PROVE pc'[r] = there
    BY <1>0, <1>2
  <1>3. ASSUME UNCHANGED run, pc'[r] \notin {"new", "extracting", "resolving"},
               run[r].status # None
        PROVE  Good
    BY <1>0, <1>3 DEF RunChecked
  <1>4. ASSUME pc[r] # "new" PROVE run[r].status # None /\ RunRowPasses(run[r])
    BY <1>0, <1>4 DEF RunChecked
  <1>5. ASSUME NEW row \in RunRow, RunRowPasses(row),
               NEW reason \in ReasonsOf.failed,
               WriteRun(r, Ended(row, "failed", reason)),
               pc'[r] \notin {"new", "extracting", "resolving"}
        PROVE  Good
    <2>1. run'[r] = Ended(row, "failed", reason)
      BY <1>1, <1>5
    <2>2. run'[r].status = "failed" /\ RunRowPasses(run'[r])
      BY <1>5, <2>1, EndedKeeps, FailedPasses
    <2>3. "failed" # None
      BY NoneIsNoStatus DEF Statuses, EndedStatuses
    <2>. QED  BY <1>5, <2>2, <2>3 DEF RunChecked
  <1>6. {"planner_error", "unexpected_error", "step_limit", "tool_failed",
         "verification_failed"} \subseteq ReasonsOf.failed
    BY DEF ReasonsOf
  <1>5b. ASSUME pc[r] # "new", UNCHANGED run,
                pc'[r] \notin {"new", "extracting", "resolving"}
         PROVE  Good
    BY <1>3, <1>4, <1>5b
  <1>5a. ASSUME pc[r] # "new", pc'[r] \in {"planning", "returned"},
                \E reason \in ReasonsOf.failed :
                   WriteRun(r, Ended(run[r], "failed", reason))
         PROVE  Good
    BY <1>0, <1>4, <1>5, <1>5a
  <1>7. Numbered(run[r]) \in RunRow
        /\ (pc[r] # "new" => RunRowPasses(Numbered(run[r])))
    BY <1>0, <1>4, NumberedIsRow, NumberedPasses
  <1>. HIDE DEF Good
  <1>8. ASSUME ReceiveRun(r) PROVE Good
    <2>1. run'[r] = NewRun /\ pc'[r] = "extracting"
      BY <1>1, <1>2, <1>8 DEF ReceiveRun, At
    <2>2. RunRowPasses(NewRun)
      BY NoneIsNoStatus DEF RunRowPasses, NewRun, OpenStatuses,
         ExtractionReasons, Reasons, ReasonsOf, EndedStatuses
    <2>. QED  BY <2>1, <2>2, NoneIsNoStatus
              DEF Good, RunChecked, NewRun, Statuses, OpenStatuses
  <1>9. ASSUME ExtractionRequest(r) \/ RecordRequest(r) PROVE Good
    <2>1. /\ pc[r] \in {"extracting", "requesting"}
          /\ pc'[r] = "extracting" => pc[r] = "extracting"
          /\ pc'[r] \in {"extracting", "planning"}
      BY <1>2, <1>9 DEF ExtractionRequest, RecordRequest, At
    <2>2. run'[r] = Numbered(run[r])
      BY <1>1, <1>9 DEF ExtractionRequest, RecordRequest, RecordModelCall
    <2>3. /\ run'[r].goal = run[r].goal /\ run'[r].context = run[r].context
          /\ run'[r].status = run[r].status
      BY <1>0, <2>2 DEF Numbered, RunRow
    <2>. QED  BY <1>0, <1>4, <1>7, <2>1, <2>2, <2>3 DEF Good, RunChecked
  <1>10. ASSUME ExtractGoal(r) PROVE Good
    <2>1. /\ run'[r] = [run[r] EXCEPT !.goal = TRUE]
          /\ pc[r] = "extracting" /\ pc'[r] = "resolving"
      BY <1>1, <1>2, <1>10 DEF ExtractGoal, At
    <2>2. run[r].status = "received" /\ RunRowPasses(run[r])
      BY <1>4, <2>1 DEF TraceInv, DriverKnowsItsRun
    <2>3. run[r].outcome_reason = None
      BY <2>2 DEF RunRowPasses, OpenStatuses
    <2>4. None \notin ExtractionReasons
      BY NoneIsNoStatus, ReasonsListed
    <2>5. RunRowPasses(run'[r])
      BY <1>0, <2>1, <2>2, <2>3, <2>4 DEF RunRowPasses, RunRow
    <2>. QED  BY <1>0, <2>1, <2>2, <2>5, NoneIsNoStatus
              DEF Good, RunChecked, RunRow, Statuses, OpenStatuses
  <1>11. ASSUME ExtractNothing(r) PROVE Good
    <2>1. /\ pc[r] = "extracting" /\ pc'[r] = "returned"
          /\ ~run[r].goal /\ run[r].status = "received"
          /\ RunRowPasses(run[r])
      BY <1>0, <1>2, <1>4, <1>11 DEF ExtractNothing, At, RunChecked, TraceInv,
         DriverKnowsItsRun
    <2>2. ASSUME NEW reason \in ExtractionReasons,
                 WriteRun(r, Ended(run[r], "needs_clarification", reason))
          PROVE  Good
      <3>1. run'[r] = Ended(run[r], "needs_clarification", reason)
        BY <1>1, <2>2
      <3>2. /\ run'[r].status = "needs_clarification"
            /\ run'[r].outcome_reason = reason /\ run'[r].completed_at
            /\ run'[r].goal = run[r].goal /\ run'[r].target = run[r].target
            /\ run'[r].context = run[r].context
            /\ run'[r].proposal = run[r].proposal
        BY <1>0, <3>1 DEF Ended, RunRow
      <3>3. reason \in ReasonsOf["needs_clarification"]
        BY DEF ReasonsOf
      <3>4. RunRowPasses(run'[r])
        BY <2>1, <3>2, <3>3 DEF RunRowPasses, OpenStatuses
      <3>. QED  BY <2>1, <3>2, <3>4, NoneIsNoStatus
                DEF Good, RunChecked, Statuses, EndedStatuses
    <2>3. CASE \E reason \in ReasonsOf.failed :
                  WriteRun(r, Ended(run[r], "failed", reason))
      BY <1>5a, <2>1, <2>3
    <2>. QED  BY <1>6, <1>11, <2>2, <2>3 DEF ExtractNothing
  <1>12. ASSUME ResolveGoal(r) PROVE Good
    <2>1. PICK target \in Pairs :
             WriteRun(r, [run[r] EXCEPT !.status = "resolved", !.target = target])
      BY <1>12 DEF ResolveGoal
    <2>2. /\ run'[r] = [run[r] EXCEPT !.status = "resolved", !.target = target]
          /\ pc[r] = "resolving" /\ pc'[r] = "resolved"
      BY <1>1, <1>2, <1>12, <2>1 DEF ResolveGoal, At
    <2>3. /\ run[r].status = "received" /\ run[r].goal /\ RunRowPasses(run[r])
          /\ target # None
      BY <1>0, <1>4, <2>2, AgentExecutorAssumption
      DEF TraceInv, DriverKnowsItsRun, RunChecked
    <2>4. /\ run'[r].status = "resolved" /\ run'[r].target = target
          /\ run'[r].goal = run[r].goal /\ run'[r].context = run[r].context
          /\ run'[r].proposal = run[r].proposal
          /\ run'[r].completed_at = run[r].completed_at
          /\ run'[r].outcome_reason = run[r].outcome_reason
      BY <1>0, <2>2 DEF RunRow
    <2>5. RunRowPasses(run'[r])
      BY <2>3, <2>4 DEF RunRowPasses, OpenStatuses
    <2>. QED  BY <2>2, <2>4, <2>5, NoneIsNoStatus
              DEF Good, RunChecked, Statuses, OpenStatuses
  <1>13. ASSUME ResolveNothing(r) PROVE Good
    <2>1. /\ pc[r] = "resolving" /\ pc'[r] = "returned"
          /\ run[r].status = "received" /\ RunRowPasses(run[r])
      BY <1>0, <1>2, <1>4, <1>13 DEF ResolveNothing, At, TraceInv,
         DriverKnowsItsRun
    <2>2. ASSUME NEW reason \in ResolutionFailures,
                 WriteRun(r, Ended(run[r], "needs_clarification", reason))
          PROVE  Good
      <3>1. run'[r] = Ended(run[r], "needs_clarification", reason)
        BY <1>1, <2>2
      <3>2. /\ run'[r].status = "needs_clarification"
            /\ run'[r].outcome_reason = reason /\ run'[r].completed_at
            /\ run'[r].goal = run[r].goal /\ run'[r].target = run[r].target
            /\ run'[r].context = run[r].context
            /\ run'[r].proposal = run[r].proposal
        BY <1>0, <3>1 DEF Ended, RunRow
      <3>3. reason \in ReasonsOf["needs_clarification"]
            /\ reason \notin ExtractionReasons
        BY DEF ReasonsOf, ResolutionFailures, ExtractionReasons
      <3>4. RunRowPasses(run'[r])
        BY <2>1, <3>2, <3>3 DEF RunRowPasses, OpenStatuses
      <3>. QED  BY <2>1, <3>2, <3>4, NoneIsNoStatus
                DEF Good, RunChecked, Statuses, EndedStatuses
    <2>3. CASE \E reason \in ReasonsOf.failed :
                  WriteRun(r, Ended(run[r], "failed", reason))
      BY <1>5a, <2>1, <2>3
    <2>. QED  BY <1>6, <1>13, <2>2, <2>3 DEF ResolveNothing
  <1>14. ASSUME StartDecision(r) PROVE Good
    <2>1. /\ run'[r] = [run[r] EXCEPT !.status = "executing", !.context = TRUE]
          /\ pc[r] = "resolved" /\ pc'[r] = "planning"
      BY <1>1, <1>2, <1>14 DEF StartDecision, At
    <2>2. run[r].status = "resolved" /\ RunRowPasses(run[r])
      BY <1>4, <2>1 DEF TraceInv, DriverKnowsItsRun
    <2>3. /\ run'[r].status = "executing" /\ run'[r].target = run[r].target
          /\ run'[r].goal = run[r].goal /\ run'[r].context
          /\ run'[r].proposal = run[r].proposal
          /\ run'[r].completed_at = run[r].completed_at
          /\ run'[r].outcome_reason = run[r].outcome_reason
      BY <1>0, <2>1 DEF RunRow
    <2>4. RunRowPasses(run'[r])
      BY <2>2, <2>3 DEF RunRowPasses, OpenStatuses
    <2>. QED  BY <2>1, <2>3, <2>4, NoneIsNoStatus
              DEF Good, RunChecked, Statuses, OpenStatuses
  <1>15. ASSUME RequestOverLimit(r) \/ ErrorReachesDecide(r)
                  \/ VerificationFails(r)
         PROVE  Good
    <2>1. pc[r] # "new" /\ pc'[r] \in {"planning", "returned"}
      BY <1>2, <1>15 DEF RequestOverLimit, ErrorReachesDecide,
         VerificationFails, At
    <2>2. CASE UNCHANGED run
      BY <1>5b, <2>1, <2>2
    <2>3. CASE ~UNCHANGED run
      <3>1. \E reason \in ReasonsOf.failed :
               WriteRun(r, Ended(run[r], "failed", reason))
        BY <1>6, <1>15, <2>3 DEF RequestOverLimit, ErrorReachesDecide,
           VerificationFails
      <3>. QED  BY <1>5a, <2>1, <3>1
    <2>. QED  BY <2>2, <2>3
  <1>16. ASSUME \E tool \in Tools : CallOverLimit(r, tool) PROVE Good
    <2>1. /\ pc[r] # "new" /\ pc'[r] = "planning"
          /\ WriteRun(r, Ended(Numbered(run[r]), "failed", "step_limit"))
      BY <1>2, <1>16 DEF CallOverLimit, At
    <2>. QED  BY <1>5, <1>6, <1>7, <2>1
  <1>17. ASSUME \E tool \in Tools : AdmitCall(r, tool) PROVE Good
    <2>1. /\ pc[r] # "new" /\ pc'[r] = "business"
          /\ run'[r] = Numbered(run[r])
      BY <1>1, <1>2, <1>17 DEF AdmitCall, At
    <2>2. run'[r].context = run[r].context /\ run'[r].status = run[r].status
      BY <1>0, <2>1 DEF Numbered, RunRow
    <2>. QED  BY <1>0, <1>4, <1>7, <2>1, <2>2 DEF Good, RunChecked
  <1>18. ASSUME DenyCall(r) \/ HoldCall(r) PROVE Good
    <2>1. /\ pc[r] # "new" /\ pc'[r] = "planning"
          /\ run[r].status = "executing"
      BY <1>2, <1>18 DEF DenyCall, HoldCall, MayCall, At
    <2>2. /\ RunRowPasses(run[r]) /\ run[r].target # None
          /\ run[r].proposal = None
      BY <1>4, <2>1, AgentExecutorAssumption DEF TraceInv, RowHasWhatItNeeds
    <2>3. \/ run'[r] = Ended(Numbered(run[r]), "blocked", "policy_denied")
          \/ run'[r] = Moved(Numbered(run[r]), "awaiting_approval")
      BY <1>1, <1>18 DEF DenyCall, HoldCall
    <2>4. /\ run'[r].goal = run[r].goal /\ run'[r].target = run[r].target
          /\ run'[r].context = run[r].context
          /\ run'[r].proposal = run[r].proposal
      BY <1>0, <2>3 DEF Ended, Moved, Numbered, RunRow
    <2>5. \/ /\ run'[r].status = "blocked" /\ run'[r].completed_at
             /\ run'[r].outcome_reason = "policy_denied"
          \/ /\ run'[r].status = "awaiting_approval"
             /\ run'[r].completed_at = run[r].completed_at
             /\ run'[r].outcome_reason = run[r].outcome_reason
      BY <1>0, <2>3 DEF Ended, Moved, Numbered, RunRow
    <2>6. /\ "policy_denied" \in ReasonsOf["blocked"]
          /\ "policy_denied" \notin ExtractionReasons
      BY DEF ReasonsOf, ExtractionReasons
    <2>7. RunRowPasses(run'[r])
      BY <2>1, <2>2, <2>4, <2>5, <2>6 DEF RunRowPasses, OpenStatuses
    <2>. QED  BY <2>1, <2>5, <2>7, NoneIsNoStatus
              DEF Good, RunChecked, Statuses, OpenStatuses, EndedStatuses
  <1>19. ASSUME RecordOutcome(r) PROVE Good
    <2>1. pc[r] # "new" /\ pc'[r] = "planning"
      BY <1>2, <1>19 DEF RecordOutcome, At
    <2>2. \/ UNCHANGED run
          \/ WriteRun(r, Ended(run[r], "failed", "tool_failed"))
      BY <1>19 DEF RecordOutcome
    <2>3. CASE UNCHANGED run
      BY <1>4, <1>5b, <2>1, <2>3
    <2>4. CASE WriteRun(r, Ended(run[r], "failed", "tool_failed"))
      BY <1>5a, <1>6, <2>1, <2>4
    <2>. QED  BY <2>2, <2>3, <2>4
  <1>20. ASSUME RecordProposal(r) PROVE Good
    <2>1. PICK p \in Proposals :
             WriteRun(r, [run[r] EXCEPT !.status = "verifying", !.proposal = p])
      BY <1>20 DEF RecordProposal
    <2>2. /\ run'[r] = [run[r] EXCEPT !.status = "verifying", !.proposal = p]
          /\ pc[r] = "planning" /\ pc'[r] = "verify"
          /\ run[r].status = "executing"
      BY <1>1, <1>2, <1>20, <2>1 DEF RecordProposal, At
    <2>3. RunRowPasses(run[r]) /\ run[r].context
      BY <1>0, <1>4, <2>2 DEF RunChecked
    <2>4. /\ run'[r].status = "verifying" /\ run'[r].target = run[r].target
          /\ run'[r].goal = run[r].goal /\ run'[r].context = run[r].context
          /\ run'[r].proposal = p
          /\ run'[r].completed_at = run[r].completed_at
          /\ run'[r].outcome_reason = run[r].outcome_reason
      BY <1>0, <2>2 DEF RunRow
    <2>5. p.kind = "cannot_proceed" <=> p.reason_code # None
      BY NoneIsNoStatus DEF Proposals
    <2>6. p # None
      BY AgentExecutorAssumption
    <2>7. RunRowPasses(run'[r])
      BY <2>2, <2>3, <2>4, <2>5, <2>6 DEF RunRowPasses, OpenStatuses
    <2>. QED  BY <2>2, <2>4, <2>7, NoneIsNoStatus
              DEF Good, RunChecked, Statuses, OpenStatuses
  <1>21. ASSUME Conclude(r) PROVE Good
    <2>. DEFINE result == DecisionOutcome(run[r].proposal, verdict[r])
    <2>1. /\ run'[r] = Ended(run[r], result.status, result.reason)
          /\ pc[r] = "conclude" /\ pc'[r] = "returned"
      BY <1>1, <1>2, <1>21 DEF Conclude, At
    <2>2. /\ run[r].status = "verifying" /\ RunRowPasses(run[r])
          /\ run[r].proposal \in Proposals /\ verdict[r] \in Verdicts
      BY <1>4, <2>1 DEF TraceInv, DriverKnowsItsRun, RowHasWhatItNeeds,
         VerifyingPCs, TypeOK
    <2>3. /\ result.status \in {"completed", "blocked", "failed"}
          /\ result.reason \in ReasonsOf[result.status]
      <3>1. run[r].proposal.kind = "cannot_proceed"
              => run[r].proposal.reason_code \in ClaimReasons
        BY <2>2 DEF Proposals
      <3>2. verdict[r].rejection \in ClaimReasons \cup {None}
        BY <2>2 DEF Verdicts
      <3>3. /\ {"goal_satisfied", "already_satisfied"} \subseteq ReasonsOf["completed"]
            /\ ClaimReasons \subseteq ReasonsOf["blocked"]
            /\ "verification_failed" \in ReasonsOf["failed"]
        BY DEF ReasonsOf, ClaimReasons
      <3>. QED  BY <3>1, <3>2, <3>3 DEF DecisionOutcome
    <2>4. result.reason \notin ExtractionReasons
      BY <2>3 DEF ReasonsOf, ExtractionReasons
    <2>. HIDE DEF result
    <2>5. /\ run'[r].status = result.status
          /\ run'[r].outcome_reason = result.reason /\ run'[r].completed_at
          /\ run'[r].goal = run[r].goal /\ run'[r].target = run[r].target
          /\ run'[r].context = run[r].context
          /\ run'[r].proposal = run[r].proposal
      BY <1>0, <2>1 DEF Ended, RunRow
    <2>6. RunRowPasses(run'[r])
      BY <2>2, <2>3, <2>4, <2>5 DEF RunRowPasses, OpenStatuses
    <2>. QED  BY <2>1, <2>3, <2>5, <2>6, NoneIsNoStatus
              DEF Good, RunChecked, Statuses, EndedStatuses
  <1>22. ASSUME \/ BeforeRequest(r) \/ RecordRequestFails(r) \/ RefuseCall(r)
                \/ ReadTarget(r) \/ CheckUser(r) \/ CountSeats(r)
                \/ InsertAssignment(r) \/ BusinessFails(r)
                \/ RecordOutcomeFails(r) \/ StopReachesDecide(r)
                \/ RefuseProposal(r) \/ VerifyGoal(r) \/ CheckBlock(r)
                \/ Crash(r)
         PROVE  Good
    <2>1. UNCHANGED run /\ pc[r] # "new"
      BY <1>22 DEF BeforeRequest, RecordRequestFails, RefuseCall, ReadTarget,
         CheckUser, CountSeats, InsertAssignment, BusinessFails,
         RecordOutcomeFails, StopReachesDecide, RefuseProposal, VerifyGoal,
         CheckBlock, Crash, At, tables
    <2>2. \E there : /\ pc' = [pc EXCEPT ![r] = there]
                     /\ there \notin {"new", "extracting", "resolving"}
      BY <1>22 DEF BeforeRequest, RecordRequestFails, RefuseCall, ReadTarget,
         CheckUser, CountSeats, InsertAssignment, BusinessFails,
         RecordOutcomeFails, StopReachesDecide, RefuseProposal, VerifyGoal,
         CheckBlock, Crash, At
    <2>. QED  BY <1>2, <1>5b, <2>1, <2>2
  <1>. QED
    BY <1>8, <1>9, <1>10, <1>11, <1>12, <1>13, <1>14, <1>15, <1>16, <1>17, <1>18,
       <1>19, <1>20, <1>21, <1>22 DEF Advance, Fault, Good

\* A step of one run's driver leaves the other runs alone.
LEMMA OneDriverMoves ==
  ASSUME TypeOK, NEW q \in Runs, NEW r \in Runs \ {q},
         ReceiveRun(q) \/ Advance(q) \/ Fault(q) \/ Crash(q)
  PROVE  /\ run'[r] = run[r] /\ pc'[r] = pc[r] /\ raised'[r] = raised[r]
         /\ tool_calls'[r] = tool_calls[r] /\ changed_by'[r] = changed_by[r]
  <1>. USE DEF ReceiveRun, Advance, Fault, Crash, ExtractionRequest, ExtractGoal,
       ExtractNothing, ResolveGoal, ResolveNothing, StartDecision,
       BeforeRequest, RequestOverLimit, RecordRequest, RefuseCall,
       CallOverLimit, AdmitCall, DenyCall, HoldCall, ReadTarget, CheckUser,
       CountSeats, InsertAssignment, RecordOutcome, StopReachesDecide,
       ErrorReachesDecide, RecordProposal, RefuseProposal, VerifyGoal,
       CheckBlock, Conclude, RecordRequestFails, BusinessFails,
       RecordOutcomeFails, VerificationFails, At, tables, business, memory
  <1>1. \E there : pc' = [pc EXCEPT ![q] = there]
    OBVIOUS
  <1>2. UNCHANGED run \/ \E row : WriteRun(q, row)
    BY DEF RecordModelCall
  <1>3. UNCHANGED tool_calls \/ \E n, c : WriteCall(q, n, c)
    OBVIOUS
  <1>4. UNCHANGED raised \/ \E what : Raise(q, what)
    OBVIOUS
  <1>5. UNCHANGED changed_by \/ \E what : changed_by' = [changed_by EXCEPT ![q] = what]
    OBVIOUS
  <1>. QED
    BY ONLY TypeOK, <1>1, <1>2, <1>3, <1>4, <1>5
    DEF TypeOK, WriteRun, WriteCall, Raise

\* People and operators leave all runs alone.
LEMMA OthersLeaveRuns ==
  ASSUME Others
  PROVE  UNCHANGED <<run, pc, raised, tool_calls, changed_by>>
  BY DEF Others, HumanChecks, HumanAssigns, HumanRevokes, EditPolicy,
     DeactivateUser, tables, business, memory

\* Whose step a step is.
LEMMA StepsOfDrivers ==
  ASSUME [Next]_vars
  PROVE  \/ \E q \in Runs : ReceiveRun(q) \/ Advance(q) \/ Fault(q) \/ Crash(q)
         \/ UNCHANGED <<run, pc, raised, tool_calls, changed_by>>
  BY OthersLeaveRuns DEF Next, NextWithoutCrash, vars, tables, business, memory

LEMMA RunsCheckedStep ==
  ASSUME TraceInv, EndedIsCompleted, RunsChecked, [Next]_vars
  PROVE  RunsChecked'
  <1>. SUFFICES ASSUME NEW r \in Runs PROVE RunChecked(run'[r], pc'[r])
    BY DEF RunsChecked
  <1>1. RunChecked(run[r], pc[r]) /\ TypeOK
    BY DEF RunsChecked, TraceInv
  <1>2. CASE UNCHANGED <<run, pc, raised, tool_calls, changed_by>>
    BY <1>1, <1>2
  <1>3. ASSUME NEW q \in Runs,
               ReceiveRun(q) \/ Advance(q) \/ Fault(q) \/ Crash(q)
        PROVE  RunChecked(run'[r], pc'[r])
    <2>1. CASE q = r
      BY <1>3, <2>1, DriverKeepsRowsChecked
    <2>2. CASE q # r
      BY <1>1, <1>3, <2>2, OneDriverMoves
    <2>. QED  BY <2>1, <2>2
  <1>. QED  BY <1>2, <1>3, StepsOfDrivers

\* A tool call is written when it is admitted or refused, and when its outcome
\* is recorded.
LEMMA WrittenCallsPass ==
  ASSUME TraceInv, CallsChecked, [Next]_vars, NEW r \in Runs
  PROVE  \/ tool_calls'[r] = tool_calls[r]
         \/ \E n, c : /\ ToolCallRowPasses(c)
                      /\ tool_calls'[r] = Put(tool_calls[r], n, c)
  <1>. DEFINE Good == \/ tool_calls'[r] = tool_calls[r]
                      \/ \E n, c : /\ ToolCallRowPasses(c)
                                   /\ tool_calls'[r] = Put(tool_calls[r], n, c)
  <1>1. TypeOK /\ tool_calls = [q \in Runs |-> tool_calls[q]]
    BY DEF TraceInv, TypeOK
  <1>2. None \notin {"deny"} \cup ErrorCodes
    BY AgentExecutorAssumption DEF Policies
  <1>3. ASSUME NEW n, NEW c, WriteCall(r, n, c), ToolCallRowPasses(c)
        PROVE  Good
    BY <1>1, <1>3 DEF WriteCall
  <1>. HIDE DEF Good
  <1>4. ASSUME NEW tool \in Tools, AdmitCall(r, tool) PROVE Good
    <2>1. /\ WriteCall(r, NextSeq(r), Started(tool, PolicyDecision(r, tool)))
          /\ PolicyDecision(r, tool) \in {None, "allow"}
      BY <1>4 DEF AdmitCall
    <2>2. ToolCallRowPasses(Started(tool, PolicyDecision(r, tool)))
      BY <1>2, <2>1 DEF ToolCallRowPasses, Started
    <2>. QED  BY <1>3, <2>1, <2>2
  <1>5. ASSUME NEW tool \in Tools, CallOverLimit(r, tool) PROVE Good
    <2>1. WriteCall(r, NextSeq(r), NeverRun(tool, None, "step_limit"))
      BY <1>5 DEF CallOverLimit
    <2>2. ToolCallRowPasses(NeverRun(tool, None, "step_limit"))
      BY <1>2 DEF ToolCallRowPasses, Started, NeverRun, ErrorCodes
    <2>. QED  BY <1>3, <2>1, <2>2
  <1>6. ASSUME DenyCall(r) PROVE Good
    <2>1. WriteCall(r, NextSeq(r), NeverRun(Mutation, "deny", "policy_denied"))
      BY <1>6 DEF DenyCall
    <2>2. ToolCallRowPasses(NeverRun(Mutation, "deny", "policy_denied"))
      BY <1>2 DEF ToolCallRowPasses, Started, NeverRun, ErrorCodes
    <2>. QED  BY <1>3, <2>1, <2>2
  <1>7. ASSUME HoldCall(r) PROVE Good
    <2>. DEFINE c == [Started(Mutation, "require_approval")
                         EXCEPT !.status = "awaiting_approval"]
    <2>1. WriteCall(r, NextSeq(r), c)
      BY <1>7 DEF HoldCall
    <2>2. ToolCallRowPasses(c)
      BY DEF ToolCallRowPasses, Started
    <2>. QED  BY <1>3, <2>1, <2>2
  <1>8. ASSUME RecordOutcome(r) PROVE Good
    <2>1. WriteCall(r, call[r], RecordedCall(r)) /\ pc[r] = "record"
      BY <1>8 DEF RecordOutcome, At
    <2>2. /\ call[r] \in DOMAIN tool_calls[r]
          /\ tool_calls[r][call[r]].status = "started"
          /\ outcome[r] # None /\ outcome[r] \in Outcomes
      BY <1>1, <2>1 DEF TraceInv, CallInFlightIsStarted, CallingPCs, TypeOK
    <2>3. /\ tool_calls[r][call[r]] \in ToolCallRow
          /\ tool_calls[r][call[r]].policy_decision # "deny"
      BY <1>1, <2>2 DEF TypeOK, IsTable, CallsChecked, ToolCallRowPasses
    <2>4. /\ RecordedCall(r).policy_decision = tool_calls[r][call[r]].policy_decision
          /\ RecordedCall(r).completed_at
          /\ RecordedCall(r).status = IF outcome[r] = "ok" THEN "succeeded" ELSE "failed"
          /\ RecordedCall(r).error = IF outcome[r] = "ok" THEN None ELSE outcome[r]
      BY <2>3 DEF RecordedCall, ToolCallRow
    <2>5. ToolCallRowPasses(RecordedCall(r))
      BY <2>2, <2>3, <2>4 DEF ToolCallRowPasses
    <2>. QED  BY <1>3, <2>1, <2>5
  <1>9. Good
    <2>1. CASE UNCHANGED tool_calls
      BY <2>1 DEF Good
    <2>2. CASE ~UNCHANGED tool_calls
      <3>1. PICK q \in Runs : WritesACall(q)
        BY <2>2, CallsAreWritten
      <3>2. CASE q = r
        BY <1>4, <1>5, <1>6, <1>7, <1>8, <3>1, <3>2 DEF WritesACall
      <3>3. CASE q # r
        <4>1. \E n, c : WriteCall(q, n, c)
          BY <3>1 DEF WritesACall, AdmitCall, CallOverLimit, DenyCall,
             HoldCall, RecordOutcome
        <4>. QED  BY <1>1, <3>3, <4>1 DEF WriteCall, Good
      <3>. QED  BY <3>2, <3>3
    <2>. QED  BY <2>1, <2>2
  <1>. QED  BY <1>9 DEF Good

LEMMA CallsCheckedStep ==
  ASSUME TraceInv, CallsChecked, [Next]_vars
  PROVE  CallsChecked'
  <1>. SUFFICES ASSUME NEW r \in Runs, NEW m \in DOMAIN tool_calls'[r]
                PROVE  ToolCallRowPasses(tool_calls'[r][m])
    BY DEF CallsChecked
  <1>1. CASE tool_calls'[r] = tool_calls[r]
    BY <1>1 DEF CallsChecked
  <1>2. ASSUME NEW n, NEW c, ToolCallRowPasses(c),
               tool_calls'[r] = Put(tool_calls[r], n, c)
        PROVE  ToolCallRowPasses(tool_calls'[r][m])
    BY <1>2 DEF CallsChecked, Put
  <1>. QED  BY <1>1, <1>2, WrittenCallsPass

LEMMA CheckedAtFirst == Init => RunsChecked /\ CallsChecked
  <1>. SUFFICES ASSUME Init, NEW r \in Runs
                PROVE  /\ RunChecked(run[r], pc[r])
                       /\ DOMAIN tool_calls[r] = {}
    BY DEF RunsChecked, CallsChecked
  <1>1. run[r] = NoRun /\ pc[r] = "new" /\ DOMAIN tool_calls[r] = {}
    BY DEF Init, NoRows
  <1>. QED  BY <1>1, NoneIsNoStatus
            DEF RunChecked, NoRun, NewRun, Statuses, OpenStatuses

\* Whatever a planner does, and whatever fails: every row of a run and of its
\* tool calls that is committed passes the CHECK constraints of its table.
THEOREM RowsAlwaysPass == Spec => []RowsPassTheirChecks
  <1>1. RunsChecked /\ CallsChecked => RowsPassTheirChecks
    BY DEF RunsChecked, CallsChecked, RunChecked, RowsPassTheirChecks
  <1>. QED
    BY <1>1, CheckedAtFirst, RunsCheckedStep, CallsCheckedStep,
       TraceInvariant, EndingsAreTimed, PTL DEF Spec
-----------------------------------------------------------------------------
(* What run() returns with, where a run may attempt one mutation.          *)

\* The run has ended, or waits for approval of a call that has not run.
Settled(r) ==
    \/ run[r].completed_at
    \/ /\ run[r].status = "awaiting_approval"
       /\ MutationsWith(r, {"awaiting_approval"}) # {}
       /\ changed_by[r] = {}

\* A planner at work has a run that executes, or is settled behind its back;
\* it is stopped, and decide returns, only when the run is settled.
Settling(r) ==
    /\ pc[r] \in {"planning", "requesting"}
          => run[r].status = "executing" \/ Settled(r)
    /\ raised[r] = "decision_stopped" => Settled(r)
    /\ pc[r] = "returned" => Settled(r)

RunsSettleRight == \A r \in Runs : Settling(r)

\* A run within its limit of one mutation has attempted none, so it changed
\* nothing.
LEMMA NoneAttempted ==
  ASSUME TraceInv, MaxMutations <= 1, NEW r \in Runs, ~OverLimit(r, Mutation)
  PROVE  CallsOf(r, {Mutation}) = {} /\ changed_by[r] = {}
  <1>1. IsFiniteSet(CallsOf(r, {Mutation}))
    BY TablesAreFinite, FS_Subset DEF CallsOf
  <1>2. Cardinality(CallsOf(r, {Mutation})) < MaxMutations
    BY <1>1, FS_CardinalityType, AgentExecutorAssumption
    DEF OverLimit, Kind, Limit
  <1>3. Cardinality(CallsOf(r, {Mutation})) = 0
    BY <1>1, <1>2, FS_CardinalityType, AgentExecutorAssumption
  <1>4. CallsOf(r, {Mutation}) = {}
    BY <1>1, <1>3, FS_EmptySet
  <1>5. changed_by[r] \subseteq CallsOf(r, {Mutation})
    BY DEF TraceInv, ChangesAreOnTheTrace, MutationsWith
  <1>. QED  BY <1>4, <1>5

\* The driver of a run that waits for approval can number one more request,
\* or end the run at its limit of requests, and change nothing else.
LEMMA WaitingIsKept ==
  ASSUME TraceInv, NEW r \in Runs, run[r].status = "awaiting_approval",
         Advance(r) \/ Fault(r) \/ Crash(r)
  PROVE  /\ UNCHANGED <<tool_calls, changed_by>>
         /\ run'[r] = run[r] \/ run'[r] = Numbered(run[r])
               \/ run'[r].completed_at
  <1>1. pc[r] \notin {"new", "extracting", "resolving", "resolved"}
                        \cup CallingPCs \cup VerifyingPCs
    BY AgentExecutorAssumption DEF TraceInv, DriverKnowsItsRun, NoRun, NewRun,
       Statuses, OpenStatuses
  <1>2. run \in [Runs -> RunRow]
    BY DEF TraceInv, TypeOK
  <1>3. \/ BeforeRequest(r) \/ RequestOverLimit(r) \/ RecordRequest(r)
        \/ RefuseCall(r) \/ StopReachesDecide(r) \/ ErrorReachesDecide(r)
        \/ RefuseProposal(r) \/ RecordRequestFails(r) \/ Crash(r)
    BY <1>1 DEF Advance, Fault, At, CallingPCs, VerifyingPCs,
       ExtractionRequest, ExtractGoal, ExtractNothing, ResolveGoal,
       ResolveNothing, StartDecision, CallOverLimit, AdmitCall, DenyCall,
       HoldCall, MayCall, ReadTarget, CheckUser, CountSeats, InsertAssignment,
       RecordOutcome, RecordProposal, VerifyGoal, CheckBlock, Conclude,
       BusinessFails, RecordOutcomeFails, VerificationFails
  <1>4. UNCHANGED <<tool_calls, changed_by>>
    BY <1>3 DEF BeforeRequest, RequestOverLimit, RecordRequest, RefuseCall,
       StopReachesDecide, ErrorReachesDecide, RefuseProposal,
       RecordRequestFails, Crash, tables, business
  <1>5. CASE RequestOverLimit(r)
    <2>1. UNCHANGED run \/ WriteRun(r, Ended(run[r], "failed", "step_limit"))
      BY <1>5 DEF RequestOverLimit
    <2>. QED  BY <1>2, <1>4, <2>1, EndedKeeps DEF WriteRun
  <1>6. CASE RecordRequest(r)
    BY <1>2, <1>4, <1>6 DEF RecordRequest, RecordModelCall, WriteRun
  <1>7. CASE ~RequestOverLimit(r) /\ ~RecordRequest(r)
    <2>1. UNCHANGED run
      BY <1>3, <1>7 DEF BeforeRequest, RefuseCall, StopReachesDecide,
         ErrorReachesDecide, RefuseProposal, RecordRequestFails, Crash, tables
    <2>. QED  BY <1>4, <2>1
  <1>. QED  BY <1>5, <1>6, <1>7

LEMMA SettledStays ==
  ASSUME TraceInv, EndedIsCompleted, [Next]_vars, NEW r \in Runs, Settled(r),
         Advance(r) \/ Fault(r) \/ Crash(r)
  PROVE  Settled(r)'
  <1>1. run[r] \in RunRow
    BY DEF TraceInv, TypeOK
  <1>2. CASE run[r].completed_at
    <2>1. run'[r].completed_at
      BY <1>1, <1>2, StepsOfRuns, NumberedIsRow
      DEF Untouched, OnlyCounted, GoesOn
    <2>. QED  BY <2>1 DEF Settled
  <1>3. CASE ~run[r].completed_at
    <2>1. run[r].status = "awaiting_approval"
      BY <1>3 DEF Settled
    <2>2. /\ UNCHANGED <<tool_calls, changed_by>>
          /\ run'[r].status = "awaiting_approval" \/ run'[r].completed_at
      BY <1>1, <2>1, WaitingIsKept, NumberedIsRow
    <2>. QED  BY <1>3, <2>2 DEF Settled, MutationsWith, CallsOf
  <1>. QED  BY <1>2, <1>3

\* Each step of a run's driver keeps it settling.
LEMMA DriverSettles ==
  ASSUME TraceInv, EndedIsCompleted, RunsSettleRight, MaxMutations <= 1,
         [Next]_vars, NEW r \in Runs,
         ReceiveRun(r) \/ Advance(r) \/ Fault(r) \/ Crash(r)
  PROVE  Settling(r)'
  <1>. DEFINE Good == Settling(r)'
  <1>0. /\ run \in [Runs -> RunRow] /\ run[r] \in RunRow
        /\ pc \in [Runs -> PCs]
        /\ raised \in [Runs -> {None, "decision_stopped", "error"}]
        /\ Settling(r)
    BY DEF TraceInv, TypeOK, RunsSettleRight
  <1>1. ASSUME Settled(r)' PROVE Good
    BY <1>1 DEF Settling
  <1>2. ASSUME run'[r].completed_at PROVE Good
    BY <1>1, <1>2 DEF Settled
  <1>3. ASSUME raised'[r] # "decision_stopped", pc'[r] # "returned",
               \/ run'[r].status = "executing"
               \/ pc'[r] \notin {"planning", "requesting"}
        PROVE  Good
    BY <1>3 DEF Settling
  <1>4. ASSUME NEW here, NEW there, At(r, here, there)
        PROVE  pc[r] = here /\ pc'[r] = there
    BY <1>0, <1>4 DEF At
  <1>. HIDE DEF Good
  <1>5. ASSUME ReceiveRun(r) PROVE Good
    <2>1. pc[r] = "new" /\ pc'[r] = "extracting" /\ UNCHANGED raised
      BY <1>4, <1>5 DEF ReceiveRun, memory
    <2>2. ~Settled(r)
      <3>1. ~run[r].completed_at /\ run[r].status = None
        BY <2>1 DEF TraceInv, DriverKnowsItsRun, NoRun, NewRun
      <3>. QED  BY <3>1, AgentExecutorAssumption
                DEF Settled, Statuses, OpenStatuses
    <2>. QED  BY <1>0, <1>3, <2>1, <2>2 DEF Settling, Good
  <1>6. ASSUME Advance(r) \/ Fault(r) \/ Crash(r), Settled(r) PROVE Good
    BY <1>1, <1>6, SettledStays
  <1>. SUFFICES ASSUME Advance(r) \/ Fault(r) \/ Crash(r), ~Settled(r)
                PROVE  Good
    BY <1>5, <1>6 DEF Good
  <1>7. /\ raised[r] # "decision_stopped" /\ pc[r] # "returned"
        /\ ~run[r].completed_at
        /\ pc[r] \in {"planning", "requesting"} => run[r].status = "executing"
    BY <1>0 DEF Settling, Settled
  <1>8. ASSUME \E row \in RunRow : \E status, reason :
                  WriteRun(r, Ended(row, status, reason))
        PROVE  Good
    <2>1. PICK row \in RunRow : \E status, reason :
             WriteRun(r, Ended(row, status, reason))
      BY <1>8
    <2>2. PICK status, reason : run'[r] = Ended(row, status, reason)
      BY <1>0, <2>1 DEF WriteRun
    <2>. QED  BY <1>2, <2>2, EndedKeeps
  <1>9. Numbered(run[r]) \in RunRow
        /\ Numbered(run[r]).status = run[r].status
    BY <1>0, NumberedIsRow
  <1>10. ASSUME \/ ExtractionRequest(r) \/ ExtractGoal(r) \/ ResolveGoal(r)
                \/ \E tool \in Tools : AdmitCall(r, tool)
                \/ ReadTarget(r) \/ CheckUser(r) \/ CountSeats(r)
                \/ InsertAssignment(r) \/ BusinessFails(r)
                \/ RecordProposal(r) \/ RefuseProposal(r) \/ VerifyGoal(r)
                \/ CheckBlock(r) \/ Crash(r)
         PROVE  Good
    <2>1. \E there : /\ pc' = [pc EXCEPT ![r] = there]
                     /\ there \in {"extracting", "resolving", "resolved",
                                 "business", "count", "insert", "record",
                                 "verify", "check_block", "conclude", "gone"}
      BY <1>10 DEF ExtractionRequest, ExtractGoal, ResolveGoal, AdmitCall,
         ReadTarget, CheckUser, CountSeats, InsertAssignment, BusinessFails,
         RecordProposal, RefuseProposal, VerifyGoal, CheckBlock, Crash, At
    <2>2. UNCHANGED raised \/ Raise(r, None)
      BY <1>10 DEF ExtractionRequest, ExtractGoal, ResolveGoal, AdmitCall,
         ReadTarget, CheckUser, CountSeats, InsertAssignment, BusinessFails,
         RecordProposal, RefuseProposal, VerifyGoal, CheckBlock, Crash, memory
    <2>3. pc'[r] \notin {"planning", "requesting", "returned"}
      BY <1>0, <2>1
    <2>4. raised'[r] # "decision_stopped"
      BY <1>0, <1>7, <2>2, RaisedAssumption DEF Raise
    <2>. QED  BY <1>3, <2>3, <2>4
  <1>11. ASSUME ExtractNothing(r) \/ ResolveNothing(r) \/ VerificationFails(r)
                \/ Conclude(r) PROVE Good
    BY <1>0, <1>8, <1>11 DEF ExtractNothing, ResolveNothing,
       VerificationFails, Conclude
  <1>12. ASSUME DenyCall(r) \/ \E tool \in Tools : CallOverLimit(r, tool)
         PROVE  Good
    BY <1>8, <1>9, <1>12 DEF DenyCall, CallOverLimit
  <1>13. ASSUME StartDecision(r) PROVE Good
    <2>1. /\ run'[r] = [run[r] EXCEPT !.status = "executing", !.context = TRUE]
          /\ pc'[r] = "planning" /\ UNCHANGED raised
      BY <1>0, <1>4, <1>13 DEF StartDecision, WriteRun, memory
    <2>2. run'[r].status = "executing"
      BY <1>0, <2>1 DEF RunRow
    <2>. QED  BY <1>3, <1>7, <2>1, <2>2
  <1>14. ASSUME \/ BeforeRequest(r) \/ RecordRequest(r) \/ RefuseCall(r)
                \/ RecordRequestFails(r) \/ RecordOutcomeFails(r)
         PROVE  Good
    <2>1. run[r].status = "executing"
      <3>1. pc[r] \in {"planning", "requesting", "record"}
        BY <1>14 DEF BeforeRequest, RecordRequest, RefuseCall,
           RecordRequestFails, RecordOutcomeFails, At
      <3>. QED  BY <1>7, <3>1 DEF TraceInv, DriverKnowsItsRun, CallingPCs
    <2>2. UNCHANGED run \/ WriteRun(r, Numbered(run[r]))
      BY <1>14 DEF BeforeRequest, RecordRequest, RefuseCall,
         RecordRequestFails, RecordOutcomeFails, RecordModelCall, tables
    <2>3. run'[r].status = "executing"
      BY <1>0, <1>9, <2>1, <2>2 DEF WriteRun
    <2>4. pc'[r] \in {"planning", "requesting"}
      BY <1>4, <1>14 DEF BeforeRequest, RecordRequest, RefuseCall,
         RecordRequestFails, RecordOutcomeFails
    <2>5. UNCHANGED raised \/ Raise(r, None) \/ Raise(r, "error")
      BY <1>14 DEF BeforeRequest, RecordRequest, RefuseCall,
         RecordRequestFails, RecordOutcomeFails, memory
    <2>6. raised'[r] # "decision_stopped"
      BY <1>0, <1>7, <2>5, RaisedAssumption DEF Raise
    <2>. QED  BY <1>3, <2>3, <2>4, <2>6
  <1>15. ASSUME RequestOverLimit(r) \/ ErrorReachesDecide(r) PROVE Good
    <2>1. run[r].status = "executing" /\ ~run[r].completed_at
      BY <1>4, <1>7, <1>15 DEF RequestOverLimit, ErrorReachesDecide
    <2>. QED  BY <1>0, <1>8, <1>15, <2>1
              DEF RequestOverLimit, ErrorReachesDecide
  <1>16. ASSUME StopReachesDecide(r) PROVE Good
    BY <1>7, <1>16 DEF StopReachesDecide
  <1>17. ASSUME RecordOutcome(r) PROVE Good
    <2>1. pc[r] = "record" /\ pc'[r] = "planning"
      BY <1>4, <1>17 DEF RecordOutcome
    <2>2. run[r].status = "executing"
      BY <2>1 DEF TraceInv, DriverKnowsItsRun, CallingPCs
    <2>3. \/ WriteRun(r, Ended(run[r], "failed", "tool_failed"))
          \/ UNCHANGED <<run, raised>>
      BY <1>17 DEF RecordOutcome
    <2>. QED  BY <1>0, <1>3, <1>7, <1>8, <2>1, <2>2, <2>3
  <1>18. ASSUME HoldCall(r) PROVE Good
    <2>. DEFINE c == [Started(Mutation, "require_approval")
                         EXCEPT !.status = "awaiting_approval"]
    <2>1. changed_by'[r] = {}
      BY <1>18, NoneAttempted DEF HoldCall, business
    <2>2. run'[r] = Moved(Numbered(run[r]), "awaiting_approval")
      BY <1>0, <1>18 DEF HoldCall, WriteRun
    <2>3. run'[r].status = "awaiting_approval"
      BY <1>9, <2>2 DEF Moved, RunRow
    <2>4. tool_calls'[r] = Put(tool_calls[r], NextSeq(r), c)
      BY <1>18 DEF HoldCall, WriteCall, TraceInv, TypeOK
    <2>5. c.tool_name = Mutation /\ c.status = "awaiting_approval"
      BY DEF Started
    <2>. HIDE DEF c
    <2>6. /\ NextSeq(r) \in DOMAIN tool_calls'[r]
          /\ tool_calls'[r][NextSeq(r)] = c
      BY <2>4 DEF Put
    <2>7. NextSeq(r) \in MutationsWith(r, {"awaiting_approval"})'
      BY <2>5, <2>6 DEF MutationsWith, CallsOf
    <2>. QED  BY <1>1, <2>1, <2>3, <2>7 DEF Settled
  <1>. QED
    BY <1>10, <1>11, <1>12, <1>13, <1>14, <1>15, <1>16, <1>17, <1>18
    DEF Advance, Fault

LEMMA SettlingStep ==
  ASSUME TraceInv, EndedIsCompleted, RunsSettleRight, MaxMutations <= 1,
         [Next]_vars
  PROVE  RunsSettleRight'
  <1>. SUFFICES ASSUME NEW r \in Runs PROVE Settling(r)'
    BY DEF RunsSettleRight
  <1>1. ASSUME /\ run'[r] = run[r] /\ pc'[r] = pc[r] /\ raised'[r] = raised[r]
               /\ tool_calls'[r] = tool_calls[r]
               /\ changed_by'[r] = changed_by[r]
        PROVE  Settling(r)'
    BY <1>1 DEF RunsSettleRight, Settling, Settled, MutationsWith, CallsOf
  <1>2. ASSUME NEW q \in Runs,
               ReceiveRun(q) \/ Advance(q) \/ Fault(q) \/ Crash(q)
        PROVE  Settling(r)'
    <2>1. CASE q = r
      BY <1>2, <2>1, DriverSettles
    <2>2. CASE q # r
      BY <1>1, <1>2, <2>2, OneDriverMoves DEF TraceInv
    <2>. QED  BY <2>1, <2>2
  <1>. QED  BY <1>1, <1>2, StepsOfDrivers

\* Where a run may attempt one mutation (the code's limit), whatever its
\* planner does and whatever fails: when run() returns, the run has ended, or
\* waits for approval of a call that is recorded, unrun, and changed nothing.
THEOREM RunsReturnSettled == MaxMutations <= 1 => (Spec => []ReturnedIsSettled)
  <1>. SUFFICES ASSUME MaxMutations <= 1 PROVE Spec => []ReturnedIsSettled
    OBVIOUS
  <1>1. Init => RunsSettleRight
    BY RaisedAssumption DEF Init, RunsSettleRight, Settling
  <1>2. RunsSettleRight => ReturnedIsSettled
    BY DEF RunsSettleRight, Settling, Settled, ReturnedIsSettled
  <1>3. TraceInv /\ EndedIsCompleted /\ RunsSettleRight /\ [Next]_vars
          => RunsSettleRight'
    BY SettlingStep
  <1>. QED
    BY <1>1, <1>2, <1>3, TraceInvariant, EndingsAreTimed, PTL DEF Spec
-----------------------------------------------------------------------------
(* The lifecycle a row promises its readers, where planners heed stops.    *)

\* A run that waits for approval is left alone: decide has returned, or is
\* about to, or its driver is gone.
LeftWaiting(r) ==
    run[r].status = "awaiting_approval" =>
        \/ pc[r] \in {"returned", "gone"}
        \/ pc[r] = "planning" /\ raised[r] = "decision_stopped"

RunsAreLeftWaiting == \A r \in Runs : LeftWaiting(r)

\* Only a held call makes a run wait.
LEMMA OnlyHeldRunsWait ==
  ASSUME TypeOK, NEW r \in Runs, run[r].status # "awaiting_approval",
         ReceiveRun(r) \/ Advance(r) \/ Fault(r) \/ Crash(r), ~HoldCall(r)
  PROVE  run'[r].status # "awaiting_approval"
  <1>. DEFINE Good == run'[r].status # "awaiting_approval"
  <1>1. run \in [Runs -> RunRow] /\ run[r] \in RunRow
    BY DEF TypeOK
  <1>2. ASSUME UNCHANGED run PROVE Good
    BY <1>2
  <1>3. ASSUME WriteRun(r, Numbered(run[r])) PROVE Good
    BY <1>1, <1>3, NumberedIsRow DEF WriteRun
  <1>4. ASSUME NEW row \in RunRow, NEW status \in EndedStatuses, NEW reason,
               WriteRun(r, Ended(row, status, reason))
        PROVE  Good
    <2>1. run'[r] = Ended(row, status, reason)
      BY <1>1, <1>4 DEF WriteRun
    <2>. QED  BY <2>1, EndedKeeps DEF EndedStatuses
  <1>5. Numbered(run[r]) \in RunRow
    BY <1>1, NumberedIsRow
  <1>6. ASSUME ReceiveRun(r) PROVE Good
    BY <1>1, <1>6 DEF ReceiveRun, WriteRun, NewRun
  <1>7. ASSUME ExtractGoal(r) \/ ResolveGoal(r) \/ StartDecision(r)
                 \/ RecordProposal(r)
        PROVE  Good
    BY <1>1, <1>7 DEF ExtractGoal, ResolveGoal, StartDecision,
       RecordProposal, WriteRun, RunRow
  <1>. HIDE DEF Good
  <1>8. ASSUME ExtractionRequest(r) \/ RecordRequest(r)
                 \/ \E tool \in Tools : AdmitCall(r, tool)
        PROVE  Good
    BY <1>3, <1>8 DEF ExtractionRequest, RecordRequest, RecordModelCall,
       AdmitCall
  <1>9. ASSUME \/ ExtractNothing(r) \/ ResolveNothing(r) \/ RequestOverLimit(r)
               \/ \E tool \in Tools : CallOverLimit(r, tool)
               \/ DenyCall(r) \/ RecordOutcome(r) \/ ErrorReachesDecide(r)
               \/ VerificationFails(r) \/ Conclude(r)
        PROVE  Good
    <2>1. \A proposal, v :
             DecisionOutcome(proposal, v).status \in EndedStatuses
      BY DEF DecisionOutcome, EndedStatuses
    <2>2. \/ UNCHANGED run
          \/ \E row \in RunRow, status \in EndedStatuses : \E reason :
                WriteRun(r, Ended(row, status, reason))
      <3>1. {"needs_clarification", "failed", "blocked"} \subseteq EndedStatuses
        BY DEF EndedStatuses
      <3>2. CASE Conclude(r)
        BY <1>1, <2>1, <3>2 DEF Conclude
      <3>3. CASE DenyCall(r) \/ \E tool \in Tools : CallOverLimit(r, tool)
        BY <1>5, <3>1, <3>3 DEF DenyCall, CallOverLimit
      <3>4. CASE ExtractNothing(r) \/ ResolveNothing(r) \/ VerificationFails(r)
        BY <1>1, <3>1, <3>4 DEF ExtractNothing, ResolveNothing,
           VerificationFails
      <3>5. CASE RequestOverLimit(r) \/ RecordOutcome(r) \/ ErrorReachesDecide(r)
        BY <1>1, <3>1, <3>5 DEF RequestOverLimit, RecordOutcome,
           ErrorReachesDecide
      <3>. QED  BY <1>9, <3>2, <3>3, <3>4, <3>5
    <2>. QED  BY <1>2, <1>4, <2>2
  <1>10. ASSUME \/ BeforeRequest(r) \/ RecordRequestFails(r) \/ RefuseCall(r)
                \/ ReadTarget(r) \/ CheckUser(r) \/ CountSeats(r)
                \/ InsertAssignment(r) \/ BusinessFails(r)
                \/ RecordOutcomeFails(r) \/ StopReachesDecide(r)
                \/ RefuseProposal(r) \/ VerifyGoal(r) \/ CheckBlock(r)
                \/ Crash(r)
         PROVE  Good
    BY <1>2, <1>10 DEF BeforeRequest, RecordRequestFails, RefuseCall,
       ReadTarget, CheckUser, CountSeats, InsertAssignment, BusinessFails,
       RecordOutcomeFails, StopReachesDecide, RefuseProposal, VerifyGoal,
       CheckBlock, Crash, tables
  <1>11. Good
    BY <1>6, <1>7, <1>8, <1>9, <1>10 DEF Advance, Fault
  <1>. QED  BY <1>11 DEF Good

LEMMA LeftWaitingStep ==
  ASSUME TraceInv, RunsAreLeftWaiting, ~IgnoresStops, [Next]_vars
  PROVE  RunsAreLeftWaiting'
  <1>. SUFFICES ASSUME NEW r \in Runs PROVE LeftWaiting(r)'
    BY DEF RunsAreLeftWaiting
  <1>0. /\ TypeOK /\ LeftWaiting(r) /\ pc \in [Runs -> PCs]
        /\ raised \in [Runs -> {None, "decision_stopped", "error"}]
    BY DEF TraceInv, TypeOK, RunsAreLeftWaiting
  <1>1. ASSUME run'[r] = run[r], pc'[r] = pc[r], raised'[r] = raised[r]
        PROVE  LeftWaiting(r)'
    BY <1>0, <1>1 DEF LeftWaiting
  <1>2. ASSUME ReceiveRun(r) \/ Advance(r) \/ Fault(r) \/ Crash(r)
        PROVE  LeftWaiting(r)'
    <2>1. CASE HoldCall(r)
      BY <1>0, <2>1 DEF HoldCall, At, Raise, LeftWaiting
    <2>2. CASE ~HoldCall(r) /\ run[r].status # "awaiting_approval"
      BY <1>0, <1>2, <2>2, OnlyHeldRunsWait DEF LeftWaiting
    <2>3. CASE ~HoldCall(r) /\ run[r].status = "awaiting_approval"
      <3>1. \/ pc[r] \in {"returned", "gone"}
            \/ pc[r] = "planning" /\ raised[r] = "decision_stopped"
        BY <1>0, <2>3 DEF LeftWaiting
      <3>2. StopReachesDecide(r) \/ Crash(r)
        BY <1>2, <2>3, <3>1, RaisedAssumption
        DEF ReceiveRun, Advance, Fault, At, PlannerFree, MayCall,
           ExtractionRequest, ExtractGoal, ExtractNothing, ResolveGoal,
           ResolveNothing, StartDecision, BeforeRequest, RequestOverLimit,
           RecordRequest, RefuseCall, CallOverLimit, AdmitCall, DenyCall,
           ReadTarget, CheckUser, CountSeats, InsertAssignment,
           RecordOutcome, ErrorReachesDecide, RecordProposal,
           RefuseProposal, VerifyGoal, CheckBlock, Conclude,
           RecordRequestFails, BusinessFails, RecordOutcomeFails,
           VerificationFails
      <3>3. pc'[r] \in {"returned", "gone"}
        BY <1>0, <3>2 DEF StopReachesDecide, Crash, At
      <3>. QED  BY <3>3 DEF LeftWaiting
    <2>. QED  BY <2>1, <2>2, <2>3
  <1>3. ASSUME NEW q \in Runs \ {r},
               ReceiveRun(q) \/ Advance(q) \/ Fault(q) \/ Crash(q)
        PROVE  LeftWaiting(r)'
    BY <1>0, <1>1, <1>3, OneDriverMoves
  <1>. QED  BY <1>1, <1>2, <1>3, StepsOfDrivers

\* What the steps of a run's driver are to a reader of its row: a move to
\* another status, ...
LEMMA MoveSeen ==
  ASSUME TypeOK, NEW r \in Runs, NEW row, WriteRun(r, row),
         row.outcome_reason = run[r].outcome_reason, UNCHANGED changed_by
  PROVE  Lifecycle!Move(r, run[r].status, row.status)
  BY DEF Lifecycle!Move, TypeOK, WriteRun

\* ... an ending, ...
LEMMA EndSeen ==
  ASSUME TypeOK, NEW r \in Runs, NEW row, WriteRun(r, row), UNCHANGED changed_by
  PROVE  Lifecycle!End(r, run[r].status, row.status, row.outcome_reason)
  BY DEF Lifecycle!End, TypeOK, WriteRun

\* ... or nothing.
LEMMA NothingSeen ==
  ASSUME TypeOK, NEW r \in Runs, UNCHANGED changed_by,
         \/ UNCHANGED run
         \/ \E row : /\ WriteRun(r, row) /\ row.status = run[r].status
                     /\ row.outcome_reason = run[r].outcome_reason
  PROVE  UNCHANGED Lifecycle!vars
  <1>1. \A q \in Runs : /\ run'[q].status = run[q].status
                        /\ run'[q].outcome_reason = run[q].outcome_reason
    BY DEF TypeOK, WriteRun
  <1>. QED  BY <1>1 DEF Lifecycle!vars

\* The mutation in flight is the only one a run within its limit of one has
\* attempted: so it has changed nothing yet.
LEMMA NothingChangedBefore ==
  ASSUME TraceInv, CallsWithinLimit, CallsChecked, MaxMutations <= 1,
         NEW r \in Runs, pc[r] = "insert"
  PROVE  changed_by[r] = {}
  <1>1. /\ call[r] \in CallsOf(r, {Mutation})
        /\ tool_calls[r][call[r]].status = "started"
        /\ call[r] \notin changed_by[r]
    BY DEF TraceInv, CallInFlightIsStarted, CallingPCs, ToolInFlight, CallsOf
  <1>2. None # "step_limit"
    BY AgentExecutorAssumption DEF ErrorCodes
  <1>3. \A n \in MutationsWith(r, {"started", "succeeded"}) :
           n \in Counted(r, Mutation)
    BY <1>2 DEF MutationsWith, Counted, Kind, CallsChecked, CallsOf,
       ToolCallRowPasses
  <1>4. call[r] \in Counted(r, Mutation)
        /\ changed_by[r] \subseteq Counted(r, Mutation)
    BY <1>1, <1>3 DEF MutationsWith, TraceInv, ChangesAreOnTheTrace
  <1>5. IsFiniteSet(Counted(r, Mutation))
    BY TablesAreFinite, FS_Subset DEF Counted, CallsOf
  <1>6. Cardinality(Counted(r, Mutation)) <= 1
    <2>1. Cardinality(Counted(r, Mutation)) <= MaxMutations
      BY DEF CallsWithinLimit, CallsFit, Limit, Tools
    <2>. QED  BY <1>5, <2>1, FS_CardinalityType, AgentExecutorAssumption
  <1>7. Counted(r, Mutation) \subseteq {call[r]}
    <2>1. IsFiniteSet(Counted(r, Mutation) \ {call[r]})
          /\ Cardinality(Counted(r, Mutation) \ {call[r]})
                = Cardinality(Counted(r, Mutation)) - 1
      BY <1>4, <1>5, FS_RemoveElement
    <2>2. Cardinality(Counted(r, Mutation) \ {call[r]}) = 0
      BY <1>5, <1>6, <2>1, FS_CardinalityType
    <2>3. Counted(r, Mutation) \ {call[r]} = {}
      BY <2>1, <2>2, FS_EmptySet
    <2>. QED  BY <2>3
  <1>. QED  BY <1>1, <1>4, <1>7

\* Every step of a run's driver is one of the lifecycle, or is not seen in it.
LEMMA DriverFollows ==
  ASSUME TraceInv, EndedIsCompleted, CallsWithinLimit, CallsChecked,
         RunsSettleRight, RunsAreLeftWaiting, MaxMutations <= 1,
         ~IgnoresStops, NEW r \in Runs,
         ReceiveRun(r) \/ Advance(r) \/ Fault(r) \/ Crash(r)
  PROVE  Lifecycle!Next \/ UNCHANGED Lifecycle!vars
  <1>. DEFINE Good == Lifecycle!Next \/ UNCHANGED Lifecycle!vars
  <1>a. /\ Lifecycle!ClaimReasons = ClaimReasons
        /\ Lifecycle!ReasonsOf.needs_clarification
              = ExtractionReasons \cup ResolutionFailures
    BY DEF Lifecycle!ClaimReasons, ClaimReasons, Lifecycle!ReasonsOf,
       Lifecycle!ExtractionReasons, Lifecycle!ResolutionFailures,
       ExtractionReasons, ResolutionFailures
  <1>0. /\ TypeOK /\ run \in [Runs -> RunRow] /\ run[r] \in RunRow
    BY DEF TraceInv, TypeOK
  <1>1. ASSUME \/ Lifecycle!Receive(r) \/ Lifecycle!Understand(r)
               \/ Lifecycle!Start(r) \/ Lifecycle!Change(r)
               \/ Lifecycle!Decide(r) \/ Lifecycle!Conclude(r)
        PROVE  Good
    BY <1>1 DEF Lifecycle!Next
  <1>2. ASSUME UNCHANGED <<run, changed_by>> PROVE Good
    BY <1>0, <1>2, NothingSeen
  <1>. HIDE DEF Good
  <1>3. ASSUME NEW status, NEW reason, UNCHANGED changed_by,
               WriteRun(r, Ended(run[r], status, reason))
        PROVE  Lifecycle!End(r, run[r].status, status, reason)
    <2>1. /\ Ended(run[r], status, reason).status = status
          /\ Ended(run[r], status, reason).outcome_reason = reason
      BY <1>0, EndedKeeps
    <2>. QED  BY <1>0, <1>3, <2>1, EndSeen
  <1>4. ASSUME NEW status, NEW reason, UNCHANGED changed_by,
               WriteRun(r, Ended(Numbered(run[r]), status, reason))
        PROVE  Lifecycle!End(r, run[r].status, status, reason)
    <2>1. /\ Ended(Numbered(run[r]), status, reason).status = status
          /\ Ended(Numbered(run[r]), status, reason).outcome_reason = reason
      BY <1>0, NumberedIsRow, EndedKeeps
    <2>. QED  BY <1>0, <1>4, <2>1, EndSeen
  <1>5. ASSUME WriteRun(r, Numbered(run[r])), UNCHANGED changed_by PROVE Good
    <2>1. /\ Numbered(run[r]).status = run[r].status
          /\ Numbered(run[r]).outcome_reason = run[r].outcome_reason
      BY <1>0, NumberedIsRow
    <2>2. UNCHANGED Lifecycle!vars
      BY <1>0, <1>5, <2>1, NothingSeen
    <2>. QED  BY <2>2 DEF Good
  <1>6. ASSUME run[r].status = "executing", UNCHANGED changed_by,
               NEW reason \in {"planner_error", "unexpected_error",
                               "tool_failed", "step_limit"},
               \/ WriteRun(r, Ended(run[r], "failed", reason))
               \/ WriteRun(r, Ended(Numbered(run[r]), "failed", reason))
        PROVE  Good
    <2>1. Lifecycle!End(r, "executing", "failed", reason)
      BY <1>3, <1>4, <1>6
    <2>. QED  BY <1>1, <2>1 DEF Lifecycle!Decide
  <1>7. ASSUME ReceiveRun(r) PROVE Good
    <2>1. /\ WriteRun(r, NewRun) /\ UNCHANGED changed_by
          /\ run[r].status = None /\ run[r].outcome_reason = None
      BY <1>7 DEF ReceiveRun, At, business, TraceInv, DriverKnowsItsRun,
         NoRun, NewRun
    <2>2. NewRun.status = "received" /\ NewRun.outcome_reason = None
      BY DEF NewRun
    <2>3. Lifecycle!Move(r, None, "received")
      BY <1>0, <2>1, <2>2, MoveSeen
    <2>. QED  BY <1>1, <2>3 DEF Lifecycle!Receive
  <1>8. ASSUME ExtractionRequest(r) \/ RecordRequest(r) PROVE Good
    BY <1>5, <1>8 DEF ExtractionRequest, RecordRequest, RecordModelCall,
       business
  <1>9. ASSUME ExtractGoal(r) PROVE Good
    <2>. DEFINE row == [run[r] EXCEPT !.goal = TRUE]
    <2>1. /\ WriteRun(r, row) /\ UNCHANGED changed_by
          /\ row.status = run[r].status
          /\ row.outcome_reason = run[r].outcome_reason
      BY <1>0, <1>9 DEF ExtractGoal, business, RunRow
    <2>. HIDE DEF row
    <2>2. UNCHANGED Lifecycle!vars
      BY <1>0, <2>1, NothingSeen
    <2>. QED  BY <2>2 DEF Good
  <1>10. ASSUME ExtractNothing(r) \/ ResolveNothing(r) PROVE Good
    <2>1. run[r].status = "received" /\ UNCHANGED changed_by
      BY <1>10 DEF ExtractNothing, ResolveNothing, At, business, TraceInv,
         DriverKnowsItsRun
    <2>2. ASSUME NEW reason \in ExtractionReasons \cup ResolutionFailures,
                 WriteRun(r, Ended(run[r], "needs_clarification", reason))
          PROVE  Good
      <3>1. Lifecycle!End(r, "received", "needs_clarification", reason)
        BY <1>3, <2>1, <2>2
      <3>. QED  BY <1>a, <1>1, <3>1 DEF Lifecycle!Understand
    <2>3. ASSUME NEW reason \in {"planner_error", "unexpected_error"},
                 WriteRun(r, Ended(run[r], "failed", reason))
          PROVE  Good
      <3>1. Lifecycle!End(r, "received", "failed", reason)
        BY <1>3, <2>1, <2>3
      <3>. QED  BY <1>1, <3>1 DEF Lifecycle!Understand
    <2>. QED  BY <1>10, <2>2, <2>3 DEF ExtractNothing, ResolveNothing
  <1>11. ASSUME ResolveGoal(r) PROVE Good
    <2>1. PICK target \in Pairs :
             WriteRun(r, [run[r] EXCEPT !.status = "resolved", !.target = target])
      BY <1>11 DEF ResolveGoal
    <2>. DEFINE row == [run[r] EXCEPT !.status = "resolved", !.target = target]
    <2>2. /\ WriteRun(r, row) /\ UNCHANGED changed_by
          /\ run[r].status = "received" /\ row.status = "resolved"
          /\ row.outcome_reason = run[r].outcome_reason
      BY <1>0, <1>11, <2>1 DEF ResolveGoal, business, RunRow, At, TraceInv,
         DriverKnowsItsRun
    <2>. HIDE DEF row
    <2>3. Lifecycle!Move(r, "received", "resolved")
      BY <1>0, <2>2, MoveSeen
    <2>. QED  BY <1>1, <2>3 DEF Lifecycle!Understand
  <1>12. ASSUME StartDecision(r) PROVE Good
    <2>. DEFINE row == [run[r] EXCEPT !.status = "executing", !.context = TRUE]
    <2>1. /\ WriteRun(r, row) /\ UNCHANGED changed_by
          /\ run[r].status = "resolved" /\ row.status = "executing"
          /\ row.outcome_reason = run[r].outcome_reason
      BY <1>0, <1>12 DEF StartDecision, business, RunRow, At, TraceInv,
         DriverKnowsItsRun
    <2>. HIDE DEF row
    <2>2. Lifecycle!Move(r, "resolved", "executing")
      BY <1>0, <2>1, MoveSeen
    <2>. QED  BY <1>1, <2>2 DEF Lifecycle!Start
  <1>13. ASSUME RequestOverLimit(r) PROVE Good
    <2>1. UNCHANGED changed_by /\ pc[r] = "planning" /\ raised[r] = None
      BY <1>13 DEF RequestOverLimit, At, business, PlannerFree
    <2>2. CASE UNCHANGED run
      BY <1>2, <2>1, <2>2
    <2>3. CASE ~UNCHANGED run
      <3>1. /\ WriteRun(r, Ended(run[r], "failed", "step_limit"))
            /\ ~run[r].completed_at
        BY <1>13, <2>3 DEF RequestOverLimit
      <3>2. run[r].status # "awaiting_approval"
        BY <2>1, RaisedAssumption DEF RunsAreLeftWaiting, LeftWaiting
      <3>3. run[r].status = "executing"
        BY <2>1, <3>1, <3>2 DEF RunsSettleRight, Settling, Settled
      <3>. QED  BY <1>6, <2>1, <3>1, <3>3
    <2>. QED  BY <2>2, <2>3
  <1>14. ASSUME NEW tool \in Tools, CallOverLimit(r, tool) PROVE Good
    BY <1>6, <1>14 DEF CallOverLimit, MayCall, business
  <1>15. ASSUME NEW tool \in Tools, AdmitCall(r, tool) PROVE Good
    BY <1>5, <1>15 DEF AdmitCall, business
  <1>16. ASSUME DenyCall(r) PROVE Good
    <2>1. /\ run[r].status = "executing" /\ changed_by[r] = {}
          /\ WriteRun(r, Ended(Numbered(run[r]), "blocked", "policy_denied"))
          /\ UNCHANGED changed_by
      BY <1>16, NoneAttempted DEF DenyCall, MayCall, business
    <2>2. Lifecycle!End(r, "executing", "blocked", "policy_denied")
      BY <1>4, <2>1
    <2>. QED  BY <1>1, <2>1, <2>2 DEF Lifecycle!Decide
  <1>17. ASSUME HoldCall(r) PROVE Good
    <2>. DEFINE row == Moved(Numbered(run[r]), "awaiting_approval")
    <2>1. /\ run[r].status = "executing" /\ changed_by[r] = {}
          /\ WriteRun(r, row) /\ UNCHANGED changed_by
      BY <1>17, NoneAttempted DEF HoldCall, MayCall, business
    <2>2. /\ row.status = "awaiting_approval"
          /\ row.outcome_reason = run[r].outcome_reason
      BY <1>0, NumberedIsRow DEF Moved, RunRow
    <2>. HIDE DEF row
    <2>3. Lifecycle!Move(r, "executing", "awaiting_approval")
      BY <1>0, <2>1, <2>2, MoveSeen
    <2>. QED  BY <1>1, <2>1, <2>3 DEF Lifecycle!Decide
  <1>18. ASSUME InsertAssignment(r) PROVE Good
    <2>1. /\ UNCHANGED run /\ pc[r] = "insert" /\ run[r].status = "executing"
          /\ changed_by[r] = {}
      BY <1>18, NothingChangedBefore DEF InsertAssignment, At, tables,
         TraceInv, DriverKnowsItsRun, CallingPCs
    <2>2. CASE UNCHANGED changed_by
      BY <1>2, <2>1, <2>2
    <2>3. CASE ~UNCHANGED changed_by
      <3>1. changed_by' = [changed_by EXCEPT ![r] = @ \cup {call[r]}]
        BY <1>18, <2>3 DEF InsertAssignment
      <3>2. Lifecycle!Change(r)
        BY <2>1, <3>1, <1>0 DEF Lifecycle!Change, TypeOK
      <3>. QED  BY <1>1, <3>2
    <2>. QED  BY <2>2, <2>3
  <1>19. ASSUME RecordOutcome(r) PROVE Good
    <2>1. /\ run[r].status = "executing" /\ UNCHANGED changed_by
          /\ \/ UNCHANGED run
             \/ WriteRun(r, Ended(run[r], "failed", "tool_failed"))
      BY <1>19 DEF RecordOutcome, At, business, TraceInv, DriverKnowsItsRun,
         CallingPCs
    <2>. QED  BY <1>2, <1>6, <2>1
  <1>20. ASSUME ErrorReachesDecide(r) PROVE Good
    <2>1. /\ UNCHANGED changed_by
          /\ \/ UNCHANGED run
             \/ /\ run[r].status = "executing"
                /\ \E reason \in {"planner_error", "unexpected_error"} :
                      WriteRun(r, Ended(run[r], "failed", reason))
      BY <1>20 DEF ErrorReachesDecide, business
    <2>. QED  BY <1>2, <1>6, <2>1
  <1>21. ASSUME RecordProposal(r) PROVE Good
    <2>1. PICK p \in Proposals :
             WriteRun(r, [run[r] EXCEPT !.status = "verifying", !.proposal = p])
      BY <1>21 DEF RecordProposal
    <2>. DEFINE row == [run[r] EXCEPT !.status = "verifying", !.proposal = p]
    <2>2. /\ WriteRun(r, row) /\ UNCHANGED changed_by
          /\ run[r].status = "executing" /\ row.status = "verifying"
          /\ row.outcome_reason = run[r].outcome_reason
      BY <1>0, <1>21, <2>1 DEF RecordProposal, business, RunRow
    <2>. HIDE DEF row
    <2>3. Lifecycle!Move(r, "executing", "verifying")
      BY <1>0, <2>2, MoveSeen
    <2>. QED  BY <1>1, <2>3 DEF Lifecycle!Decide
  <1>22. ASSUME VerificationFails(r) PROVE Good
    <2>1. /\ run[r].status = "verifying" /\ UNCHANGED changed_by
          /\ WriteRun(r, Ended(run[r], "failed", "unexpected_error"))
      BY <1>22 DEF VerificationFails, business, TraceInv, DriverKnowsItsRun,
         VerifyingPCs
    <2>2. Lifecycle!End(r, "verifying", "failed", "unexpected_error")
      BY <1>3, <2>1
    <2>. QED  BY <1>1, <2>2 DEF Lifecycle!Conclude
  <1>23. ASSUME Conclude(r) PROVE Good
    <2>1. /\ run[r].status = "verifying" /\ UNCHANGED changed_by
          /\ run[r].proposal \in Proposals /\ verdict[r] \in Verdicts
          /\ verdict[r].changed <=> changed_by[r] # {}
      BY <1>23 DEF Conclude, At, business, TraceInv, DriverKnowsItsRun,
         VerifyingPCs, RowHasWhatItNeeds, VerdictKnowsTheChange, TypeOK
    <2>2. PICK status, reason :
             /\ WriteRun(r, Ended(run[r], status, reason))
             /\ \/ /\ status = "completed"
                   /\ reason = IF verdict[r].changed THEN "goal_satisfied"
                               ELSE "already_satisfied"
                \/ status = "blocked" /\ reason \in ClaimReasons
                \/ status = "failed" /\ reason = "verification_failed"
      <3>. DEFINE result == DecisionOutcome(run[r].proposal, verdict[r])
      <3>1. run[r].proposal.kind = "cannot_proceed"
              => run[r].proposal.reason_code \in ClaimReasons
        BY <2>1 DEF Proposals
      <3>2. verdict[r].rejection \in ClaimReasons \cup {None}
        BY <2>1 DEF Verdicts
      <3>3. \/ /\ result.status = "completed"
               /\ result.reason = IF verdict[r].changed THEN "goal_satisfied"
                                  ELSE "already_satisfied"
            \/ result.status = "blocked" /\ result.reason \in ClaimReasons
            \/ result.status = "failed" /\ result.reason = "verification_failed"
        BY <3>1, <3>2 DEF DecisionOutcome
      <3>4. WriteRun(r, Ended(run[r], result.status, result.reason))
        BY <1>23 DEF Conclude
      <3>. HIDE DEF result
      <3>. QED  BY <3>3, <3>4 DEF WriteRun
    <2>3. Lifecycle!End(r, "verifying", status, reason)
      BY <1>3, <2>1, <2>2
    <2>4. Lifecycle!Conclude(r)
      <3>1. CASE /\ status = "completed"
                 /\ reason = IF verdict[r].changed THEN "goal_satisfied"
                             ELSE "already_satisfied"
        <4>1. [q \in Runs |-> changed_by[q] # {}][r] <=> verdict[r].changed
          BY <2>1
        <4>2. \/ /\ verdict[r].changed
                 /\ Lifecycle!End(r, "verifying", "completed", "goal_satisfied")
              \/ /\ ~verdict[r].changed
                 /\ Lifecycle!End(r, "verifying", "completed", "already_satisfied")
          BY <2>3, <3>1
        <4>. QED  BY <4>1, <4>2 DEF Lifecycle!Conclude
      <3>2. CASE status = "blocked" /\ reason \in ClaimReasons
        BY <1>a, <2>3, <3>2 DEF Lifecycle!Conclude
      <3>3. CASE status = "failed" /\ reason = "verification_failed"
        BY <2>3, <3>3 DEF Lifecycle!Conclude
      <3>. QED  BY <2>2, <3>1, <3>2, <3>3
    <2>. QED  BY <1>1, <2>4
  <1>24. ASSUME \/ BeforeRequest(r) \/ RecordRequestFails(r) \/ RefuseCall(r)
                \/ ReadTarget(r) \/ CheckUser(r) \/ CountSeats(r)
                \/ BusinessFails(r) \/ RecordOutcomeFails(r)
                \/ StopReachesDecide(r) \/ RefuseProposal(r) \/ VerifyGoal(r)
                \/ CheckBlock(r) \/ Crash(r)
         PROVE  Good
    BY <1>2, <1>24 DEF BeforeRequest, RecordRequestFails, RefuseCall,
       ReadTarget, CheckUser, CountSeats, BusinessFails, RecordOutcomeFails,
       StopReachesDecide, RefuseProposal, VerifyGoal, CheckBlock, Crash,
       tables, business
  <1>25. Good
    BY <1>7, <1>8, <1>9, <1>10, <1>11, <1>12, <1>13, <1>14, <1>15, <1>16,
       <1>17, <1>18, <1>19, <1>20, <1>21, <1>22, <1>23, <1>24
    DEF Advance, Fault
  <1>. QED  BY <1>25 DEF Good

\* Where a run may attempt one mutation (the code's limit) and its planner
\* heeds stops (as the code's own does): a run's row goes through the statuses
\* of AgentRunStatus's docstring, changes something once at most, while it is
\* EXECUTING, and ends with a reason that tells so truly.
THEOREM RunsFollowLifecycle ==
    MaxMutations <= 1 /\ ~IgnoresStops => (Spec => FollowsLifecycle)
  <1>. SUFFICES ASSUME MaxMutations <= 1, ~IgnoresStops
                PROVE  Spec => FollowsLifecycle
    OBVIOUS
  <1>1. Init => Lifecycle!Init
    <2>. SUFFICES ASSUME Init PROVE Lifecycle!Init
      OBVIOUS
    <2>1. \A r \in Runs : /\ run[r].status = None
                          /\ run[r].outcome_reason = None
                          /\ changed_by[r] = {}
      BY DEF Init, NoRun, NewRun
    <2>2. [r \in Runs |-> changed_by[r] # {}] = [r \in Runs |-> FALSE]
      <3>1. \A r \in Runs : (changed_by[r] # {}) = FALSE
        BY <2>1
      <3>. QED  BY <3>1
    <2>3. /\ [r \in Runs |-> run[r].status] = [r \in Runs |-> None]
          /\ [r \in Runs |-> run[r].outcome_reason] = [r \in Runs |-> None]
      BY <2>1
    <2>. QED  BY <2>2, <2>3 DEF Lifecycle!Init
  <1>2. Init => RunsSettleRight /\ RunsAreLeftWaiting
    <2>1. Init => RunsSettleRight
      BY RaisedAssumption DEF Init, RunsSettleRight, Settling
    <2>2. Init => \A r \in Runs : run[r].status = None
      BY DEF Init, NoRun, NewRun
    <2>3. None # "awaiting_approval"
      BY AgentExecutorAssumption DEF Statuses, OpenStatuses
    <2>. QED  BY <2>1, <2>2, <2>3 DEF RunsAreLeftWaiting, LeftWaiting
  <1>3. TraceInv /\ EndedIsCompleted /\ CallsWithinLimit /\ CallsChecked
          /\ RunsSettleRight /\ RunsAreLeftWaiting /\ [Next]_vars
          => [Lifecycle!Next]_Lifecycle!vars
    <2>. SUFFICES ASSUME TraceInv, EndedIsCompleted, CallsWithinLimit,
                         CallsChecked, RunsSettleRight, RunsAreLeftWaiting,
                         [Next]_vars
                  PROVE  Lifecycle!Next \/ UNCHANGED Lifecycle!vars
      OBVIOUS
    <2>1. CASE UNCHANGED <<run, pc, raised, tool_calls, changed_by>>
      BY <2>1 DEF Lifecycle!vars
    <2>. QED  BY <2>1, DriverFollows, StepsOfDrivers
  <1>4. TraceInv /\ EndedIsCompleted /\ RunsSettleRight /\ [Next]_vars
          => RunsSettleRight'
    BY SettlingStep
  <1>5. TraceInv /\ RunsAreLeftWaiting /\ [Next]_vars => RunsAreLeftWaiting'
    BY LeftWaitingStep
  <1>. QED
    BY <1>1, <1>2, <1>3, <1>4, <1>5, LimitsAtFirst, CallsStep, CheckedAtFirst,
       CallsCheckedStep, TraceInvariant, EndingsAreTimed, PTL
    DEF Spec, FollowsLifecycle, Lifecycle!Spec
-----------------------------------------------------------------------------
(* What is on the trace stays there.                                       *)

\* No step removes a tool call, or changes one that has its outcome.
LEMMA CallsAreKept ==
  ASSUME TraceInv, [Next]_vars, NEW r \in Runs
  PROVE  /\ DOMAIN tool_calls[r] \subseteq DOMAIN tool_calls'[r]
         /\ \A n \in DOMAIN tool_calls[r] :
               /\ tool_calls'[r][n].tool_name = tool_calls[r][n].tool_name
               /\ tool_calls[r][n].status # "started"
                     => tool_calls'[r][n] = tool_calls[r][n]
  <1>. DEFINE Kept ==
         /\ DOMAIN tool_calls[r] \subseteq DOMAIN tool_calls'[r]
         /\ \A n \in DOMAIN tool_calls[r] :
               /\ tool_calls'[r][n].tool_name = tool_calls[r][n].tool_name
               /\ tool_calls[r][n].status # "started"
                     => tool_calls'[r][n] = tool_calls[r][n]
  <1>1. CASE tool_calls'[r] = tool_calls[r]
    BY <1>1
  <1>2. ASSUME NEW n, NEW c, n \notin DOMAIN tool_calls[r],
               tool_calls'[r] = Put(tool_calls[r], n, c)
        PROVE  Kept
    BY <1>2 DEF Put
  <1>3. ASSUME NEW n, NEW c, GivenOutcome(r, n, c) PROVE Kept
    BY <1>3 DEF GivenOutcome, Put
  <1>4. ASSUME NEW n, NEW c, Turned(r, n, c) PROVE Kept
    BY <1>2, <1>4, NextIsFree DEF Turned
  <1>5. ASSUME NEW n, NEW c, NEW tool \in Tools, Added(r, n, c, tool) PROVE Kept
    BY <1>2, <1>5, NextIsFree DEF Added
  <1>. HIDE DEF Kept
  <1>6. Kept
    BY <1>1, <1>3, <1>4, <1>5, StepsOfCalls DEF Kept
  <1>. QED  BY <1>6 DEF Kept

\* No step removes or changes a model request.
LEMMA RequestsAreKept ==
  ASSUME TraceInv, [Next]_vars, NEW r \in Runs
  PROVE  /\ DOMAIN model_calls[r] \subseteq DOMAIN model_calls'[r]
         /\ \A n \in DOMAIN model_calls[r] :
               model_calls'[r][n] = model_calls[r][n]
  <1>1. CASE UNCHANGED model_calls
    BY <1>1
  <1>2. CASE ~UNCHANGED model_calls
    <2>1. PICK q \in Runs : ExtractionRequest(q) \/ RecordRequest(q)
      BY <1>2, OnlyRecordedRequests
    <2>2. PICK stage, ok : RecordModelCall(q, stage, ok)
      BY <2>1 DEF ExtractionRequest, RecordRequest
    <2>3. model_calls = [p \in Runs |-> model_calls[p]]
      BY DEF TraceInv, TypeOK
    <2>4. /\ model_calls'[q] = Put(model_calls[q], NextSeq(q),
                                   [stage |-> stage, succeeded |-> ok])
          /\ \A p \in Runs \ {q} : model_calls'[p] = model_calls[p]
      BY <2>2, <2>3 DEF RecordModelCall
    <2>5. NextSeq(q) \notin DOMAIN model_calls[q]
      BY NextIsFree
    <2>6. CASE r = q
      BY <2>4, <2>5, <2>6 DEF Put
    <2>7. CASE r # q
      BY <2>4, <2>7
    <2>. QED  BY <2>6, <2>7
  <1>. QED  BY <1>1, <1>2

\* The steps that say why a run has ended.
EndsRun(r) ==
    \/ ExtractNothing(r) \/ ResolveNothing(r) \/ RequestOverLimit(r)
    \/ \E tool \in Tools : CallOverLimit(r, tool)
    \/ DenyCall(r) \/ RecordOutcome(r) \/ ErrorReachesDecide(r)
    \/ VerificationFails(r) \/ Conclude(r)

LEMMA OnlyEndingsSayWhy ==
  ASSUME TraceInv, [Next]_vars, NEW r \in Runs,
         run'[r].outcome_reason # run[r].outcome_reason
  PROVE  EndsRun(r)
  <1>1. TypeOK /\ run \in [Runs -> RunRow] /\ run[r] \in RunRow
    BY DEF TraceInv, TypeOK
  <1>2. PICK q \in Runs : ReceiveRun(q) \/ Advance(q) \/ Fault(q) \/ Crash(q)
    BY StepsOfDrivers
  <1>3. q = r
    BY <1>1, <1>2, OneDriverMoves
  <1>4. ASSUME UNCHANGED run PROVE FALSE
    BY <1>4
  <1>5. ASSUME NEW row, WriteRun(r, row), row.outcome_reason = run[r].outcome_reason
        PROVE  FALSE
    BY <1>1, <1>5 DEF WriteRun
  <1>6. CASE ReceiveRun(r)
    <2>1. WriteRun(r, NewRun) /\ run[r] = NoRun
      BY <1>6 DEF ReceiveRun, At, TraceInv, DriverKnowsItsRun
    <2>2. NewRun.outcome_reason = NoRun.outcome_reason
      BY DEF NoRun, NewRun
    <2>. QED  BY <1>5, <2>1, <2>2
  <1>7. CASE ExtractionRequest(r) \/ RecordRequest(r)
               \/ \E tool \in Tools : AdmitCall(r, tool)
    <2>1. WriteRun(r, Numbered(run[r]))
      BY <1>7 DEF ExtractionRequest, RecordRequest, AdmitCall, RecordModelCall
    <2>. QED  BY <1>1, <1>5, <2>1, NumberedIsRow
  <1>8. CASE ExtractGoal(r)
    <2>1. WriteRun(r, [run[r] EXCEPT !.goal = TRUE])
      BY <1>8 DEF ExtractGoal
    <2>2. [run[r] EXCEPT !.goal = TRUE].outcome_reason = run[r].outcome_reason
      BY <1>1 DEF RunRow
    <2>. QED  BY <1>5, <2>1, <2>2
  <1>9. CASE ResolveGoal(r)
    <2>1. PICK t \in Pairs :
             WriteRun(r, [run[r] EXCEPT !.status = "resolved", !.target = t])
      BY <1>9 DEF ResolveGoal
    <2>2. [run[r] EXCEPT !.status = "resolved", !.target = t].outcome_reason
             = run[r].outcome_reason
      BY <1>1 DEF RunRow
    <2>. QED  BY <1>5, <2>1, <2>2
  <1>10. CASE StartDecision(r)
    <2>1. WriteRun(r, [run[r] EXCEPT !.status = "executing", !.context = TRUE])
      BY <1>10 DEF StartDecision
    <2>2. [run[r] EXCEPT !.status = "executing", !.context = TRUE].outcome_reason
             = run[r].outcome_reason
      BY <1>1 DEF RunRow
    <2>. QED  BY <1>5, <2>1, <2>2
  <1>11. CASE RecordProposal(r)
    <2>1. PICK p \in Proposals :
             WriteRun(r, [run[r] EXCEPT !.status = "verifying", !.proposal = p])
      BY <1>11 DEF RecordProposal
    <2>2. [run[r] EXCEPT !.status = "verifying", !.proposal = p].outcome_reason
             = run[r].outcome_reason
      BY <1>1 DEF RunRow
    <2>. QED  BY <1>5, <2>1, <2>2
  <1>12. CASE HoldCall(r)
    <2>1. WriteRun(r, Moved(Numbered(run[r]), "awaiting_approval"))
      BY <1>12 DEF HoldCall
    <2>2. Moved(Numbered(run[r]), "awaiting_approval").outcome_reason
             = run[r].outcome_reason
      BY <1>1, NumberedIsRow DEF Moved, RunRow
    <2>. QED  BY <1>5, <2>1, <2>2
  <1>13. CASE \/ BeforeRequest(r) \/ RefuseCall(r) \/ ReadTarget(r)
              \/ CheckUser(r) \/ CountSeats(r) \/ InsertAssignment(r)
              \/ StopReachesDecide(r) \/ RefuseProposal(r) \/ VerifyGoal(r)
              \/ CheckBlock(r) \/ RecordRequestFails(r) \/ BusinessFails(r)
              \/ RecordOutcomeFails(r) \/ Crash(r)
    BY <1>4, <1>13 DEF BeforeRequest, RefuseCall, ReadTarget, CheckUser,
       CountSeats, InsertAssignment, StopReachesDecide, RefuseProposal,
       VerifyGoal, CheckBlock, RecordRequestFails, BusinessFails,
       RecordOutcomeFails, Crash, tables
  <1>. QED
    BY <1>2, <1>3, <1>6, <1>7, <1>8, <1>9, <1>10, <1>11, <1>12, <1>13
    DEF Advance, Fault, EndsRun
-----------------------------------------------------------------------------
(* What a run is concluded from.                                           *)

\* The latest attempt at the mutation ended with this code.
LatestFailedWith(r, code) ==
    \E n \in CallsOf(r, {Mutation}) :
        /\ \A m \in CallsOf(r, {Mutation}) : m <= n
        /\ tool_calls[r][n].error = code

\* A proposal is a run's that is verified, or was; a run that waits has a call
\* that is held; ...
Proposing(r) ==
    /\ run[r].proposal # None => run[r].status \in {"verifying"} \cup EndedStatuses
    /\ run[r].status = "verifying" => pc[r] \in VerifyingPCs \cup {"gone"}
    /\ run[r].status = "completed" => run[r].proposal # None
    /\ run[r].status = "awaiting_approval"
          => MutationsWith(r, {"awaiting_approval"}) # {}

\* ... and the verdict in the making goes by a trace that is finished: its
\* rejection is that of the latest attempt, and a claim is confirmed last, of a
\* run whose goal does not hold.
Judging(r) ==
    pc[r] \in VerifyingPCs =>
        /\ ~AnyStarted(r)
        /\ verdict[r].rejection # None => LatestFailedWith(r, verdict[r].rejection)
        /\ pc[r] # "conclude" => ~verdict[r].satisfied /\ ~verdict[r].confirmed
        /\ verdict[r].confirmed => ~verdict[r].satisfied
        /\ pc[r] = "check_block" \/ verdict[r].confirmed
              => run[r].proposal.kind = "cannot_proceed"

RunsAreJudged == \A r \in Runs : Proposing(r) /\ Judging(r)

\* A set of numbers up to a bound has a greatest one.
LEMMA Greatest ==
  ASSUME NEW N \in Nat, NEW S, S \subseteq 1 .. N, S # {}
  PROVE  \E n \in S : \A m \in S : m <= n
  <1>. DEFINE bounds == {m \in Nat : \A n \in S : n <= m}
              less == {ss \in Nat \X Nat : ss[1] < ss[2]}
  <1>1. PICK m \in bounds : \A k \in bounds : ~ (<<k, m>> \in less)
    <2>1. IsWellFoundedOn(less, Nat)
      BY NatLessThanWellFounded DEF OpToRel
    <2>2. bounds \subseteq Nat /\ N \in bounds
      OBVIOUS
    <2>. HIDE DEF bounds, less
    <2>. QED
      BY <2>1, <2>2, WFMin
  <1>2. \A k \in bounds : ~ (k < m)
    BY <1>1
  <1>3. m \in S
    <2>. SUFFICES ASSUME m \notin S PROVE FALSE
      OBVIOUS
    <2>1. m \in Nat /\ \A n \in S : n \in 1 .. N /\ n < m
      OBVIOUS
    <2>2. PICK n \in S : TRUE
      OBVIOUS
    <2>3. m - 1 \in Nat /\ \A k \in S : k <= m - 1
      BY <2>1, <2>2
    <2>. QED  BY <1>2, <2>1, <2>3
  <1>. QED  BY <1>3

\* What _blocking_rejection finds is the error of the latest attempt.
LEMMA RejectionIsTheLatest ==
  ASSUME TraceInv, NEW r \in Runs, Rejection(r) # None
  PROVE  LatestFailedWith(r, Rejection(r)) /\ Rejection(r) \in ClaimReasons
  <1>. DEFINE attempts == CallsOf(r, {Mutation})
              latest == CHOOSE n \in attempts : \A m \in attempts : m <= n
  <1>1. attempts # {} /\ attempts \subseteq 1 .. run[r].last_sequence_no
    BY DEF Rejection, TraceInv, TraceIsOneOrder, CallsOf
  <1>2. run[r].last_sequence_no \in Nat
    BY DEF TraceInv, TypeOK, RunRow
  <1>3. \E n \in attempts : \A m \in attempts : m <= n
    BY <1>1, <1>2, Greatest
  <1>4. latest \in attempts /\ \A m \in attempts : m <= latest
    BY <1>3
  <1>5. /\ Rejection(r) = BlockingReason(tool_calls[r][latest].error)
    BY DEF Rejection
  <1>6. /\ tool_calls[r][latest].error = Rejection(r)
        /\ Rejection(r) \in ClaimReasons
    BY <1>5 DEF BlockingReason
  <1>. QED  BY <1>4, <1>6 DEF LatestFailedWith

\* Two more pieces of state that one driver's step leaves to the others.
LEMMA OneDriverJudges ==
  ASSUME TypeOK, NEW q \in Runs, NEW r \in Runs \ {q},
         ReceiveRun(q) \/ Advance(q) \/ Fault(q) \/ Crash(q)
  PROVE  verdict'[r] = verdict[r]
  <1>1. UNCHANGED verdict \/ \E v : verdict' = [verdict EXCEPT ![q] = v]
    BY DEF ReceiveRun, Advance, Fault, Crash, ExtractionRequest, ExtractGoal,
       ExtractNothing, ResolveGoal, ResolveNothing, StartDecision,
       BeforeRequest, RequestOverLimit, RecordRequest, RefuseCall,
       CallOverLimit, AdmitCall, DenyCall, HoldCall, ReadTarget, CheckUser,
       CountSeats, InsertAssignment, RecordOutcome, StopReachesDecide,
       ErrorReachesDecide, RecordProposal, RefuseProposal, VerifyGoal,
       CheckBlock, Conclude, RecordRequestFails, BusinessFails,
       RecordOutcomeFails, VerificationFails, memory
  <1>. QED  BY <1>1 DEF TypeOK

LEMMA OthersJudgeNothing ==
  ASSUME Others \/ UNCHANGED vars
  PROVE  UNCHANGED <<run, pc, tool_calls, verdict>>
  BY DEF Others, HumanChecks, HumanAssigns, HumanRevokes, EditPolicy,
     DeactivateUser, vars, tables, memory

LEMMA JudgedAtFirst == Init => RunsAreJudged
  BY AgentExecutorAssumption
  DEF Init, NoRun, NewRun, RunsAreJudged, Proposing, Judging, VerifyingPCs,
      Statuses, OpenStatuses, EndedStatuses

\* The rows of a driver's steps: as they were, but for their number, ...
LEMMA RowRests ==
  ASSUME TraceInv, [Next]_vars, NEW r \in Runs, Proposing(r),
         run'[r] = run[r] \/ run'[r] = Numbered(run[r]),
         run[r].status = "verifying" => pc'[r] \in VerifyingPCs \cup {"gone"}
  PROVE  Proposing(r)'
  <1>1. /\ run'[r].proposal = run[r].proposal
        /\ run'[r].status = run[r].status
    BY NumberedIsRow DEF TraceInv, TypeOK
  <1>2. MutationsWith(r, {"awaiting_approval"})
           \subseteq MutationsWith(r, {"awaiting_approval"})'
    BY CallsAreKept DEF MutationsWith, CallsOf
  <1>. QED  BY <1>1, <1>2 DEF Proposing

\* ... ended without being completed, ...
LEMMA RowEnds ==
  ASSUME TraceInv, NEW r \in Runs, NEW row \in RunRow,
         NEW status \in EndedStatuses \ {"completed"}, NEW reason,
         run'[r] = Ended(row, status, reason)
  PROVE  Proposing(r)'
  <1>1. run'[r].status = status /\ run'[r].proposal = row.proposal
    BY EndedKeeps
  <1>2. status \notin {"verifying", "completed", "awaiting_approval"}
    BY DEF EndedStatuses
  <1>. QED  BY <1>1, <1>2 DEF Proposing

\* ... or on their way to the decision.
LEMMA RowGoesOn ==
  ASSUME NEW r \in Runs, run'[r].proposal = None,
         run'[r].status \in {"received", "resolved", "executing"}
  PROVE  Proposing(r)'
  BY DEF Proposing

LEMMA DriverIsJudged ==
  ASSUME TraceInv, RunsAreJudged, [Next]_vars, NEW r \in Runs,
         ReceiveRun(r) \/ Advance(r) \/ Fault(r) \/ Crash(r)
  PROVE  Proposing(r)' /\ Judging(r)'
  <1>. DEFINE Good == Proposing(r)' /\ Judging(r)'
  <1>0. /\ TypeOK /\ run \in [Runs -> RunRow] /\ run[r] \in RunRow
        /\ pc \in [Runs -> PCs] /\ verdict \in [Runs -> Verdicts]
        /\ Proposing(r) /\ Judging(r)
    BY DEF TraceInv, TypeOK, RunsAreJudged
  <1>1. ASSUME NEW row, WriteRun(r, row) PROVE run'[r] = row
    BY <1>0, <1>1 DEF WriteRun
  <1>2. ASSUME NEW there, pc' = [pc EXCEPT ![r] = there] PROVE pc'[r] = there
    BY <1>0, <1>2
  <1>3. ASSUME pc'[r] \notin VerifyingPCs PROVE Judging(r)'
    BY <1>3 DEF Judging
  <1>4. ASSUME pc[r] \notin VerifyingPCs \cup {"gone"}, pc'[r] \notin VerifyingPCs,
               run'[r] = run[r] \/ run'[r] = Numbered(run[r])
        PROVE  Good
    <2>1. run[r].status # "verifying"
      BY <1>0, <1>4 DEF Proposing
    <2>. QED  BY <1>0, <1>3, <1>4, <2>1, RowRests
  <1>5. ASSUME pc'[r] \notin VerifyingPCs,
               \E row \in RunRow, status \in EndedStatuses \ {"completed"} :
                  \E reason : WriteRun(r, Ended(row, status, reason))
        PROVE  Good
    BY <1>1, <1>3, <1>5, RowEnds
  <1>. HIDE DEF Good
  <1>6. ASSUME \/ BeforeRequest(r) \/ RefuseCall(r) \/ ReadTarget(r)
               \/ CheckUser(r) \/ CountSeats(r) \/ InsertAssignment(r)
               \/ StopReachesDecide(r) \/ RefuseProposal(r)
               \/ RecordRequestFails(r) \/ BusinessFails(r)
               \/ RecordOutcomeFails(r)
        PROVE  Good
    <2>1. UNCHANGED run
      BY <1>6 DEF BeforeRequest, RefuseCall, ReadTarget, CheckUser, CountSeats,
         InsertAssignment, StopReachesDecide, RefuseProposal,
         RecordRequestFails, BusinessFails, RecordOutcomeFails, tables
    <2>2. /\ pc[r] \notin VerifyingPCs \cup {"gone"}
          /\ \E there : there \notin VerifyingPCs /\ pc' = [pc EXCEPT ![r] = there]
      BY <1>6 DEF BeforeRequest, RefuseCall, ReadTarget, CheckUser, CountSeats,
         InsertAssignment, StopReachesDecide, RefuseProposal,
         RecordRequestFails, BusinessFails, RecordOutcomeFails, At, VerifyingPCs
    <2>. QED  BY <1>2, <1>4, <2>1, <2>2
  <1>7. ASSUME \/ ExtractionRequest(r) \/ RecordRequest(r)
               \/ \E tool \in Tools : AdmitCall(r, tool)
        PROVE  Good
    <2>1. WriteRun(r, Numbered(run[r]))
      BY <1>7 DEF ExtractionRequest, RecordRequest, AdmitCall, RecordModelCall
    <2>2. /\ pc[r] \notin VerifyingPCs \cup {"gone"}
          /\ \E there : there \notin VerifyingPCs /\ pc' = [pc EXCEPT ![r] = there]
      BY <1>7 DEF ExtractionRequest, RecordRequest, AdmitCall, At, VerifyingPCs
    <2>. QED  BY <1>1, <1>2, <1>4, <2>1, <2>2
  <1>8. ASSUME ReceiveRun(r) PROVE Good
    <2>1. run'[r] = NewRun /\ pc'[r] = "extracting"
      BY <1>1, <1>2, <1>8 DEF ReceiveRun, At
    <2>. QED  BY <1>3, <2>1, RowGoesOn DEF NewRun, VerifyingPCs, Good
  <1>9. ASSUME ExtractGoal(r) \/ ResolveGoal(r) \/ StartDecision(r) PROVE Good
    <2>1. /\ run[r].status \in {"received", "resolved"}
          /\ pc'[r] \notin VerifyingPCs
      BY <1>2, <1>9 DEF ExtractGoal, ResolveGoal, StartDecision, At, TraceInv,
         DriverKnowsItsRun, VerifyingPCs
    <2>2. run[r].proposal = None
      BY <2>1 DEF TraceInv, RowHasWhatItNeeds
    <2>3. CASE ExtractGoal(r)
      BY <1>0, <1>1, <1>3, <2>1, <2>2, <2>3, RowGoesOn DEF ExtractGoal, RunRow, Good
    <2>4. CASE ResolveGoal(r)
      <3>1. PICK t \in Pairs :
               WriteRun(r, [run[r] EXCEPT !.status = "resolved", !.target = t])
        BY <2>4 DEF ResolveGoal
      <3>2. run'[r].proposal = None /\ run'[r].status = "resolved"
        BY <1>0, <1>1, <2>2, <3>1 DEF RunRow
      <3>. QED  BY <1>3, <2>1, <3>2, RowGoesOn DEF Good
    <2>5. CASE StartDecision(r)
      <3>1. run'[r] = [run[r] EXCEPT !.status = "executing", !.context = TRUE]
        BY <1>1, <2>5 DEF StartDecision
      <3>2. run'[r].proposal = None /\ run'[r].status = "executing"
        BY <1>0, <2>2, <3>1 DEF RunRow
      <3>. QED  BY <1>3, <2>1, <3>2, RowGoesOn DEF Good
    <2>. QED  BY <1>9, <2>3, <2>4, <2>5
  <1>10. ASSUME ExtractNothing(r) \/ ResolveNothing(r) \/ VerificationFails(r)
         PROVE  Good
    <2>1. pc'[r] \notin VerifyingPCs
      BY <1>2, <1>10 DEF ExtractNothing, ResolveNothing, VerificationFails, At,
         VerifyingPCs
    <2>2. \E status \in EndedStatuses \ {"completed"} : \E reason :
             WriteRun(r, Ended(run[r], status, reason))
      BY <1>10 DEF ExtractNothing, ResolveNothing, VerificationFails,
         EndedStatuses
    <2>. QED  BY <1>0, <1>5, <2>1, <2>2
  <1>11. ASSUME RequestOverLimit(r) \/ ErrorReachesDecide(r) PROVE Good
    <2>1. /\ pc[r] = "planning"
          /\ pc'[r] \notin VerifyingPCs
      BY <1>2, <1>11 DEF RequestOverLimit, ErrorReachesDecide, At, VerifyingPCs
    <2>2. CASE UNCHANGED run
      BY <1>4, <2>1, <2>2 DEF VerifyingPCs
    <2>3. CASE ~UNCHANGED run
      <3>1. \E status \in EndedStatuses \ {"completed"} : \E reason :
               WriteRun(r, Ended(run[r], status, reason))
        BY <1>11, <2>3 DEF RequestOverLimit, ErrorReachesDecide, EndedStatuses
      <3>. QED  BY <1>0, <1>5, <2>1, <3>1
    <2>. QED  BY <2>2, <2>3
  <1>12. ASSUME DenyCall(r) \/ \E tool \in Tools : CallOverLimit(r, tool)
         PROVE  Good
    <2>1. pc'[r] \notin VerifyingPCs
      BY <1>2, <1>12 DEF DenyCall, CallOverLimit, At, VerifyingPCs
    <2>2. \E status \in EndedStatuses \ {"completed"} : \E reason :
             WriteRun(r, Ended(Numbered(run[r]), status, reason))
      BY <1>12 DEF DenyCall, CallOverLimit, EndedStatuses
    <2>3. Numbered(run[r]) \in RunRow
      BY <1>0, NumberedIsRow
    <2>. QED  BY <1>5, <2>1, <2>2, <2>3
  <1>13. ASSUME RecordOutcome(r) PROVE Good
    <2>1. pc[r] = "record" /\ pc'[r] \notin VerifyingPCs
      BY <1>2, <1>13 DEF RecordOutcome, At, VerifyingPCs
    <2>2. CASE UNCHANGED run
      BY <1>4, <2>1, <2>2 DEF VerifyingPCs
    <2>3. CASE ~UNCHANGED run
      <3>1. WriteRun(r, Ended(run[r], "failed", "tool_failed"))
        BY <1>13, <2>3 DEF RecordOutcome
      <3>2. "failed" \in EndedStatuses \ {"completed"}
        BY DEF EndedStatuses
      <3>. QED  BY <1>0, <1>5, <2>1, <3>1, <3>2
    <2>. QED  BY <2>2, <2>3
  <1>14. ASSUME HoldCall(r) PROVE Good
    <2>. DEFINE c == [Started(Mutation, "require_approval")
                         EXCEPT !.status = "awaiting_approval"]
    <2>1. /\ WriteRun(r, Moved(Numbered(run[r]), "awaiting_approval"))
          /\ WriteCall(r, NextSeq(r), c)
          /\ run[r].status = "executing"
          /\ pc'[r] \notin VerifyingPCs
      BY <1>2, <1>14 DEF HoldCall, MayCall, At, VerifyingPCs
    <2>2. run[r].proposal = None
      BY <2>1 DEF TraceInv, RowHasWhatItNeeds
    <2>3. run'[r].proposal = None /\ run'[r].status = "awaiting_approval"
      BY <1>0, <1>1, <2>1, <2>2, NumberedIsRow DEF Moved, RunRow
    <2>4. tool_calls'[r] = Put(tool_calls[r], NextSeq(r), c)
      BY <1>0, <2>1 DEF WriteCall, TypeOK
    <2>5. c.tool_name = Mutation /\ c.status = "awaiting_approval"
      BY DEF Started
    <2>. HIDE DEF c
    <2>6. NextSeq(r) \in MutationsWith(r, {"awaiting_approval"})'
      BY <2>4, <2>5 DEF MutationsWith, CallsOf, Put
    <2>7. Proposing(r)'
      BY <2>3, <2>6 DEF Proposing
    <2>. QED  BY <1>3, <2>1, <2>7 DEF Good
  <1>15. ASSUME RecordProposal(r) PROVE Good
    <2>1. PICK p \in Proposals :
             WriteRun(r, [run[r] EXCEPT !.status = "verifying", !.proposal = p])
      BY <1>15 DEF RecordProposal
    <2>2. run'[r].status = "verifying" /\ pc'[r] = "verify"
      BY <1>0, <1>1, <1>2, <1>15, <2>1 DEF RecordProposal, At, RunRow
    <2>3. Proposing(r)'
      BY <2>2 DEF Proposing, VerifyingPCs
    <2>4. /\ UNCHANGED tool_calls /\ ~AnyStarted(r)
          /\ verdict'[r] = [NoVerdict EXCEPT !.changed = Changed(r),
                                             !.rejection = Rejection(r)]
      BY <1>0, <1>15 DEF RecordProposal
    <2>5. PICK code : code = Rejection(r)
      OBVIOUS
    <2>5a. /\ verdict'[r].rejection = code
           /\ ~verdict'[r].satisfied /\ ~verdict'[r].confirmed
      BY <2>4, <2>5 DEF NoVerdict
    <2>6. code # None => LatestFailedWith(r, code)'
      BY <2>4, <2>5, RejectionIsTheLatest DEF LatestFailedWith, CallsOf
    <2>7. Judging(r)'
      BY <2>2, <2>4, <2>5a, <2>6 DEF Judging, AnyStarted, LatestFailedWith, CallsOf
    <2>. QED  BY <2>3, <2>7 DEF Good
  <1>16. ASSUME VerifyGoal(r) \/ CheckBlock(r) PROVE Good
    <2>1. /\ UNCHANGED <<run, tool_calls>>
          /\ pc[r] \in {"verify", "check_block"}
          /\ pc'[r] \in {"check_block", "conclude"}
      BY <1>2, <1>16 DEF VerifyGoal, CheckBlock, At, tables
    <2>2. Proposing(r)'
      BY <1>0, <2>1, RowRests DEF VerifyingPCs
    <2>3. verdict[r] \in Verdicts
      BY <1>0
    <2>4. CASE VerifyGoal(r)
      <3>1. /\ verdict'[r] = [verdict[r] EXCEPT !.satisfied = GoalHolds(r)]
            /\ pc[r] = "verify"
            /\ pc'[r] = "check_block" => ~GoalHolds(r)
                  /\ run[r].proposal.kind = "cannot_proceed"
        BY <1>0, <1>2, <2>4 DEF VerifyGoal, At
      <3>2. /\ verdict'[r].rejection = verdict[r].rejection
            /\ verdict'[r].satisfied = GoalHolds(r)
            /\ verdict'[r].confirmed = verdict[r].confirmed
        BY <2>3, <3>1 DEF Verdicts
      <3>3. Judging(r)'
        BY <1>0, <2>1, <3>1, <3>2 DEF Judging, VerifyingPCs, AnyStarted,
           LatestFailedWith, CallsOf
      <3>. QED  BY <2>2, <3>3 DEF Good
    <2>5. CASE CheckBlock(r)
      <3>1. /\ verdict'[r] = [verdict[r] EXCEPT !.confirmed = ClaimHolds(r)]
            /\ pc[r] = "check_block" /\ pc'[r] = "conclude"
        BY <1>0, <1>2, <2>5 DEF CheckBlock, At
      <3>2. /\ verdict'[r].rejection = verdict[r].rejection
            /\ verdict'[r].satisfied = verdict[r].satisfied
        BY <2>3, <3>1 DEF Verdicts
      <3>3. Judging(r)'
        BY <1>0, <2>1, <3>1, <3>2 DEF Judging, VerifyingPCs, AnyStarted,
           LatestFailedWith, CallsOf
      <3>. QED  BY <2>2, <3>3 DEF Good
    <2>. QED  BY <1>16, <2>4, <2>5
  <1>17. ASSUME Conclude(r) PROVE Good
    <2>. DEFINE result == DecisionOutcome(run[r].proposal, verdict[r])
    <2>1. /\ run'[r] = Ended(run[r], result.status, result.reason)
          /\ pc[r] = "conclude" /\ pc'[r] = "returned"
      BY <1>1, <1>2, <1>17 DEF Conclude, At
    <2>2. run[r].proposal # None
      BY <2>1, AgentExecutorAssumption DEF TraceInv, DriverKnowsItsRun,
         RowHasWhatItNeeds, VerifyingPCs
    <2>3. result.status \in EndedStatuses
      BY DEF DecisionOutcome, EndedStatuses
    <2>4. run'[r].status = result.status /\ run'[r].proposal = run[r].proposal
      BY <1>0, <2>1, EndedKeeps
    <2>5. Proposing(r)'
      BY <2>2, <2>3, <2>4 DEF Proposing, EndedStatuses
    <2>. QED  BY <1>3, <2>1, <2>5 DEF Good, VerifyingPCs
  <1>18. ASSUME Crash(r) PROVE Good
    <2>1. pc'[r] = "gone" /\ UNCHANGED run
      BY <1>2, <1>18 DEF Crash, tables
    <2>. QED  BY <1>0, <1>3, <2>1, RowRests DEF Good, VerifyingPCs
  <1>. QED
    BY <1>6, <1>7, <1>8, <1>9, <1>10, <1>11, <1>12, <1>13, <1>14, <1>15, <1>16,
       <1>17, <1>18 DEF Advance, Fault, Good

LEMMA JudgedStep ==
  ASSUME TraceInv, RunsAreJudged, [Next]_vars
  PROVE  RunsAreJudged'
  <1>. SUFFICES ASSUME NEW r \in Runs PROVE Proposing(r)' /\ Judging(r)'
    BY DEF RunsAreJudged
  <1>1. ASSUME run'[r] = run[r], pc'[r] = pc[r], tool_calls'[r] = tool_calls[r],
               verdict'[r] = verdict[r]
        PROVE  Proposing(r)' /\ Judging(r)'
    BY <1>1 DEF RunsAreJudged, Proposing, Judging, MutationsWith, CallsOf,
       AnyStarted, LatestFailedWith
  <1>2. CASE Others \/ UNCHANGED vars
    BY <1>1, <1>2, OthersJudgeNothing
  <1>3. ASSUME NEW q \in Runs,
               ReceiveRun(q) \/ Advance(q) \/ Fault(q) \/ Crash(q)
        PROVE  Proposing(r)' /\ Judging(r)'
    <2>1. CASE q = r
      BY <1>3, <2>1, DriverIsJudged
    <2>2. CASE q # r
      BY <1>1, <1>3, <2>2, OneDriverMoves, OneDriverJudges DEF TraceInv
    <2>. QED  BY <2>1, <2>2
  <1>. QED  BY <1>2, <1>3 DEF Next, NextWithoutCrash

\* A verdict goes by a finished trace, and by its latest attempt; a run with a
\* proposal is one that is verified, or was (_finish_decision).
THEOREM RunsAreJudgedOnTheTrace == Spec => []RunsAreJudged
  BY JudgedAtFirst, JudgedStep, TraceInvariant, PTL DEF Spec
-----------------------------------------------------------------------------
(* What a verdict says was true.                                           *)

\* Only a verification completes a run, blocks it for a claim, or fails it for
\* a goal that does not hold.
LEMMA OnlyVerdictsClaim ==
  ASSUME TraceInv, [Next]_vars, NEW r \in Runs, EndsRun(r), ~Conclude(r),
         run'[r].outcome_reason # run[r].outcome_reason
  PROVE  /\ run'[r].status # "completed"
         /\ run'[r].outcome_reason \notin ClaimReasons \cup {"verification_failed"}
  <1>1. run \in [Runs -> RunRow] /\ run[r] \in RunRow /\ Numbered(run[r]) \in RunRow
    BY NumberedIsRow DEF TraceInv, TypeOK
  <1>2. PICK row \in RunRow, status \in EndedStatuses \ {"completed"} :
           \E reason \in {"planner_error", "unexpected_error", "step_limit",
                          "policy_denied", "tool_failed"}
                         \cup ExtractionReasons \cup ResolutionFailures :
              WriteRun(r, Ended(row, status, reason))
    <2>1. CASE ExtractNothing(r) \/ ResolveNothing(r)
      BY <1>1, <2>1 DEF ExtractNothing, ResolveNothing, EndedStatuses
    <2>2. CASE RequestOverLimit(r) \/ ErrorReachesDecide(r)
      BY <1>1, <2>2 DEF RequestOverLimit, ErrorReachesDecide, EndedStatuses
    <2>3. CASE DenyCall(r) \/ \E tool \in Tools : CallOverLimit(r, tool)
      BY <1>1, <2>3 DEF DenyCall, CallOverLimit, EndedStatuses
    <2>4. CASE RecordOutcome(r) \/ VerificationFails(r)
      BY <1>1, <2>4 DEF RecordOutcome, VerificationFails, EndedStatuses
    <2>. QED  BY <2>1, <2>2, <2>3, <2>4 DEF EndsRun
  <1>3. PICK reason \in {"planner_error", "unexpected_error", "step_limit",
                         "policy_denied", "tool_failed"}
                        \cup ExtractionReasons \cup ResolutionFailures :
           run'[r] = Ended(row, status, reason)
    BY <1>1, <1>2 DEF WriteRun
  <1>4. run'[r].status = status /\ run'[r].outcome_reason = reason
    BY <1>3, EndedKeeps
  <1>. QED  BY <1>4 DEF ExtractionReasons, ResolutionFailures, ClaimReasons

\* A run that has not ended has no reason yet.
LEMMA OpenHasNoReason ==
  ASSUME TraceInv, EndedIsCompleted, RunsChecked, NEW r \in Runs,
         ~run[r].completed_at
  PROVE  run[r].outcome_reason = None
  <1>1. CASE run[r].status = None
    <2>1. run[r] = NoRun
      BY <1>1 DEF RunsChecked, RunChecked, TraceInv, DriverKnowsItsRun
    <2>. QED  BY <2>1 DEF NoRun, NewRun
  <1>2. CASE run[r].status # None
    <2>1. RunRowPasses(run[r])
      BY <1>2 DEF RunsChecked, RunChecked
    <2>. QED  BY <2>1 DEF RunRowPasses
  <1>. QED  BY <1>1, <1>2

\* What is witnessed is true, while the run is verified; a verdict in the
\* making goes by it.
Witnessing(r) ==
    /\ run[r].status = "verifying" => Facts(r) \subseteq witnessed[r]
    /\ pc[r] \in {"check_block", "conclude"} =>
          (IF verdict[r].satisfied THEN "held" ELSE "not_held") \in witnessed[r]
    /\ pc[r] \in VerifyingPCs /\ verdict[r].confirmed
          => run[r].proposal.reason_code \in witnessed[r]

\* The property, of one run.
WasTrue(r) ==
    /\ run[r].status = "completed" => "held" \in witnessed[r]
    /\ run[r].outcome_reason \in ClaimReasons \cup {"verification_failed"}
          => "not_held" \in witnessed[r]
    /\ run[r].outcome_reason \in ClaimReasons
          => \/ run[r].outcome_reason \in witnessed[r]
             \/ \E n \in CallsOf(r, {Mutation}) :
                   tool_calls[r][n].error = run[r].outcome_reason

VerdictsGoByFacts == \A r \in Runs : Witnessing(r) /\ WasTrue(r)

\* What has been witnessed is not forgotten.
LEMMA WitnessedGrows ==
  ASSUME [HNext]_hvars, NEW r \in Runs
  PROVE  /\ witnessed[r] \subseteq witnessed'[r]
         /\ run'[r].status = "verifying" /\ HNext => Facts(r)' \subseteq witnessed'[r]
  BY DEF HNext, hvars

\* Who leads a run to its verdict.
LEMMA WhoVerifies ==
  ASSUME TypeOK, NEW r \in Runs, pc'[r] \in VerifyingPCs,
         ReceiveRun(r) \/ Advance(r) \/ Fault(r) \/ Crash(r)
  PROVE  RecordProposal(r) \/ VerifyGoal(r) \/ CheckBlock(r)
  <1>1. pc \in [Runs -> PCs]
    BY DEF TypeOK
  <1>2. ASSUME NEW there, there \notin VerifyingPCs, pc' = [pc EXCEPT ![r] = there]
        PROVE  FALSE
    BY <1>1, <1>2
  <1>3. ASSUME ReceiveRun(r) \/ Fault(r) \/ Crash(r) PROVE FALSE
    <2>1. \E there : there \notin VerifyingPCs /\ pc' = [pc EXCEPT ![r] = there]
      BY <1>3 DEF ReceiveRun, Fault, Crash, RecordRequestFails, BusinessFails,
         RecordOutcomeFails, VerificationFails, At, VerifyingPCs
    <2>. QED  BY <1>2, <2>1
  <1>4. ASSUME Advance(r), ~RecordProposal(r), ~VerifyGoal(r), ~CheckBlock(r)
        PROVE  FALSE
    <2>1. \E there : there \notin VerifyingPCs /\ pc' = [pc EXCEPT ![r] = there]
      BY <1>4 DEF Advance, ExtractionRequest, ExtractGoal, ExtractNothing,
         ResolveGoal, ResolveNothing, StartDecision, BeforeRequest,
         RequestOverLimit, RecordRequest, RefuseCall, CallOverLimit,
         AdmitCall, DenyCall, HoldCall, ReadTarget, CheckUser, CountSeats,
         InsertAssignment, RecordOutcome, StopReachesDecide,
         ErrorReachesDecide, RefuseProposal, Conclude, At, VerifyingPCs
    <2>. QED  BY <1>2, <2>1
  <1>. QED  BY <1>3, <1>4

\* The step of a run's own driver, or one that is not of it.
LEMMA WitnessingStep ==
  ASSUME TraceInv, RunsAreJudged, VerdictsGoByFacts, HNext, NEW r \in Runs
  PROVE  Witnessing(r)'
  <1>0. /\ TypeOK /\ run \in [Runs -> RunRow] /\ pc \in [Runs -> PCs]
        /\ verdict \in [Runs -> Verdicts] /\ verdict[r] \in Verdicts
        /\ Witnessing(r) /\ Judging(r) /\ Next
    BY DEF TraceInv, TypeOK, VerdictsGoByFacts, RunsAreJudged, HNext
  <1>1. /\ run'[r].status = "verifying" => Facts(r)' \subseteq witnessed'[r]
        /\ witnessed[r] \subseteq witnessed'[r]
    BY WitnessedGrows
  <1>2. ASSUME run'[r].proposal = run[r].proposal, pc'[r] = pc[r],
               verdict'[r] = verdict[r]
        PROVE  Witnessing(r)'
    BY <1>0, <1>1, <1>2 DEF Witnessing
  <1>3. ASSUME ReceiveRun(r) \/ Advance(r) \/ Fault(r) \/ Crash(r)
        PROVE  Witnessing(r)'
    <2>1. CASE pc'[r] \notin VerifyingPCs
      BY <1>1, <2>1 DEF Witnessing, VerifyingPCs
    <2>2. CASE RecordProposal(r)
      <3>1. pc'[r] = "verify" /\ ~verdict'[r].confirmed
        BY <1>0, <2>2 DEF RecordProposal, At, NoVerdict
      <3>. QED  BY <1>1, <3>1 DEF Witnessing
    <2>3. CASE VerifyGoal(r) \/ CheckBlock(r)
      <3>1. /\ pc[r] \in VerifyingPCs /\ UNCHANGED run
            /\ pc[r] # "conclude"
        BY <2>3 DEF VerifyGoal, CheckBlock, At, VerifyingPCs, tables
      <3>2. run[r].status = "verifying" /\ run[r].proposal \in Proposals
        BY <3>1 DEF TraceInv, DriverKnowsItsRun, RowHasWhatItNeeds
      <3>3. Facts(r) \subseteq witnessed'[r]
        BY <1>0, <1>1, <3>2 DEF Witnessing
      <3>4. CASE VerifyGoal(r)
        <4>1. verdict'[r] = [verdict[r] EXCEPT !.satisfied = GoalHolds(r)]
          BY <1>0, <3>4 DEF VerifyGoal
        <4>2. /\ verdict'[r].satisfied = GoalHolds(r)
              /\ ~verdict'[r].confirmed
          BY <1>0, <3>1, <4>1 DEF Verdicts, Judging
        <4>3. (IF GoalHolds(r) THEN "held" ELSE "not_held") \in Facts(r)
          BY DEF Facts, GoalHolds
        <4>. QED  BY <1>1, <3>3, <4>2, <4>3 DEF Witnessing
      <3>5. CASE CheckBlock(r)
        <4>1. /\ verdict'[r] = [verdict[r] EXCEPT !.confirmed = ClaimHolds(r)]
              /\ pc[r] = "check_block"
          BY <1>0, <3>5 DEF CheckBlock, At
        <4>2. /\ verdict'[r].satisfied = verdict[r].satisfied
              /\ verdict'[r].confirmed = ClaimHolds(r)
          BY <1>0, <4>1 DEF Verdicts
        <4>3. ClaimHolds(r) => run[r].proposal.reason_code \in Facts(r)
          BY DEF ClaimHolds, Facts
        <4>. QED  BY <1>0, <1>1, <3>1, <3>3, <4>1, <4>2, <4>3 DEF Witnessing
      <3>. QED  BY <2>3, <3>4, <3>5
    <2>. QED  BY <1>0, <1>3, <2>1, <2>2, <2>3, WhoVerifies
  <1>4. CASE Others
    BY <1>2, <1>4, OthersJudgeNothing
  <1>5. ASSUME NEW q \in Runs \ {r},
               ReceiveRun(q) \/ Advance(q) \/ Fault(q) \/ Crash(q)
        PROVE  Witnessing(r)'
    BY <1>0, <1>2, <1>5, OneDriverMoves, OneDriverJudges
  <1>. QED  BY <1>0, <1>3, <1>4, <1>5 DEF Next, NextWithoutCrash

LEMMA WasTrueStep ==
  ASSUME TraceInv, EndedIsCompleted, RunsChecked, RunsChecked', RunsAreJudged,
         VerdictsGoByFacts, HNext, NEW r \in Runs
  PROVE  WasTrue(r)'
  <1>0. /\ Witnessing(r) /\ WasTrue(r) /\ Judging(r) /\ Next
        /\ run \in [Runs -> RunRow] /\ run[r] \in RunRow
    BY DEF TraceInv, TypeOK, VerdictsGoByFacts, RunsAreJudged, HNext
  <1>1. witnessed[r] \subseteq witnessed'[r]
    BY WitnessedGrows
  <1>2. CASE run[r].completed_at
    <2>1. Untouched(r) \/ OnlyCounted(r)
      BY <1>0, <1>2, StepsOfRuns DEF GoesOn
    <2>2. /\ run'[r].status = run[r].status
          /\ run'[r].outcome_reason = run[r].outcome_reason
          /\ tool_calls'[r] = tool_calls[r]
      BY <1>0, <2>1, NumberedIsRow DEF Untouched, OnlyCounted
    <2>. QED  BY <1>0, <1>1, <2>2 DEF WasTrue, CallsOf
  <1>3. CASE ~run[r].completed_at
    <2>1. run[r].outcome_reason = None
      BY <1>3, OpenHasNoReason
    <2>2. CASE run'[r].outcome_reason = None
      <3>1. run'[r].status # "completed"
        BY <2>2, NoneIsNoStatus DEF RunsChecked, RunChecked, RunRowPasses,
           OpenStatuses, ReasonsOf, Reasons, EndedStatuses, Statuses
      <3>2. None \notin ClaimReasons \cup {"verification_failed"}
        BY NoneIsNoStatus, ReasonsListed
      <3>. QED  BY <2>2, <3>1, <3>2 DEF WasTrue
    <2>3. CASE run'[r].outcome_reason # None
      <3>1. EndsRun(r)
        BY <1>0, <2>1, <2>3, OnlyEndingsSayWhy
      <3>2. CASE ~Conclude(r)
        BY <1>0, <2>1, <2>3, <3>1, <3>2, OnlyVerdictsClaim DEF WasTrue
      <3>3. CASE Conclude(r)
        <4>. DEFINE result == DecisionOutcome(run[r].proposal, verdict[r])
        <4>1. /\ run'[r] = Ended(run[r], result.status, result.reason)
              /\ pc[r] = "conclude" /\ UNCHANGED tool_calls
          BY <1>0, <3>3 DEF Conclude, At, WriteRun
        <4>2. /\ run'[r].status = result.status
              /\ run'[r].outcome_reason = result.reason
          BY <1>0, <4>1, EndedKeeps
        <4>3. /\ (IF verdict[r].satisfied THEN "held" ELSE "not_held") \in witnessed'[r]
              /\ verdict[r].confirmed
                    => run[r].proposal.reason_code \in witnessed'[r]
              /\ verdict[r].rejection # None
                    => LatestFailedWith(r, verdict[r].rejection)
          BY <1>0, <1>1, <4>1 DEF Witnessing, Judging, VerifyingPCs
        <4>4. CASE verdict[r].satisfied
          <5>1. result.reason \in {"goal_satisfied", "already_satisfied"}
            BY <4>4 DEF DecisionOutcome
          <5>. QED  BY <4>2, <4>3, <4>4, <5>1 DEF WasTrue, ClaimReasons
        <4>5. CASE ~verdict[r].satisfied
          <5>1. /\ result.status # "completed"
                /\ \/ /\ verdict[r].rejection # None
                      /\ result.reason = verdict[r].rejection
                   \/ /\ verdict[r].confirmed
                      /\ result.reason = run[r].proposal.reason_code
                   \/ result.reason = "verification_failed"
            BY <4>5 DEF DecisionOutcome
          <5>2. "verification_failed" \notin ClaimReasons
            BY DEF ClaimReasons
          <5>3. LatestFailedWith(r, result.reason) =>
                   \E n \in CallsOf(r, {Mutation})' :
                      tool_calls'[r][n].error = result.reason
            BY <4>1 DEF LatestFailedWith, CallsOf
          <5>. HIDE DEF result
          <5>. QED  BY <4>2, <4>3, <4>5, <5>1, <5>2, <5>3 DEF WasTrue
        <4>. QED  BY <4>4, <4>5
      <3>. QED  BY <3>2, <3>3
    <2>. QED  BY <2>2, <2>3
  <1>. QED  BY <1>2, <1>3

LEMMA VerdictsStep ==
  ASSUME TraceInv, EndedIsCompleted, RunsChecked, RunsChecked', RunsAreJudged,
         VerdictsGoByFacts, [HNext]_hvars
  PROVE  VerdictsGoByFacts'
  <1>1. CASE HNext
    BY <1>1, WitnessingStep, WasTrueStep DEF VerdictsGoByFacts
  <1>2. CASE UNCHANGED hvars
    BY <1>2 DEF hvars, vars, tables, business, settings, memory,
       VerdictsGoByFacts, Witnessing, WasTrue, Facts, CallsOf,
       Seats!SeatsUsed, Seats!ActiveSeats
  <1>. QED  BY <1>1, <1>2

LEMMA VerdictsAtFirst == HInit => VerdictsGoByFacts
  BY AgentExecutorAssumption, NoneIsNoStatus, ReasonsListed
  DEF HInit, Init, NoRun, NewRun, VerdictsGoByFacts, Witnessing, WasTrue,
      VerifyingPCs, Statuses, OpenStatuses, EndedStatuses

\* The history variable changes nothing.
LEMMA HistoryIsExecution == HSpec => Spec
  <1>1. HInit => Init
    BY DEF HInit
  <1>2. [HNext]_hvars => [Next]_vars
    BY DEF HNext, hvars
  <1>. QED  BY <1>1, <1>2, PTL DEF HSpec, Spec

\* What a completed, blocked or failed verification says of its target was true
\* at an instant at which the run was VERIFYING, whatever people did meanwhile.
THEOREM VerdictsWereTrue == HSpec => []VerdictWasTrue
  <1>1. VerdictsGoByFacts => VerdictWasTrue
    BY DEF VerdictsGoByFacts, WasTrue, VerdictWasTrue
  <1>2. HSpec => [](TraceInv /\ EndedIsCompleted /\ RunsChecked /\ RunsAreJudged)
    <2>1. Spec => []RunsChecked
      BY CheckedAtFirst, RunsCheckedStep, TraceInvariant, EndingsAreTimed, PTL
      DEF Spec
    <2>. QED
      BY <2>1, HistoryIsExecution, TraceInvariant, EndingsAreTimed,
         RunsAreJudgedOnTheTrace, PTL
  <1>. QED
    BY <1>1, <1>2, VerdictsAtFirst, VerdictsStep, PTL DEF HSpec
-----------------------------------------------------------------------------
(* What is told of an ending: outcome_detail.                              *)

\* What a verification leaves of the verdict on a proposal.
Told(proposal, v) ==
    [satisfied |-> v.satisfied,
     evidence |-> None,
     rejection |-> IF v.rejection = None THEN None
                   ELSE [error |-> [code |-> v.rejection]],
     block_check |-> IF ~v.satisfied /\ proposal.kind = "cannot_proceed"
                     THEN [reason |-> proposal.reason_code,
                           confirmed |-> v.confirmed]
                     ELSE None]

\* The trace of the run has reached this limit.
LimitReached(r, limit) ==
    \/ /\ limit = "model_requests"
       /\ Cardinality(RequestsMade(r, "decision")) >= MaxRequests
    \/ /\ limit = "read_calls"
       /\ Cardinality(CallsOf(r, ReadTools)) > MaxReads
    \/ /\ limit = "mutation_calls"
       /\ Cardinality(CallsOf(r, {Mutation})) > MaxMutations

\* A verdict on the trace from which the run's outcome and its detail follow.
ToldByVerdict(r, v) ==
    /\ run[r].proposal \in Proposals
    /\ v.changed <=> MutationsWith(r, {"succeeded"}) # {}
    /\ v.rejection # None => LatestFailedWith(r, v.rejection)
    /\ [status |-> run[r].status, reason |-> run[r].outcome_reason]
          = DecisionOutcome(run[r].proposal, v)
    /\ outcome_detail[r] = Told(run[r].proposal, v)

\* An ending without one: its detail holds a limit, or no verification.
ToldWithoutVerdict(r) ==
    /\ run[r].proposal = None \/ run[r].outcome_reason = "unexpected_error"
    /\ IF run[r].outcome_reason = "step_limit"
       THEN \E limit : /\ outcome_detail[r] = [limit |-> limit, maximum |-> None]
                       /\ LimitReached(r, limit)
       ELSE "satisfied" \notin DOMAIN outcome_detail[r]

EndingsAreTold ==
    \A r \in Runs : run[r].completed_at =>
        (\E v \in Verdicts : ToldByVerdict(r, v)) \/ ToldWithoutVerdict(r)

\* What is written of an ending that is not a verdict.
LEMMA DetailWithoutVerdict ==
  ASSUME NEW r \in Runs, NEW reason, pc[r] # "conclude"
  PROVE  /\ reason = "step_limit"
               => DetailOf(r, reason) = [limit |-> LimitOf(r), maximum |-> None]
         /\ reason # "step_limit" => "satisfied" \notin DOMAIN DetailOf(r, reason)
  <1>1. CASE reason \in ExtractionReasons
    <2>1. DetailOf(r, reason) = [reason_code |-> "the model's"]
      BY <1>1 DEF DetailOf, ExtractionReasons
    <2>. QED  BY <1>1, <2>1 DEF ExtractionReasons
  <1>2. CASE reason = "planner_error"
    <2>1. DetailOf(r, reason) = [stage |-> pc[r], code |-> "the planner's"]
      BY <1>2 DEF DetailOf, ExtractionReasons
    <2>. QED  BY <1>2, <2>1
  <1>3. CASE reason = "step_limit"
    BY <1>3 DEF DetailOf, ExtractionReasons
  <1>4. CASE reason \in {"tool_failed", "policy_denied"}
    <2>1. DetailOf(r, reason) = [tool_call_id |-> None, error |-> None]
      BY <1>4 DEF DetailOf, ExtractionReasons
    <2>. QED  BY <1>4, <2>1
  <1>5. CASE reason = "unexpected_error"
    <2>1. DetailOf(r, reason) = [stage |-> pc[r], error_type |-> None]
      BY <1>5 DEF DetailOf, ExtractionReasons
    <2>. QED  BY <1>5, <2>1
  <1>6. CASE reason \notin ExtractionReasons \cup {"planner_error", "step_limit",
                 "tool_failed", "policy_denied", "unexpected_error"}
    <2>1. DetailOf(r, reason) = [resolution |-> None]
      BY <1>6 DEF DetailOf
    <2>. QED  BY <1>6, <2>1
  <1>. QED  BY <1>1, <1>2, <1>3, <1>4, <1>5, <1>6

\* A limit that is reached stays reached: the trace only grows.
LEMMA LimitsStayReached ==
  ASSUME TraceInv, TraceInv', [Next]_vars, NEW r \in Runs, NEW limit,
         LimitReached(r, limit)
  PROVE  LimitReached(r, limit)'
  <1>1. IsFiniteSet(DOMAIN model_calls'[r]) /\ IsFiniteSet(DOMAIN tool_calls'[r])
    <2>1. run'[r].last_sequence_no \in Nat
      BY DEF TraceInv, TypeOK, RunRow
    <2>2. IsFiniteSet(1 .. run'[r].last_sequence_no)
      BY <2>1, FS_Interval
    <2>3. /\ DOMAIN model_calls'[r] \subseteq 1 .. run'[r].last_sequence_no
          /\ DOMAIN tool_calls'[r] \subseteq 1 .. run'[r].last_sequence_no
      BY DEF TraceInv, TraceIsOneOrder
    <2>. QED  BY <2>2, <2>3, FS_Subset
  <1>2. ASSUME NEW S, NEW T, S \subseteq T, NEW D, IsFiniteSet(D), T \subseteq D
        PROVE  /\ Cardinality(S) \in Nat /\ Cardinality(T) \in Nat
               /\ Cardinality(S) <= Cardinality(T)
    <2>1. IsFiniteSet(T)
      BY <1>2, FS_Subset
    <2>. QED  BY <1>2, <2>1, FS_Subset, FS_CardinalityType
  <1>3. CASE limit = "model_requests"
    <2>. DEFINE S == RequestsMade(r, "decision")
                T == RequestsMade(r, "decision")'
    <2>1. S \subseteq T /\ T \subseteq DOMAIN model_calls'[r]
      BY RequestsAreKept DEF RequestsMade
    <2>2. Cardinality(S) >= MaxRequests
      BY <1>3 DEF LimitReached
    <2>. HIDE DEF S, T
    <2>3. Cardinality(T) >= MaxRequests
      BY <1>1, <1>2, <2>1, <2>2, AgentExecutorAssumption
    <2>. QED  BY <1>3, <2>3 DEF LimitReached, T
  <1>4. ASSUME NEW tools, NEW max \in Nat, Cardinality(CallsOf(r, tools)) > max
        PROVE  Cardinality(CallsOf(r, tools))' > max
    <2>. DEFINE S == CallsOf(r, tools)
                T == CallsOf(r, tools)'
    <2>1. S \subseteq T /\ T \subseteq DOMAIN tool_calls'[r]
      BY CallsAreKept DEF CallsOf
    <2>. HIDE DEF S, T
    <2>2. Cardinality(T) > max
      BY <1>1, <1>2, <1>4, <2>1 DEF S
    <2>. QED  BY <2>2 DEF T
  <1>5. CASE limit # "model_requests"
    BY <1>4, <1>5, AgentExecutorAssumption DEF LimitReached
  <1>. QED  BY <1>3, <1>5

\* A call over its limit reaches it, and is told from a request over its own.
LEMMA LimitIsReached ==
  ASSUME TraceInv, NEW r \in Runs, NEW tool \in Tools, CallOverLimit(r, tool)
  PROVE  \E limit : limit = LimitOf(r) /\ LimitReached(r, limit)'
  <1>. DEFINE n == NextSeq(r)
              c == NeverRun(tool, None, "step_limit")
              before == CallsOf(r, Kind(tool))
              after == CallsOf(r, Kind(tool))'
  <1>1. tool_calls'[r] = Put(tool_calls[r], n, c) /\ n \notin DOMAIN tool_calls[r]
    BY NextIsFree DEF CallOverLimit, WriteCall, TraceInv, TypeOK
  <1>2. c.tool_name = tool /\ tool \in Kind(tool)
    BY DEF NeverRun, Started, Kind, Tools
  <1>. HIDE DEF n, c
  <1>3. /\ n \in DOMAIN tool_calls'[r] /\ tool_calls'[r][n].tool_name = tool
        /\ after = before \cup {n} /\ n \notin before
    BY <1>1, <1>2 DEF CallsOf, Put
  <1>4. tool_calls'[r] # tool_calls[r]
    BY <1>1, <1>3
  <1>5. LimitOf(r) = IF tool = Mutation THEN "mutation_calls" ELSE "read_calls"
    BY <1>3, <1>4 DEF LimitOf, n
  <1>6. before \subseteq DOMAIN tool_calls[r] /\ Cardinality(before) >= Limit(tool)
    BY DEF CallsOf, CallOverLimit, OverLimit
  <1>. HIDE DEF before, after
  <1>7. Cardinality(after) > Limit(tool)
    <2>1. IsFiniteSet(before) /\ Cardinality(before) \in Nat
      BY <1>6, TablesAreFinite, FS_Subset, FS_CardinalityType
    <2>2. Cardinality(after) = Cardinality(before) + 1
      BY <1>3, <2>1, FS_AddElement
    <2>3. Limit(tool) \in Nat
      BY AgentExecutorAssumption DEF Limit
    <2>. QED  BY <1>6, <2>1, <2>2, <2>3
  <1>8. PICK limit : limit = LimitOf(r)
    OBVIOUS
  <1>9. LimitReached(r, limit)'
    <2>1. CASE tool = Mutation
      BY <1>5, <1>7, <1>8, <2>1 DEF LimitReached, Limit, Kind, after
    <2>2. CASE tool # Mutation
      BY <1>5, <1>7, <1>8, <2>2 DEF LimitReached, Limit, Kind, after
    <2>. QED  BY <2>1, <2>2
  <1>. QED  BY <1>8, <1>9

\* A verdict tells the change by its trace.
LEMMA ConcludedIsTold ==
  ASSUME TraceInv, TraceInv', RunsAreJudged, [Next]_vars, NEW r \in Runs, Conclude(r),
         outcome_detail'[r] = Concluded(r)
  PROVE  \E v \in Verdicts : ToldByVerdict(r, v)'
  <1>0. run \in [Runs -> RunRow] /\ run[r] \in RunRow /\ verdict[r] \in Verdicts
    BY DEF TraceInv, TypeOK
  <1>. DEFINE result == DecisionOutcome(run[r].proposal, verdict[r])
  <1>1. /\ run'[r] = Ended(run[r], result.status, result.reason)
        /\ pc[r] = "conclude" /\ UNCHANGED <<tool_calls, changed_by>>
    BY <1>0 DEF Conclude, At, WriteRun, business
  <1>2. /\ run'[r].proposal = run[r].proposal
        /\ run'[r].status = result.status
        /\ run'[r].outcome_reason = result.reason
    BY <1>0, <1>1, EndedKeeps
  <1>3. /\ run[r].proposal \in Proposals /\ Judging(r) /\ pc[r] \in VerifyingPCs
        /\ (verdict[r].changed <=> changed_by[r] # {})
    BY <1>1 DEF TraceInv, DriverKnowsItsRun, RowHasWhatItNeeds, RunsAreJudged,
       VerdictKnowsTheChange, VerifyingPCs
  <1>4. verdict[r].changed <=> MutationsWith(r, {"succeeded"}) # {}
    <2>1. /\ MutationsWith(r, {"succeeded"}) \subseteq changed_by[r]
          /\ changed_by[r] \subseteq MutationsWith(r, {"succeeded", "started"})
      BY DEF TraceInv, ChangesAreOnTheTrace
    <2>2. MutationsWith(r, {"succeeded", "started"})
             \subseteq MutationsWith(r, {"succeeded"})
      BY <1>3 DEF Judging, AnyStarted, MutationsWith, CallsOf
    <2>. QED  BY <1>3, <2>1, <2>2
  <1>5. PICK v \in Verdicts : v = verdict[r]
    BY <1>0
  <1>6. result = [status |-> result.status, reason |-> result.reason]
    BY DEF DecisionOutcome
  <1>7. /\ [status |-> run'[r].status, reason |-> run'[r].outcome_reason]
              = DecisionOutcome(run'[r].proposal, v)
        /\ outcome_detail'[r] = Told(run'[r].proposal, v)
    BY <1>2, <1>5, <1>6 DEF Told, Concluded
  <1>8. /\ v.rejection # None => LatestFailedWith(r, v.rejection)'
        /\ v.changed <=> MutationsWith(r, {"succeeded"})' # {}
    BY <1>1, <1>3, <1>4, <1>5
    DEF Judging, LatestFailedWith, MutationsWith, CallsOf
  <1>9. ToldByVerdict(r, v)'
    BY <1>2, <1>3, <1>7, <1>8 DEF ToldByVerdict
  <1>. QED  BY <1>9

LEMMA RestIsTold ==
  ASSUME TraceInv, TraceInv', EndedIsCompleted, RunsAreJudged, [Next]_vars,
         NEW r \in Runs, EndsRun(r), ~Conclude(r), run'[r].outcome_reason # run[r].outcome_reason,
         outcome_detail'[r] = DetailOf(r, run'[r].outcome_reason)
  PROVE  ToldWithoutVerdict(r)'
  <1>0. /\ run \in [Runs -> RunRow] /\ run[r] \in RunRow
        /\ Numbered(run[r]) \in RunRow /\ pc \in [Runs -> PCs]
    BY NumberedIsRow DEF TraceInv, TypeOK
  <1>1. ASSUME NEW row, WriteRun(r, row) PROVE run'[r] = row
    BY <1>0, <1>1 DEF WriteRun
  <1>2. ASSUME NEW limit, LimitReached(r, limit)', limit = LimitOf(r),
               run'[r].outcome_reason = "step_limit", run'[r].proposal = None,
               pc[r] = "planning"
        PROVE  ToldWithoutVerdict(r)'
    BY <1>2, DetailWithoutVerdict DEF ToldWithoutVerdict
  <1>3. ASSUME run'[r].outcome_reason # "step_limit", pc[r] # "conclude",
               run'[r].proposal = None
                  \/ run'[r].outcome_reason = "unexpected_error"
        PROVE  ToldWithoutVerdict(r)'
    BY <1>3, DetailWithoutVerdict DEF ToldWithoutVerdict
  <1>4. CASE ExtractNothing(r) \/ ResolveNothing(r)
    <2>1. run[r].proposal = None /\ pc[r] # "conclude"
      BY <1>4 DEF ExtractNothing, ResolveNothing, At, TraceInv,
         DriverKnowsItsRun, RowHasWhatItNeeds
    <2>2. PICK status, reason :
              /\ reason \in ExtractionReasons \cup ResolutionFailures
                               \cup {"planner_error", "unexpected_error"}
              /\ run'[r] = Ended(run[r], status, reason)
      BY <1>1, <1>4 DEF ExtractNothing, ResolveNothing
    <2>3. run'[r].proposal = None /\ run'[r].outcome_reason = reason
      BY <1>0, <2>1, <2>2, EndedKeeps
    <2>. QED  BY <1>3, <2>1, <2>2, <2>3 DEF ExtractionReasons, ResolutionFailures
  <1>5. CASE RequestOverLimit(r)
    <2>1. /\ run'[r] = Ended(run[r], "failed", "step_limit")
          /\ UNCHANGED <<model_calls, tool_calls>>
          /\ Cardinality(RequestsMade(r, "decision")) >= MaxRequests
          /\ pc[r] = "planning" /\ ~run[r].completed_at
      BY <1>1, <1>5 DEF RequestOverLimit, At
    <2>2. run[r].proposal = None
      <3>1. Proposing(r) /\ pc[r] \notin VerifyingPCs \cup {"gone"}
        BY <2>1 DEF RunsAreJudged, VerifyingPCs
      <3>2. run[r].status \notin EndedStatuses
        BY <2>1 DEF EndedIsCompleted
      <3>. QED  BY <3>1, <3>2 DEF Proposing
    <2>3. run'[r].proposal = None /\ run'[r].outcome_reason = "step_limit"
      BY <1>0, <2>1, <2>2, EndedKeeps
    <2>4. LimitOf(r) = "model_requests"
      BY <2>1 DEF LimitOf
    <2>5. LimitReached(r, "model_requests")'
      BY <2>1 DEF LimitReached, RequestsMade
    <2>. QED  BY <1>2, <2>1, <2>3, <2>4, <2>5
  <1>6. ASSUME NEW tool \in Tools, CallOverLimit(r, tool)
        PROVE  ToldWithoutVerdict(r)'
    <2>1. /\ run'[r] = Ended(Numbered(run[r]), "failed", "step_limit")
          /\ pc[r] = "planning" /\ run[r].status = "executing"
      BY <1>1, <1>6 DEF CallOverLimit, At, MayCall
    <2>2. run[r].proposal = None
      BY <2>1 DEF TraceInv, RowHasWhatItNeeds
    <2>3. run'[r].proposal = None /\ run'[r].outcome_reason = "step_limit"
      BY <1>0, <2>1, <2>2, EndedKeeps, NumberedIsRow
    <2>. QED  BY <1>2, <1>6, <2>1, <2>3, LimitIsReached
  <1>7. CASE DenyCall(r)
    <2>1. /\ run'[r] = Ended(Numbered(run[r]), "blocked", "policy_denied")
          /\ pc[r] = "planning" /\ run[r].status = "executing"
      BY <1>1, <1>7 DEF DenyCall, At, MayCall
    <2>2. run[r].proposal = None
      BY <2>1 DEF TraceInv, RowHasWhatItNeeds
    <2>3. run'[r].proposal = None /\ run'[r].outcome_reason = "policy_denied"
      BY <1>0, <2>1, <2>2, EndedKeeps, NumberedIsRow
    <2>. QED  BY <1>3, <2>1, <2>3
  <1>8. CASE RecordOutcome(r)
    <2>1. /\ run'[r] = Ended(run[r], "failed", "tool_failed")
          /\ pc[r] = "record" /\ run[r].status = "executing"
      BY <1>1, <1>8 DEF RecordOutcome, At, TraceInv, DriverKnowsItsRun, CallingPCs
    <2>2. run[r].proposal = None
      BY <2>1 DEF TraceInv, RowHasWhatItNeeds
    <2>3. run'[r].proposal = None /\ run'[r].outcome_reason = "tool_failed"
      BY <1>0, <2>1, <2>2, EndedKeeps
    <2>. QED  BY <1>3, <2>1, <2>3
  <1>9. CASE ErrorReachesDecide(r)
    <2>1. PICK reason \in {"planner_error", "unexpected_error"} :
             run'[r] = Ended(run[r], "failed", reason)
      BY <1>1, <1>9 DEF ErrorReachesDecide
    <2>2. pc[r] = "planning" /\ run[r].status = "executing"
      BY <1>9 DEF ErrorReachesDecide, At
    <2>3. run[r].proposal = None
      BY <2>2 DEF TraceInv, RowHasWhatItNeeds
    <2>4. run'[r].proposal = None /\ run'[r].outcome_reason = reason
      BY <1>0, <2>1, <2>3, EndedKeeps
    <2>. QED  BY <1>3, <2>2, <2>4
  <1>10. CASE VerificationFails(r)
    <2>1. /\ run'[r] = Ended(run[r], "failed", "unexpected_error")
          /\ pc[r] # "conclude"
      BY <1>1, <1>10 DEF VerificationFails
    <2>2. run'[r].outcome_reason = "unexpected_error"
      BY <1>0, <2>1, EndedKeeps
    <2>. QED  BY <1>3, <2>1, <2>2
  <1>. QED
    BY <1>4, <1>5, <1>6, <1>7, <1>8, <1>9, <1>10 DEF EndsRun

LEMMA ToldStep ==
  ASSUME TraceInv, TraceInv', EndedIsCompleted, EndedIsCompleted', RunsChecked,
         RunsChecked', RunsAreJudged, EndingsAreTold, Next, DetailsWritten
  PROVE  EndingsAreTold'
  <1>. DEFINE ToldOf(r) == (\E v \in Verdicts : ToldByVerdict(r, v))
                              \/ ToldWithoutVerdict(r)
  <1>. SUFFICES ASSUME NEW r \in Runs, run'[r].completed_at
                PROVE  ToldOf(r)'
    BY DEF EndingsAreTold
  <1>0. run[r] \in RunRow
    BY DEF TraceInv, TypeOK
  <1>1. outcome_detail'[r] =
           IF run'[r].outcome_reason = run[r].outcome_reason
           THEN outcome_detail[r] ELSE DetailOf(r, run'[r].outcome_reason)
    BY DEF DetailsWritten
  <1>2. CASE run[r].completed_at
    <2>1. Untouched(r) \/ OnlyCounted(r)
      BY <1>2, StepsOfRuns DEF GoesOn
    <2>2. /\ run'[r].status = run[r].status
          /\ run'[r].proposal = run[r].proposal
          /\ run'[r].outcome_reason = run[r].outcome_reason
          /\ tool_calls'[r] = tool_calls[r]
          /\ outcome_detail'[r] = outcome_detail[r]
      BY <1>0, <1>1, <2>1, NumberedIsRow DEF Untouched, OnlyCounted
    <2>3. ASSUME NEW v \in Verdicts, ToldByVerdict(r, v)
          PROVE  ToldByVerdict(r, v)'
      BY <2>2, <2>3 DEF ToldByVerdict, LatestFailedWith, MutationsWith, CallsOf
    <2>4. ASSUME ToldWithoutVerdict(r) PROVE ToldWithoutVerdict(r)'
      BY <2>2, <2>4, LimitsStayReached DEF ToldWithoutVerdict
    <2>. QED  BY <1>2, <2>3, <2>4 DEF EndingsAreTold
  <1>3. CASE ~run[r].completed_at
    <2>1. run[r].outcome_reason = None
      BY <1>3, OpenHasNoReason
    <2>2. run'[r].outcome_reason # None
      <3>1. run'[r].status \in EndedStatuses
        BY DEF EndedIsCompleted
      <3>2. RunRowPasses(run'[r]) /\ run'[r].status \notin OpenStatuses
        BY <3>1, NoneIsNoStatus
        DEF RunsChecked, RunChecked, Statuses, OpenStatuses, EndedStatuses
      <3>3. run'[r].outcome_reason \in Reasons
        BY <3>1, <3>2 DEF RunRowPasses, Reasons
      <3>. QED  BY <3>3, NoneIsNoStatus
    <2>3. EndsRun(r) /\ outcome_detail'[r] = DetailOf(r, run'[r].outcome_reason)
      BY <1>1, <2>1, <2>2, OnlyEndingsSayWhy
    <2>4. CASE Conclude(r)
      <3>1. outcome_detail'[r] = Concluded(r)
        <4>. DEFINE result == DecisionOutcome(run[r].proposal, verdict[r])
        <4>1. run[r].proposal \in Proposals /\ verdict[r] \in Verdicts
          BY <2>4 DEF Conclude, At, TraceInv, TypeOK, DriverKnowsItsRun,
             RowHasWhatItNeeds, VerifyingPCs
        <4>2. result.reason \in ClaimReasons \cup
                  {"goal_satisfied", "already_satisfied", "verification_failed"}
          BY <4>1 DEF DecisionOutcome, Proposals, Verdicts
        <4>3. run'[r].outcome_reason = result.reason
          <5>1. run'[r] = Ended(run[r], result.status, result.reason)
            BY <2>4 DEF Conclude, WriteRun, TraceInv, TypeOK
          <5>. QED  BY <1>0, <5>1, EndedKeeps
        <4>. HIDE DEF result
        <4>. QED
          BY <2>3, <2>4, <4>2, <4>3
          DEF DetailOf, Conclude, At, ClaimReasons, ExtractionReasons
      <3>2. [Next]_vars
        OBVIOUS
      <3>. QED  BY <2>4, <3>1, <3>2, ConcludedIsTold
    <2>5. CASE ~Conclude(r)
      <3>1. [Next]_vars /\ run'[r].outcome_reason # run[r].outcome_reason
        BY <2>1, <2>2
      <3>2. ToldWithoutVerdict(r)'
        BY <2>3, <2>5, <3>1, RestIsTold
      <3>. QED  BY <3>2
    <2>. QED  BY <2>4, <2>5
  <1>. QED  BY <1>2, <1>3

LEMMA ToldAtFirst == RInit => EndingsAreTold
  BY DEF RInit, Init, NoRun, NewRun, EndingsAreTold
-----------------------------------------------------------------------------
(* What is read of a run that goes on (RunReader).                         *)

\* A read row is one the run had; that of a run that has ended stays the run's,
\* with its detail; ...
RowIsRead ==
    next # "run" =>
        /\ reading \in Runs
        /\ shown.row \in RunRow /\ shown.row.status # None
        /\ shown.row.last_sequence_no <= run[reading].last_sequence_no
        /\ shown.row.status = "completed" => shown.row.completed_at
        /\ shown.row.completed_at =>
              /\ run[reading] = [shown.row EXCEPT
                    !.last_sequence_no = run[reading].last_sequence_no]
              /\ shown.detail = outcome_detail[reading]
        /\ shown.row.status = "awaiting_approval"
              => MutationsWith(reading, {"awaiting_approval"}) # {}

ShownOverRequests ==
    /\ shown.row.completed_at
    /\ shown.row.outcome_reason = "step_limit"
    /\ shown.detail.limit = "model_requests"

ShownRequests == {n \in DOMAIN shown.model_calls :
                     shown.model_calls[n].stage = "decision"}

\* ... model calls read after it leave no number of the row's to other tables
\* than the tool calls, and reach the limit that the row may be shown with; ...
RequestsAreRead ==
    next \in {"tool_calls", "done"} =>
        /\ DOMAIN shown.model_calls \subseteq DOMAIN model_calls[reading]
        /\ 1 .. shown.row.last_sequence_no
              \subseteq DOMAIN shown.model_calls \cup DOMAIN tool_calls[reading]
        /\ ShownOverRequests => Cardinality(ShownRequests) >= MaxRequests

\* ... and tool calls read last fill the numbers, and show the held call of a
\* run that waited, and all the calls of one that had ended.
CallsAreRead ==
    next = "done" =>
        /\ DOMAIN shown.model_calls \cap DOMAIN shown.tool_calls = {}
        /\ 1 .. shown.row.last_sequence_no
              \subseteq DOMAIN shown.model_calls \cup DOMAIN shown.tool_calls
        /\ shown.row.completed_at => shown.tool_calls = tool_calls[reading]
        /\ shown.row.status = "awaiting_approval" =>
              \E n \in DOMAIN shown.tool_calls :
                  /\ shown.tool_calls[n].tool_name = Mutation
                  /\ shown.tool_calls[n].status = "awaiting_approval"

ShownTyped ==
    /\ next \in {"run", "model_calls", "tool_calls", "done"}
    /\ shown = [row |-> shown.row, detail |-> shown.detail,
                model_calls |-> shown.model_calls, tool_calls |-> shown.tool_calls]

ReaderInv == ShownTyped /\ RowIsRead /\ RequestsAreRead /\ CallsAreRead

\* A reader changes nothing.
LEMMA ReadingIsExecution == RSpec => Spec
  <1>1. RInit => Init
    BY DEF RInit
  <1>2. [RNext]_rvars => [Next]_vars
    BY DEF RNext, ReadRun, ReadModelCalls, ReadToolCalls, Select, rvars
  <1>. QED  BY <1>1, <1>2, PTL DEF RSpec, Spec

LEMMA ReaderAtFirst == RInit => ReaderInv
  BY DEF RInit, NothingRead, ReaderInv, ShownTyped, RowIsRead, RequestsAreRead,
     CallsAreRead

\* What a run does to what has been read of it.
LEMMA RunGoesOn ==
  ASSUME TraceInv, TraceInv', EndedIsCompleted, EndedIsCompleted', RunsChecked,
         RunsAreJudged, ReaderInv, Next, DetailsWritten,
         UNCHANGED <<reading, next, shown>>
  PROVE  ReaderInv'
  <1>1. ShownTyped'
    BY DEF ReaderInv, ShownTyped
  <1>2. CASE next = "run"
    BY <1>1, <1>2 DEF ReaderInv, RowIsRead, RequestsAreRead, CallsAreRead
  <1>3. CASE next # "run"
    <2>. PICK r \in Runs : r = reading
      BY <1>3 DEF ReaderInv, RowIsRead
    <2>0. /\ reading' = r /\ shown' = shown /\ next' = next
          /\ run[r] \in RunRow /\ run'[r] \in RunRow /\ [Next]_vars
      BY DEF TraceInv, TypeOK
    <2>1. /\ DOMAIN tool_calls[r] \subseteq DOMAIN tool_calls'[r]
          /\ \A n \in DOMAIN tool_calls[r] :
               /\ tool_calls'[r][n].tool_name = tool_calls[r][n].tool_name
               /\ tool_calls[r][n].status # "started"
                     => tool_calls'[r][n] = tool_calls[r][n]
          /\ DOMAIN model_calls[r] \subseteq DOMAIN model_calls'[r]
      BY <2>0, CallsAreKept, RequestsAreKept
    <2>2. run[r].last_sequence_no <= run'[r].last_sequence_no
      <3>1. /\ run[r].last_sequence_no \in Nat /\ run'[r].last_sequence_no \in Nat
            /\ 1 .. run[r].last_sequence_no \subseteq 1 .. run'[r].last_sequence_no
        BY <2>0, <2>1 DEF TraceInv, TraceIsOneOrder, RunRow
      <3>2. CASE run[r].last_sequence_no = 0
        BY <3>1, <3>2
      <3>3. CASE run[r].last_sequence_no # 0
        <4>1. run[r].last_sequence_no \in 1 .. run[r].last_sequence_no
          BY <3>1, <3>3
        <4>. QED  BY <3>1, <4>1
      <3>. QED  BY <3>2, <3>3
    <2>3. ASSUME run[r].completed_at
          PROVE  /\ run'[r] = [run[r] EXCEPT
                       !.last_sequence_no = run'[r].last_sequence_no]
                 /\ tool_calls'[r] = tool_calls[r]
                 /\ outcome_detail'[r] = outcome_detail[r]
      <3>1. Untouched(r) \/ OnlyCounted(r)
        BY <2>0, <2>3, StepsOfRuns DEF GoesOn
      <3>2. /\ run'[r] = [run[r] EXCEPT
                  !.last_sequence_no = run'[r].last_sequence_no]
            /\ tool_calls'[r] = tool_calls[r]
            /\ run'[r].outcome_reason = run[r].outcome_reason
        BY <2>0, <3>1 DEF Untouched, OnlyCounted, Numbered, RunRow
      <3>. QED  BY <2>0, <3>2 DEF DetailsWritten
    <2>4. RowIsRead'
      <3>1. /\ shown.row \in RunRow /\ shown.row.status # None
            /\ shown.row.last_sequence_no <= run[r].last_sequence_no
            /\ shown.row.status = "completed" => shown.row.completed_at
            /\ shown.row.completed_at =>
                  /\ run[r] = [shown.row EXCEPT
                        !.last_sequence_no = run[r].last_sequence_no]
                  /\ shown.detail = outcome_detail[r]
            /\ shown.row.status = "awaiting_approval"
                  => MutationsWith(r, {"awaiting_approval"}) # {}
        BY <1>3 DEF ReaderInv, RowIsRead
      <3>2. shown.row.last_sequence_no <= run'[r].last_sequence_no
        BY <2>0, <2>2, <3>1 DEF RunRow
      <3>3. ASSUME shown.row.completed_at
            PROVE  /\ run'[r] = [shown.row EXCEPT
                        !.last_sequence_no = run'[r].last_sequence_no]
                   /\ shown.detail = outcome_detail'[r]
        <4>1. run[r].completed_at
          BY <3>1, <3>3 DEF RunRow
        <4>. QED  BY <2>3, <3>1, <3>3, <4>1 DEF RunRow
      <3>4. ASSUME shown.row.status = "awaiting_approval"
            PROVE  MutationsWith(r, {"awaiting_approval"})' # {}
        <4>1. PICK n \in DOMAIN tool_calls[r] :
                 /\ tool_calls[r][n].tool_name = Mutation
                 /\ tool_calls[r][n].status = "awaiting_approval"
          BY <3>1, <3>4 DEF MutationsWith, CallsOf
        <4>2. n \in MutationsWith(r, {"awaiting_approval"})'
          BY <2>1, <4>1 DEF MutationsWith, CallsOf
        <4>. QED  BY <4>2
      <3>. QED  BY <2>0, <3>1, <3>2, <3>3, <3>4 DEF RowIsRead
    <2>5. RequestsAreRead'
      BY <2>0, <2>1 DEF ReaderInv, RequestsAreRead, ShownRequests, ShownOverRequests
    <2>6. CallsAreRead'
      <3>1. ASSUME next = "done", shown.row.completed_at
            PROVE  tool_calls'[r] = tool_calls[r]
        <4>1. run[r].completed_at
          BY <1>3, <3>1 DEF ReaderInv, RowIsRead, RunRow
        <4>. QED  BY <2>3, <4>1
      <3>. QED  BY <2>0, <3>1 DEF ReaderInv, CallsAreRead
    <2>. QED  BY <1>1, <2>4, <2>5, <2>6 DEF ReaderInv
  <1>. QED  BY <1>2, <1>3

\* An ending for the limit on requests is told of a trace that has reached it.
LEMMA RequestLimitIsTold ==
  ASSUME EndingsAreTold, NEW r \in Runs, run[r].completed_at,
         run[r].outcome_reason = "step_limit",
         outcome_detail[r].limit = "model_requests"
  PROVE  Cardinality(RequestsMade(r, "decision")) >= MaxRequests
  <1>1. ASSUME NEW v \in Verdicts, ToldByVerdict(r, v) PROVE FALSE
    <2>1. DecisionOutcome(run[r].proposal, v).reason = "step_limit"
          /\ run[r].proposal \in Proposals
      BY <1>1 DEF ToldByVerdict
    <2>. QED
      BY <2>1 DEF DecisionOutcome, Proposals, Verdicts, ClaimReasons
  <1>2. ToldWithoutVerdict(r)
    BY <1>1 DEF EndingsAreTold
  <1>3. PICK limit : /\ outcome_detail[r] = [limit |-> limit, maximum |-> None]
                     /\ LimitReached(r, limit)
    BY <1>2 DEF ToldWithoutVerdict
  <1>4. limit = "model_requests"
    BY <1>3
  <1>. QED  BY <1>3, <1>4 DEF LimitReached

\* The three SELECTs.
LEMMA ReadingStep ==
  ASSUME TraceInv, EndedIsCompleted, RunsAreJudged, EndingsAreTold, ReaderInv,
         (\E r \in Runs : ReadRun(r)) \/ ReadModelCalls \/ ReadToolCalls
  PROVE  ReaderInv'
  <1>0. /\ UNCHANGED <<run, tool_calls, model_calls, outcome_detail>>
        /\ \A r \in Runs : MutationsWith(r, {"awaiting_approval"})'
                              = MutationsWith(r, {"awaiting_approval"})
    BY DEF ReadRun, ReadModelCalls, ReadToolCalls, Select, vars, tables,
       MutationsWith, CallsOf
  <1>1. CASE \E r \in Runs : ReadRun(r)
    <2>1. PICK r \in Runs : ReadRun(r)
      BY <1>1
    <2>2. /\ shown' = [shown EXCEPT !.row = run[r], !.detail = outcome_detail[r]]
          /\ next' = "model_calls" /\ reading' = r /\ run[r].status # None
      BY <2>1 DEF ReadRun, Select
    <2>3. /\ ShownTyped' /\ shown'.row = run[r] /\ shown'.detail = outcome_detail[r]
      BY <2>2 DEF ReaderInv, ShownTyped
    <2>4. run[r] \in RunRow
      BY DEF TraceInv, TypeOK
    <2>5. /\ run[r].status = "completed" => run[r].completed_at
          /\ run[r].status = "awaiting_approval"
                => MutationsWith(r, {"awaiting_approval"}) # {}
      BY DEF TraceInv, RowHasWhatItNeeds, RunsAreJudged, Proposing
    <2>6. /\ run[r].last_sequence_no <= run[r].last_sequence_no
          /\ run[r] = [run[r] EXCEPT !.last_sequence_no = run[r].last_sequence_no]
      BY <2>4 DEF RunRow
    <2>7. RowIsRead'
      BY <1>0, <2>2, <2>3, <2>4, <2>5, <2>6 DEF RowIsRead
    <2>. QED  BY <2>2, <2>3, <2>7 DEF ReaderInv, RequestsAreRead, CallsAreRead
  <1>2. CASE ReadModelCalls
    <2>. PICK r \in Runs : r = reading
      BY <1>2 DEF ReadModelCalls, Select, ReaderInv, RowIsRead
    <2>1. /\ shown' = [shown EXCEPT !.model_calls = model_calls[r]]
          /\ next = "model_calls" /\ next' = "tool_calls" /\ reading' = r
      BY <1>2 DEF ReadModelCalls, Select
    <2>2. /\ ShownTyped' /\ shown'.model_calls = model_calls[r]
          /\ shown'.row = shown.row /\ shown'.detail = shown.detail
      BY <2>1 DEF ReaderInv, ShownTyped
    <2>3. run[r] \in RunRow /\ shown.row \in RunRow
      BY <2>1 DEF ReaderInv, RowIsRead, TraceInv, TypeOK
    <2>4. RowIsRead'
      BY <1>0, <2>1, <2>2, <2>3 DEF ReaderInv, RowIsRead
    <2>5. 1 .. shown.row.last_sequence_no
             \subseteq DOMAIN model_calls[r] \cup DOMAIN tool_calls[r]
      <3>1. /\ 1 .. run[r].last_sequence_no
                  = DOMAIN model_calls[r] \cup DOMAIN tool_calls[r]
            /\ shown.row.last_sequence_no <= run[r].last_sequence_no
        BY <2>1, <2>3 DEF TraceInv, TraceIsOneOrder, ReaderInv, RowIsRead
      <3>. QED  BY <2>3, <3>1 DEF RunRow
    <2>6. ASSUME ShownOverRequests
          PROVE  Cardinality(ShownRequests)' >= MaxRequests
      <3>1. /\ run[r].completed_at /\ run[r].outcome_reason = "step_limit"
            /\ outcome_detail[r] = shown.detail
        BY <2>1, <2>3, <2>6 DEF ReaderInv, RowIsRead, RunRow, ShownOverRequests
      <3>2. Cardinality(RequestsMade(r, "decision")) >= MaxRequests
        BY <2>6, <3>1, RequestLimitIsTold DEF ShownOverRequests
      <3>3. ShownRequests' = RequestsMade(r, "decision")
        BY <2>2 DEF ShownRequests, RequestsMade
      <3>. QED  BY <3>2, <3>3
    <2>7. RequestsAreRead'
      BY <1>0, <2>1, <2>2, <2>5, <2>6 DEF RequestsAreRead, ShownOverRequests
    <2>. QED  BY <2>1, <2>2, <2>4, <2>7 DEF ReaderInv, CallsAreRead
  <1>3. CASE ReadToolCalls
    <2>. PICK r \in Runs : r = reading
      BY <1>3 DEF ReadToolCalls, Select, ReaderInv, RowIsRead
    <2>1. /\ shown' = [shown EXCEPT !.tool_calls = tool_calls[r]]
          /\ next = "tool_calls" /\ next' = "done" /\ reading' = r
      BY <1>3 DEF ReadToolCalls, Select
    <2>2. /\ ShownTyped' /\ shown'.tool_calls = tool_calls[r]
          /\ shown'.row = shown.row /\ shown'.detail = shown.detail
          /\ shown'.model_calls = shown.model_calls
      BY <2>1 DEF ReaderInv, ShownTyped
    <2>4. RowIsRead'
      BY <1>0, <2>1, <2>2 DEF ReaderInv, RowIsRead
    <2>5. /\ DOMAIN shown.model_calls \cap DOMAIN tool_calls[r] = {}
          /\ 1 .. shown.row.last_sequence_no
                \subseteq DOMAIN shown.model_calls \cup DOMAIN tool_calls[r]
      BY <2>1 DEF ReaderInv, RequestsAreRead, TraceInv, TraceIsOneOrder
    <2>6. ASSUME shown.row.status = "awaiting_approval"
          PROVE  \E n \in DOMAIN tool_calls[r] :
                    /\ tool_calls[r][n].tool_name = Mutation
                    /\ tool_calls[r][n].status = "awaiting_approval"
      BY <2>1, <2>6 DEF ReaderInv, RowIsRead, MutationsWith, CallsOf
    <2>7. RequestsAreRead'
      <3>1. ShownRequests' = ShownRequests
        BY <2>2 DEF ShownRequests
      <3>. QED  BY <1>0, <2>1, <2>2, <3>1
           DEF ReaderInv, RequestsAreRead, ShownOverRequests
    <2>8. CallsAreRead'
      BY <1>0, <2>1, <2>2, <2>5, <2>6 DEF CallsAreRead
    <2>. QED  BY <2>2, <2>4, <2>7, <2>8 DEF ReaderInv
  <1>. QED  BY <1>1, <1>2, <1>3
-----------------------------------------------------------------------------
(* What an answer says.                                                    *)

\* The history of a reader: what it reads is of an execution.
LEMMA ReaderInvariant ==
  RSpec => [](/\ TraceInv /\ EndedIsCompleted /\ RunsAreJudged
              /\ EndingsAreTold /\ ReaderInv)
  <1>1. RSpec => [](/\ TraceInv /\ EndedIsCompleted /\ RunsAreJudged /\ RunsChecked)
    <2>1. Spec => []RunsChecked
      BY CheckedAtFirst, RunsCheckedStep, TraceInvariant, EndingsAreTimed, PTL
      DEF Spec
    <2>. QED
      BY <2>1, ReadingIsExecution, TraceInvariant, EndingsAreTimed,
         RunsAreJudgedOnTheTrace, PTL
  <1>2. ASSUME TraceInv, TraceInv', EndedIsCompleted, EndedIsCompleted',
               RunsChecked, RunsChecked', RunsAreJudged, EndingsAreTold, ReaderInv,
               [RNext]_rvars
        PROVE  EndingsAreTold' /\ ReaderInv'
    <2>1. CASE Next /\ DetailsWritten /\ UNCHANGED <<reading, next, shown>>
      BY <1>2, <2>1, ToldStep, RunGoesOn
    <2>2. ASSUME UNCHANGED <<vars, outcome_detail>> PROVE EndingsAreTold'
      BY <1>2, <2>2 DEF EndingsAreTold, ToldByVerdict, ToldWithoutVerdict,
         LimitReached, LatestFailedWith, MutationsWith, CallsOf, RequestsMade,
         vars, tables
    <2>3. CASE (\E r \in Runs : ReadRun(r)) \/ ReadModelCalls \/ ReadToolCalls
      <3>1. UNCHANGED <<vars, outcome_detail>>
        BY <2>3 DEF ReadRun, ReadModelCalls, ReadToolCalls, Select
      <3>. QED  BY <1>2, <2>2, <2>3, <3>1, ReadingStep
    <2>4. CASE UNCHANGED rvars
      <3>1. UNCHANGED <<vars, outcome_detail, reading, next, shown>>
        BY <2>4 DEF rvars
      <3>2. ReaderInv'
        BY <1>2, <3>1 DEF ReaderInv, ShownTyped, RowIsRead, RequestsAreRead,
           CallsAreRead, ShownRequests, ShownOverRequests, MutationsWith, CallsOf,
           vars, tables
      <3>. QED  BY <2>2, <3>1, <3>2
    <2>. QED  BY <1>2, <2>1, <2>3, <2>4 DEF RNext
  <1>. QED
    BY <1>1, <1>2, ToldAtFirst, ReaderAtFirst, PTL DEF RSpec

\* The entries of an answer's trace are those of its two tables.
LEMMA EntriesAreRows ==
  ASSUME ReaderInv, next = "done"
  PROVE  /\ DOMAIN Trace = DOMAIN shown.model_calls \cup DOMAIN shown.tool_calls
         /\ Attempts(TRUE) = {n \in DOMAIN shown.tool_calls :
                                 shown.tool_calls[n].tool_name = Mutation}
         /\ Attempts(FALSE) = {n \in DOMAIN shown.tool_calls :
                                  shown.tool_calls[n].tool_name # Mutation}
         /\ \A n \in DOMAIN shown.tool_calls :
               /\ Trace[n].status = shown.tool_calls[n].status
               /\ Trace[n].error_code = shown.tool_calls[n].error
         /\ {n \in DOMAIN Trace : /\ Trace[n].kind = "model_call"
                                  /\ Trace[n].stage = "decision"} = ShownRequests
  <1>1. DOMAIN shown.model_calls \cap DOMAIN shown.tool_calls = {}
    BY DEF ReaderInv, CallsAreRead
  <1>2. DOMAIN Trace = DOMAIN shown.model_calls \cup DOMAIN shown.tool_calls
    BY DEF Trace
  <1>3. \A n \in DOMAIN shown.model_calls :
           Trace[n] = ModelCallEntry(shown.model_calls[n])
    BY DEF Trace
  <1>4. \A n \in DOMAIN shown.tool_calls :
           Trace[n] = ToolCallEntry(shown.tool_calls[n])
    BY <1>1 DEF Trace
  <1>5. ASSUME NEW n \in DOMAIN shown.model_calls
        PROVE  /\ Trace[n].kind = "model_call"
               /\ Trace[n].stage = shown.model_calls[n].stage
    <2>1. Trace[n] = ModelCallEntry(shown.model_calls[n])
      BY <1>3
    <2>. HIDE DEF Trace
    <2>. QED  BY <2>1 DEF ModelCallEntry
  <1>6. ASSUME NEW n \in DOMAIN shown.tool_calls
        PROVE  /\ Trace[n].kind = "tool_call"
               /\ Trace[n].mutation = (shown.tool_calls[n].tool_name = Mutation)
               /\ Trace[n].status = shown.tool_calls[n].status
               /\ Trace[n].error_code = shown.tool_calls[n].error
    <2>1. Trace[n] = ToolCallEntry(shown.tool_calls[n])
      BY <1>4
    <2>2. /\ Trace[n].kind = "tool_call"
          /\ Trace[n].status = shown.tool_calls[n].status
          /\ Trace[n].error_code = shown.tool_calls[n].error
      BY <2>1 DEF ToolCallEntry
    <2>3. Trace[n].mutation = (shown.tool_calls[n].tool_name = Mutation)
      BY <2>1 DEF ToolCallEntry
    <2>. QED  BY <2>2, <2>3
  <1>7. {n \in DOMAIN Trace : /\ Trace[n].kind = "model_call"
                              /\ Trace[n].stage = "decision"} = ShownRequests
    BY <1>2, <1>5, <1>6 DEF ShownRequests
  <1>8. Attempts(TRUE) = {n \in DOMAIN shown.tool_calls :
                             shown.tool_calls[n].tool_name = Mutation}
    BY <1>2, <1>5, <1>6 DEF Attempts
  <1>9. Attempts(FALSE) = {n \in DOMAIN shown.tool_calls :
                              shown.tool_calls[n].tool_name # Mutation}
    BY <1>2, <1>5, <1>6 DEF Attempts
  <1>. QED  BY <1>2, <1>6, <1>7, <1>8, <1>9

\* Of a run that has ended, the attempts that are shown are the run's.
LEMMA AttemptsOfTheEnded ==
  ASSUME TraceInv, ReaderInv, next = "done", shown.row.completed_at
  PROVE  /\ Attempts(TRUE) = CallsOf(reading, {Mutation})
         /\ Attempts(FALSE) = CallsOf(reading, ReadTools)
         /\ \A status : ShownMutations(status) = MutationsWith(reading, {status})
         /\ reading \in Runs
         /\ run[reading].completed_at
         /\ run[reading].status = shown.row.status
         /\ run[reading].outcome_reason = shown.row.outcome_reason
         /\ run[reading].proposal = shown.row.proposal
         /\ shown.detail = outcome_detail[reading]
  <1>1. /\ shown.tool_calls = tool_calls[reading] /\ reading \in Runs
        /\ run[reading] = [shown.row EXCEPT
              !.last_sequence_no = run[reading].last_sequence_no]
        /\ shown.row \in RunRow /\ shown.detail = outcome_detail[reading]
    BY DEF ReaderInv, RowIsRead, CallsAreRead
  <1>2. \A n \in DOMAIN tool_calls[reading] :
           tool_calls[reading][n].tool_name \in Tools
    BY <1>1 DEF TraceInv, TypeOK, IsTable, ToolCallRow
  <1>3. /\ Attempts(TRUE) = CallsOf(reading, {Mutation})
        /\ Attempts(FALSE) = CallsOf(reading, ReadTools)
    <2>1. /\ Attempts(TRUE) = {n \in DOMAIN shown.tool_calls :
                                  shown.tool_calls[n].tool_name = Mutation}
          /\ Attempts(FALSE) = {n \in DOMAIN shown.tool_calls :
                                   shown.tool_calls[n].tool_name # Mutation}
      BY EntriesAreRows
    <2>. QED  BY <1>1, <1>2, <2>1, AgentDomainAssumption DEF CallsOf, Tools
  <1>4. ASSUME NEW status
        PROVE  ShownMutations(status) = MutationsWith(reading, {status})
    BY <1>1, <1>3, EntriesAreRows DEF ShownMutations, MutationsWith, CallsOf
  <1>. QED  BY <1>1, <1>3, <1>4 DEF RunRow

\* No numbered row of the trace is missing, whatever the run did between the
\* SELECTs of AgentRuns.get.
THEOREM AnswersHaveTheTrace == RSpec => []AnswerHasTheTrace
  <1>1. ReaderInv => AnswerHasTheTrace
    BY DEF ReaderInv, CallsAreRead, AnswerHasTheTrace, Answered
  <1>. QED  BY <1>1, ReaderInvariant, PTL

\* The trace that is read after the row accounts for what the row says: the
\* change that completed the run, the call it waits for, the end of its calls.
THEOREM AnswersAreConsistent == RSpec => []AnswerIsConsistent
  <1>1. ASSUME TraceInv, RunsAreJudged, ReaderInv PROVE AnswerIsConsistent
    <2>. SUFFICES ASSUME next = "done"
                  PROVE  /\ shown.row.status = "completed" =>
                              /\ shown.row.outcome_reason = "goal_satisfied"
                                    <=> ShownMutations("succeeded") # {}
                              /\ ShownMutations("started") = {}
                         /\ shown.row.status = "awaiting_approval"
                              => ShownMutations("awaiting_approval") # {}
                         /\ shown.row.completed_at
                              => shown.tool_calls = tool_calls[reading]
      BY DEF AnswerIsConsistent, Answered
    <2>1. ASSUME shown.row.status = "completed"
          PROVE  /\ shown.row.outcome_reason = "goal_satisfied"
                       <=> ShownMutations("succeeded") # {}
                 /\ ShownMutations("started") = {}
      <3>1. shown.row.completed_at
        BY <1>1, <2>1 DEF ReaderInv, RowIsRead
      <3>. PICK r \in Runs : r = reading
        BY <1>1, <3>1, AttemptsOfTheEnded
      <3>2. /\ run[r].status = "completed"
            /\ run[r].outcome_reason = shown.row.outcome_reason
            /\ ShownMutations("succeeded") = MutationsWith(r, {"succeeded"})
            /\ ShownMutations("started") = MutationsWith(r, {"started"})
        BY <1>1, <2>1, <3>1, AttemptsOfTheEnded
      <3>3. MutationsWith(r, {"started"}) = {}
        BY <1>1, <3>2 DEF TraceInv, UnfinishedCallIsTheLast, RunsAreJudged,
           Proposing, MutationsWith, CallsOf
      <3>4. changed_by[r] = MutationsWith(r, {"succeeded"})
        <4>1. MutationsWith(r, {"succeeded", "started"})
                 = MutationsWith(r, {"succeeded"}) \cup MutationsWith(r, {"started"})
          BY DEF MutationsWith
        <4>. QED  BY <1>1, <3>3, <4>1 DEF TraceInv, ChangesAreOnTheTrace
      <3>. QED  BY <1>1, <3>2, <3>3, <3>4 DEF TraceInv, OutcomeTellsTheChange
    <2>2. ASSUME shown.row.status = "awaiting_approval"
          PROVE  ShownMutations("awaiting_approval") # {}
      BY <1>1, <2>2, EntriesAreRows DEF ReaderInv, CallsAreRead, ShownMutations
    <2>. QED  BY <1>1, <2>1, <2>2 DEF ReaderInv, CallsAreRead
  <1>. QED  BY <1>1, ReaderInvariant, PTL
\* The outcome by the verification that is shown, and the trace.
OutcomeShown(proposal, found, changed) ==
    DecisionOutcome(proposal,
        [changed |-> changed,
         rejection |-> found.blocking_rejection,
         satisfied |-> found.satisfied,
         confirmed |-> found.block_check # None /\ found.block_check.confirmed])

\* What a reader is shown of a verification is the verdict, but for a claim
\* that a verdict does not go by.
LEMMA VerificationIsShown ==
  ASSUME NEW p \in Proposals, NEW v \in Verdicts, NEW found,
         found = Verification(Told(p, v)), NEW changed \in BOOLEAN,
         changed = v.changed
  PROVE  /\ found # None
         /\ found.blocking_rejection = v.rejection
         /\ OutcomeShown(p, found, changed) = DecisionOutcome(p, v)
  <1>. DEFINE detail == Told(p, v)
              rejection == IF v.rejection = None THEN None
                           ELSE [error |-> [code |-> v.rejection]]
              check == IF ~v.satisfied /\ p.kind = "cannot_proceed"
                       THEN [reason |-> p.reason_code, confirmed |-> v.confirmed]
                       ELSE None
              blocking == IF rejection = None THEN None ELSE rejection.error.code
  <1>1. detail = [satisfied |-> v.satisfied, evidence |-> None,
                  rejection |-> rejection, block_check |-> check]
    BY DEF Told
  <1>2. /\ v.satisfied \in BOOLEAN /\ v.confirmed \in BOOLEAN
        /\ v.rejection \in ClaimReasons \cup {None}
        /\ p.kind = "cannot_proceed" => p.reason_code \in ClaimReasons
    BY DEF Verdicts, Proposals
  <1>3. rejection \in {None} \cup Rejections
    BY <1>2 DEF Rejections
  <1>4. check \in {None} \cup BlockChecks
    BY <1>2 DEF BlockChecks
  <1>5. blocking = v.rejection
    <2>1. CASE v.rejection = None
      BY <2>1
    <2>2. CASE v.rejection # None
      <3>1. rejection = [error |-> [code |-> v.rejection]] /\ rejection # None
        <4>1. [error |-> [code |-> v.rejection]] \in Rejections
          BY <1>2, <2>2 DEF Rejections
        <4>. QED  BY <2>2, <4>1, DetailAssumption
      <3>. QED  BY <3>1
    <2>. QED  BY <2>1, <2>2
  <1>6. check # None <=> ~v.satisfied /\ p.kind = "cannot_proceed"
    <2>1. CASE ~v.satisfied /\ p.kind = "cannot_proceed"
      <3>1. check \in BlockChecks
        BY <1>2, <2>1 DEF BlockChecks
      <3>. QED  BY <2>1, <3>1, DetailAssumption
    <2>. QED  BY <2>1
  <1>7. check # None => check.confirmed = v.confirmed
    BY <1>6
  <1>. HIDE DEF rejection, check, detail
  <1>8. detail # None /\ detail.satisfied = v.satisfied
        /\ detail.satisfied # None /\ "satisfied" \in DOMAIN detail
        /\ detail.rejection = rejection /\ detail.block_check = check
    <2>1. detail \in Verifications
      BY <1>1, <1>2, <1>3, <1>4 DEF Verifications
    <2>. QED  BY <1>1, <1>2, <2>1, DetailAssumption
  <1>9. found = [satisfied |-> v.satisfied, blocking_rejection |-> blocking,
                 block_check |-> check]
    BY <1>8 DEF Verification, Get, detail
  <1>. HIDE DEF blocking
  <1>10. found \in ShownVerifications
    BY <1>2, <1>4, <1>5, <1>9 DEF ShownVerifications
  <1>11. found # None
    BY <1>10, DetailAssumption
  <1>12. /\ found.satisfied = v.satisfied /\ found.blocking_rejection = v.rejection
         /\ found.block_check = check
    BY <1>5, <1>9
  <1>13. OutcomeShown(p, found, changed) = DecisionOutcome(p, v)
    <2>. DEFINE c == found.block_check # None /\ found.block_check.confirmed
                w == [changed |-> changed, rejection |-> found.blocking_rejection,
                      satisfied |-> found.satisfied, confirmed |-> c]
    <2>1. ~v.satisfied /\ p.kind = "cannot_proceed" => (c <=> v.confirmed)
      BY <1>6, <1>7, <1>12
    <2>. HIDE DEF c
    <2>2. /\ w.changed = v.changed /\ w.rejection = v.rejection
          /\ w.satisfied = v.satisfied /\ w.confirmed = c
      BY <1>12
    <2>. HIDE DEF w
    <2>3. DecisionOutcome(p, w) = DecisionOutcome(p, v)
      BY <2>1, <2>2 DEF DecisionOutcome
    <2>. QED  BY <2>3 DEF w, c, OutcomeShown
  <1>. QED  BY <1>11, <1>12, <1>13

\* An ending without a verdict is shown without one, and with its limit.
LEMMA LimitIsShown ==
  ASSUME NEW r \in Runs, ToldWithoutVerdict(r)
  PROVE  /\ Verification(outcome_detail[r]) = None
         /\ run[r].outcome_reason = "step_limit" =>
               /\ outcome_detail[r] = [limit |-> OutcomeCode(run[r], outcome_detail[r]),
                                       maximum |-> None]
               /\ LimitReached(r, OutcomeCode(run[r], outcome_detail[r]))
  <1>1. CASE run[r].outcome_reason = "step_limit"
    <2>1. PICK limit : /\ outcome_detail[r] = [limit |-> limit, maximum |-> None]
                       /\ LimitReached(r, limit)
      BY <1>1 DEF ToldWithoutVerdict
    <2>2. outcome_detail[r] # None
      <3>1. limit \in {"model_requests", "read_calls", "mutation_calls"}
        BY <2>1 DEF LimitReached
      <3>2. outcome_detail[r] \in Limits
        BY <2>1, <3>1 DEF Limits
      <3>. QED  BY <3>2, DetailAssumption
    <2>3. OutcomeCode(run[r], outcome_detail[r]) = limit
      BY <1>1, <2>1, <2>2 DEF OutcomeCode, ExtractionReasons, Get
    <2>4. "satisfied" \notin DOMAIN outcome_detail[r]
      BY <2>1
    <2>. QED  BY <2>1, <2>3, <2>4 DEF Verification, Get
  <1>2. CASE run[r].outcome_reason # "step_limit"
    BY <1>2 DEF ToldWithoutVerdict, Verification, Get
  <1>. QED  BY <1>1, <1>2

\* What is shown of a detail, with the rest of the answer, tells why the run
\* ended as it did (AgentRunDetail.of).
THEOREM AnswersTellTheOutcome == RSpec => []AnswerTellsTheOutcome
  <1>. DEFINE found == Verification(shown.detail)
              code == OutcomeCode(shown.row, shown.detail)
              Tells == IF found = None
               THEN \/ shown.row.proposal = None
                    \/ shown.row.outcome_reason = "unexpected_error"
               ELSE [status |-> shown.row.status, reason |-> shown.row.outcome_reason]
                      = DecisionOutcome(shown.row.proposal,
                           [changed |-> ShownMutations("succeeded") # {},
                            rejection |-> found.blocking_rejection,
                            satisfied |-> found.satisfied,
                            confirmed |-> /\ found.block_check # None
                                          /\ found.block_check.confirmed])
              Rejects == found # None /\ found.blocking_rejection # None =>
                 \E n \in Attempts(TRUE) :
                    /\ \A m \in Attempts(TRUE) : m <= n
                    /\ Trace[n].error_code = found.blocking_rejection
              Limited == shown.row.outcome_reason = "step_limit" =>
                 \/ /\ code = "model_requests"
                    /\ Cardinality({n \in DOMAIN Trace :
                                       /\ Trace[n].kind = "model_call"
                                       /\ Trace[n].stage = "decision"}) >= MaxRequests
                 \/ /\ code = "read_calls"
                    /\ Cardinality(Attempts(FALSE)) > MaxReads
                 \/ /\ code = "mutation_calls"
                    /\ Cardinality(Attempts(TRUE)) > MaxMutations
  <1>1. ASSUME TraceInv, EndingsAreTold, ReaderInv PROVE AnswerTellsTheOutcome
    <2>. SUFFICES ASSUME next = "done", shown.row.completed_at
                  PROVE  Tells /\ Rejects /\ Limited
      BY DEF AnswerTellsTheOutcome, Answered, Answer
    <2>. PICK r \in Runs : r = reading
      BY <1>1, AttemptsOfTheEnded
    <2>1. /\ Attempts(TRUE) = CallsOf(r, {Mutation})
          /\ Attempts(FALSE) = CallsOf(r, ReadTools)
          /\ ShownMutations("succeeded") = MutationsWith(r, {"succeeded"})
          /\ run[r].completed_at
          /\ run[r].status = shown.row.status
          /\ run[r].outcome_reason = shown.row.outcome_reason
          /\ run[r].proposal = shown.row.proposal
          /\ shown.detail = outcome_detail[r]
      BY <1>1, AttemptsOfTheEnded
    <2>2. /\ \A n \in Attempts(TRUE) : Trace[n].error_code = tool_calls[r][n].error
          /\ {n \in DOMAIN Trace : /\ Trace[n].kind = "model_call"
                                   /\ Trace[n].stage = "decision"} = ShownRequests
      <3>1. shown.tool_calls = tool_calls[r]
        BY <1>1 DEF ReaderInv, CallsAreRead
      <3>. QED  BY <1>1, <3>1, EntriesAreRows
    <2>3. ASSUME NEW v \in Verdicts, ToldByVerdict(r, v)
          PROVE  Tells /\ Rejects /\ Limited
      <3>. DEFINE p == run[r].proposal
      <3>1. /\ p \in Proposals /\ shown.detail = Told(p, v)
            /\ v.changed <=> ShownMutations("succeeded") # {}
            /\ v.rejection # None => LatestFailedWith(r, v.rejection)
            /\ [status |-> shown.row.status, reason |-> shown.row.outcome_reason]
                  = DecisionOutcome(p, v)
        BY <2>1, <2>3 DEF ToldByVerdict
      <3>. DEFINE changed == ShownMutations("succeeded") # {}
      <3>2. changed \in BOOLEAN /\ changed = v.changed
        BY <3>1 DEF Verdicts
      <3>. HIDE DEF changed
      <3>3. /\ found # None /\ found.blocking_rejection = v.rejection
            /\ OutcomeShown(p, found, changed) = DecisionOutcome(p, v)
        BY <3>1, <3>2, VerificationIsShown
      <3>. HIDE DEF found
      <3>4. Tells
        BY <2>1, <3>1, <3>3 DEF changed, OutcomeShown
      <3>5. Rejects
        BY <2>1, <2>2, <3>1, <3>3 DEF LatestFailedWith
      <3>6. shown.row.outcome_reason # "step_limit"
        BY <3>1 DEF DecisionOutcome, Proposals, Verdicts, ClaimReasons
      <3>. QED  BY <3>4, <3>5, <3>6
    <2>4. ASSUME ToldWithoutVerdict(r) PROVE Tells /\ Rejects /\ Limited
      <3>1. found = None /\ Tells /\ Rejects
        BY <2>1, <2>4, LimitIsShown DEF ToldWithoutVerdict
      <3>2. ASSUME shown.row.outcome_reason = "step_limit" PROVE Limited
        <4>1. /\ shown.detail = [limit |-> code, maximum |-> None]
              /\ LimitReached(r, code)
          <5>1. OutcomeCode(run[r], outcome_detail[r]) = code
            BY <2>1 DEF OutcomeCode
          <5>. QED  BY <2>1, <2>4, <3>2, <5>1, LimitIsShown
        <4>2. CASE code = "model_requests"
          <5>3. shown.detail.limit = "model_requests"
            BY <4>1, <4>2
          <5>4. Cardinality(ShownRequests) >= MaxRequests
            BY <1>1, <3>2, <5>3 DEF ReaderInv, RequestsAreRead, ShownOverRequests
          <5>. QED  BY <2>2, <4>2, <5>4
        <4>3. CASE code # "model_requests"
          BY <2>1, <4>1, <4>3 DEF LimitReached
        <4>. QED  BY <4>2, <4>3
      <3>. QED  BY <3>1, <3>2
    <2>. QED  BY <1>1, <2>1, <2>3, <2>4 DEF EndingsAreTold
  <1>. QED  BY <1>1, ReaderInvariant, PTL
=============================================================================
