------------------------- MODULE DecisionLoopProofs -------------------------
(***************************************************************************)
(* What the decision loop does for every limit, retry budget and length of *)
(* a response: its tools are called as they were asked for, its requests   *)
(* are counted, and it keeps the protocol the executor relies on.          *)
(***************************************************************************)
EXTENDS DecisionLoop, SequenceTheorems, TLAPS

(* Responses.                                                              *)

\* A response that is taken for tool calls names target tools, and some.
LEMMA ToolsAreTargets ==
  ASSUME NEW parts \in Responses, Parse(parts) = "tools"
  PROVE  /\ ToolNames(parts) \in Seq(TargetTools)
         /\ ToolNames(parts) # <<>>
  <1>1. PICK n \in 0 .. MaxParts : parts \in [1 .. n -> Parts]
    BY DEF Responses
  <1>2. n \in Nat
    BY DecisionLoopAssumption
  <1>3. parts # <<>> /\ OnlyTools(parts)
    BY DEF Parse
  <1>4. ToolNames(parts) \in [1 .. n -> TargetTools]
    BY <1>1, <1>3 DEF OnlyTools, ToolNames
  <1>5. n # 0
    BY <1>1, <1>3
  <1>6. ToolNames(parts) \in Seq(TargetTools)
    BY <1>2, <1>4, SeqDef
  <1>7. DOMAIN ToolNames(parts) = 1 .. n /\ 1 \in 1 .. n
    BY <1>2, <1>4, <1>5
  <1>. QED
    BY <1>6, <1>7

\* One that is taken for a conclusion is one proposal.
LEMMA ProposalsConclude ==
  ASSUME NEW parts, Parse(parts) = "proposal"
  PROVE  parts[1].tool \in ProposalTools
  BY DEF Parse, ValidProposal, ProposalTools
-----------------------------------------------------------------------------
(* The invariant.                                                          *)

LoopTypes ==
    /\ at \in {"loop", "provider", "check", "tools", "done"}
    /\ response \in Responses
    /\ batch \in Seq(TargetTools)
    /\ asked \in Seq(TargetTools)
    /\ called \in Seq(TargetTools)
    /\ made \in Nat /\ recorded \in Nat /\ rejected \in Nat
    /\ result \in {"none", "decision_stopped"} \cup ProposalTools \cup Errors

\* What is left to call, while the tools of a response run, is its batch.
Following ==
    /\ at = "tools" => batch # <<>> /\ called \o batch = asked
    /\ at \in {"loop", "provider", "check"} => called = asked
    /\ \E rest \in Seq(TargetTools) : called \o rest = asked

\* One request at most is not on the trace: the one in flight, or one that
\* could not be recorded.
Counting ==
    /\ made <= MaxRequests
    /\ at \in {"loop", "tools"} => recorded = made
    /\ at \in {"provider", "check"} => made = recorded + 1
    /\ at = "done" => made = recorded \/ result \in Errors

ResultAtTheEnd == (result = "none") <=> (at # "done")

LoopInv == LoopTypes /\ Following /\ Counting /\ ResultAtTheEnd

LEMMA InitIsSound == Init => LoopInv
  <1>. SUFFICES ASSUME Init PROVE LoopInv
    OBVIOUS
  <1>1. MaxParts \in Nat /\ MaxRequests \in Nat
    BY DecisionLoopAssumption
  <1>2. <<>> \in [1 .. 0 -> Parts]
    BY Zenon, EmptySeq, SMT
  <1>3. <<>> \in Responses
    BY <1>1, <1>2 DEF Responses
  <1>4. LoopTypes
    BY <1>3 DEF Init, LoopTypes
  <1>5. <<>> \in Seq(TargetTools) /\ <<>> \o <<>> = <<>>
    BY EmptySeq, ConcatEmptySeq
  <1>6. Following
    BY <1>5 DEF Init, Following
  <1>7. Counting /\ ResultAtTheEnd
    BY <1>1 DEF Init, Counting, ResultAtTheEnd
  <1>. QED  BY <1>4, <1>6, <1>7 DEF LoopInv
\* What keeps the sequences keeps what was said of them.
LEMMA FollowingRests ==
  ASSUME LoopInv, UNCHANGED tools, at # "tools",
         at' \in {"loop", "provider", "check", "done"},
         at \in {"loop", "provider", "check"}
  PROVE  Following'
  <1>1. Following /\ called = asked
    BY DEF LoopInv, Following
  <1>. QED  BY <1>1 DEF Following, tools

\* Requests and their records: at most one ahead.
LEMMA RequestsKeepInv ==
  ASSUME LoopInv,
         BeforeRequest \/ RequestOverLimit \/ ProviderFails \/ ProviderAnswers
           \/ Reject \/ LogFails
  PROVE  LoopInv'
  <1>1. LoopTypes /\ Counting /\ ResultAtTheEnd
    BY DEF LoopInv
  <1>2. MaxRequests \in Nat /\ OutputRetries \in Nat
    BY DecisionLoopAssumption
  <1>. USE <1>1, <1>2
  <1>3. CASE BeforeRequest
    <2>1. LoopTypes' /\ Counting' /\ ResultAtTheEnd'
      BY <1>3 DEF BeforeRequest, LoopTypes, Counting, ResultAtTheEnd, tools
    <2>. QED  BY <1>3, <2>1, FollowingRests DEF BeforeRequest, LoopInv
  <1>4. CASE RequestOverLimit
    <2>1. LoopTypes' /\ Counting' /\ ResultAtTheEnd'
      BY <1>4 DEF RequestOverLimit, Leave, LoopTypes, Counting,
         ResultAtTheEnd, tools, counts
    <2>. QED  BY <1>4, <2>1, FollowingRests DEF RequestOverLimit, Leave, LoopInv
  <1>5. CASE ProviderFails
    <2>1. LoopTypes' /\ Counting' /\ ResultAtTheEnd'
      BY <1>5 DEF ProviderFails, Leave, Errors, LoopTypes, Counting,
         ResultAtTheEnd, tools
    <2>. QED  BY <1>5, <2>1, FollowingRests DEF ProviderFails, Leave, LoopInv
  <1>6. CASE ProviderAnswers
    <2>1. LoopTypes' /\ Counting' /\ ResultAtTheEnd'
      BY <1>6 DEF ProviderAnswers, LoopTypes, Counting, ResultAtTheEnd,
         tools, counts
    <2>. QED  BY <1>6, <2>1, FollowingRests DEF ProviderAnswers, LoopInv
  <1>7. CASE Reject
    <2>1. LoopTypes' /\ Counting' /\ ResultAtTheEnd'
      BY <1>7 DEF Reject, Leave, Errors, LoopTypes, Counting,
         ResultAtTheEnd, tools
    <2>. QED  BY <1>7, <2>1, FollowingRests DEF Reject, Leave, LoopInv
  <1>8. CASE LogFails
    <2>1. LoopTypes' /\ Counting' /\ ResultAtTheEnd'
      BY <1>8 DEF LogFails, Leave, Errors, LoopTypes, Counting,
         ResultAtTheEnd, tools, counts
    <2>. QED  BY <1>8, <2>1, FollowingRests DEF LogFails, Leave, LoopInv
  <1>. QED  BY <1>3, <1>4, <1>5, <1>6, <1>7, <1>8

\* An accepted response is asked for, or concludes.
LEMMA AcceptancesKeepInv ==
  ASSUME LoopInv, AcceptTools \/ AcceptProposal
  PROVE  LoopInv'
  <1>1. LoopTypes /\ Counting /\ ResultAtTheEnd /\ Following
    BY DEF LoopInv
  <1>2. CASE AcceptTools
    <2>. DEFINE names == ToolNames(response)
    <2>1. names \in Seq(TargetTools) /\ names # <<>>
      BY <1>1, <1>2, ToolsAreTargets DEF AcceptTools, LoopTypes
    <2>2. called = asked
      BY <1>1, <1>2 DEF AcceptTools, Following
    <2>3. asked' = asked \o names /\ batch' = names /\ called' = called
          /\ at' = "tools"
      BY <1>2 DEF AcceptTools
    <2>4. asked \o names \in Seq(TargetTools)
      BY <1>1, <2>1, ConcatProperties DEF LoopTypes
    <2>. HIDE DEF names
    <2>5. Following'
      BY <2>1, <2>2, <2>3 DEF Following
    <2>6. LoopTypes'
      BY <1>1, <1>2, <2>1, <2>3, <2>4 DEF AcceptTools, LoopTypes
    <2>7. Counting' /\ ResultAtTheEnd'
      BY <1>1, <1>2 DEF AcceptTools, LoopTypes, Counting, ResultAtTheEnd
    <2>. QED  BY <2>5, <2>6, <2>7 DEF LoopInv
  <1>3. CASE AcceptProposal
    <2>1. result' \in ProposalTools
      BY <1>3, ProposalsConclude DEF AcceptProposal, Leave
    <2>2. LoopTypes' /\ Counting' /\ ResultAtTheEnd'
      BY <1>1, <1>3, <2>1 DEF AcceptProposal, Leave, LoopTypes, Counting,
         ResultAtTheEnd, ProposalTools, tools
    <2>. QED  BY <1>3, <2>2, FollowingRests DEF AcceptProposal, Leave, LoopInv
  <1>. QED  BY <1>2, <1>3

\* The tools of a batch are called one by one, from its head.
LEMMA HeadFollows ==
  ASSUME LoopInv, at = "tools", called' = Append(called, Head(batch))
  PROVE  /\ called' \in Seq(TargetTools)
         /\ Tail(batch) \in Seq(TargetTools)
         /\ called' \o Tail(batch) = asked
  <1>1. /\ batch \in Seq(TargetTools) /\ batch # <<>>
        /\ called \in Seq(TargetTools)
        /\ called \o batch = asked
    BY DEF LoopInv, LoopTypes, Following
  <1>2. Head(batch) \in TargetTools /\ Tail(batch) \in Seq(TargetTools)
    BY <1>1, HeadTailProperties
  <1>3. called' = called \o <<Head(batch)>>
    BY <1>1, <1>2, AppendIsConcat
  <1>4. called' \in Seq(TargetTools)
    BY <1>1, <1>2, AppendProperties
  <1>5. <<Head(batch)>> \in Seq(TargetTools)
    BY <1>2
  <1>6. <<Head(batch)>> \o Tail(batch) = batch
    BY <1>1
  <1>7. called' \o Tail(batch) = called \o (<<Head(batch)>> \o Tail(batch))
    BY <1>1, <1>2, <1>3, <1>5, ConcatAssociative
  <1>. QED  BY <1>1, <1>2, <1>4, <1>6, <1>7

LEMMA CallsKeepInv ==
  ASSUME LoopInv, Observed \/ Stopped \/ CallRaises
  PROVE  LoopInv'
  <1>1. LoopTypes /\ Counting /\ ResultAtTheEnd /\ at = "tools"
    BY DEF LoopInv, Observed, Stopped, CallRaises
  <1>2. called' = Append(called, Head(batch)) /\ asked' = asked
    BY DEF Observed, Stopped, CallRaises
  <1>3. /\ called' \in Seq(TargetTools)
        /\ Tail(batch) \in Seq(TargetTools)
        /\ called' \o Tail(batch) = asked
    BY <1>1, <1>2, HeadFollows
  <1>4. CASE Observed
    <2>1. batch' = Tail(batch)
          /\ at' = IF Tail(batch) = <<>> THEN "loop" ELSE "tools"
      BY <1>4 DEF Observed, CallNext
    <2>2. Tail(batch) = <<>> => called' = asked
      BY <1>3, ConcatEmptySeq
    <2>3. Following'
      BY <1>2, <1>3, <2>1, <2>2 DEF Following
    <2>4. LoopTypes' /\ Counting' /\ ResultAtTheEnd'
      BY <1>1, <1>2, <1>3, <1>4, <2>1 DEF Observed, CallNext, LoopTypes,
         Counting, ResultAtTheEnd, counts
    <2>. QED  BY <2>3, <2>4 DEF LoopInv
  <1>5. CASE Stopped \/ CallRaises
    <2>1. at' = "done" /\ batch' = batch
          /\ result' \in {"decision_stopped"} \cup Errors
          /\ UNCHANGED <<response, counts>>
      BY <1>5 DEF Stopped, CallRaises, Leave
    <2>2. Following'
      BY <1>2, <1>3, <2>1 DEF Following
    <2>3. LoopTypes' /\ Counting' /\ ResultAtTheEnd'
      BY <1>1, <1>2, <1>3, <2>1 DEF Errors, LoopTypes, Counting,
         ResultAtTheEnd, counts
    <2>. QED  BY <2>2, <2>3 DEF LoopInv
  <1>. QED  BY <1>4, <1>5

LEMMA LoopKeepsInv ==
  ASSUME LoopInv, [Next]_vars
  PROVE  LoopInv'
  <1>1. CASE UNCHANGED vars
    BY <1>1 DEF LoopInv, LoopTypes, Following, Counting, ResultAtTheEnd,
       vars, tools, counts
  <1>. QED
    BY <1>1, RequestsKeepInv, AcceptancesKeepInv, CallsKeepInv
    DEF Next, Proceed

\* LoopInv holds whatever the model answers.
THEOREM LoopIsSound == Spec => []LoopInv
  BY InitIsSound, LoopKeepsInv, PTL DEF Spec

\* Whatever the model answers, decide() keeps to its states, and calls tools of
\* the target only.
THEOREM TypeCorrect == Spec => []TypeOK
  <1>1. LoopInv => TypeOK
    BY DEF LoopInv, LoopTypes, TypeOK, counts
  <1>. QED  BY <1>1, LoopIsSound, PTL
-----------------------------------------------------------------------------
(* What it says.                                                           *)

LEMMA ConcatIsPrefix ==
  ASSUME NEW S, NEW s \in Seq(S), NEW t \in Seq(S)
  PROVE  IsPrefix(s, s \o t)
  <1>1. Len(s) <= Len(s \o t) /\ Len(s) \in Nat
    BY ConcatProperties, LenProperties
  <1>2. CASE s = <<>>
    BY <1>1, <1>2, SubSeqEmpty DEF IsPrefix
  <1>3. CASE s # <<>>
    <2>1. 1 \in 1 .. Len(s) /\ Len(s) \in 1 .. Len(s)
      BY <1>3, EmptySeq
    <2>2. SubSeq(s \o t, 1, Len(s)) = SubSeq(s, 1, Len(s))
      BY <2>1, SubSeqOfConcat1
    <2>. QED  BY <1>1, <2>2 DEF IsPrefix
  <1>. QED  BY <1>2, <1>3

\* For responses of any length and any number of them: the tools that run are
\* those that accepted responses asked for, in that order, and the model is
\* asked again only when all of them have answered.
THEOREM CallsFollow == Spec => []CallsFollowTheAsking
  <1>1. LoopInv => CallsFollowTheAsking
    <2>. SUFFICES ASSUME LoopInv PROVE CallsFollowTheAsking
      OBVIOUS
    <2>1. called \in Seq(TargetTools) /\ Following
      BY DEF LoopInv, LoopTypes
    <2>2. PICK rest \in Seq(TargetTools) : called \o rest = asked
      BY <2>1 DEF Following
    <2>3. IsPrefix(called, asked)
      BY <2>1, <2>2, ConcatIsPrefix
    <2>. QED  BY <2>1, <2>3 DEF Following, CallsFollowTheAsking
  <1>. QED  BY <1>1, LoopIsSound, PTL

\* Under every limit: requests that failed or were rejected count like the
\* others, and the loop goes on only with all of them on the trace.
THEOREM RequestsCounted == Spec => []RequestsAreCounted
  <1>1. LoopInv => RequestsAreCounted
    BY DEF LoopInv, LoopTypes, Counting, RequestsAreCounted
  <1>. QED  BY <1>1, LoopIsSound, PTL
-----------------------------------------------------------------------------
(* The protocol.                                                           *)

\* What the protocol sees of the loop.
LEMMA PhaseOfTheLoop ==
  ASSUME LoopInv
  PROVE  /\ at \in {"loop", "tools"} => Phase = "free"
         /\ at \in {"provider", "check"} => Phase = "requesting"
         /\ at = "done" /\ result = "decision_stopped" => Phase = "stopped"
         /\ at = "done" /\ result # "decision_stopped" => Phase = "ended"
  BY DEF LoopInv, LoopTypes, ResultAtTheEnd, Phase

\* A tool call of the loop is one call.
LEMMA OneCall ==
  ASSUME LoopInv, at = "tools", called' = Append(called, Head(batch))
  PROVE  Len(called)' = Len(called) + 1
  <1>1. called \in Seq(TargetTools) /\ batch \in Seq(TargetTools) /\ batch # <<>>
    BY DEF LoopInv, LoopTypes, Following
  <1>. QED  BY <1>1, HeadTailProperties, AppendProperties

\* Each step is one of the protocol's, or none of its business.
LEMMA ProtocolStep ==
  ASSUME LoopInv, [Next]_vars
  PROVE  Protocol!Next \/ UNCHANGED <<Phase, made, Len(called)>>
  <1>. DEFINE Unseen == UNCHANGED <<Phase, made, Len(called)>>
  <1>1. LoopInv'
    BY LoopKeepsInv
  <1>2. /\ at' \in {"loop", "tools"} => Phase' = "free"
        /\ at' \in {"provider", "check"} => Phase' = "requesting"
        /\ at' = "done" =>
              Phase' = IF result' = "decision_stopped" THEN "stopped"
                                                       ELSE "ended"
    BY <1>1 DEF LoopInv, LoopTypes, ResultAtTheEnd, Phase
  <1>3. UNCHANGED <<called>> => UNCHANGED Len(called)
    OBVIOUS
  <1>4. CASE UNCHANGED vars
    BY <1>4 DEF vars, tools, counts, Phase
  <1>5. CASE BeforeRequest
    <2>1. Protocol!Request
      BY <1>2, <1>3, <1>5, PhaseOfTheLoop
      DEF BeforeRequest, tools, Protocol!Request
    <2>. QED  BY <2>1 DEF Protocol!Next
  <1>6. CASE RequestOverLimit
    <2>1. Protocol!Refused
      BY <1>2, <1>3, <1>6, PhaseOfTheLoop
      DEF RequestOverLimit, Leave, tools, counts, Protocol!Refused
    <2>. QED  BY <2>1 DEF Protocol!Next
  <1>7. CASE ProviderFails
    <2>1. Protocol!Record
      BY <1>2, <1>3, <1>7, PhaseOfTheLoop
      DEF ProviderFails, Leave, Errors, tools, Protocol!Record
    <2>. QED  BY <2>1 DEF Protocol!Next
  <1>8. CASE ProviderAnswers
    BY <1>2, <1>3, <1>8, PhaseOfTheLoop DEF ProviderAnswers, tools, counts
  <1>9. CASE Reject
    <2>1. Protocol!Record
      BY <1>2, <1>3, <1>9, PhaseOfTheLoop
      DEF Reject, Leave, tools, Protocol!Record
    <2>. QED  BY <2>1 DEF Protocol!Next
  <1>10. CASE AcceptTools
    <2>1. Protocol!Record
      BY <1>2, <1>3, <1>10, PhaseOfTheLoop DEF AcceptTools, Protocol!Record
    <2>. QED  BY <2>1 DEF Protocol!Next
  <1>11. CASE AcceptProposal
    <2>1. result' \in ProposalTools
      BY <1>11, ProposalsConclude DEF AcceptProposal, Leave
    <2>2. Protocol!Record
      BY <1>2, <1>3, <1>11, <2>1, PhaseOfTheLoop
      DEF AcceptProposal, Leave, ProposalTools, tools, Protocol!Record
    <2>. QED  BY <2>2 DEF Protocol!Next
  <1>12. CASE LogFails
    <2>1. CASE at = "loop"
      <3>1. Protocol!Refused
        BY <1>2, <1>3, <1>12, <2>1, PhaseOfTheLoop
        DEF LogFails, Leave, Errors, tools, counts, Protocol!Refused
      <3>. QED  BY <3>1 DEF Protocol!Next
    <2>2. CASE at \in {"provider", "check"}
      <3>1. Protocol!Record
        BY <1>2, <1>3, <1>12, <2>2, PhaseOfTheLoop
        DEF LogFails, Leave, Errors, tools, counts, Protocol!Record
      <3>. QED  BY <3>1 DEF Protocol!Next
    <2>. QED  BY <1>12, <2>1, <2>2 DEF LogFails
  <1>13. CASE Observed \/ Stopped \/ CallRaises
    <2>1. at = "tools" /\ called' = Append(called, Head(batch)) /\ made' = made
          /\ at' \in {"loop", "tools", "done"}
      BY <1>13 DEF Observed, Stopped, CallRaises, CallNext, Leave, counts
    <2>2. Len(called)' = Len(called) + 1
      BY <2>1, OneCall
    <2>3. Protocol!Call
      BY <1>2, <2>1, <2>2, PhaseOfTheLoop DEF Protocol!Call
    <2>. QED  BY <2>3 DEF Protocol!Next
  <1>. QED
    BY <1>4, <1>5, <1>6, <1>7, <1>8, <1>9, <1>10, <1>11, <1>12, <1>13
    DEF Next, Proceed

\* Whatever the model answers and however the loop is stopped, decide() uses
\* what the executor hands it as PlannerProtocol allows.
THEOREM ProtocolIsKept == Spec => KeepsProtocol
  <1>1. Init => Protocol!Init
    BY DEF Init, Phase, Protocol!Init
  <1>2. LoopInv /\ [Next]_vars => [Protocol!Next]_(Protocol!vars)
    BY ProtocolStep DEF Protocol!vars
  <1>. QED
    BY <1>1, <1>2, LoopIsSound, PTL DEF Spec, KeepsProtocol, Protocol!Spec
=============================================================================
