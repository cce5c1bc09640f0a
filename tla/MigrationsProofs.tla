--------------------------- MODULE MigrationsProofs ---------------------------
(***************************************************************************)
(* For any rows that the CHECKs accept: each downgrade refuses exactly     *)
(* what it could not store; while the application waits, migrations forget *)
(* nothing else, and the next number of a trace is free after them.        *)
(***************************************************************************)
EXTENDS Migrations, WellFoundedInduction, TLAPS

\* A trace's numbers have a greatest one.
LEMMA GreatestNumber ==
  ASSUME NEW N \in Nat, NEW S, S \subseteq 0 .. N, 0 \in S
  PROVE  Max(S) \in S /\ \A n \in S : n <= Max(S)
  <1>. DEFINE bounds == {m \in Nat : \A n \in S : n <= m}
              less == {ss \in Nat \X Nat : ss[1] < ss[2]}
  <1>1. PICK m \in bounds : \A k \in bounds : ~ (<<k, m>> \in less)
    <2>1. IsWellFoundedOn(less, Nat)
      BY NatLessThanWellFounded DEF OpToRel
    <2>2. bounds \subseteq Nat /\ N \in bounds
      OBVIOUS
    <2>. HIDE DEF bounds, less
    <2>. QED
      BY <2>1, <2>2, WFMin
  <1>2. \A k \in bounds : ~ (k < m)
    BY <1>1
  <1>3. m \in S
    <2>. SUFFICES ASSUME m \notin S PROVE FALSE
      OBVIOUS
    <2>1. \A n \in S : n < m
      OBVIOUS
    <2>2. m - 1 \in bounds
      BY <2>1
    <2>. QED
      BY <1>2, <2>2
  <1>4. \A n \in S : m >= n
    OBVIOUS
  <1>. QED
    BY <1>3, <1>4 DEF Max

\* What the values are: every variable, a migration going on, and what is set
\* aside for it.
Types ==
    /\ revision \in Revisions
    /\ run \in RunRow \cup {None}
    /\ tool_calls = [n \in DOMAIN tool_calls |-> tool_calls[n]]
    /\ DOMAIN tool_calls \subseteq 1 .. MaxNumber
    /\ \A n \in DOMAIN tool_calls : tool_calls[n] \in CallRow
    /\ model_calls \subseteq 1 .. MaxNumber
    /\ agent_policy \in Policies
    /\ doing \in {None, "upgrade", "downgrade"}

\* A migration going on is one that may, and has set the calls aside.
MigrationMay ==
    /\ doing # None => aside = tool_calls
    /\ doing = "upgrade" => revision < 7
    /\ doing = "downgrade" => revision > 1 /\ ~Refuses(revision)

\* The inductive invariant, while the application waits.
MigrationsInv ==
    /\ Types
    /\ MigrationMay
    /\ AllFits(revision)
    /\ run = None => Numbers = {}
    /\ revision < 3 => model_calls = {}
    /\ NextNumberIsFree

\* A downgrade looks for exactly what the revision below cannot store.
LEMMA RefusalIsExact ==
  ASSUME Types, AllFits(revision), revision > 2
  PROVE  Refuses(revision) <=> ~AllFits(revision - 1)
  <1>. USE MigrationsAssumption DEF Types, Revisions
  <1>1. \A x : \A v \in Revisions : x \in ReasonsSince(v)
            <=> \E w \in v .. 7 : x \in ReasonsOfRevision(w)
    BY DEF ReasonsSince, Revisions
  <1>2. CASE revision = 7
    BY <1>1, <1>2 DEF Refuses, AllFits, RunFits, CallFits, ReasonsOfRevision
  <1>3. CASE revision = 6
    BY <1>1, <1>3 DEF Refuses, AllFits, RunFits, CallFits, ReasonsOfRevision
  <1>4. CASE revision = 5
    BY <1>1, <1>4 DEF Refuses, AllFits, RunFits, CallFits, ReasonsOfRevision
  <1>5. CASE revision = 4
    BY <1>1, <1>5 DEF Refuses, AllFits, RunFits, CallFits, ReasonsOfRevision
  <1>6. CASE revision = 3
    BY <1>1, <1>6 DEF Refuses, AllFits, RunFits, CallFits, ReasonsOfRevision
  <1>. QED
    BY <1>2, <1>3, <1>4, <1>5, <1>6

\* A later revision stores what an earlier one does.
LEMMA FitsLater ==
  ASSUME Types, NEW v \in Revisions, v < 7, AllFits(v)
  PROVE  AllFits(v + 1)
  <1>1. \A x : \A w \in Revisions : x \in ReasonsSince(w)
            <=> \E u \in w .. 7 : x \in ReasonsOfRevision(u)
    BY DEF ReasonsSince, Revisions
  <1>2. \A x : x \in ReasonsSince(8) => FALSE
    BY DEF ReasonsSince
  <1>3. \A x : x \in ReasonsSince(v + 2) => x \in ReasonsSince(v + 1)
    BY <1>1, <1>2 DEF Revisions
  <1>. QED
    BY <1>3 DEF AllFits, RunFits, CallFits, Revisions

LEMMA NoCallsAreNone ==
  DOMAIN NoCalls = {} /\ NoCalls = [n \in DOMAIN NoCalls |-> NoCalls[n]]
  <1>1. DOMAIN NoCalls = {}
    BY DEF NoCalls
  <1>2. [n \in {} |-> None] = [n \in {} |-> [m \in {} |-> None][n]]
    OBVIOUS
  <1>. QED
    BY <1>1, <1>2 DEF NoCalls

\* The application's writes.
LEMMA WritesKeepInv ==
  ASSUME MigrationsInv, ~Live, Write
  PROVE  MigrationsInv'
  <1>. USE MigrationsAssumption DEF MigrationsInv, Types, Revisions
  <1>1. CASE WriteRun
    <2>1. PICK row \in RunRows :
              /\ RunFits(revision, row)
              /\ run' = IF run = None THEN row
                        ELSE [row EXCEPT !.last_sequence_no = run.last_sequence_no]
      BY <1>1 DEF WriteRun
    <2>2. /\ run' \in RunRow /\ RunFits(revision, run')
          /\ run # None => run'.last_sequence_no = run.last_sequence_no
      BY <2>1 DEF RunRow, RunFits
    <2>. QED
      BY <1>1, <2>2 DEF WriteRun, Writing, MigrationMay, AllFits, CallFits,
         NextNumberIsFree, Numbers
  <1>2. CASE WriteToolCall \/ WriteModelCall
    <2>0. Number <= MaxNumber /\ run # None /\ run \in RunRow
      BY <1>2 DEF WriteToolCall, WriteModelCall
    <2>1. /\ Number \in 1 .. MaxNumber
          /\ \A n \in Numbers : n < Number
      <3>1. CASE revision >= 3
        <4>1. Number = run.last_sequence_no + 1 /\ run.last_sequence_no \in Nat
          BY <2>0, <3>1 DEF Number, RunRow
        <4>2. \A n \in Numbers : n \in Nat /\ n <= run.last_sequence_no
          BY <2>0, <3>1 DEF NextNumberIsFree, Numbers
        <4>. QED
          BY <2>0, <4>1, <4>2
      <3>2. CASE revision < 3
        <4>1. Numbers \cup {0} \subseteq 0 .. MaxNumber
          BY DEF Numbers
        <4>2. /\ Max(Numbers \cup {0}) \in 0 .. MaxNumber
              /\ \A n \in Numbers : n <= Max(Numbers \cup {0})
          BY <4>1, GreatestNumber
        <4>3. Number = Max(Numbers \cup {0}) + 1
          BY <3>2 DEF Number
        <4>4. \A n \in Numbers : n \in Nat
          BY <4>1
        <4>5. MaxNumber \in Nat
          OBVIOUS
        <4>. QED
          BY ONLY <2>0, <4>2, <4>3, <4>4, <4>5
      <3>. QED
        BY <3>1, <3>2
    <2>2. /\ run' \in RunRow
          /\ run' = [run EXCEPT !.last_sequence_no = run'.last_sequence_no]
          /\ revision >= 3 => run'.last_sequence_no = Number
      BY <1>2, <2>1 DEF WriteToolCall, WriteModelCall, Count, RunRow
    <2>3. RunFits(revision, run')
      BY <1>2, <2>2 DEF AllFits, RunFits, RunRow, WriteToolCall, WriteModelCall
    <2>4. CASE WriteToolCall
      <3>1. PICK row \in CallRows :
                /\ CallFits(revision, row)
                /\ tool_calls' = [n \in DOMAIN tool_calls \cup {Number} |->
                                     IF n = Number THEN row ELSE tool_calls[n]]
        BY <2>4 DEF WriteToolCall
      <3>2. Types' /\ AllFits(revision)'
        BY <2>1, <2>2, <2>3, <2>4, <3>1 DEF WriteToolCall, AllFits
      <3>3. Numbers' = Numbers \cup {Number}
        BY <2>4, <3>1 DEF WriteToolCall, Numbers
      <3>4. (run = None => Numbers = {})' /\ NextNumberIsFree'
        BY <2>1, <2>2, <2>4, <3>3 DEF WriteToolCall, NextNumberIsFree, Numbers
      <3>. QED
        BY <2>4, <3>2, <3>4 DEF WriteToolCall, Writing, MigrationMay
    <2>5. CASE WriteModelCall
      <3>1. Types' /\ AllFits(revision)'
        BY <2>1, <2>2, <2>3, <2>5 DEF WriteModelCall, AllFits
      <3>2. Numbers' = Numbers \cup {Number}
        BY <2>5 DEF WriteModelCall, Numbers
      <3>3. (run = None => Numbers = {})' /\ NextNumberIsFree'
        BY <2>1, <2>2, <2>5, <3>2 DEF WriteModelCall, NextNumberIsFree, Numbers
      <3>. QED
        BY <2>5, <3>1, <3>3 DEF WriteModelCall, Writing, MigrationMay
    <2>. QED
      BY <1>2, <2>4, <2>5
  <1>3. CASE SetPolicy
    BY <1>3 DEF SetPolicy, Writing, MigrationMay, AllFits, RunFits, CallFits,
       NextNumberIsFree, Numbers
  <1>4. CASE RemoveRun
    <2>1. /\ (tool_calls = [n \in DOMAIN tool_calls |-> tool_calls[n]])'
          /\ DOMAIN tool_calls' = {}
      BY <1>4, NoCallsAreNone DEF RemoveRun
    <2>2. run' = None /\ model_calls' = {} /\ doing = None
          /\ UNCHANGED <<revision, agent_policy, doing, aside, leftover>>
      BY <1>4 DEF RemoveRun, Writing
    <2>. QED
      BY <2>1, <2>2 DEF MigrationMay, AllFits, NextNumberIsFree, Numbers
  <1>5. CASE CleanUp
    BY <1>5 DEF CleanUp, rows, MigrationMay, AllFits, RunFits, CallFits, Refuses,
       NextNumberIsFree, Numbers
  <1>. QED
    BY <1>1, <1>2, <1>3, <1>4, <1>5 DEF Write

\* The numbers of a trace that has no model calls, as 0003 finds it, are at most
\* the last one.
LEMMA LastNumberIsLast ==
  ASSUME NEW calls, DOMAIN calls \subseteq 1 .. MaxNumber
  PROVE  LastNumber(calls) \in Nat /\ \A n \in DOMAIN calls : n <= LastNumber(calls)
  <1>1. MaxNumber \in Nat /\ DOMAIN calls \cup {0} \subseteq 0 .. MaxNumber
    BY MigrationsAssumption
  <1>. QED
    BY <1>1, GreatestNumber DEF LastNumber

\* A migration that has nothing to refuse takes away nothing but defaults.
LEMMA NothingToTakeAway ==
  ASSUME Types, ~Refuses(revision)
  PROVE  /\ \A n \in DOMAIN tool_calls :
                CallWithout(revision, tool_calls[n]) = tool_calls[n]
         /\ run # None =>
              /\ RunWithout(revision, run) \in RunRow
              /\ RunWithout(revision, run)
                   = [run EXCEPT !.last_sequence_no
                         = RunWithout(revision, run).last_sequence_no]
              /\ revision # 3 => RunWithout(revision, run) = run
         /\ revision = 6 => agent_policy = "allow"
  <1>1. \A n \in DOMAIN tool_calls :
            CallWithout(revision, tool_calls[n]) = tool_calls[n]
    BY DEF Types, CallRow, CallWithout, Refuses
  <1>2. ASSUME run # None
        PROVE  /\ RunWithout(revision, run) \in RunRow
               /\ revision # 3 => RunWithout(revision, run) = run
               /\ RunWithout(revision, run)
                    = [run EXCEPT !.last_sequence_no
                          = RunWithout(revision, run).last_sequence_no]
    <2>1. run \in RunRow
      BY <1>2 DEF Types
    <2>2. CASE revision = 5
      <3>1. run.context = FALSE /\ run.proposal = None
        BY <1>2, <2>1, <2>2 DEF Refuses, RunRow
      <3>2. RunWithout(revision, run) = run
        <4>1. [run EXCEPT !.context = FALSE] = run
          BY <2>1, <3>1 DEF RunRow
        <4>2. [run EXCEPT !.proposal = None] = run
          BY <2>1, <3>1 DEF RunRow
        <4>3. RunWithout(revision, run)
                = [[run EXCEPT !.context = FALSE] EXCEPT !.proposal = None]
          BY <2>2 DEF RunWithout
        <4>. QED
          BY <4>1, <4>2, <4>3
      <3>3. run = [run EXCEPT !.last_sequence_no = run.last_sequence_no]
        BY <2>1 DEF RunRow
      <3>. QED
        BY <2>1, <2>2, <3>2, <3>3
    <2>3. CASE revision # 5
      BY <2>1, <2>3 DEF RunWithout, RunRow
    <2>. QED
      BY <2>2, <2>3
  <1>. QED
    BY <1>1, <1>2 DEF Refuses

\* What a migration that is going on leads to.
LEMMA UpgradeLeadsTo ==
  ASSUME MigrationsInv, Upgrade
  PROVE  /\ revision' = revision + 1 /\ revision' \in Revisions
         /\ tool_calls' = tool_calls
         /\ run = None => run' = None
         /\ run # None => /\ run' \in RunRow
                          /\ run' = [run EXCEPT !.last_sequence_no
                                         = run'.last_sequence_no]
         /\ run # None /\ revision = 2
              => run'.last_sequence_no = LastNumber(tool_calls)
         /\ revision # 2 => run' = run
  <1>. USE MigrationsAssumption DEF MigrationsInv, Types, Revisions
  <1>1. doing = "upgrade" /\ doing # None
    BY DEF Upgrade
  <1>2. /\ revision' = revision + 1 /\ revision' \in Revisions
        /\ tool_calls' = tool_calls
    BY <1>1 DEF Upgrade, MigrationMay, CallsKept
  <1>3. run' = IF revision = 2 /\ run # None
               THEN [run EXCEPT !.last_sequence_no = LastNumber(tool_calls)]
               ELSE run
    BY <1>2 DEF Upgrade
  <1>4. LastNumber(tool_calls) \in Nat
    BY LastNumberIsLast
  <1>. QED
    BY <1>2, <1>3, <1>4 DEF RunRow

LEMMA DowngradeLeadsTo ==
  ASSUME MigrationsInv, Downgrade, revision # 2
  PROVE  /\ revision' = revision - 1 /\ revision' \in Revisions
         /\ tool_calls' = tool_calls
         /\ model_calls' = IF revision = 3 THEN {} ELSE model_calls
         /\ agent_policy' = agent_policy
         /\ run = None => run' = None
         /\ run # None => /\ run' \in RunRow
                          /\ run' = [run EXCEPT !.last_sequence_no
                                         = run'.last_sequence_no]
                          /\ revision # 3 => run' = run
  <1>. USE MigrationsAssumption DEF MigrationsInv, Types, Revisions
  <1>1. /\ doing = "downgrade" /\ doing # None
        /\ CallsKept = tool_calls
        /\ revision > 1 /\ ~Refuses(revision)
    BY DEF Downgrade, MigrationMay, CallsKept
  <1>2. revision' = revision - 1 /\ revision' \in Revisions
    BY <1>1 DEF Downgrade
  <1>3. tool_calls' = tool_calls
    BY <1>1, NothingToTakeAway DEF Downgrade
  <1>4. run' = IF run = None THEN None ELSE RunWithout(revision, run)
    BY DEF Downgrade
  <1>5. /\ agent_policy' = agent_policy
        /\ model_calls' = IF revision = 3 THEN {} ELSE model_calls
    BY <1>1, NothingToTakeAway DEF Downgrade
  <1>. QED
    BY <1>1, <1>2, <1>3, <1>4, <1>5, NothingToTakeAway

\* A migration's steps.
LEMMA MigrationsKeepInv ==
  ASSUME MigrationsInv, Migrate
  PROVE  MigrationsInv'
  <1>. USE MigrationsAssumption DEF MigrationsInv, Types, Revisions
  <1>1. CASE BeginUpgrade \/ BeginDowngrade
    BY <1>1 DEF BeginUpgrade, BeginDowngrade, rows, MigrationMay, AllFits,
       RunFits, CallFits, Refuses, NextNumberIsFree, Numbers
  <1>2. CASE Upgrade
    <2>1. doing' = None /\ UNCHANGED <<model_calls, agent_policy, leftover>>
      BY <1>2 DEF Upgrade
    <2>2. Types'
      BY <1>2, <2>1, UpgradeLeadsTo
    <2>3. AllFits(revision)'
      <3>1. revision < 7 /\ AllFits(revision + 1)
        BY <1>2, FitsLater DEF Upgrade, MigrationMay
      <3>2. \A row \in RunRow : run # None /\ row = [run EXCEPT !.last_sequence_no
                                                       = row.last_sequence_no]
                => (RunFits(revision + 1, run) => RunFits(revision + 1, row))
        BY DEF RunFits, RunRow
      <3>. QED
        BY <1>2, <2>1, <3>1, <3>2, UpgradeLeadsTo DEF AllFits
    <2>4. Numbers' = Numbers /\ (revision < 3 => model_calls = {})
      BY <1>2, <2>1, UpgradeLeadsTo DEF Numbers
    <2>5. /\ (run = None => Numbers = {})' /\ NextNumberIsFree'
          /\ (revision < 3 => model_calls = {})'
      BY <1>2, <2>1, <2>4, UpgradeLeadsTo, LastNumberIsLast
         DEF NextNumberIsFree, Numbers
    <2>. QED
      BY <2>1, <2>2, <2>3, <2>5 DEF MigrationMay
  <1>3. CASE Downgrade /\ revision = 2
    BY <1>3 DEF Downgrade, MigrationMay, AllFits, NextNumberIsFree, Numbers
  <1>4. CASE Downgrade /\ revision # 2
    <2>1. doing' = None /\ UNCHANGED leftover
      BY <1>4 DEF Downgrade
    <2>2. Types'
      BY <1>4, <2>1, DowngradeLeadsTo
    <2>3. AllFits(revision)'
      <3>1. revision > 2 /\ ~Refuses(revision)
        BY <1>4 DEF Downgrade, MigrationMay
      <3>2. AllFits(revision - 1)
        BY <3>1, RefusalIsExact
      <3>3. \A row \in RunRow : run # None /\ row = [run EXCEPT !.last_sequence_no
                                                       = row.last_sequence_no]
                => (RunFits(revision - 1, run) => RunFits(revision - 1, row))
        BY DEF RunFits, RunRow
      <3>. QED
        BY <1>4, <3>2, <3>3, DowngradeLeadsTo DEF AllFits
    <2>4. Numbers' \subseteq Numbers
      BY <1>4, DowngradeLeadsTo DEF Numbers
    <2>5. /\ (run = None => Numbers = {})' /\ NextNumberIsFree'
          /\ (revision < 3 => model_calls = {})'
      BY <1>4, <2>4, DowngradeLeadsTo DEF NextNumberIsFree
    <2>. QED
      BY <2>1, <2>2, <2>3, <2>5 DEF MigrationMay
  <1>5. CASE Fails
    BY <1>5 DEF Fails, rows, MigrationMay, AllFits, RunFits, CallFits, Refuses,
       NextNumberIsFree, Numbers
  <1>6. CASE FailsMidway
    BY <1>6 DEF FailsMidway, NoCalls, MigrationMay, AllFits, RunFits, CallFits,
       NextNumberIsFree, Numbers
  <1>. QED
    BY <1>1, <1>2, <1>3, <1>4, <1>5, <1>6 DEF Migrate

LEMMA MigrationsInitially ==
  ASSUME Init
  PROVE  MigrationsInv
  <1>1. Types
    <2>1. /\ tool_calls = [n \in DOMAIN tool_calls |-> tool_calls[n]]
          /\ DOMAIN tool_calls = {}
      BY NoCallsAreNone DEF Init
    <2>2. /\ revision \in Revisions /\ run = None /\ model_calls = {}
          /\ agent_policy \in Policies /\ doing = None
      BY DEF Init, Revisions, Policies
    <2>. QED
      BY <2>1, <2>2 DEF Types
  <1>2. MigrationMay
    BY MigrationsAssumption DEF Init, MigrationMay
  <1>3. AllFits(revision)
    BY DEF Init, AllFits, NoCalls
  <1>4. (run = None => Numbers = {}) /\ NextNumberIsFree
    BY DEF Init, Numbers, NoCalls, NextNumberIsFree
  <1>. QED
    BY <1>1, <1>2, <1>3, <1>4 DEF MigrationsInv, Init

LEMMA MigrationsInvStep ==
  ASSUME MigrationsInv, ~Live, [Next]_vars
  PROVE  MigrationsInv'
  <1>1. CASE UNCHANGED vars
    BY <1>1 DEF vars, rows, MigrationsInv, Types, MigrationMay, AllFits, RunFits,
       CallFits, Refuses, Numbers, NextNumberIsFree
  <1>. QED
    BY <1>1, WritesKeepInv, MigrationsKeepInv DEF Next

\* While the application waits, the invariant holds always.
THEOREM MigrationsInvariant == ~Live => (Spec => []MigrationsInv)
  <1>. SUFFICES ASSUME ~Live PROVE Spec => []MigrationsInv
    OBVIOUS
  <1>1. Init => MigrationsInv
    BY MigrationsInitially
  <1>2. MigrationsInv /\ [Next]_vars => MigrationsInv'
    BY MigrationsInvStep
  <1>. QED
    BY <1>1, <1>2, PTL DEF Spec

\* A downgrade refuses exactly when the revision below has no place for
\* something that is stored (the downgrade functions of 0003 to 0007).
THEOREM RefusalsAreExact == ~Live => (Spec => []RefusesWhatDoesNotFit)
  <1>. SUFFICES ASSUME ~Live PROVE Spec => []RefusesWhatDoesNotFit
    OBVIOUS
  <1>1. MigrationsInv => RefusesWhatDoesNotFit
    BY RefusalIsExact DEF MigrationsInv, RefusesWhatDoesNotFit
  <1>. QED
    BY <1>1, MigrationsInvariant, PTL

\* The number that next_sequence_no hands out after a migration is free.
THEOREM NumbersStayFree == ~Live => (Spec => []NextNumberIsFree)
  <1>. SUFFICES ASSUME ~Live PROVE Spec => []NextNumberIsFree
    OBVIOUS
  <1>1. MigrationsInv => NextNumberIsFree
    BY DEF MigrationsInv
  <1>. QED
    BY <1>1, MigrationsInvariant, PTL

\* Migrations keep every run, tool call and policy, and every model call but
\* where 0003 is taken back ("Refuse rather than delete them").
THEOREM NothingIsForgotten == ~Live => (Spec => MigrationsForgetNothing)
  <1>. SUFFICES ASSUME ~Live PROVE Spec => MigrationsForgetNothing
    OBVIOUS
  <1>. DEFINE Kept == /\ run # None => /\ run' # None
                                       /\ run' = [run EXCEPT !.last_sequence_no
                                                      = run'.last_sequence_no]
                      /\ run = None => run' = None
                      /\ tool_calls' = tool_calls
                      /\ agent_policy' = agent_policy
                      /\ \/ doing = "downgrade" /\ revision = 3
                         \/ model_calls' = model_calls
              KeptBy == Migrate /\ ~(doing = "downgrade" /\ revision = 2) => Kept
  <1>1. ASSUME MigrationsInv PROVE KeptBy
    <2>. SUFFICES ASSUME Migrate, ~(doing = "downgrade" /\ revision = 2)
                  PROVE  Kept
      OBVIOUS
    <2>. USE <1>1, MigrationsAssumption DEF MigrationsInv, Types
    <2>1. CASE UNCHANGED rows
      <3>1. run # None => run = [run EXCEPT !.last_sequence_no = run.last_sequence_no]
        BY DEF RunRow
      <3>. QED
        BY <2>1, <3>1 DEF rows
    <2>2. CASE BeginUpgrade \/ BeginDowngrade \/ Fails
      BY <2>1, <2>2 DEF BeginUpgrade, BeginDowngrade, Fails
    <2>3. CASE Upgrade
      BY <2>3, UpgradeLeadsTo DEF Upgrade
    <2>4. CASE Downgrade
      BY <2>4, DowngradeLeadsTo DEF Downgrade
    <2>5. CASE FailsMidway
      <3>1. run # None => run = [run EXCEPT !.last_sequence_no = run.last_sequence_no]
        BY DEF RunRow
      <3>. QED
        BY <2>5, <3>1 DEF FailsMidway
    <2>. QED
      BY <2>2, <2>3, <2>4, <2>5 DEF Migrate
  <1>2. MigrationsInv /\ [Next]_vars => [KeptBy]_vars
    BY <1>1
  <1>. QED
    BY <1>2, MigrationsInvariant, PTL DEF Spec, MigrationsForgetNothing
=============================================================================
