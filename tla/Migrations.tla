------------------------------ MODULE Migrations ------------------------------
(***************************************************************************)
(* The revisions 0001 to 0007 of the schema, taken up and down one at a    *)
(* time under a database that holds a run, its trace and a licence.        *)
(*                                                                         *)
(* A column that a revision does not have is its default here.  What the   *)
(* applications of the older revisions wrote is not in the repository:     *)
(* they may have written any row that the CHECKs of their revision accept. *)
(*                                                                         *)
(* On SQLite a transaction begins with a migration's first change of a     *)
(* row.  The CREATE, DROP and ALTER TABLE statements before it may stand   *)
(* on their own, whatever becomes of the rest; and the rows that 0003,     *)
(* 0005 and 0007 set aside were copied before it.                          *)
(***************************************************************************)
EXTENDS AgentDomain, FiniteSets, FiniteSetsExt

CONSTANTS
    RunRows,     \* bound: rows of agent_runs, without their numbers
    CallRows,    \* bound: rows of tool_calls
    MaxNumber,   \* bound: entries of a trace
    Live         \* whether the application writes while a migration runs

Revisions == 1 .. 7

RunRow ==
    [status : Statuses, goal : BOOLEAN, target : {None, "target"},
     context : BOOLEAN, proposal : Proposals \cup {None},
     outcome_reason : Reasons \cup {None}, completed_at : BOOLEAN,
     last_sequence_no : Nat]

CallRow ==
    [tool_name : Tools, status : CallStatuses,
     policy_decision : Policies \cup {None}, error : ErrorCodes \cup {None},
     observation : Observations \cup {None}, completed_at : BOOLEAN]

ASSUME MigrationsAssumption ==
    /\ \A row \in RunRows : /\ row \in RunRow
                            /\ RunRowPasses(row)
                            /\ row.last_sequence_no = 0
    /\ \A row \in CallRows : row \in CallRow /\ ToolCallRowPasses(row)
    /\ MaxNumber \in Nat
    /\ Live \in BOOLEAN
    /\ None \notin RunRow \cup Policies \cup Observations \cup {"upgrade", "downgrade"}

VARIABLES
    revision,      \* alembic_version
    run,           \* the row of agent_runs, or None
    tool_calls,    \* its tool calls, by sequence_no
    model_calls,   \* the numbers of its model calls
    agent_policy,  \* of the licence
    doing,         \* the migration going on: "upgrade", "downgrade" or None
    aside,         \* tool_calls as they were set aside
    leftover       \* whether a migration was cut off after its first CREATE,
                   \* DROP or ALTER TABLE stood

rows == <<run, tool_calls, model_calls, agent_policy>>
vars == <<revision, rows, doing, aside, leftover>>

NoCalls == [n \in {} |-> None]

Numbers == DOMAIN tool_calls \cup model_calls
-----------------------------------------------------------------------------
(* What each revision can store.                                           *)

\* The outcome reasons a migration introduces.
ReasonsOfRevision(v) ==
    IF v = 3 THEN {"unsupported_request", "instruction_unclear", "planner_error"}
    ELSE IF v = 5 THEN {"step_limit"}
    ELSE IF v = 7 THEN {"policy_denied"}
    ELSE {}

ReasonsSince(v) == UNION {ReasonsOfRevision(w) : w \in v .. 7}

\* Revision v has the columns and CHECKs for this run. RunRowPasses is the
\* latest revision's; the earlier ones lack some columns and values of it.
RunFits(v, row) ==
    /\ v < 3 => row.goal
    /\ v < 5 => ~row.context /\ row.proposal = None
    /\ v < 7 => row.status # "awaiting_approval"
    /\ row.outcome_reason \notin ReasonsSince(v + 1)

CallFits(v, row) ==
    /\ v < 4 => row.observation = None
    /\ v < 7 => row.policy_decision = None /\ row.status # "awaiting_approval"

\* Revision v can store all there is, its model calls aside.
AllFits(v) ==
    /\ run # None => v >= 2 /\ RunFits(v, run)
    /\ \A n \in DOMAIN tool_calls : CallFits(v, tool_calls[n])
    /\ v < 6 => agent_policy = "allow"

\* Mutant of Refuses: 0005 looks for what the planner decided, no outcome.
RefusesWithoutOutcome(v) ==
    v = 5 /\ run # None /\ (run.context \/ run.proposal # None)

\* The count of rows that the downgrade of revision v asks for is not zero.
Refuses(v) ==
    \/ v = 3 /\ run # None /\ \/ ~run.goal
                              \/ run.outcome_reason \in ReasonsOfRevision(3)
    \/ v = 4 /\ \E n \in DOMAIN tool_calls : tool_calls[n].observation # None
    \/ v = 5 /\ run # None /\ \/ run.context
                              \/ run.proposal # None
                              \/ run.outcome_reason = "step_limit"
    \/ v = 6 /\ agent_policy # "allow"
    \/ v = 7 /\ \/ run # None /\ \/ run.status = "awaiting_approval"
                                 \/ run.outcome_reason = "policy_denied"
                \/ \E n \in DOMAIN tool_calls :
                      \/ tool_calls[n].status = "awaiting_approval"
                      \/ tool_calls[n].policy_decision # None
-----------------------------------------------------------------------------
Init ==
    /\ revision = 1
    /\ run = None
    /\ tool_calls = NoCalls
    /\ model_calls = {}
    /\ agent_policy = "allow"
    /\ doing = None
    /\ aside = NoCalls
    /\ leftover = FALSE

(* The application of the current revision, and whoever keeps its database. *)

Writing == (doing = None \/ Live) /\ ~leftover

\* A run is inserted, or its row changes in any way its CHECKs allow. The
\* counter goes up with its trace alone.
WriteRun ==
    /\ Writing
    /\ revision >= 2
    /\ \E row \in RunRows :
          /\ RunFits(revision, row)
          /\ run' = IF run = None THEN row
                    ELSE [row EXCEPT !.last_sequence_no = run.last_sequence_no]
    /\ UNCHANGED <<revision, tool_calls, model_calls, agent_policy, doing, aside,
                   leftover>>

\* next_sequence_no; revision 0002 has no counter: a number above those used.
Number ==
    IF revision >= 3 THEN run.last_sequence_no + 1 ELSE Max(Numbers \cup {0}) + 1

Count(n) ==
    run' = IF revision >= 3 THEN [run EXCEPT !.last_sequence_no = n] ELSE run

WriteToolCall ==
    /\ Writing
    /\ run # None
    /\ Number <= MaxNumber
    /\ \E row \in CallRows :
          /\ CallFits(revision, row)
          /\ tool_calls' = [n \in DOMAIN tool_calls \cup {Number} |->
                               IF n = Number THEN row ELSE tool_calls[n]]
    /\ Count(Number)
    /\ UNCHANGED <<revision, model_calls, agent_policy, doing, aside, leftover>>

WriteModelCall ==
    /\ Writing
    /\ revision >= 3
    /\ run # None
    /\ Number <= MaxNumber
    /\ model_calls' = model_calls \cup {Number}
    /\ Count(Number)
    /\ UNCHANGED <<revision, tool_calls, agent_policy, doing, aside, leftover>>

SetPolicy ==
    /\ Writing
    /\ revision >= 6
    /\ agent_policy' \in Policies
    /\ UNCHANGED <<revision, run, tool_calls, model_calls, doing, aside, leftover>>

\* "Remove them first": what a downgrade refuses is deleted by hand.
RemoveRun ==
    /\ Writing
    /\ run' = None
    /\ tool_calls' = NoCalls
    /\ model_calls' = {}
    /\ UNCHANGED <<revision, agent_policy, doing, aside, leftover>>

\* A migration that was cut off is finished, or undone, by hand: repeated, it
\* would meet its own table, or miss it.
CleanUp ==
    /\ leftover
    /\ leftover' = FALSE
    /\ UNCHANGED <<revision, rows, doing, aside>>
-----------------------------------------------------------------------------
(* A migration: up to where its transaction begins, and the transaction.   *)

\* The migration going on: that of the revision it leads to, or takes back.
Migration == IF doing = "upgrade" THEN revision + 1 ELSE revision

\* tool_calls are copied to a temporary table.
BeginUpgrade ==
    /\ doing = None
    /\ ~leftover
    /\ revision < 7
    /\ doing' = "upgrade"
    /\ aside' = tool_calls
    /\ UNCHANGED <<revision, rows, leftover>>

BeginDowngrade ==
    /\ doing = None
    /\ ~leftover
    /\ revision > 1
    /\ ~Refuses(revision)
    /\ doing' = "downgrade"
    /\ aside' = tool_calls
    /\ UNCHANGED <<revision, rows, leftover>>

\* Mutant of CallsKept: the rows that 0007 sets aside stay there.
CallsKeptAsideBy7 ==
    IF Migration = 7 THEN NoCalls
    ELSE IF Migration \in {3, 5} THEN aside ELSE tool_calls

\* The migrations that rebuild agent_runs put back what they set aside.
CallsKept == IF Migration \in {3, 5, 7} THEN aside ELSE tool_calls

\* Mutant of LastNumber: the rows are counted, as if they were 1..n.
LastNumberByCount(calls) == Cardinality(DOMAIN calls)

\* "Continue from n": COALESCE(MAX(sequence_no), 0).
LastNumber(calls) == Max(DOMAIN calls \cup {0})

Upgrade ==
    /\ doing = "upgrade"
    /\ revision' = revision + 1
    /\ tool_calls' = CallsKept
    /\ run' = IF revision + 1 = 3 /\ run # None
              THEN [run EXCEPT !.last_sequence_no = LastNumber(tool_calls')]
              ELSE run
    /\ doing' = None
    /\ aside' = NoCalls
    /\ UNCHANGED <<model_calls, agent_policy, leftover>>

\* The row and the call without the columns that the migration takes away.
RunWithout(m, row) ==
    IF m = 3 THEN [row EXCEPT !.last_sequence_no = 0]
    ELSE IF m = 5 THEN [row EXCEPT !.context = FALSE, !.proposal = None]
    ELSE row

CallWithout(m, row) ==
    IF m = 4 THEN [row EXCEPT !.observation = None]
    ELSE IF m = 7 THEN [row EXCEPT !.policy_decision = None]
    ELSE row

\* 0002 takes its tables with it, and 0003 model_calls.
Downgrade ==
    /\ doing = "downgrade"
    /\ revision' = revision - 1
    /\ tool_calls' = [n \in IF revision = 2 THEN {} ELSE DOMAIN CallsKept |->
                         CallWithout(revision, CallsKept[n])]
    /\ run' = IF revision = 2 \/ run = None THEN None
              ELSE RunWithout(revision, run)
    /\ model_calls' = IF revision \in {2, 3} THEN {} ELSE model_calls
    /\ agent_policy' = IF revision = 6 THEN "allow" ELSE agent_policy
    /\ doing' = None
    /\ aside' = NoCalls
    /\ UNCHANGED leftover

\* The migration's process stops, or its transaction fails: rolled back.
Fails ==
    /\ doing # None
    /\ doing' = None
    /\ aside' = NoCalls
    /\ UNCHANGED <<revision, rows, leftover>>

\* The same, but for the CREATE, DROP or ALTER TABLE it began with.
FailsMidway ==
    /\ doing # None
    /\ Migration \in {2, 3, 4, 6}
    /\ leftover' = TRUE
    /\ run' = IF doing = "downgrade" /\ revision = 2 THEN None ELSE run
    /\ tool_calls' = IF doing = "downgrade" /\ revision = 2 THEN NoCalls ELSE tool_calls
    /\ model_calls' = IF doing = "downgrade" /\ revision = 3 THEN {} ELSE model_calls
    /\ doing' = None
    /\ aside' = NoCalls
    /\ UNCHANGED <<revision, agent_policy>>

Migrate ==
    \/ BeginUpgrade
    \/ BeginDowngrade
    \/ Upgrade
    \/ Downgrade
    \/ Fails
    \/ FailsMidway

Write ==
    \/ WriteRun
    \/ WriteToolCall
    \/ WriteModelCall
    \/ SetPolicy
    \/ RemoveRun
    \/ CleanUp

Next == Migrate \/ Write

Spec == Init /\ [][Next]_vars
-----------------------------------------------------------------------------
(* Properties.                                                             *)

\* "Refuse rather than delete them": a downgrade refuses exactly when the
\* revision below has no column, CHECK or value for something that is stored.
\* So no migration meets a CHECK it breaks in the middle of its copying, and
\* none refuses a database that it could have taken down.
RefusesWhatDoesNotFit ==
    /\ AllFits(revision)
    /\ revision > 2 /\ doing = None
          => (Refuses(revision) <=> ~AllFits(revision - 1))

\* Whatever else a migration does or fails at, it keeps every run, tool call
\* and policy as it was, but for the counter; and every model call, unless it
\* takes 0003 back.
MigrationsForgetNothing ==
    [][ Migrate /\ ~(doing = "downgrade" /\ revision = 2) =>
          /\ run # None => /\ run' # None
                           /\ run' = [run EXCEPT !.last_sequence_no
                                          = run'.last_sequence_no]
          /\ run = None => run' = None
          /\ tool_calls' = tool_calls
          /\ agent_policy' = agent_policy
          /\ (doing = "downgrade" /\ revision = 3) \/ model_calls' = model_calls ]_vars

\* The next number of a trace is free, after any way up and down, also where
\* dropped model calls have left a gap among the tool calls.
NextNumberIsFree ==
    revision >= 3 /\ run # None => \A n \in Numbers : n <= run.last_sequence_no
=============================================================================
