# A verification of SaaS Agent Lab in TLA+

SaaS Agent Lab is a small business application (users, licences, seats, an audit
log) in which an *agent run* carries out one instruction: a model extracts what
is asked, the application resolves it to rows, a second model chooses among four
tools, and the application verifies the result against its own state. The code
is `src/src/app`. This directory holds TLA+ modules of that program, the TLC
runs that check them on small instances, and TLAPS proofs of the properties that
matter most. `PROJECT.json` lists the runs, the mutants, the source lines of
every definition, the hazards and the theorems.

    tlc -config MCAgentExecutor.cfg MCAgentExecutor     # a run
    tlapm AgentExecutorProofs.tla                       # the proofs

## Inventory

| Part | State it keeps | Operations | How it meets the others |
|---|---|---|---|
| Assignment service (`services/assignments.py`, `repositories/assignments.py`, `api/assignments.py`, `api/deps.py`) | `assignments`, `audit_events` | assign, revoke, lists | called by HTTP requests, each in `get_transaction`, and by a run's tool calls, each in a business transaction |
| Users, licences, resolver (`services/users.py`, `services/licences.py`, `agent/resolver.py`) | `users`, `licences`, `audit_events` | create, look up, resolve | resolution reads both tables for a run |
| Agent executor (`agent/executor.py`, `decision.py`, `tools.py`, `policy.py`, `verifier.py`) | `agent_runs`, `model_calls`, `tool_calls` | receive, extract, resolve, decide, call a tool, verify, end | drives the planners, which call back (`call_tool`, `before_request`, `record`); takes seats through the assignment service |
| Decision loop (`agent/pydantic_ai_decision.py`, `model_requests.py`, `planner.py`) | a conversation, in memory | request, check, record, call tools, conclude | called by the executor, calls it back |
| Intent extraction (`agent/pydantic_ai_planner.py`, `planner.py`) | a conversation, in memory | request, check, record | called by the executor, which records what it says |
| Run reader (`agent/runs.py`, `schemas/agent_runs.py`, `api/agent_runs.py`) | none | GET a run and its trace | reads while a run may go on |
| Schema (`models/`, `alembic/`) | constraints and indexes; the revision a database is at | upgrade, downgrade | refuses what the others write wrongly; carries their rows from revision to revision |
| Wiring (`core/`, `main.py`, `api/health.py`) | settings, the engine | | |

What is hard in this code:

* **Interleaving.** Every `SELECT` of a request or of a run sees what is
  committed at its own instant, and no lock is held between a check and the
  write that relies on it. Seats are counted and then taken; policy is read in
  one transaction and the mutation runs in another; the verifier, the block
  check and the outcome are three.
* **Failure between commits.** A tool call is three transactions: admit, run,
  record. A crash or a failing commit between them leaves a change without an
  outcome.
* **A callee that may do anything.** A planner calls back in any order. It
  should let `DecisionStopped` through; the executor means to be safe if it does
  not.
* **Limits and endings.** Requests and calls count whatever became of them, and
  every way out of the loop must settle the run. An extraction has no counter at
  all: its retry budget has to bound it.
* **Data in old shapes.** A downgrade meets rows that the revision below cannot
  store; an upgrade copies a trace aside, and goes on with its numbering.

## Modules

    SeatLedger  <---- AssignmentService         Directory
        ^  (refines)       (statements, write lock)
        |
    AgentExecutor ----> RunLifecycle        PlannerProtocol <---- DecisionLoop
        ^   EXTENDS AgentDomain <---- Migrations     (refines)       ^
        |                    (extends)                               | (refines)
        +-- VerdictHistory, RunReader (extend it)                    |
        +-- DrivenRun (extends it) ----------------------------------+
                    +----> IntentExtraction (refines)

* **SeatLedger**: what the assignments promise. `held` is the set of active
  assignments; `passed` is, per client, the pair for which it has found a free
  seat. Counting (`PassSeatCheck`) and taking (`TakeSeat`) are separate steps,
  because they are in `assign_licence`.
* **AssignmentService**: `assign_licence` and `revoke_assignment` with the
  request transaction around them. `rows` and `audit` are the committed tables;
  `lock` is SQLite's one write lock, taken by the first INSERT or UPDATE and held
  to the commit; `clock` is `utcnow`. Each statement is one action; `Fail` and
  `LockTimeout` are the errors that roll back. It refines SeatLedger:
  `ImplementsSeatLedger`.
* **AgentDomain**: statuses, reasons, the domain rules table, `Observe`,
  `DecisionOutcome`, and the CHECK constraints. No state. A domain error that no
  row of this application can cause (its user or licence is never deleted) is
  folded into `unexpected_error`: the executor treats the two alike.
* **RunLifecycle**: what a run's row promises its readers, the transition table
  in the docstring of `AgentRunStatus`, with the change a run makes and what its
  ending says of it.
* **AgentExecutor**: any number of runs. `run`, `model_calls`, `tool_calls` are
  the tables; `held` and `changed_by` what is committed of the business and of
  the audit trail with actor `agent:run-<id>`; `policy` and `inactive` what an
  operator may edit (no code of the application writes either after creation);
  `pc`, `call`, `outcome`, `raised`, `verdict` the memory a crash loses. One
  action per transaction. `raised` is the exception being raised to the planner;
  with `IgnoresStops` the planner may carry on all the same.
* **VerdictHistory**: the executor with a history variable, to say what a
  verdict is about.
* **PlannerProtocol** and **DecisionLoop**: how a planner may use what the
  executor hands it, and `PydanticAIDecisionPlanner.decide`, which keeps to it.
  The executor accepts more than this protocol; the loop does no more than it.
* **IntentExtraction**: `PydanticAIIntentPlanner.plan`, and what
  `_record_extraction` makes of its result. A text is told by what it is to the
  instruction: copied from it, invented, or blank.
* **DrivenRun**: the executor, where a planner may do anything, with
  IntentExtraction and DecisionLoop as what it does. Control is inverted while a
  planner runs, so each callback is one step of both: the executor's action and
  the loop's, which must agree on what was recorded and answered. That a run under
  the application's own planners settles, and that its trace tells their
  conversations, are statements about this composition.
* **RunReader**: `GET /agent-runs/{id}`, three SELECTs, over AgentExecutor, with
  `outcome_detail` as each ending writes it, and the answer that
  `AgentRunDetail.of` makes: part of the detail is internal, and what is shown has
  to account for the outcome all the same.
* **Migrations**: the revisions 0001 to 0007, one step up or down at a time, under
  a run, its trace and a licence's policy. Rows are what the CHECKs of a revision
  accept, since nothing else is known of older applications. A migration has two
  steps, as SQLite opens the transaction at its first change of a row: what was
  looked at and set aside before, and the rest; it may fail between them, with
  what its first DDL did left over.
* **Directory**: creation of users and licences by check, insert and commit, and
  `resolve_assignment_goal`, two SELECTs. A text is a word with its case and
  its outer whitespace, which is what the lookups tell apart.
* **MC...** modules give small instances; the **...Proofs** modules hold the
  theorems.

Operators called "Mutant of X" in a module change X as a plausible bug would;
nothing uses them. Each property comes with one that breaks it.

## Runs

| Run | What it asks | Instance |
|---|---|---|
| MCSeatLedger | How far can count-then-insert overfill a licence? By fewer seats than there are clients (`OverfillBounded`, inductive form `ClaimsBounded`). | 3 clients, 3 users, a licence with one seat and one with none |
| MCAssignmentService | Do rows and audit events agree, is there one active assignment per pair, is what is answered committed, is history kept, is the ledger refined, is every request answered? | 2 clients, 3 requests each, 3 users (one inactive), one seat |
| MCAgentExecutor | One run: trace order, accounting of changes, truth of the outcome, limits, constraints, endings. Holds for planners that ignore stops. | 1 run, 1 person, 1 operator, 2 users, 1 seat, 1 extraction request, 1 request, 1 read, 1 mutation |
| MCTwoRuns | Two runs race for one seat: is the seat ledger kept (`KeepsSeatLedger`), and the lifecycle (`FollowsLifecycle`)? Was what an outcome says true at an instant of the verification (`VerdictWasTrue`)? | 2 runs, 1 operator, 2 users, 1 seat, planners that heed stops |
| MCDrivenRun | A run under its own planners: does the trace tell the conversation, down to which call was asked for when (`TraceTellsTheConversation`), is the extraction bounded and the goal grounded, does every received run end or come to wait for approval (`RunsSettle`)? | 1 run, 1 person, 1 operator, 1 seat; 3 decision requests, 1 retry of each planner, 1 read, 1 mutation; every response that differs in what becomes of it |
| MCDecisionLoop | Are tools called as asked, none next to a conclusion, all requests counted, does the loop end, does it keep the protocol? | 3 requests, 1 retry, responses of up to 2 calls |
| MCRunReader | Can three SELECTs at three instants contradict each other (`AnswerIsConsistent`, `AnswerHasTheTrace`)? Does what is shown of the detail still account for the outcome (`AnswerTellsTheOutcome`)? No, and yes. | 1 run, one GET |
| MCDirectory | One row per key, creations audited and answered truly, resolutions true at some instant. | 2 clients, 3 requests, 1 resolution, every spelling of one word |
| MCMigrations | Does a downgrade refuse exactly what the revision below cannot store, does a migration that commits, fails or stops keep everything else, and is the next trace number free after it? | every row that the CHECKs accept, of one run, one tool, two trace numbers; failures midway |
| MCLabelledRuns, MCPausedRun, MCRevokeRace | Statements of the code's own comments that the code does not keep: see Findings. | |

**Bounds.** Named constants bound what grows: requests per client
(`MaxRequests` in AssignmentService and Directory), the limits themselves in the
executor and the loop (6, 6 and 1 in the code, smaller in the runs; 1 is the
code's own limit of mutations), tool calls per response (`MaxParts`), result calls per
response (`MaxResults`), numbers of a migrated trace (`MaxNumber`), and the
responses and rows tried (`Extractions`, `Answers`, `RunRows`, `CallRows`). The
limits are compared, never computed with, so a limit of 1 or 2 meets each
boundary; a limit of 0 appears where a run asks another question and leaves that
part out. MCDrivenRun lets the executor record up to three extraction requests,
one more than the retry budget allows, so that `ExtractionIsBounded` is derived
from the retries and not assumed. `Extractions` and `Answers` have one response
for each way of accepting, rejecting, or leaving one. One seat is the smallest licence that can be
full or overfilled, and two clients beyond it the smallest race. Three
requests per client give assign, revoke and assign again. Two numbers are enough for a
trace with a gap: a model call that 0003 drops, before a tool call that stays.
`SYMMETRY` is used only over ids nothing compares.

**Deadlock** is not checked where the modelled system may rightly stop: all
runs have ended, all requests are made, or a process has crashed. `FairSpec` and the
liveness properties say what must happen instead.

**Fairness.**

* AssignmentService: weak fairness of each client's statements. SQLite's busy
  timeout ends every wait for the lock, and the lock's holder goes on.
* DrivenRun: no crash, and weak fairness of `GoesOn`: the driver or its planner,
  whichever has control, takes its step. Model requests have timeouts
  (`planner_timeout_seconds`), and no statement waits for ever. Faults may happen
  and need not. That the executor refuses the loops no call and no proposal they
  make is part of what `RunsSettle` shows: a refused step would be a run that is
  stuck.
* DecisionLoop: weak fairness of the loop's own steps; a failing log is not
  among them.

**Findings.** Three statements of comments in the code that a run refutes:

* `MCLabelledRuns`: a run whose mutation has committed, but whose outcome could not
  be recorded, is ended FAILED by `_end_decision` with the call still STARTED and the
  change in place, although the module docstring of `executor.py` says that such a
  run "is never labelled without knowing whether it made a change". What does hold, and is proved, is that it is
  never *verified* and makes no other call (`UnfinishedCallIsTheLast`), and
  that no completed run is labelled wrongly (`OutcomeTellsTheChange`).
* `MCPausedRun`: with a planner that ignores stops, `before_request` at the limit
  ends a run that awaits approval; "Nothing leaves AWAITING_APPROVAL yet".
* `MCRevokeRace`: of two concurrent revokes, the earlier timestamp can stay on the
  row; "the later timestamp wins on the row".

Three more remarks that no run is spent on. A planner that ignores stops can also
have requests recorded on an ended run: its row keeps everything but
`last_sequence_no`, and `EndedStaysEnded` says just that. And `is_timeout` goes
by class names, so a timeout of the database pool inside the loop is reported as
the provider's; both labels are FAILED, and the model allows either. Last,
on SQLite the transaction of 0003, 0005 and 0007 begins at their DELETE, after the
copy and the refusing SELECT: what an application wrote in between would be lost,
or not refused (`Live = TRUE` in Migrations). The repository's readme runs
`alembic upgrade head` before the server, so the runs and theorems have
`Live = FALSE`.

## Proofs

All theorems hold for every value of the constants that satisfies the modules'
assumptions: finite sets of users, runs and people, natural numbers for seats and
limits, and `None` different from everything else; that it differs from what
is raised and from each JSON value is assumed by name, where it is needed
(`RaisedAssumption`, `DetailAssumption`). DrivenRun assumes what RECORDED_NAMES
says: its keys are the target tools that read, none of them a name of another tool or of
a conclusion, and its values are the names the executor records reads under
(`DrivenRunAssumption`). Theorems that need more say so in their statement, and below.

*SeatLedgerProofs.* `OverfillBounded` is not inductive, since it does not know how
many clients have passed the check. `ClaimsBounded` counts the seats in use and
the claims on them together: a check adds a claim only while a seat is free, and
taking a seat turns a claim into a seat. There are at most as many claims as
clients, so the sum stays below `SeatsTotal + |Clients|`. `AloneNeverOverfills` is
the case of one client, where the seat check is exact.

*AgentExecutorProofs.* `TraceInv` is inductive. Its parts that are not properties
in their own right are there because the others need them: the driver knows its
run's status at each `pc` (`DriverKnowsItsRun`), whatever a planner does; a row has
what its status needs (`RowHasWhatItNeeds`); a call in flight is STARTED, and has
changed something exactly if its business transaction has committed
(`CallInFlightIsStarted`); mutations that ran were allowed
(`StartedMutationsWereAllowed`); a verdict in the making knows of the change
(`VerdictKnowsTheChange`). The proof has three layers: `TypeStep`, `DriverStep`, and
`TraceStep`, in which each action is one of nine kinds of step of one run's
values. From it follow `TypeCorrect`, `OneOrder`, `ChangesAreTraced`,
`OutcomesAreTrue` and `NothingAfterUnfinished`; and `ImplementsSeatLedger`, that
every step of the executor is a step of the seat ledger or a stutter. What is
proved of the ledger then holds of the runs: `SeatLedgerProofs` is instantiated
with their seats, and `SeatsAreBounded` and `AloneNeverOverfills` are its theorems
read back.

*RunEndingProofs*, on the same invariant. Every step leaves a run's rows alone, or
counts one more request, or is of a run that has not ended (`StepsOfRuns`); so a
completed run keeps its row but for the counter (`EndedIsFinal`), and
`completed_at` is set exactly when the status is final (`EndingsAreTimed`).
`LimitsAreKept` adds that a request in flight is not yet on the trace, so that
the requests on it *and* the one in flight are within the limit. `RowsAlwaysPass`
adds what a row's CHECKs need before the step that writes it: no goal while
extracting, a goal while resolving, a context while executing, no verdict whose
reason does not go with its status, and no STARTED call that was denied.
`RunsReturnSettled` holds where `MaxMutations <= 1`, as in the code (with two, a run
could change something and then be held): a planner at work has a run that
executes or is settled behind its back, and DecisionStopped is raised only on a
settled run (`Settling`). `RunsFollowLifecycle` needs planners that heed stops as
well, since `MCPausedRun` shows a run that awaits approval ended by one that
does not: a waiting run is one whose driver has returned, is about to, or is gone
(`LeftWaiting`), and the mutation in flight is the first one the run attempted
(`NothingChangedBefore`), by the limit and the CHECKs.

The same module proves what is told of an ending. `RunsAreJudged` says that a
verdict goes by a finished trace and by its latest attempt, which the CHECKs alone do
not say. `VerdictsWereTrue` follows, over VerdictHistory: `VerdictsGoByFacts` keeps
that the facts of this instant have been witnessed while the run is verified, that
the verdict in the making goes by witnessed ones, and that a row which claims them
has them; only `Conclude` claims anything (`OnlyVerdictsClaim`), and the history
changes no step of the executor, so that its invariants carry over. For RunReader,
`EndingsAreTold` says that the detail of an ended run is what some verdict leaves of
it, or has no verification and a limit that is reached, and that it stays so, since
the trace only grows and a row ends once. `ReaderInv` says, SELECT by SELECT, what
is still true of a row read earlier: its number is passed, its ending is final, its
held call is on the trace. Both together give `AnswersHaveTheTrace`,
`AnswersAreConsistent` and `AnswersTellTheOutcome`.

*AssignmentServiceProofs.* `ServiceInv` adds to the properties who holds the lock
(`RequestFits`): what an INSERT or UPDATE met stays so until its commit, since
nobody else can write. From it follow the audit trail, the one active assignment,
the committed answers, the kept history and the types; `LedgerIsImplemented` maps a
commit to taking or releasing a seat, a passed count to `PassSeatCheck`, and every
other statement to a stutter. `RowsAreBounded` takes the ledger's bound back to the
rows: there are as many active rows of a licence as users who hold it, by
`OneActiveAssignment` (`SeatsAreCounted`).

*DecisionLoopProofs.* `LoopInv` says that what has been called, followed by the
rest of the batch, is what was asked for, and that one request at most is not on
the trace. The protocol's refinement follows action by action.

*DrivenRunProofs.* A driven run is a behaviour of AgentExecutor
(`DrivenIsExecuted`), of IntentExtraction (`ExtractionIsHeld`) and of DecisionLoop
(`DecisionIsHeld`), so all that is proved of those holds of it. The bound on the
extraction needs that, while it lasts, the recorded requests are the rejected
ones (`OnlyRejectionsSoFar`), which in turn needs the executor's trace numbers to
be fresh: `TraceInv`, carried over by the first theorem. `GoalsAreGrounded` follows
the goal back to the planner that returned it (`GoalFromPlanner`): a planner that is
done does not change its answer, and no other write of the run sets a goal.
DecisionLoopProofs is instantiated too, for `DrivenRequestsCounted`,
`DrivenKeepsProtocol` and the invariant of the loop.

`TraceTellsIt` relates the two sides at last. Its invariant has two parts.
`Conversation` is what the loops know of the trace: nothing of a decision is on it
before the decision begins, the accepted answer is the last of the extraction, tools
are called only after an accepted answer, a call the model was not told of and a
proposal end the loop, and entries come in that order. `CallsAsAsked` counts: the
k-th call on the trace is the k-th that accepted answers asked for, the batch that
waits comes next in `asked`, and while a call is in flight the trace has one call
more than the loop has counted. Each step
is one of four kinds (`TraceRests`, a request recorded, a call added, a call given its
outcome), so that the places of earlier calls are kept.

*DirectoryProofs.* `DirectoryInv` adds the lock, as above, and counts: as many
create events of a table as rows of it at every instant (`RowsAreCounted`), which
makes the rows of an instant a prefix of those of today. `ResolutionsAreTrue`
has one instant to find for two SELECTs. If the first found a user, it is still the
only one at the second, which is then the instant; if it found none, the answer
does not depend on licences, and the first is.

*MigrationsProofs*, for `~Live`. `MigrationsInv`: what is set aside is what there is,
a migration going on is one that may, and all that is stored fits the revision.
`RefusalsAreExact` compares each downgrade's SELECT with what the revision below
can store; the other two follow from the invariant.

*Only model-checked:* liveness (`RunsSettle`, `EveryRequestIsAnswered`,
`LoopEnds`), which is beyond the prover, as it needs ENABLED; and the three comments
that are refuted, each by a run. Every other property of a run is
the statement of a theorem.

## Not modelled

* PydanticAI, FastAPI, SQLAlchemy and SQLite, beyond what the application relies
  on: one writer at a time, reads at their instant, unique indexes, sequential tools,
  function-scoped dependencies. Whether PydanticAI's retry budget starts again
  after an accepted response is left open in DecisionLoop.
* Two drivers of one run: the docstring of the executor excludes them, and
  `AgentRuns.start` makes one.
* Crashes of a driven run. AgentExecutor has them, and they only cut a trace
  short; a run is not resumed after one.
* Prompts, the wording and redaction of observations and of the public trace;
  how `ungrounded_fields` compares two texts, which IntentExtraction takes as given.
* What 0001 creates, as a migration: Directory and AssignmentService are about
  those tables. Types and names of columns and constraints.
* Configuration, health, wiring, and the other GET endpoints (users, licences,
  assignments), which change nothing.

## Plan

Done: SeatLedger and its proofs; AssignmentService; AgentDomain, AgentExecutor,
RunLifecycle and AgentExecutorProofs; VerdictHistory; DecisionLoop; RunReader;
Directory; then IntentExtraction, DrivenRun, Migrations, the projection of RunReader,
and the proofs of endings, assignment service, decision loop, driven run,
directory and migrations; last, those of verdicts, of what a reader is told, of the
trace as the tale of a conversation, and the bounds taken from the seat ledger.

Left: AssignmentService under Directory's creations, sharing the write lock. Neither
reads what the other writes while it runs, so only waiting is at stake.
