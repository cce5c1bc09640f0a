-------------------------- MODULE AssignmentService --------------------------
(***************************************************************************)
(* AssignmentService and the request transaction around it, statement by   *)
(* statement, over SQLite.                                                 *)
(*                                                                         *)
(* Every SELECT of a request runs in autocommit and sees what is committed *)
(* at that instant. Its first INSERT or UPDATE takes the database's one    *)
(* write lock, held until the commit or rollback: nobody sees a row before *)
(* its transaction commits, and a second writer waits, or gives up after   *)
(* the busy timeout ("database is locked"). get_transaction commits when   *)
(* the endpoint returns, before the response is sent, and rolls back when  *)
(* it raises.                                                              *)
(*                                                                         *)
(* The module implements SeatLedger: see Ledger at the end.                *)
(***************************************************************************)
EXTENDS Naturals, Sequences, FiniteSets

CONSTANTS
    Users,
    Licences,
    SeatsTotal,    \* licences.seats_total
    ActiveUsers,   \* the users whose status is "active"
    Clients,       \* request handlers; a client's name is also its actor
    MaxRequests,   \* bound: requests each client makes
    None

Pairs == Users \X Licences

ASSUME AssignmentServiceAssumption ==
    /\ ActiveUsers \subseteq Users
    /\ MaxRequests \in Nat
    /\ IsFiniteSet(Users) /\ IsFiniteSet(Clients) /\ Clients # {}
    /\ SeatsTotal \in [Licences -> Nat]
    /\ None \notin Pairs \cup Clients \cup Nat

VARIABLES
    rows,       \* assignments, committed; a row's id is its index
    audit,      \* audit_events, committed
    lock,       \* who holds the write lock, or None
    clock,      \* utcnow: every reading is later than the one before
    pc,         \* the next statement of each client's request
    target,     \* assign: the pair asked for; revoke: the row's id
    stamp,      \* revoke: the revoked_at the request will write
    answer,     \* the response of the client's last request
    requests    \* requests the client has made

vars == <<rows, audit, lock, clock, pc, target, stamp, answer, requests>>

Assigning == {"check", "count", "insert", "audit_create", "commit_create"}
Revoking  == {"read", "update", "audit_revoke", "commit_revoke"}

IsActive(i) == rows[i].revoked_at = None
RowIds == DOMAIN rows

\* get_active, and what uq_assignments_active_user_licence keeps to one row.
ActiveRows(p) ==
    {i \in RowIds : IsActive(i) /\ <<rows[i].user, rows[i].licence>> = p}

\* count_active_for_licence
SeatsUsed(l) == Cardinality({i \in RowIds : IsActive(i) /\ rows[i].licence = l})

\* Mutant of HasFreeSeat: seats_used > seats_total is what is refused.
HasFreeSeatOffByOne(l) == SeatsUsed(l) <= SeatsTotal[l]

HasFreeSeat(l) == SeatsUsed(l) < SeatsTotal[l]
-----------------------------------------------------------------------------
(* The steps every request shares.                                         *)

Goto(c, next) == pc' = [pc EXCEPT ![c] = next]

\* The request is over: whatever it locked is free, and the client has its
\* answer.
Answer(c, what) ==
    /\ Goto(c, "idle")
    /\ answer' = [answer EXCEPT ![c] = what]
    /\ lock' = IF lock = c THEN None ELSE lock
    /\ target' = [target EXCEPT ![c] = None]
    /\ stamp' = [stamp EXCEPT ![c] = None]

\* The endpoint raises: get_transaction rolls back, nothing is committed, and
\* the client is told what went wrong.
Refuse(c, why) ==
    /\ Answer(c, <<why, None>>)
    /\ UNCHANGED <<rows, audit, clock, requests>>

Init ==
    /\ rows = <<>>
    /\ audit = <<>>
    /\ lock = None
    /\ clock = 0
    /\ pc = [c \in Clients |-> "idle"]
    /\ target = [c \in Clients |-> None]
    /\ stamp = [c \in Clients |-> None]
    /\ answer = [c \in Clients |-> <<"none", None>>]
    /\ requests = [c \in Clients |-> 0]

Begin(c, first, what) ==
    /\ pc[c] = "idle"
    /\ requests[c] < MaxRequests
    /\ Goto(c, first)
    /\ target' = [target EXCEPT ![c] = what]
    /\ answer' = [answer EXCEPT ![c] = <<"none", None>>]
    /\ requests' = [requests EXCEPT ![c] = @ + 1]
    /\ UNCHANGED <<rows, audit, lock, clock, stamp>>

\* Mutant of BeginRevoke: Path(ge=1) is missing.
BeginRevokeAnyId(c) == \E i \in 0 .. (Len(rows) + 1) : Begin(c, "read", i)

\* POST /assignments and POST /assignments/{id}/revoke. An id just past the
\* last row stands for every id that is not a row's.
BeginAssign(c) == \E p \in Pairs : Begin(c, "check", p)
BeginRevoke(c) == \E i \in 1 .. (Len(rows) + 1) : Begin(c, "read", i)
-----------------------------------------------------------------------------
(* assign_licence                                                          *)

\* The user's status, the licence and the user's active assignment are read.
CheckUser(c) ==
    /\ pc[c] = "check"
    /\ IF target[c][1] \notin ActiveUsers
       THEN Refuse(c, "user_inactive")
       ELSE IF ActiveRows(target[c]) # {}
       THEN Refuse(c, "already_exists")
       ELSE /\ Goto(c, "count")
            /\ UNCHANGED <<rows, audit, lock, clock, target, stamp, answer,
                           requests>>

CountSeats(c) ==
    /\ pc[c] = "count"
    /\ IF ~HasFreeSeat(target[c][2])
       THEN Refuse(c, "no_seats_available")
       ELSE /\ Goto(c, "insert")
            /\ UNCHANGED <<rows, audit, lock, clock, target, stamp, answer,
                           requests>>

\* Mutant of InsertAssignment: no unique index, as if the check sufficed.
InsertUnchecked(c) ==
    /\ pc[c] = "insert"
    /\ lock = None
    /\ lock' = c
    /\ Goto(c, "audit_create")
    /\ UNCHANGED <<rows, audit, clock, target, stamp, answer, requests>>

\* The INSERT takes the write lock, or meets the unique index: another request
\* may have assigned the same licence to the same user since CheckUser.
InsertAssignment(c) ==
    /\ pc[c] = "insert"
    /\ lock = None
    /\ IF ActiveRows(target[c]) # {}
       THEN Refuse(c, "already_exists")
       ELSE /\ lock' = c
            /\ Goto(c, "audit_create")
            /\ UNCHANGED <<rows, audit, clock, target, stamp, answer, requests>>

\* Mutant of AddCreateEvent: the response leaves before the commit, as with a
\* dependency of the default "request" scope.
AnswerBeforeCommit(c) ==
    /\ pc[c] = "audit_create"
    /\ Goto(c, "commit_create")
    /\ answer' = [answer EXCEPT ![c] = <<"assigned", Len(rows) + 1>>]
    /\ UNCHANGED <<rows, audit, lock, clock, target, stamp, requests>>

\* Mutant of AddCreateEvent: the event is written through a session of its
\* own, which waits for the lock the request holds.
AuditInOwnSession(c) ==
    /\ pc[c] = "audit_create"
    /\ lock = None
    /\ Goto(c, "commit_create")
    /\ UNCHANGED <<rows, audit, lock, clock, target, stamp, answer, requests>>

\* AuditEventRepository.add: part of the same transaction, so seen with it.
AddCreateEvent(c) ==
    /\ pc[c] = "audit_create"
    /\ Goto(c, "commit_create")
    /\ UNCHANGED <<rows, audit, lock, clock, target, stamp, answer, requests>>

\* Mutant of RowsAssigned: a row the user once held is made active again.
RowsReactivated(c) ==
    LET earlier == {i \in RowIds : <<rows[i].user, rows[i].licence>> = target[c]}
    IN  IF earlier = {}
        THEN Append(rows, [user |-> target[c][1], licence |-> target[c][2],
                           revoked_at |-> None])
        ELSE [rows EXCEPT ![CHOOSE i \in earlier : TRUE].revoked_at = None]

\* The assignments with the request's new row.
RowsAssigned(c) ==
    Append(rows, [user |-> target[c][1], licence |-> target[c][2],
                  revoked_at |-> None])

\* Commit: the row and its event become visible together; then the response.
CommitAssign(c) ==
    /\ pc[c] = "commit_create"
    /\ rows' = RowsAssigned(c)
    /\ audit' = Append(audit, [action |-> "assignment.create",
                               entity_id |-> Len(rows) + 1, actor |-> c,
                               revoked_at |-> None])
    /\ Answer(c, <<"assigned", Len(rows) + 1>>)
    /\ UNCHANGED <<clock, requests>>
-----------------------------------------------------------------------------
(* revoke_assignment                                                       *)

\* The row is read and the time it will be revoked at is taken, before the
\* UPDATE asks for the write lock.
ReadAssignment(c) ==
    /\ pc[c] = "read"
    /\ IF target[c] \notin RowIds
       THEN Refuse(c, "not_found")
       ELSE IF ~IsActive(target[c])
       THEN Refuse(c, "already_revoked")
       ELSE /\ stamp' = [stamp EXCEPT ![c] = clock + 1]
            /\ clock' = clock + 1
            /\ Goto(c, "update")
            /\ UNCHANGED <<rows, audit, lock, target, answer, requests>>

\* mark_revoked: the UPDATE names the row by its id alone.
UpdateAssignment(c) ==
    /\ pc[c] = "update"
    /\ lock = None
    /\ lock' = c
    /\ Goto(c, "audit_revoke")
    /\ UNCHANGED <<rows, audit, clock, target, stamp, answer, requests>>

AddRevokeEvent(c) ==
    /\ pc[c] = "audit_revoke"
    /\ Goto(c, "commit_revoke")
    /\ UNCHANGED <<rows, audit, lock, clock, target, stamp, answer, requests>>

\* Mutant of RowsRevoked: the UPDATE keeps the revoked_at of an earlier revoke.
RowsRevokedOnce(c) ==
    IF IsActive(target[c])
    THEN [rows EXCEPT ![target[c]].revoked_at = stamp[c]]
    ELSE rows

\* The assignments with the request's row revoked, again if need be.
RowsRevoked(c) == [rows EXCEPT ![target[c]].revoked_at = stamp[c]]

CommitRevoke(c) ==
    /\ pc[c] = "commit_revoke"
    /\ rows' = RowsRevoked(c)
    /\ audit' = Append(audit, [action |-> "assignment.revoke",
                               entity_id |-> target[c], actor |-> c,
                               revoked_at |-> stamp[c]])
    /\ Answer(c, <<"revoked", target[c]>>)
    /\ UNCHANGED <<clock, requests>>
-----------------------------------------------------------------------------
(* What can go wrong, and the whole.                                       *)

\* The busy timeout: another writer holds the lock for too long.
LockTimeout(c) ==
    /\ pc[c] \in {"insert", "update"}
    /\ lock \notin {None, c}
    /\ Refuse(c, "error")

\* The audit insert or the commit fails, or the endpoint raises otherwise.
Fail(c) ==
    /\ pc[c] \in {"audit_create", "commit_create", "audit_revoke",
                  "commit_revoke"}
    /\ Refuse(c, "error")

\* A request that has begun goes on.
Proceed(c) ==
    \/ CheckUser(c)
    \/ CountSeats(c)
    \/ InsertAssignment(c)
    \/ AddCreateEvent(c)
    \/ CommitAssign(c)
    \/ ReadAssignment(c)
    \/ UpdateAssignment(c)
    \/ AddRevokeEvent(c)
    \/ CommitRevoke(c)
    \/ LockTimeout(c)

Next ==
    \E c \in Clients :
        \/ BeginAssign(c)
        \/ BeginRevoke(c)
        \/ Proceed(c)
        \/ Fail(c)

Spec == Init /\ [][Next]_vars

\* Every handler thread is scheduled and no statement blocks for ever: SQLite
\* answers, or the busy timeout does.
FairSpec == Spec /\ \A c \in Clients : WF_vars(Proceed(c))
-----------------------------------------------------------------------------
(* Properties.                                                             *)

Row == [user : Users, licence : Licences, revoked_at : Nat \cup {None}]

Event == [action : {"assignment.create", "assignment.revoke"},
          entity_id : Nat \ {0}, actor : Clients,
          revoked_at : Nat \cup {None}]

TypeOK ==
    /\ rows \in Seq(Row)
    /\ audit \in Seq(Event)
    /\ lock \in Clients \cup {None}
    /\ clock \in Nat
    /\ pc \in [Clients -> Assigning \cup Revoking \cup {"idle"}]
    /\ \A c \in Clients :
          /\ pc[c] \in Assigning => target[c] \in Pairs
          /\ pc[c] \in Revoking => target[c] \in Nat \ {0}
          /\ stamp[c] \in Nat \cup {None}
    /\ requests \in [Clients -> 0 .. MaxRequests]

Creates(i) == {n \in DOMAIN audit :
                  audit[n].action = "assignment.create" /\ audit[n].entity_id = i}
Revokes(i) == {n \in DOMAIN audit :
                  audit[n].action = "assignment.revoke" /\ audit[n].entity_id = i}

\* The audit log tells the whole history of the assignments: every row has
\* exactly one create event, a row is revoked exactly if it has a revoke
\* event, and its revoked_at is the one the last such event reports ("Built
\* from the same value just written to the row"), whoever ran in between.
AuditTellsTheRows ==
    /\ \A i \in RowIds :
          /\ Cardinality(Creates(i)) = 1
          /\ IF Revokes(i) = {}
             THEN IsActive(i)
             ELSE \E n \in Revokes(i) :
                     /\ \A m \in Revokes(i) : m <= n
                     /\ audit[n].revoked_at = rows[i].revoked_at
    /\ \A n \in DOMAIN audit : audit[n].entity_id \in RowIds

\* Never two active assignments of one licence to one user, though the check
\* for it runs long before the insert.
OneActiveAssignment == \A p \in Pairs : Cardinality(ActiveRows(p)) <= 1

\* A client told that its change was made can rely on it: the commit comes
\* before the response (scope="function" in api/deps.py). The row it is told
\* of exists and the audit log names the client for that very change.
AnswerIsCommitted ==
    \A c \in Clients :
        /\ answer[c][1] = "assigned" =>
              \E n \in Creates(answer[c][2]) : audit[n].actor = c
        /\ answer[c][1] = "revoked" =>
              \E n \in Revokes(answer[c][2]) : audit[n].actor = c

\* History is kept: no committed row or event is ever removed or rewritten,
\* but for a row's revoked_at, and a revoked row is never active again.
HistoryIsKept ==
    [][ /\ Len(audit') >= Len(audit)
        /\ SubSeq(audit', 1, Len(audit)) = audit
        /\ Len(rows') >= Len(rows)
        /\ \A i \in RowIds :
              /\ rows'[i].user = rows[i].user
              /\ rows'[i].licence = rows[i].licence
              /\ ~IsActive(i) => rows'[i].revoked_at # None ]_vars

\* "The later timestamp wins on the row" (revoke_assignment's docstring, of
\* two concurrent revokes): a row's revoked_at is the latest one any revoke of
\* it wrote.
LaterTimestampWins ==
    \A i \in RowIds : \A n \in Revokes(i) :
        audit[n].revoked_at <= rows[i].revoked_at

\* Every request is answered, however the writers queue for the lock.
EveryRequestIsAnswered == \A c \in Clients : pc[c] # "idle" ~> pc[c] = "idle"

\* The seat ledger this implements: a pair is held while a row of it is
\* active, and a request holds a claim from its seat count to its commit.
Held == {<<rows[i].user, rows[i].licence>> : i \in {j \in RowIds : IsActive(j)}}

Passed ==
    [c \in Clients |->
        IF pc[c] \in {"insert", "audit_create", "commit_create"} THEN target[c]
        ELSE None]

Ledger == INSTANCE SeatLedger WITH held <- Held, passed <- Passed

\* The service, however its requests interleave, does nothing the seat ledger
\* does not allow; so it overfills a licence by less than one seat per
\* concurrent request.
ImplementsSeatLedger == Ledger!Spec
=============================================================================
