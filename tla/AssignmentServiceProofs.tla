----------------------- MODULE AssignmentServiceProofs -----------------------
(***************************************************************************)
(* The assignment service for any number of clients, requests, users,      *)
(* licences and seats: the audit trail tells the rows, an answer is        *)
(* committed, a pair has one active row, history is kept, and the service  *)
(* implements the seat ledger.                                             *)
(***************************************************************************)
EXTENDS AssignmentService, SequenceTheorems, FiniteSetTheorems, TLAPS

(* The invariant.                                                          *)

Writing == {"audit_create", "commit_create", "audit_revoke", "commit_revoke"}

Answers ==
    {"none", "user_inactive", "already_exists", "no_seats_available",
     "not_found", "already_revoked", "error", "assigned", "revoked"}

ServiceTypes ==
    /\ rows \in Seq(Row)
    /\ audit \in Seq(Event)
    /\ lock \in Clients \cup {None}
    /\ clock \in Nat
    /\ pc \in [Clients -> Assigning \cup Revoking \cup {"idle"}]
    /\ target \in [Clients -> Pairs \cup Nat \cup {None}]
    /\ stamp \in [Clients -> Nat \cup {None}]
    /\ answer \in [Clients -> Answers \X (Nat \cup {None})]
    /\ requests \in [Clients -> 0 .. MaxRequests]

\* What a request is about; that it holds the lock once it has written; that
\* what its INSERT met is so until the commit, since nobody else writes; and
\* that a revoke that goes on has read a row, and the time.
RequestFits(c) ==
    /\ pc[c] \in Assigning => target[c] \in Pairs
    /\ pc[c] \in Revoking => target[c] \in Nat \ {0}
    /\ pc[c] \in Writing => lock = c
    /\ pc[c] \in {"audit_create", "commit_create"} => ActiveRows(target[c]) = {}
    /\ pc[c] \in {"update", "audit_revoke", "commit_revoke"} =>
          target[c] \in RowIds /\ stamp[c] \in Nat

RequestInv == \A c \in Clients : RequestFits(c)

OneActiveRow == \A i, j \in RowIds :
    IsActive(i) /\ IsActive(j) /\ rows[i].user = rows[j].user
        /\ rows[i].licence = rows[j].licence => i = j

\* AuditTellsTheRows, without its cardinality.
EachRowIsCreated == \A i \in RowIds : \E n \in DOMAIN audit : Creates(i) = {n}

RevokesAreTold ==
    \A i \in RowIds :
        IF Revokes(i) = {}
        THEN IsActive(i)
        ELSE \E n \in Revokes(i) :
                /\ \A m \in Revokes(i) : m <= n
                /\ audit[n].revoked_at = rows[i].revoked_at

EventsAreOfRows == \A n \in DOMAIN audit : audit[n].entity_id \in RowIds

TrailInv == EachRowIsCreated /\ RevokesAreTold /\ EventsAreOfRows

ServiceInv ==
    ServiceTypes /\ RequestInv /\ OneActiveRow /\ TrailInv /\ AnswerIsCommitted
-----------------------------------------------------------------------------
(* The steps that write nothing.                                           *)

\* No row and no event is written.
Quiet == UNCHANGED <<rows, audit>>

LEMMA QuietKeepsTheTables ==
  ASSUME ServiceInv, Quiet
  PROVE  OneActiveRow' /\ TrailInv'
  BY DEF ServiceInv, Quiet, OneActiveRow, TrailInv, EachRowIsCreated,
     RevokesAreTold, EventsAreOfRows, RowIds, IsActive, Creates, Revokes

\* An answer that promises nothing keeps the promises of the others.
LEMMA QuietAnswers ==
  ASSUME ServiceInv, Quiet, NEW c \in Clients, NEW what,
         \/ answer' = answer
         \/ answer' = [answer EXCEPT ![c] = what]
            /\ what[1] \notin {"assigned", "revoked"}
  PROVE  AnswerIsCommitted'
  <1>1. AnswerIsCommitted /\ audit' = audit /\ DOMAIN answer = Clients
    BY DEF ServiceInv, ServiceTypes, Quiet
  <1>2. ASSUME NEW e \in Clients,
               answer'[e][1] = "assigned" \/ answer'[e][1] = "revoked"
        PROVE  answer'[e] = answer[e]
    <2>1. CASE answer' = answer
      BY <2>1
    <2>2. CASE answer' = [answer EXCEPT ![c] = what]
               /\ what[1] \notin {"assigned", "revoked"}
      <3>1. e # c
        BY <1>1, <1>2, <2>2
      <3>. QED  BY <1>1, <2>2, <3>1
    <2>. QED  BY <2>1, <2>2
  <1>3. ASSUME NEW e \in Clients
        PROVE  /\ answer'[e][1] = "assigned" =>
                     \E n \in Creates(answer[e][2])' : audit'[n].actor = e
               /\ answer'[e][1] = "revoked" =>
                     \E n \in Revokes(answer[e][2])' : audit'[n].actor = e
    <2>1. /\ answer[e][1] = "assigned" =>
                \E n \in Creates(answer[e][2]) : audit[n].actor = e
          /\ answer[e][1] = "revoked" =>
                \E n \in Revokes(answer[e][2]) : audit[n].actor = e
      BY <1>1 DEF AnswerIsCommitted
    <2>2. CASE answer'[e] = answer[e]
      BY <1>1, <2>1, <2>2 DEF Creates, Revokes
    <2>. QED  BY <1>2, <2>2
  <1>. QED
    BY <1>3 DEF AnswerIsCommitted

LEMMA InitIsSound ==
  ASSUME Init
  PROVE  ServiceInv
  <1>1. ServiceTypes
    BY AssignmentServiceAssumption, EmptySeq DEF Init, ServiceTypes, Answers
  <1>2. RequestInv
    BY DEF Init, RequestInv, RequestFits, Assigning, Revoking, Writing
  <1>3. OneActiveRow /\ TrailInv
    BY DEF Init, OneActiveRow, TrailInv, EachRowIsCreated, RevokesAreTold,
       EventsAreOfRows, RowIds
  <1>4. AnswerIsCommitted
    BY DEF Init, AnswerIsCommitted
  <1>. QED  BY <1>1, <1>2, <1>3, <1>4 DEF ServiceInv

\* A step of one client leaves the requests of the others as they fit.
LEMMA OthersFit ==
  ASSUME ServiceInv, Quiet, NEW c \in Clients, NEW e \in Clients, e # c,
         NEW next, pc' = [pc EXCEPT ![c] = next],
         target'[e] = target[e], stamp'[e] = stamp[e],
         lock = e => lock' = e
  PROVE  RequestFits(e)'
  <1>1. RequestFits(e) /\ pc'[e] = pc[e]
    BY DEF ServiceInv, ServiceTypes, RequestInv
  <1>2. ActiveRows(target[e])' = ActiveRows(target[e]) /\ RowIds' = RowIds
    BY DEF Quiet, ActiveRows, RowIds, IsActive
  <1>. QED  BY <1>1, <1>2 DEF RequestFits

\* A step that writes nothing, promises nothing and fits keeps the invariant.
LEMMA QuietStepKeepsInv ==
  ASSUME ServiceInv, Quiet, ServiceTypes', NEW c \in Clients,
         NEW next, pc' = [pc EXCEPT ![c] = next],
         \/ target' = target
         \/ \E t : target' = [target EXCEPT ![c] = t],
         \/ stamp' = stamp
         \/ \E s : stamp' = [stamp EXCEPT ![c] = s],
         lock' \in {lock, c} \/ lock = c, lock' = c => lock \in {c, None},
         RequestFits(c)',
         \/ answer' = answer
         \/ \E a : /\ answer' = [answer EXCEPT ![c] = a]
                   /\ a[1] \notin {"assigned", "revoked"}
  PROVE  ServiceInv'
  <1>1. RequestInv'
    <2>. SUFFICES ASSUME NEW e \in Clients, e # c PROVE RequestFits(e)'
      BY DEF RequestInv
    <2>1. target'[e] = target[e] /\ stamp'[e] = stamp[e]
      BY DEF ServiceInv, ServiceTypes
    <2>2. lock = e => lock' = e
      BY AssignmentServiceAssumption
    <2>. QED  BY <2>1, <2>2, OthersFit
  <1>2. AnswerIsCommitted'
    BY QuietAnswers
  <1>. QED  BY <1>1, <1>2, QuietKeepsTheTables DEF ServiceInv

\* A request that ends with a refusal.
LEMMA RefusalKeepsInv ==
  ASSUME ServiceInv, NEW c \in Clients,
         NEW why \in Answers \ {"assigned", "revoked"}, Refuse(c, why)
  PROVE  ServiceInv'
  <1>. DEFINE what == <<why, None>>
  <1>1. ServiceTypes'
    BY DEF Refuse, Answer, Goto, ServiceInv, ServiceTypes
  <1>2. RequestFits(c)'
    BY DEF Refuse, Answer, Goto, ServiceInv, ServiceTypes, RequestFits,
       Assigning, Revoking, Writing
  <1>3. /\ pc' = [pc EXCEPT ![c] = "idle"]
        /\ target' = [target EXCEPT ![c] = None]
        /\ stamp' = [stamp EXCEPT ![c] = None]
        /\ answer' = [answer EXCEPT ![c] = what]
        /\ what[1] \notin {"assigned", "revoked"}
        /\ lock' = IF lock = c THEN None ELSE lock
        /\ Quiet
    BY DEF Refuse, Answer, Goto, Quiet
  <1>. HIDE DEF what
  <1>4. (lock' \in {lock, c} \/ lock = c) /\ (lock' = c => lock \in {c, None})
    BY <1>3
  <1>. QED  BY <1>1, <1>2, <1>3, <1>4, QuietStepKeepsInv
-----------------------------------------------------------------------------
(* The actions that write nothing.                                         *)

\* Only the next statement changes.
LEMMA MoveKeepsInv ==
  ASSUME ServiceInv, NEW c \in Clients, Quiet,
         NEW next \in Assigning \cup Revoking \cup {"idle"},
         pc' = [pc EXCEPT ![c] = next], UNCHANGED <<clock, target, requests>>,
         UNCHANGED <<stamp, answer>>,
         lock' = lock \/ (lock = None /\ lock' = c),
         RequestFits(c)'
  PROVE  ServiceInv'
  <1>1. ServiceTypes'
    BY DEF ServiceInv, ServiceTypes, Quiet
  <1>. QED  BY <1>1, QuietStepKeepsInv

LEMMA BeginKeepsInv ==
  ASSUME ServiceInv, NEW c \in Clients, BeginAssign(c) \/ BeginRevoke(c)
  PROVE  ServiceInv'
  <1>1. PICK first \in {"check", "read"}, what \in Pairs \cup (Nat \ {0}) :
           /\ Begin(c, first, what)
           /\ first = "check" => what \in Pairs
           /\ first = "read" => what \in Nat \ {0}
    <2>1. Len(rows) \in Nat
      BY DEF ServiceInv, ServiceTypes
    <2>. QED  BY <2>1 DEF BeginAssign, BeginRevoke
  <1>. DEFINE nothing == <<"none", None>>
  <1>2. ServiceTypes'
    BY <1>1, AssignmentServiceAssumption
    DEF Begin, Goto, ServiceInv, ServiceTypes, Answers, Assigning, Revoking
  <1>3. RequestFits(c)'
    BY <1>1 DEF Begin, Goto, ServiceInv, ServiceTypes, RequestFits, Assigning,
       Revoking, Writing
  <1>4. /\ pc' = [pc EXCEPT ![c] = first]
        /\ target' = [target EXCEPT ![c] = what]
        /\ answer' = [answer EXCEPT ![c] = nothing]
        /\ nothing[1] \notin {"assigned", "revoked"}
        /\ stamp' = stamp /\ lock' = lock /\ Quiet
    BY <1>1 DEF Begin, Goto, Quiet
  <1>. HIDE DEF nothing
  <1>5. lock' = c => lock \in {c, None}
    BY <1>4
  <1>. QED  BY <1>2, <1>3, <1>4, <1>5, QuietStepKeepsInv

LEMMA ChecksKeepInv ==
  ASSUME ServiceInv, NEW c \in Clients, CheckUser(c) \/ CountSeats(c)
  PROVE  ServiceInv'
  <1>1. CASE \E why \in {"user_inactive", "already_exists",
                         "no_seats_available"} : Refuse(c, why)
    BY <1>1, RefusalKeepsInv DEF Answers
  <1>2. CASE \E next \in {"count", "insert"} :
                /\ pc[c] \in {"check", "count"}
                /\ Goto(c, next)
                /\ UNCHANGED <<rows, audit, lock, clock, target, stamp, answer,
                               requests>>
    <2>1. PICK next \in {"count", "insert"} : pc' = [pc EXCEPT ![c] = next]
      BY <1>2 DEF Goto
    <2>2. RequestFits(c)'
      BY <1>2, <2>1 DEF ServiceInv, ServiceTypes, RequestInv, RequestFits,
         Assigning, Revoking, Writing
    <2>. QED  BY <1>2, <2>1, <2>2, MoveKeepsInv DEF Quiet, Assigning
  <1>. QED  BY <1>1, <1>2 DEF CheckUser, CountSeats

LEMMA InsertKeepsInv ==
  ASSUME ServiceInv, NEW c \in Clients, InsertAssignment(c)
  PROVE  ServiceInv'
  <1>1. CASE ActiveRows(target[c]) # {}
    BY <1>1, RefusalKeepsInv DEF InsertAssignment, Answers
  <1>2. CASE ActiveRows(target[c]) = {}
    <2>1. /\ pc' = [pc EXCEPT ![c] = "audit_create"] /\ lock = None /\ lock' = c
          /\ pc[c] = "insert" /\ Quiet
          /\ UNCHANGED <<clock, target, requests>> /\ UNCHANGED <<stamp, answer>>
      BY <1>2 DEF InsertAssignment, Goto, Quiet
    <2>2. ActiveRows(target[c])' = {}
      BY <1>2, <2>1 DEF ActiveRows, RowIds, IsActive, Quiet
    <2>3. RequestFits(c)'
      BY <2>1, <2>2 DEF ServiceInv, ServiceTypes, RequestInv, RequestFits,
         Assigning, Revoking, Writing
    <2>. QED  BY <2>1, <2>3, MoveKeepsInv DEF Assigning
  <1>. QED  BY <1>1, <1>2

LEMMA ReadKeepsInv ==
  ASSUME ServiceInv, NEW c \in Clients, ReadAssignment(c)
  PROVE  ServiceInv'
  <1>1. CASE \E why \in {"not_found", "already_revoked"} : Refuse(c, why)
    BY <1>1, RefusalKeepsInv DEF Answers
  <1>2. CASE target[c] \in RowIds /\ IsActive(target[c])
    <2>1. /\ pc' = [pc EXCEPT ![c] = "update"] /\ pc[c] = "read"
          /\ stamp' = [stamp EXCEPT ![c] = clock + 1] /\ clock' = clock + 1
          /\ Quiet /\ UNCHANGED <<target, answer, requests>> /\ lock' = lock
      BY <1>2 DEF ReadAssignment, Goto, Quiet
    <2>2. ServiceTypes'
      BY <2>1 DEF ServiceInv, ServiceTypes, Quiet, Revoking
    <2>3. RequestFits(c)'
      BY <1>2, <2>1 DEF ServiceInv, ServiceTypes, RequestInv, RequestFits,
         Assigning, Revoking, Writing, RowIds, Quiet
    <2>4. lock' = c => lock \in {c, None}
      BY <2>1
    <2>. QED  BY <2>1, <2>2, <2>3, <2>4, QuietStepKeepsInv
  <1>. QED  BY <1>1, <1>2 DEF ReadAssignment

LEMMA UpdateKeepsInv ==
  ASSUME ServiceInv, NEW c \in Clients,
         UpdateAssignment(c) \/ AddCreateEvent(c) \/ AddRevokeEvent(c)
  PROVE  ServiceInv'
  <1>1. CASE UpdateAssignment(c)
    <2>1. RequestFits(c)'
      BY <1>1 DEF UpdateAssignment, Goto, ServiceInv, ServiceTypes, RequestInv,
         RequestFits, Assigning, Revoking, Writing, RowIds
    <2>. QED
      BY <1>1, <2>1, MoveKeepsInv DEF UpdateAssignment, Goto, Quiet, Revoking
  <1>2. CASE AddCreateEvent(c)
    <2>1. RequestFits(c)'
      BY <1>2 DEF AddCreateEvent, Goto, ServiceInv, ServiceTypes, RequestInv,
         RequestFits, Assigning, Revoking, Writing, ActiveRows, RowIds, IsActive
    <2>. QED
      BY <1>2, <2>1, MoveKeepsInv DEF AddCreateEvent, Goto, Quiet, Assigning
  <1>3. CASE AddRevokeEvent(c)
    <2>1. RequestFits(c)'
      BY <1>3 DEF AddRevokeEvent, Goto, ServiceInv, ServiceTypes, RequestInv,
         RequestFits, Assigning, Revoking, Writing, RowIds
    <2>. QED
      BY <1>3, <2>1, MoveKeepsInv DEF AddRevokeEvent, Goto, Quiet, Revoking
  <1>. QED  BY <1>1, <1>2, <1>3
-----------------------------------------------------------------------------
(* The commits.                                                            *)

\* What one more event adds to the trail.
LEMMA EventAdded ==
  ASSUME audit \in Seq(Event), NEW event \in Event,
         audit' = Append(audit, event)
  PROVE  /\ Len(audit) + 1 \notin DOMAIN audit
         /\ DOMAIN audit' = DOMAIN audit \cup {Len(audit) + 1}
         /\ \A n \in DOMAIN audit : audit'[n] = audit[n] /\ n <= Len(audit) + 1
         /\ audit'[Len(audit) + 1] = event
         /\ \A i : Creates(i)' = IF /\ event.action = "assignment.create"
                                    /\ event.entity_id = i
                                 THEN Creates(i) \cup {Len(audit) + 1}
                                 ELSE Creates(i)
         /\ \A i : Revokes(i)' = IF /\ event.action = "assignment.revoke"
                                    /\ event.entity_id = i
                                 THEN Revokes(i) \cup {Len(audit) + 1}
                                 ELSE Revokes(i)
  <1>1. /\ DOMAIN audit = 1 .. Len(audit)
        /\ DOMAIN audit' = 1 .. (Len(audit) + 1)
        /\ Len(audit) \in Nat
        /\ \A n \in DOMAIN audit : audit'[n] = audit[n]
        /\ audit'[Len(audit) + 1] = event
    BY AppendProperties
  <1>2. /\ Len(audit) + 1 \notin DOMAIN audit
        /\ DOMAIN audit' = DOMAIN audit \cup {Len(audit) + 1}
        /\ \A n \in DOMAIN audit : n <= Len(audit) + 1
    BY <1>1
  <1>. DEFINE last == Len(audit) + 1
  <1>. HIDE DEF last
  <1>3. /\ last \notin DOMAIN audit
        /\ DOMAIN audit' = DOMAIN audit \cup {last}
        /\ \A n \in DOMAIN audit : audit'[n] = audit[n]
        /\ audit'[last] = event
    BY <1>1, <1>2 DEF last
  <1>4. \A i : Creates(i)' = IF /\ event.action = "assignment.create"
                                /\ event.entity_id = i
                             THEN Creates(i) \cup {last} ELSE Creates(i)
    BY <1>3 DEF Creates
  <1>5. \A i : Revokes(i)' = IF /\ event.action = "assignment.revoke"
                                /\ event.entity_id = i
                             THEN Revokes(i) \cup {last} ELSE Revokes(i)
    BY <1>3 DEF Revokes
  <1>. QED  BY <1>1, <1>2, <1>4, <1>5 DEF last

\* The client that commits answers with the event it has just written.
LEMMA CommitIsAnswered ==
  ASSUME ServiceInv, NEW c \in Clients, NEW event \in Event,
         audit' = Append(audit, event), event.actor = c,
         NEW answered \in {"assigned", "revoked"},
         answered = "assigned" <=> event.action = "assignment.create",
         answer' = [answer EXCEPT ![c] = <<answered, event.entity_id>>]
  PROVE  AnswerIsCommitted'
  <1>1. audit \in Seq(Event) /\ DOMAIN answer = Clients /\ AnswerIsCommitted
    BY DEF ServiceInv, ServiceTypes
  <1>. DEFINE last == Len(audit) + 1
  <1>2. /\ \A n \in DOMAIN audit : audit'[n] = audit[n]
        /\ audit'[last] = event
        /\ \A i : Creates(i) \subseteq Creates(i)' /\ Revokes(i) \subseteq Revokes(i)'
        /\ event.action = "assignment.create" => last \in Creates(event.entity_id)'
        /\ event.action = "assignment.revoke" => last \in Revokes(event.entity_id)'
    BY <1>1, EventAdded
  <1>. HIDE DEF last
  <1>3. ASSUME NEW e \in Clients
        PROVE  /\ answer'[e][1] = "assigned" =>
                     \E n \in Creates(answer[e][2])' : audit'[n].actor = e
               /\ answer'[e][1] = "revoked" =>
                     \E n \in Revokes(answer[e][2])' : audit'[n].actor = e
    <2>1. CASE e = c
      <3>1. answer'[e][1] = answered /\ answer'[e][2] = event.entity_id
        BY <1>1, <2>1
      <3>2. event.action \in {"assignment.create", "assignment.revoke"}
        BY DEF Event
      <3>. QED  BY <1>2, <2>1, <3>1, <3>2
    <2>2. CASE e # c
      <3>1. answer'[e] = answer[e]
        BY <1>1, <2>2
      <3>2. \A i : Creates(i) \subseteq DOMAIN audit /\ Revokes(i) \subseteq DOMAIN audit
        BY DEF Creates, Revokes
      <3>. QED  BY <1>1, <1>2, <3>1, <3>2 DEF AnswerIsCommitted
    <2>. QED  BY <2>1, <2>2
  <1>. QED  BY <1>3 DEF AnswerIsCommitted

\* Nobody else is writing when a request commits.
LEMMA OthersAreNotWriting ==
  ASSUME ServiceInv, NEW c \in Clients, NEW e \in Clients, e # c,
         pc[c] \in Writing
  PROVE  pc[e] \notin Writing
  BY DEF ServiceInv, RequestInv, RequestFits

\* What the requests fit is so after a commit: rows are added or revoked, and
\* the others only read.
LEMMA CommitFits ==
  ASSUME ServiceInv, NEW c \in Clients, pc[c] \in Writing,
         pc' = [pc EXCEPT ![c] = "idle"],
         target' = [target EXCEPT ![c] = None],
         stamp' = [stamp EXCEPT ![c] = None],
         RowIds \subseteq RowIds'
  PROVE  RequestInv'
  <1>. SUFFICES ASSUME NEW e \in Clients PROVE RequestFits(e)'
    BY DEF RequestInv
  <1>1. CASE e = c
    BY <1>1 DEF ServiceInv, ServiceTypes, RequestFits, Assigning, Revoking,
       Writing
  <1>2. CASE e # c
    <2>1. pc[e] \notin Writing /\ RequestFits(e)
      BY <1>2, OthersAreNotWriting DEF ServiceInv, RequestInv
    <2>2. pc'[e] = pc[e] /\ target'[e] = target[e] /\ stamp'[e] = stamp[e]
      BY <1>2 DEF ServiceInv, ServiceTypes
    <2>. QED  BY <2>1, <2>2 DEF RequestFits, Writing
  <1>. QED  BY <1>1, <1>2

LEMMA CommitAssignKeepsInv ==
  ASSUME ServiceInv, NEW c \in Clients, CommitAssign(c)
  PROVE  ServiceInv'
  <1>. DEFINE new == Len(rows) + 1
              row == [user |-> target[c][1], licence |-> target[c][2],
                      revoked_at |-> None]
              event == [action |-> "assignment.create", entity_id |-> new,
                        actor |-> c, revoked_at |-> None]
              last == Len(audit) + 1
  <1>1. /\ pc[c] = "commit_create"
        /\ rows' = Append(rows, row) /\ audit' = Append(audit, event)
        /\ pc' = [pc EXCEPT ![c] = "idle"]
        /\ target' = [target EXCEPT ![c] = None]
        /\ stamp' = [stamp EXCEPT ![c] = None]
        /\ answer' = [answer EXCEPT ![c] = <<"assigned", new>>]
        /\ lock' = (IF lock = c THEN None ELSE lock)
        /\ UNCHANGED <<clock, requests>>
    BY DEF CommitAssign, RowsAssigned, Answer, Goto
  <1>2. /\ rows \in Seq(Row) /\ audit \in Seq(Event) /\ TrailInv /\ OneActiveRow
        /\ target[c] \in Pairs /\ ActiveRows(target[c]) = {}
    BY <1>1 DEF ServiceInv, ServiceTypes, RequestInv, RequestFits, Assigning
  <1>3. row \in Row /\ row.revoked_at = None
    BY <1>2 DEF Row, Pairs
  <1>4. event \in Event /\ new \in Nat \ {0}
    BY <1>2 DEF Event
  <1>5. /\ DOMAIN rows = 1 .. Len(rows) /\ DOMAIN rows' = 1 .. new
        /\ Len(rows) \in Nat
        /\ \A i \in RowIds : rows'[i] = rows[i]
        /\ rows'[new] = row
    BY <1>1, <1>2, <1>3, AppendProperties DEF RowIds
  <1>6. /\ RowIds' = RowIds \cup {new} /\ new \notin RowIds
        /\ \A i \in RowIds : rows'[i] = rows[i]
        /\ rows'[new] = row
    BY <1>5 DEF RowIds
  <1>7. /\ rows' \in Seq(Row) /\ audit' \in Seq(Event)
    BY <1>1, <1>2, <1>3, <1>4, AppendProperties
  <1>8. event.action = "assignment.create" /\ event.entity_id = new
        /\ event.actor = c
    OBVIOUS
  <1>9. ServiceTypes'
    BY <1>1, <1>4, <1>7 DEF ServiceInv, ServiceTypes, Answers
  <1>10. RequestInv'
    BY <1>1, <1>6, CommitFits DEF Writing
  <1>11. AnswerIsCommitted'
    <2>. HIDE DEF event, new
    <2>. QED  BY <1>1, <1>4, <1>8, CommitIsAnswered
  <1>12. /\ last \notin DOMAIN audit
         /\ DOMAIN audit' = DOMAIN audit \cup {last}
         /\ \A n \in DOMAIN audit : audit'[n] = audit[n]
         /\ audit'[last] = event
         /\ \A i : Creates(i)' = IF i = new THEN Creates(i) \cup {last}
                                            ELSE Creates(i)
         /\ \A i : Revokes(i)' = Revokes(i)
    <2>. HIDE DEF event, new
    <2>. QED  BY <1>1, <1>2, <1>4, <1>8, EventAdded
  <1>13. \A i : Creates(i) \subseteq DOMAIN audit /\ Revokes(i) \subseteq DOMAIN audit
    BY DEF Creates, Revokes
  <1>14. Creates(new) = {} /\ Revokes(new) = {}
    BY <1>2, <1>6 DEF TrailInv, EventsAreOfRows, Creates, Revokes
  <1>15. OneActiveRow'
    BY <1>2, <1>3, <1>6 DEF OneActiveRow, IsActive, ActiveRows, Pairs
  <1>. HIDE DEF event, new, last, row
  <1>16. EachRowIsCreated'
    BY <1>2, <1>6, <1>12, <1>14 DEF TrailInv, EachRowIsCreated
  <1>17. EventsAreOfRows'
    BY <1>2, <1>6, <1>8, <1>12 DEF TrailInv, EventsAreOfRows
  <1>18. RevokesAreTold'
    <2>. SUFFICES ASSUME NEW i \in RowIds'
                  PROVE  IF Revokes(i)' = {}
                         THEN IsActive(i)'
                         ELSE \E n \in Revokes(i)' :
                                 /\ \A m \in Revokes(i)' : m <= n
                                 /\ audit'[n].revoked_at = rows'[i].revoked_at
      BY DEF RevokesAreTold
    <2>1. CASE i = new
      BY <1>3, <1>6, <1>12, <1>14, <2>1 DEF IsActive
    <2>2. CASE i \in RowIds
      BY <1>2, <1>6, <1>12, <1>13, <2>2 DEF TrailInv, RevokesAreTold, IsActive
    <2>. QED  BY <1>6, <2>1, <2>2
  <1>. QED
    BY <1>9, <1>10, <1>11, <1>15, <1>16, <1>17, <1>18 DEF ServiceInv, TrailInv
LEMMA CommitRevokeKeepsInv ==
  ASSUME ServiceInv, NEW c \in Clients, CommitRevoke(c)
  PROVE  ServiceInv'
  <1>. DEFINE row == target[c]
              time == stamp[c]
              event == [action |-> "assignment.revoke", entity_id |-> row,
                        actor |-> c, revoked_at |-> time]
              last == Len(audit) + 1
  <1>1. /\ pc[c] = "commit_revoke"
        /\ rows' = [rows EXCEPT ![row].revoked_at = time]
        /\ audit' = Append(audit, event)
        /\ pc' = [pc EXCEPT ![c] = "idle"]
        /\ target' = [target EXCEPT ![c] = None]
        /\ stamp' = [stamp EXCEPT ![c] = None]
        /\ answer' = [answer EXCEPT ![c] = <<"revoked", row>>]
        /\ lock' = (IF lock = c THEN None ELSE lock)
        /\ UNCHANGED <<clock, requests>>
    BY DEF CommitRevoke, RowsRevoked, Answer, Goto
  <1>2. /\ rows \in Seq(Row) /\ audit \in Seq(Event) /\ TrailInv /\ OneActiveRow
        /\ row \in RowIds /\ row \in Nat \ {0} /\ time \in Nat
    BY <1>1 DEF ServiceInv, ServiceTypes, RequestInv, RequestFits, Revoking
  <1>3. event \in Event
    BY <1>2 DEF Event
  <1>4. rows[row] \in Row
    BY <1>2, ElementOfSeq DEF RowIds
  <1>5. /\ RowIds' = RowIds
        /\ \A i \in RowIds : /\ rows'[i].user = rows[i].user
                             /\ rows'[i].licence = rows[i].licence
                             /\ i # row => rows'[i] = rows[i]
        /\ rows'[row].revoked_at = time
    BY <1>1, <1>2, <1>4 DEF RowIds, Row
  <1>6. rows' \in Seq(Row) /\ audit' \in Seq(Event)
    <2>1. [rows[row] EXCEPT !.revoked_at = time] \in Row
      BY <1>2, <1>4 DEF Row
    <2>2. rows' = [rows EXCEPT ![row] = [rows[row] EXCEPT !.revoked_at = time]]
      BY <1>1
    <2>3. rows' \in Seq(Row)
      BY <1>2, <2>1, <2>2, ExceptSeq DEF RowIds
    <2>. QED  BY <1>1, <1>2, <1>3, <2>3, AppendProperties
  <1>7. event.action = "assignment.revoke" /\ event.entity_id = row
        /\ event.actor = c /\ event.revoked_at = time
    OBVIOUS
  <1>8. ServiceTypes'
    BY <1>1, <1>2, <1>6 DEF ServiceInv, ServiceTypes, Answers
  <1>9. RequestInv'
    BY <1>1, <1>5, CommitFits DEF Writing
  <1>10. AnswerIsCommitted'
    <2>. HIDE DEF event, row
    <2>. QED  BY <1>1, <1>3, <1>7, CommitIsAnswered
  <1>11. /\ last \notin DOMAIN audit
         /\ DOMAIN audit' = DOMAIN audit \cup {last}
         /\ \A n \in DOMAIN audit : audit'[n] = audit[n] /\ n <= last
         /\ audit'[last] = event
         /\ \A i : Creates(i)' = Creates(i)
         /\ \A i : Revokes(i)' = IF i = row THEN Revokes(i) \cup {last}
                                            ELSE Revokes(i)
    <2>. HIDE DEF event, row
    <2>. QED  BY <1>1, <1>2, <1>3, <1>7, EventAdded
  <1>12. \A i : Revokes(i) \subseteq DOMAIN audit
    BY DEF Revokes
  <1>13. last \in Nat
    BY <1>2
  <1>14. time # None
    BY <1>2, AssignmentServiceAssumption
  <1>15. OneActiveRow'
    BY <1>2, <1>5, <1>14 DEF OneActiveRow, IsActive
  <1>. HIDE DEF event, last, row, time
  <1>16. EachRowIsCreated'
    BY <1>2, <1>5, <1>11 DEF TrailInv, EachRowIsCreated
  <1>17. EventsAreOfRows'
    BY <1>2, <1>5, <1>7, <1>11 DEF TrailInv, EventsAreOfRows
  <1>18. RevokesAreTold'
    <2>. SUFFICES ASSUME NEW i \in RowIds
                  PROVE  IF Revokes(i)' = {}
                         THEN IsActive(i)'
                         ELSE \E n \in Revokes(i)' :
                                 /\ \A m \in Revokes(i)' : m <= n
                                 /\ audit'[n].revoked_at = rows'[i].revoked_at
      BY <1>5 DEF RevokesAreTold
    <2>1. CASE i = row
      <3>1. last \in Revokes(i)' /\ \A m \in Revokes(i)' : m <= last
        BY <1>11, <1>12, <1>13, <2>1
      <3>. QED  BY <1>5, <1>7, <1>11, <2>1, <3>1
    <2>2. CASE i # row
      BY <1>2, <1>5, <1>11, <1>12, <2>2 DEF TrailInv, RevokesAreTold, IsActive
    <2>. QED  BY <2>1, <2>2
  <1>. QED
    BY <1>8, <1>9, <1>10, <1>15, <1>16, <1>17, <1>18 DEF ServiceInv, TrailInv
-----------------------------------------------------------------------------
(* The invariant, and what it says.                                        *)

LEMMA ServiceKeepsInv ==
  ASSUME ServiceInv, [Next]_vars
  PROVE  ServiceInv'
  <1>1. CASE UNCHANGED vars
    <2>1. ServiceTypes' /\ AnswerIsCommitted'
      BY <1>1 DEF vars, ServiceInv, ServiceTypes, AnswerIsCommitted, Creates,
         Revokes
    <2>2. RequestInv'
      BY <1>1 DEF vars, ServiceInv, RequestInv, RequestFits, ActiveRows,
         RowIds, IsActive
    <2>. QED
      BY <1>1, <2>1, <2>2, QuietKeepsTheTables DEF vars, ServiceInv, Quiet
  <1>2. ASSUME NEW c \in Clients, BeginAssign(c) \/ BeginRevoke(c)
        PROVE  ServiceInv'
    BY <1>2, BeginKeepsInv
  <1>3. ASSUME NEW c \in Clients, LockTimeout(c) \/ Fail(c)
        PROVE  ServiceInv'
    BY <1>3, RefusalKeepsInv DEF LockTimeout, Fail, Answers
  <1>4. ASSUME NEW c \in Clients, Proceed(c), ~LockTimeout(c)
        PROVE  ServiceInv'
    BY <1>4, ChecksKeepInv, InsertKeepsInv, UpdateKeepsInv, ReadKeepsInv,
       CommitAssignKeepsInv, CommitRevokeKeepsInv DEF Proceed
  <1>. QED  BY <1>1, <1>2, <1>3, <1>4 DEF Next

\* ServiceInv holds, however the requests interleave and wherever they fail.
THEOREM ServiceInvariant == Spec => []ServiceInv
  BY InitIsSound, ServiceKeepsInv, PTL DEF Spec

\* Every request is about a pair of a user and a licence, or a possible row id,
\* and every table keeps its columns' types.
THEOREM TypeCorrect == Spec => []TypeOK
  <1>1. ServiceInv => TypeOK
    BY DEF ServiceInv, ServiceTypes, RequestInv, RequestFits, TypeOK
  <1>. QED  BY <1>1, ServiceInvariant, PTL

\* For any number of clients: the audit log tells the whole history of the
\* assignments, whoever ran between a check and its commit.
THEOREM AuditIsComplete == Spec => []AuditTellsTheRows
  <1>1. ASSUME ServiceInv PROVE AuditTellsTheRows
    <2>1. \A i \in RowIds : Cardinality(Creates(i)) = 1
      <3>. SUFFICES ASSUME NEW i \in RowIds PROVE Cardinality(Creates(i)) = 1
        OBVIOUS
      <3>1. PICK n \in DOMAIN audit : Creates(i) = {n}
        BY <1>1 DEF ServiceInv, TrailInv, EachRowIsCreated
      <3>. QED  BY <3>1, FS_Singleton
    <2>. QED
      BY <1>1, <2>1 DEF ServiceInv, TrailInv, RevokesAreTold, EventsAreOfRows,
         AuditTellsTheRows
  <1>. QED  BY <1>1, ServiceInvariant, PTL

\* For any number of clients asking for one pair at once, one of them gets it.
THEOREM OneActive == Spec => []OneActiveAssignment
  <1>1. ASSUME ServiceInv PROVE OneActiveAssignment
    <2>. SUFFICES ASSUME NEW p \in Pairs
                  PROVE  Cardinality(ActiveRows(p)) <= 1
      BY DEF OneActiveAssignment
    <2>1. CASE ActiveRows(p) = {}
      BY <2>1, FS_EmptySet
    <2>2. CASE ActiveRows(p) # {}
      <3>1. PICK i \in ActiveRows(p) : TRUE
        BY <2>2
      <3>2. ActiveRows(p) = {i}
        BY <1>1, <3>1 DEF ServiceInv, OneActiveRow, ActiveRows
      <3>. QED  BY <3>2, FS_Singleton
    <2>. QED  BY <2>1, <2>2
  <1>. QED  BY <1>1, ServiceInvariant, PTL

\* For any number of clients: what a client was told is committed, and the
\* audit log names it for that change.
THEOREM AnswersAreCommitted == Spec => []AnswerIsCommitted
  <1>1. ServiceInv => AnswerIsCommitted
    BY DEF ServiceInv
  <1>. QED  BY <1>1, ServiceInvariant, PTL
-----------------------------------------------------------------------------
(* What becomes of the tables in a step.                                   *)

\* Only the commits write; each is the client's that holds the lock.
LEMMA StepsOfTheTables ==
  ASSUME [Next]_vars
  PROVE  Quiet \/ \E c \in Clients : CommitAssign(c) \/ CommitRevoke(c)
  BY DEF Quiet, vars, Next, BeginAssign, BeginRevoke, Begin, Proceed, Fail,
     Refuse, CheckUser, CountSeats, InsertAssignment, AddCreateEvent,
     ReadAssignment, UpdateAssignment, AddRevokeEvent, LockTimeout

LEMMA AppendKeepsPrefix ==
  ASSUME NEW S, NEW s \in Seq(S), NEW e \in S
  PROVE  /\ Len(Append(s, e)) >= Len(s)
         /\ SubSeq(Append(s, e), 1, Len(s)) = s
  <1>1. Append(s, e) = s \o <<e>> /\ <<e>> \in Seq(S)
    BY AppendIsConcat
  <1>2. Len(Append(s, e)) >= Len(s)
    BY AppendProperties
  <1>3. CASE s = <<>>
    BY <1>2, <1>3, SubSeqEmpty
  <1>4. CASE s # <<>>
    <2>1. 1 \in 1 .. Len(s) /\ Len(s) \in 1 .. Len(s)
      BY <1>4, EmptySeq
    <2>. QED  BY <1>1, <1>2, <2>1, SubSeqOfConcat1, SubSeqFull
  <1>. QED  BY <1>3, <1>4

\* One row more, or one row revoked: what a commit makes of the rows.
LEMMA RowsAfterAssign ==
  ASSUME ServiceInv, NEW c \in Clients, CommitAssign(c)
  PROVE  /\ Len(rows') >= Len(rows)
         /\ RowIds' = RowIds \cup {Len(rows) + 1} /\ Len(rows) + 1 \notin RowIds
         /\ \A i \in RowIds : rows'[i] = rows[i]
         /\ rows'[Len(rows) + 1] =
               [user |-> target[c][1], licence |-> target[c][2],
                revoked_at |-> None]
         /\ target[c] \in Pairs /\ ActiveRows(target[c]) = {}
  <1>1. rows \in Seq(Row) /\ target[c] \in Pairs /\ ActiveRows(target[c]) = {}
    BY DEF CommitAssign, ServiceInv, ServiceTypes, RequestInv, RequestFits,
       Assigning
  <1>. DEFINE row == [user |-> target[c][1], licence |-> target[c][2],
                      revoked_at |-> None]
  <1>2. row \in Row /\ rows' = Append(rows, row)
    BY <1>1 DEF CommitAssign, RowsAssigned, Row, Pairs
  <1>. HIDE DEF row
  <1>3. /\ Len(rows) \in Nat /\ DOMAIN rows = 1 .. Len(rows)
        /\ Len(rows') = Len(rows) + 1 /\ DOMAIN rows' = 1 .. Len(rows) + 1
        /\ \A i \in RowIds : rows'[i] = rows[i]
        /\ rows'[Len(rows) + 1] = row
    BY <1>1, <1>2, AppendProperties DEF RowIds
  <1>4. Len(rows') >= Len(rows) /\ RowIds' = RowIds \cup {Len(rows) + 1}
        /\ Len(rows) + 1 \notin RowIds
    BY <1>3 DEF RowIds
  <1>. QED  BY <1>1, <1>3, <1>4 DEF row

LEMMA RowsAfterRevoke ==
  ASSUME ServiceInv, NEW c \in Clients, CommitRevoke(c)
  PROVE  /\ Len(rows') = Len(rows) /\ Len(rows) \in Nat /\ RowIds' = RowIds
         /\ target[c] \in RowIds
         /\ \A i \in RowIds : /\ rows'[i].user = rows[i].user
                              /\ rows'[i].licence = rows[i].licence
                              /\ i # target[c] => rows'[i] = rows[i]
         /\ rows'[target[c]].revoked_at # None
  <1>1. rows \in Seq(Row) /\ target[c] \in RowIds /\ stamp[c] \in Nat
    BY DEF CommitRevoke, ServiceInv, ServiceTypes, RequestInv, RequestFits
  <1>2. rows' = [rows EXCEPT ![target[c]].revoked_at = stamp[c]]
    BY DEF CommitRevoke, RowsRevoked
  <1>3. rows[target[c]] \in Row /\ stamp[c] # None
    BY <1>1, ElementOfSeq, AssignmentServiceAssumption DEF RowIds
  <1>4. DOMAIN rows' = DOMAIN rows /\ DOMAIN rows = 1 .. Len(rows)
        /\ Len(rows) \in Nat
    BY <1>1, <1>2
  <1>5. Len(rows') = Len(rows)
    BY <1>2, <1>4
  <1>. QED  BY <1>1, <1>2, <1>3, <1>4, <1>5 DEF RowIds, Row

\* History is kept for any number of clients: rows and events are added, and
\* what changes of a row is its revoked_at, which is never taken back.
THEOREM HistoryStays == Spec => HistoryIsKept
  <1>. DEFINE Kept ==
         /\ Len(audit') >= Len(audit)
         /\ SubSeq(audit', 1, Len(audit)) = audit
         /\ Len(rows') >= Len(rows)
         /\ \A i \in RowIds :
               /\ rows'[i].user = rows[i].user
               /\ rows'[i].licence = rows[i].licence
               /\ ~IsActive(i) => rows'[i].revoked_at # None
  <1>1. ASSUME ServiceInv, [Next]_vars PROVE Kept
    <2>1. rows \in Seq(Row) /\ audit \in Seq(Event)
      BY <1>1 DEF ServiceInv, ServiceTypes
    <2>2. Len(rows) \in Nat /\ Len(audit) \in Nat
      BY <2>1
    <2>3. ASSUME NEW c \in Clients, CommitAssign(c) \/ CommitRevoke(c)
          PROVE  Len(audit') >= Len(audit) /\ SubSeq(audit', 1, Len(audit)) = audit
      <3>1. PICK event \in Event : audit' = Append(audit, event)
        <4>1. ServiceTypes /\ RequestFits(c)
          BY <1>1 DEF ServiceInv, RequestInv
        <4>2. CASE CommitAssign(c)
          <5>. DEFINE event == [action |-> "assignment.create",
                                entity_id |-> Len(rows) + 1, actor |-> c,
                                revoked_at |-> None]
          <5>1. event \in Event
            BY <2>2 DEF Event
          <5>. QED  BY <4>2, <5>1 DEF CommitAssign
        <4>3. CASE CommitRevoke(c)
          <5>. DEFINE event == [action |-> "assignment.revoke",
                                entity_id |-> target[c], actor |-> c,
                                revoked_at |-> stamp[c]]
          <5>1. event \in Event
            BY <4>1, <4>3 DEF CommitRevoke, Event, RequestFits, Revoking
          <5>. QED  BY <4>3, <5>1 DEF CommitRevoke
        <4>. QED  BY <2>3, <4>2, <4>3
      <3>. QED  BY <2>1, <3>1, AppendKeepsPrefix
    <2>4. CASE Quiet
      BY <2>1, <2>2, <2>4, SubSeqFull DEF Quiet, IsActive
    <2>5. ASSUME NEW c \in Clients, CommitAssign(c) PROVE Kept
      BY <1>1, <2>3, <2>5, RowsAfterAssign DEF IsActive
    <2>6. ASSUME NEW c \in Clients, CommitRevoke(c) PROVE Kept
      BY <1>1, <2>2, <2>3, <2>6, RowsAfterRevoke DEF IsActive
    <2>. QED  BY <1>1, <2>4, <2>5, <2>6, StepsOfTheTables
  <1>2. ServiceInv /\ [Next]_vars => [Kept]_vars
    BY <1>1
  <1>. QED  BY <1>2, ServiceInvariant, PTL DEF Spec, HistoryIsKept
-----------------------------------------------------------------------------
(* The seat ledger.                                                        *)

PairOf(i) == <<rows[i].user, rows[i].licence>>

\* The rows a seat count counts are as many as the pairs the ledger counts,
\* since no pair has two active rows.
LEMMA SeatsAreCounted ==
  ASSUME ServiceInv, NEW l
  PROVE  SeatsUsed(l) = Ledger!SeatsUsed(l)
  <1>. DEFINE counted == {i \in RowIds : IsActive(i) /\ rows[i].licence = l}
              pairs == {p \in Held : p[2] = l}
              toPair == [i \in counted |-> PairOf(i)]
  <1>1. IsFiniteSet(counted)
    <2>1. rows \in Seq(Row)
      BY DEF ServiceInv, ServiceTypes
    <2>2. RowIds = 1 .. Len(rows) /\ Len(rows) \in Nat
      BY <2>1 DEF RowIds
    <2>3. IsFiniteSet(RowIds)
      BY <2>2, FS_Interval
    <2>. QED  BY <2>3, FS_Subset
  <1>2. toPair \in [counted -> pairs]
    BY DEF Held, PairOf
  <1>3. ASSUME NEW i \in counted, NEW j \in counted, toPair[i] = toPair[j]
        PROVE  i = j
    BY <1>3 DEF ServiceInv, OneActiveRow, PairOf
  <1>4. ASSUME NEW p \in pairs PROVE \E i \in counted : toPair[i] = p
    BY <1>4 DEF Held, PairOf
  <1>5. toPair \in Bijection(counted, pairs)
    BY <1>2, <1>3, <1>4 DEF Bijection, Injection, Surjection, IsInjective
  <1>6. Cardinality(pairs) = Cardinality(counted)
    BY <1>1, <1>5, FS_Bijection DEF ExistsBijection
  <1>7. SeatsUsed(l) = Cardinality(counted)
    BY DEF SeatsUsed
  <1>8. Ledger!SeatsUsed(l) = Cardinality(pairs)
    BY Zenon DEF Ledger!SeatsUsed, Ledger!ActiveSeats, Cardinality,
       Ledger!Cardinality
  <1>. QED  BY <1>6, <1>7, <1>8

\* Where no row is written, the same pairs are held.
LEMMA QuietHolds == Quiet => Held' = Held
  BY DEF Quiet, Held, RowIds, IsActive

\* Of a step of one client only its own claim may change.
LEMMA ClaimOf ==
  ASSUME ServiceInv, NEW c \in Clients, NEW next, NEW t,
         pc' = [pc EXCEPT ![c] = next],
         target' = target \/ target' = [target EXCEPT ![c] = t],
         NEW claim,
         claim = IF next \in {"insert", "audit_create", "commit_create"}
                 THEN target'[c] ELSE None
  PROVE  Passed' = [Passed EXCEPT ![c] = claim]
  <1>1. DOMAIN pc = Clients /\ DOMAIN target = Clients
    BY DEF ServiceInv, ServiceTypes
  <1>2. DOMAIN Passed' = Clients
        /\ DOMAIN [Passed EXCEPT ![c] = claim] = Clients
    BY DEF Passed
  <1>3. ASSUME NEW e \in Clients
        PROVE  Passed'[e] = [Passed EXCEPT ![c] = claim][e]
    <2>1. CASE e = c
      BY <1>1, <2>1 DEF Passed
    <2>2. CASE e # c
      BY <1>1, <2>2 DEF Passed
    <2>. QED  BY <2>1, <2>2
  <1>. QED  BY <1>2, <1>3 DEF Passed

LEMMA ClaimRests ==
  ASSUME ServiceInv, NEW c \in Clients, Passed' = [Passed EXCEPT ![c] = Passed[c]]
  PROVE  Passed' = Passed
  BY DEF Passed

\* A refusal gives up the claim, if there is one.
LEMMA RefusalGivesUp ==
  ASSUME ServiceInv, NEW c \in Clients, NEW why, Refuse(c, why)
  PROVE  Ledger!Next \/ UNCHANGED <<Held, Passed>>
  <1>1. Quiet /\ pc' = [pc EXCEPT ![c] = "idle"]
        /\ target' = [target EXCEPT ![c] = None]
    BY DEF Refuse, Answer, Goto, Quiet
  <1>2. Held' = Held
    BY <1>1, QuietHolds
  <1>3. Passed' = [Passed EXCEPT ![c] = None]
    <2>. DEFINE next == "idle"
                claim == IF next \in {"insert", "audit_create", "commit_create"}
                         THEN target'[c] ELSE None
    <2>1. claim = None /\ pc' = [pc EXCEPT ![c] = next]
      BY <1>1
    <2>2. claim = IF next \in {"insert", "audit_create", "commit_create"}
                  THEN target'[c] ELSE None
      OBVIOUS
    <2>. HIDE DEF claim, next
    <2>3. Passed' = [Passed EXCEPT ![c] = claim]
      BY <1>1, <2>1, <2>2, ClaimOf
    <2>. QED  BY <2>1, <2>3
  <1>4. CASE Passed[c] = None
    BY <1>2, <1>3, <1>4, ClaimRests
  <1>5. CASE Passed[c] # None
    BY <1>2, <1>3, <1>5 DEF Ledger!GiveUp, Ledger!Next
  <1>. QED  BY <1>4, <1>5

\* A step that writes no row and moves on with the same claim, or none.
LEMMA MoveIsUnseen ==
  ASSUME ServiceInv, NEW c \in Clients, Quiet, NEW next, NEW t,
         pc' = [pc EXCEPT ![c] = next],
         target' = target \/ target' = [target EXCEPT ![c] = t],
         \/ /\ pc[c] \in {"insert", "audit_create", "commit_create"}
            /\ next \in {"insert", "audit_create", "commit_create"}
            /\ target' = target
         \/ /\ pc[c] \notin {"insert", "audit_create", "commit_create"}
            /\ next \notin {"insert", "audit_create", "commit_create"}
  PROVE  UNCHANGED <<Held, Passed>>
  <1>. DEFINE claim == IF next \in {"insert", "audit_create", "commit_create"}
                       THEN target'[c] ELSE None
  <1>1. Passed' = [Passed EXCEPT ![c] = claim]
    BY ClaimOf
  <1>2. claim = Passed[c]
    BY DEF Passed
  <1>. HIDE DEF claim
  <1>. QED  BY <1>1, <1>2, ClaimRests, QuietHolds
\* The claim a client has in the middle of a step, where it has one.
LEMMA PassIsAStep ==
  ASSUME ServiceInv, NEW c \in Clients, CountSeats(c)
  PROVE  Ledger!Next \/ UNCHANGED <<Held, Passed>>
  <1>1. CASE ~HasFreeSeat(target[c][2])
    BY <1>1, RefusalGivesUp DEF CountSeats
  <1>2. CASE HasFreeSeat(target[c][2])
    <2>. DEFINE p == target[c]
                next == "insert"
    <2>1. /\ pc[c] = "count" /\ Quiet /\ target' = target
          /\ pc' = [pc EXCEPT ![c] = next]
      BY <1>2 DEF CountSeats, Goto, Quiet
    <2>2. p \in Pairs /\ Passed[c] = None
      BY <2>1 DEF ServiceInv, RequestInv, RequestFits, Passed, Assigning
    <2>3. p = IF next \in {"insert", "audit_create", "commit_create"}
              THEN target'[c] ELSE None
      BY <2>1
    <2>4. Ledger!SeatsUsed(p[2]) < SeatsTotal[p[2]]
      BY <1>2, SeatsAreCounted DEF HasFreeSeat
    <2>. HIDE DEF p, next
    <2>5. Passed' = [Passed EXCEPT ![c] = p]
      BY <2>1, <2>3, ClaimOf
    <2>6. Ledger!PassSeatCheck(c, p)
      BY <2>1, <2>2, <2>4, <2>5, QuietHolds DEF Ledger!PassSeatCheck
    <2>7. p \in Ledger!Pairs
      BY <2>2 DEF Pairs, Ledger!Pairs
    <2>. QED  BY <2>6, <2>7 DEF Ledger!Next
  <1>. QED  BY <1>1, <1>2

LEMMA AssignTakesASeat ==
  ASSUME ServiceInv, NEW c \in Clients, CommitAssign(c)
  PROVE  Ledger!Next
  <1>. DEFINE p == target[c]
              next == "idle"
              new == Len(rows) + 1
              claim == IF next \in {"insert", "audit_create", "commit_create"}
                       THEN target'[c] ELSE None
  <1>1. /\ RowIds' = RowIds \cup {new} /\ new \notin RowIds
        /\ \A i \in RowIds : rows'[i] = rows[i]
        /\ rows'[new].user = p[1] /\ rows'[new].licence = p[2]
        /\ rows'[new].revoked_at = None
        /\ p \in Pairs /\ ActiveRows(p) = {}
    <2>1. rows'[new] = [user |-> p[1], licence |-> p[2], revoked_at |-> None]
      BY RowsAfterAssign
    <2>2. /\ rows'[new].user = p[1] /\ rows'[new].licence = p[2]
          /\ rows'[new].revoked_at = None
      BY <2>1
    <2>. QED  BY <2>2, RowsAfterAssign
  <1>2. p = <<p[1], p[2]>>
    BY <1>1 DEF Pairs
  <1>3. /\ pc' = [pc EXCEPT ![c] = next] /\ pc[c] = "commit_create"
        /\ target' = [target EXCEPT ![c] = None]
    BY DEF CommitAssign, Answer, Goto
  <1>4. claim = None
    OBVIOUS
  <1>5. Passed[c] = p /\ p # None
    BY <1>1, <1>3, AssignmentServiceAssumption DEF Passed
  <1>6. claim = IF next \in {"insert", "audit_create", "commit_create"}
                THEN target'[c] ELSE None
    OBVIOUS
  <1>. HIDE DEF p, next, new, claim
  <1>7. Passed' = [Passed EXCEPT ![c] = None]
    BY <1>3, <1>4, <1>6, ClaimOf
  <1>8. p \notin Held
    BY <1>1 DEF Held, ActiveRows
  <1>9. Held' = Held \cup {p}
    BY <1>1, <1>2 DEF Held, IsActive
  <1>. QED  BY <1>5, <1>7, <1>8, <1>9 DEF Ledger!TakeSeat, Ledger!Next

LEMMA RevokeReleasesASeat ==
  ASSUME ServiceInv, NEW c \in Clients, CommitRevoke(c)
  PROVE  Ledger!Next \/ UNCHANGED <<Held, Passed>>
  <1>. DEFINE row == target[c]
              p == PairOf(row)
              next == "idle"
              claim == IF next \in {"insert", "audit_create", "commit_create"}
                       THEN target'[c] ELSE None
  <1>1. /\ RowIds' = RowIds /\ row \in RowIds
        /\ \A i \in RowIds : /\ rows'[i].user = rows[i].user
                             /\ rows'[i].licence = rows[i].licence
                             /\ i # row => rows'[i] = rows[i]
        /\ rows'[row].revoked_at # None
    BY RowsAfterRevoke
  <1>2. /\ pc' = [pc EXCEPT ![c] = next] /\ pc[c] = "commit_revoke"
        /\ target' = [target EXCEPT ![c] = None]
    BY DEF CommitRevoke, Answer, Goto
  <1>3. Passed[c] = None /\ claim = None
    BY <1>2 DEF Passed
  <1>4. claim = IF next \in {"insert", "audit_create", "commit_create"}
                THEN target'[c] ELSE None
    OBVIOUS
  <1>5. p \in Ledger!Pairs
    <2>1. rows \in Seq(Row)
      BY DEF ServiceInv, ServiceTypes
    <2>2. rows[row] \in Row
      BY <1>1, <2>1, ElementOfSeq DEF RowIds
    <2>. QED  BY <2>2 DEF PairOf, Row, Ledger!Pairs
  <1>6. p = <<rows[row].user, rows[row].licence>>
    BY DEF PairOf
  <1>. HIDE DEF row, p, next, claim
  <1>7. Passed' = Passed
    BY <1>2, <1>3, <1>4, ClaimOf, ClaimRests
  <1>8. CASE IsActive(row)
    <2>1. p \in Held
      BY <1>1, <1>6, <1>8 DEF Held
    <2>2. Held' = Held \ {p}
      <3>1. ASSUME NEW i \in RowIds, IsActive(i), PairOf(i) = p PROVE i = row
        BY <1>1, <1>6, <1>8, <3>1 DEF ServiceInv, OneActiveRow, PairOf
      <3>2. \A i \in RowIds : IsActive(i)' <=> IsActive(i) /\ i # row
        BY <1>1 DEF IsActive
      <3>3. \A i \in RowIds : PairOf(i)' = PairOf(i)
        BY <1>1 DEF PairOf
      <3>4. Held = {PairOf(i) : i \in {j \in RowIds : IsActive(j)}}
        BY DEF Held, PairOf
      <3>5. Held' = {PairOf(i)' : i \in {j \in RowIds' : IsActive(j)'}}
        BY DEF Held, PairOf
      <3>6. PairOf(row) = p
        BY <1>6 DEF PairOf
      <3>. QED  BY <1>1, <3>1, <3>2, <3>3, <3>4, <3>5, <3>6
    <2>. QED  BY <1>5, <1>7, <2>1, <2>2 DEF Ledger!ReleaseSeat, Ledger!Next
  <1>9. CASE ~IsActive(row)
    <2>1. \A i \in RowIds : IsActive(i)' <=> IsActive(i)
      BY <1>1, <1>9 DEF IsActive
    <2>2. Held' = Held
      BY <1>1, <2>1 DEF Held
    <2>. QED  BY <1>7, <2>2
  <1>. QED  BY <1>8, <1>9

\* What the ledger sees of a step: one of its own steps, or nothing.
LEMMA LedgerStep ==
  ASSUME ServiceInv, [Next]_vars
  PROVE  Ledger!Next \/ UNCHANGED <<Held, Passed>>
  <1>1. CASE UNCHANGED vars
    BY <1>1 DEF vars, Held, Passed, RowIds, IsActive
  <1>2. ASSUME NEW c \in Clients, BeginAssign(c) \/ BeginRevoke(c)
        PROVE  UNCHANGED <<Held, Passed>>
    <2>1. PICK what : \E first \in {"check", "read"} : Begin(c, first, what)
      BY <1>2 DEF BeginAssign, BeginRevoke
    <2>. QED  BY <2>1, MoveIsUnseen DEF Begin, Goto, Quiet
  <1>3. ASSUME NEW c \in Clients, LockTimeout(c) \/ Fail(c)
        PROVE  Ledger!Next \/ UNCHANGED <<Held, Passed>>
    BY <1>3, RefusalGivesUp DEF LockTimeout, Fail
  <1>4. ASSUME NEW c \in Clients,
               CheckUser(c) \/ InsertAssignment(c) \/ ReadAssignment(c)
        PROVE  Ledger!Next \/ UNCHANGED <<Held, Passed>>
    <2>1. CASE \E why : Refuse(c, why)
      BY <2>1, RefusalGivesUp
    <2>2. CASE ~ \E why : Refuse(c, why)
      <3>1. CASE CheckUser(c)
        BY <2>2, <3>1, MoveIsUnseen DEF CheckUser, Goto, Quiet
      <3>2. CASE InsertAssignment(c)
        BY <2>2, <3>2, MoveIsUnseen DEF InsertAssignment, Goto, Quiet
      <3>3. CASE ReadAssignment(c)
        BY <2>2, <3>3, MoveIsUnseen DEF ReadAssignment, Goto, Quiet
      <3>. QED  BY <1>4, <3>1, <3>2, <3>3
    <2>. QED  BY <2>1, <2>2
  <1>5. ASSUME NEW c \in Clients,
               UpdateAssignment(c) \/ AddCreateEvent(c) \/ AddRevokeEvent(c)
        PROVE  UNCHANGED <<Held, Passed>>
    BY <1>5, MoveIsUnseen DEF UpdateAssignment, AddCreateEvent, AddRevokeEvent,
       Goto, Quiet
  <1>. QED
    BY <1>1, <1>2, <1>3, <1>4, <1>5, PassIsAStep, AssignTakesASeat,
       RevokeReleasesASeat DEF Next, Proceed

\* For any number of clients, licences and seats the service does nothing the
\* seat ledger does not allow.
THEOREM LedgerIsImplemented == Spec => ImplementsSeatLedger
  <1>1. Init => Ledger!Init
    BY DEF Init, Ledger!Init, Held, Passed, RowIds
  <1>2. ServiceInv /\ [Next]_vars => [Ledger!Next]_(Ledger!vars)
    BY LedgerStep DEF Ledger!vars
  <1>. QED
    BY <1>1, <1>2, ServiceInvariant, PTL DEF Spec, ImplementsSeatLedger,
       Ledger!Spec

\* What is proved of the ledger, of the seats the service assigns.
LedgerProofs == INSTANCE SeatLedgerProofs WITH held <- Held, passed <- Passed

LEMMA LedgerIsTheLedger ==
  /\ LedgerProofs!SeatLedgerAssumption
  /\ Ledger!Init => LedgerProofs!Init
  /\ [Ledger!Next]_(Ledger!vars) => [LedgerProofs!Next]_(LedgerProofs!vars)
  /\ \A l : LedgerProofs!SeatsUsed(l) = Ledger!SeatsUsed(l)
  /\ LedgerProofs!Cardinality(Clients) = Cardinality(Clients)
  <1>1. LedgerProofs!SeatLedgerAssumption
    BY AssignmentServiceAssumption
    DEF LedgerProofs!SeatLedgerAssumption, LedgerProofs!Pairs, Pairs,
        LedgerProofs!IsFiniteSet, IsFiniteSet
  <1>2. Ledger!Init => LedgerProofs!Init
    BY DEF Ledger!Init, LedgerProofs!Init
  <1>3. \A S : /\ LedgerProofs!Cardinality(S) = Cardinality(S)
               /\ Ledger!Cardinality(S) = Cardinality(S)
    BY DEF LedgerProofs!Cardinality, Ledger!Cardinality, Cardinality
  <1>4. [Ledger!Next]_(Ledger!vars) => [LedgerProofs!Next]_(LedgerProofs!vars)
    BY DEF Ledger!Next, Ledger!vars, Ledger!PassSeatCheck, Ledger!TakeSeat,
       Ledger!GiveUp, Ledger!ReleaseSeat, Ledger!SeatsUsed,
       Ledger!ActiveSeats, Ledger!Pairs, LedgerProofs!Next,
       LedgerProofs!vars, LedgerProofs!PassSeatCheck, LedgerProofs!TakeSeat,
       LedgerProofs!GiveUp, LedgerProofs!ReleaseSeat, LedgerProofs!SeatsUsed,
       LedgerProofs!ActiveSeats, LedgerProofs!Pairs, Ledger!Cardinality,
       LedgerProofs!Cardinality
  <1>5. \A l : LedgerProofs!SeatsUsed(l) = Ledger!SeatsUsed(l)
    BY <1>3 DEF Ledger!SeatsUsed, Ledger!ActiveSeats, LedgerProofs!SeatsUsed,
       LedgerProofs!ActiveSeats
  <1>. QED  BY <1>1, <1>2, <1>3, <1>4, <1>5

\* However the requests interleave, the active rows of a licence of n seats are
\* fewer than n and the number of clients together: the overfill that the
\* docstring of assign_licence warns of has this bound.
THEOREM RowsAreBounded ==
  Spec => [](\A l \in Licences :
                SeatsUsed(l) < SeatsTotal[l] + Cardinality(Clients))
  <1>1. ServiceInv /\ LedgerProofs!OverfillBounded
           => \A l \in Licences : SeatsUsed(l) < SeatsTotal[l] + Cardinality(Clients)
    BY SeatsAreCounted, LedgerIsTheLedger DEF LedgerProofs!OverfillBounded
  <1>. QED
    BY <1>1, LedgerIsImplemented, LedgerIsTheLedger, ServiceInvariant,
       LedgerProofs!OverfillIsBounded, PTL
    DEF ImplementsSeatLedger, Ledger!Spec, LedgerProofs!Spec
=============================================================================
