------------------------------ MODULE Directory ------------------------------
(***************************************************************************)
(* The users and the licences: how rows are created, concurrently, and how *)
(* the resolver finds the rows an instruction names meanwhile.             *)
(*                                                                         *)
(* A create request checks for a duplicate, then inserts; the unique       *)
(* constraint decides when another request came in between. Emails are     *)
(* stored stripped and lowercased, products stripped with their case kept, *)
(* while the resolver matches products ignoring case. SQLite is as in      *)
(* AssignmentService: SELECTs see what is committed at their instant, and  *)
(* the first INSERT holds the write lock until the commit or rollback.     *)
(***************************************************************************)
EXTENDS Naturals, Sequences, FiniteSets

CONSTANTS
    Words,        \* texts that differ in more than case and outer whitespace
    Blank,        \* the word of every text the input rules refuse
    Clients,      \* handlers of POST /users and POST /licences
    Resolvers,    \* agent runs that resolve
    MaxRequests,  \* bound: requests all clients make
    None

Tables == {"user", "licence"}
Texts == [word : Words, upper : BOOLEAN, padded : BOOLEAN]
            \cup [word : {Blank}, upper : {FALSE}, padded : {FALSE}]

ASSUME DirectoryAssumption ==
    /\ Blank \notin Words
    /\ MaxRequests \in Nat
    /\ Clients \cap Resolvers = {}
    /\ None \notin Clients
    /\ None \notin [email : Texts, product : Texts]

VARIABLES
    rows,      \* users.email and licences.product, by id, committed
    audit,     \* audit_events, committed
    lock,      \* who holds the write lock, or None
    pc,        \* the next statement of each request or resolution
    asked,     \* what it was asked
    found,     \* of a resolution: the ids of the user it has found
    began,     \* of a resolution (history): the audit events at its start
    answer,    \* what the last request or resolution came to
    requests   \* requests the clients have made

tables == <<rows, audit>>
vars == <<tables, lock, pc, asked, found, began, answer, requests>>

Actors == Clients \cup Resolvers

\* Mutant of Canonical: emails keep their case, as products do.
Stripped(table, text) == [text EXCEPT !.padded = FALSE]

\* The form a text is stored and looked up in: normalize_email for users, a
\* stripped product for licences.
Canonical(table, text) ==
    [text EXCEPT !.padded = FALSE,
                 !.upper = IF table = "user" THEN FALSE ELSE text.upper]

\* _validated_email, required_text
Valid(text) == text.word # Blank

\* get_by_email, get_by_product
IdsOf(table, key, all) == {i \in DOMAIN all[table] : all[table][i] = key}

\* find_licences_by_product: equal when casefolded and stripped.
Matches(product, all) ==
    {i \in DOMAIN all.licence : all.licence[i].word = product.word}

Init ==
    /\ rows = [t \in Tables |-> <<>>]
    /\ audit = <<>>
    /\ lock = None
    /\ pc = [a \in Actors |-> "idle"]
    /\ asked = [a \in Actors |-> None]
    /\ found = [r \in Resolvers |-> {}]
    /\ began = [r \in Resolvers |-> 0]
    /\ answer = [a \in Actors |-> <<"none", {}, {}>>]
    /\ requests = 0

At(a, here, next) == pc[a] = here /\ pc' = [pc EXCEPT ![a] = next]

Answer(a, what) == answer' = [answer EXCEPT ![a] = what]
-----------------------------------------------------------------------------
(* create_user and create_licence, in get_transaction.                     *)

BeginCreate(c) ==
    /\ At(c, "idle", "check")
    /\ requests < MaxRequests
    /\ requests' = requests + 1
    /\ \E t \in Tables, text \in Texts :
          asked' = [asked EXCEPT ![c] = [table |-> t, text |-> text]]
    /\ Answer(c, <<"none", {}, {}>>)
    /\ UNCHANGED <<tables, lock, found, began>>

KeyOf(c) == Canonical(asked[c].table, asked[c].text)
Taken(c) == IdsOf(asked[c].table, KeyOf(c), rows) # {}

\* The endpoint raises, and its transaction is rolled back.
Refuse(c, here, code) ==
    /\ At(c, here, "idle")
    /\ Answer(c, <<code, {}, {}>>)
    /\ lock' = IF lock = c THEN None ELSE lock
    /\ UNCHANGED <<tables, asked, found, began, requests>>

RefuseInvalid(c) ==
    /\ pc[c] = "check"
    /\ ~Valid(asked[c].text)
    /\ Refuse(c, "check", "invalid_input")

RefuseKnown(c) ==
    /\ pc[c] = "check"
    /\ Valid(asked[c].text)
    /\ Taken(c)
    /\ Refuse(c, "check", "already_exists")

CheckDuplicate(c) ==
    /\ At(c, "check", "insert")
    /\ Valid(asked[c].text)
    /\ ~Taken(c)
    /\ UNCHANGED <<tables, lock, asked, found, began, answer, requests>>

\* Mutant of Insert: there is no unique constraint.
InsertUnchecked(c) ==
    /\ At(c, "insert", "audit")
    /\ lock = None
    /\ lock' = c
    /\ UNCHANGED <<tables, asked, found, began, answer, requests>>

\* The INSERT, when no other transaction has one uncommitted.
Insert(c) ==
    /\ At(c, "insert", "audit")
    /\ lock = None
    /\ ~Taken(c)
    /\ lock' = c
    /\ UNCHANGED <<tables, asked, found, began, answer, requests>>

\* is_duplicate_email, is_duplicate_product
InsertDuplicate(c) ==
    /\ pc[c] = "insert"
    /\ lock = None
    /\ Taken(c)
    /\ Refuse(c, "insert", "already_exists")

LockTimeout(c) ==
    /\ lock \notin {None, c}
    /\ Refuse(c, "insert", "error")

EventOf(c) == [entity_type |-> asked[c].table, actor |-> c, after |-> KeyOf(c),
               entity_id |-> Len(rows[asked[c].table]) + 1]

\* Mutant of AddEvent: the event is committed on its own, ahead of the row.
CommitEvent(c) ==
    /\ At(c, "audit", "commit")
    /\ audit' = Append(audit, EventOf(c))
    /\ UNCHANGED <<rows, lock, asked, found, began, answer, requests>>

AddEvent(c) ==
    /\ At(c, "audit", "commit")
    /\ UNCHANGED <<tables, lock, asked, found, began, answer, requests>>

Commit(c) ==
    /\ At(c, "commit", "idle")
    /\ rows' = [rows EXCEPT ![asked[c].table] = Append(@, KeyOf(c))]
    /\ audit' = Append(audit, EventOf(c))
    /\ lock' = None
    /\ Answer(c, <<"created", {EventOf(c).entity_id}, {}>>)
    /\ UNCHANGED <<asked, found, began, requests>>

Fail(c) == \E here \in {"audit", "commit"} : Refuse(c, here, "error")
-----------------------------------------------------------------------------
(* resolve_assignment_goal, in a session of its own: two SELECTs.          *)

BeginResolve(r) ==
    /\ At(r, "idle", "find_user")
    /\ asked[r] = None
    /\ \E email \in Texts, product \in Texts :
          asked' = [asked EXCEPT ![r] = [email |-> email, product |-> product]]
    /\ began' = [began EXCEPT ![r] = Len(audit)]
    /\ UNCHANGED <<tables, lock, found, answer, requests>>

\* What the resolution comes to, given the user rows and licence rows found.
\* Both texts are validated before either "not found" is reported.
Resolution(email, product, users, licences) ==
    IF ~Valid(email) \/ ~Valid(product) THEN <<"invalid_input", {}, {}>>
    ELSE IF users = {} THEN <<"user_not_found", {}, {}>>
    ELSE IF licences = {} THEN <<"licence_not_found", {}, {}>>
    ELSE IF Cardinality(licences) > 1 THEN <<"licence_ambiguous", {}, licences>>
    ELSE <<"resolved", users, licences>>

\* An email that the input rules refuse: nothing is read.
RefuseEmail(r) ==
    /\ At(r, "find_user", "idle")
    /\ ~Valid(asked[r].email)
    /\ Answer(r, <<"invalid_input", {}, {}>>)
    /\ UNCHANGED <<tables, lock, asked, found, began, requests>>

\* Mutant of FindUser: the licences are read first, and the user at the end.
FindLater(r) ==
    \/ /\ At(r, "find_user", "find_user_last")
       /\ found' = [found EXCEPT ![r] = Matches(asked[r].product, rows)]
       /\ UNCHANGED <<tables, lock, asked, began, answer, requests>>
    \/ /\ At(r, "find_user_last", "idle")
       /\ Answer(r, Resolution(asked[r].email, asked[r].product,
                               IdsOf("user", Canonical("user", asked[r].email),
                                     rows),
                               found[r]))
       /\ UNCHANGED <<tables, lock, asked, found, began, requests>>

FindUser(r) ==
    /\ At(r, "find_user", "find_licences")
    /\ Valid(asked[r].email)
    /\ found' = [found EXCEPT
          ![r] = IdsOf("user", Canonical("user", asked[r].email), rows)]
    /\ UNCHANGED <<tables, lock, asked, began, answer, requests>>

FindLicences(r) ==
    /\ At(r, "find_licences", "idle")
    /\ Answer(r, Resolution(asked[r].email, asked[r].product, found[r],
                            Matches(asked[r].product, rows)))
    /\ found' = [found EXCEPT ![r] = {}]
    /\ UNCHANGED <<tables, lock, asked, began, requests>>

Next ==
    \/ \E c \in Clients : BeginCreate(c)
    \/ \E c \in Clients : RefuseInvalid(c)
    \/ \E c \in Clients : RefuseKnown(c)
    \/ \E c \in Clients : CheckDuplicate(c)
    \/ \E c \in Clients : Insert(c)
    \/ \E c \in Clients : InsertDuplicate(c)
    \/ \E c \in Clients : LockTimeout(c)
    \/ \E c \in Clients : AddEvent(c)
    \/ \E c \in Clients : Commit(c)
    \/ \E c \in Clients : Fail(c)
    \/ \E r \in Resolvers : BeginResolve(r)
    \/ \E r \in Resolvers : RefuseEmail(r)
    \/ \E r \in Resolvers : FindUser(r)
    \/ \E r \in Resolvers : FindLicences(r)

Spec == Init /\ [][Next]_vars
-----------------------------------------------------------------------------
(* Properties.                                                             *)

\* The types of the variables, with the stored texts in the form lookups use:
\* no email outside its canonical form, no product with whitespace around it.
TypeOK ==
    /\ \A t \in Tables : rows[t] \in Seq({k \in Texts : Valid(k) /\ ~k.padded})
    /\ \A i \in DOMAIN rows.user : ~rows.user[i].upper
    /\ audit \in Seq([entity_type : Tables, actor : Clients, after : Texts,
                      entity_id : Nat])
    /\ lock \in Clients \cup {None}
    /\ DOMAIN pc = Actors /\ DOMAIN asked = Actors /\ DOMAIN answer = Actors
    /\ found \in [Resolvers -> SUBSET Nat]
    /\ began \in [Resolvers -> Nat]
    /\ requests \in 0 .. MaxRequests

\* However create requests race, spellings of one email make one user, and a
\* product is there once in each case; so get_by_email and get_by_product find
\* one row at most (one_or_none would raise on two).
OneRowPerKey ==
    \A t \in Tables : \A i, j \in DOMAIN rows[t] : rows[t][i] = rows[t][j] => i = j

\* Each row has one create event, with its snapshot, and each event has its
\* row, rollbacks included; and the answers are true of what is committed:
\* who is told "created" made that row, and who is told that it exists can
\* find it.
CreationsAreAudited ==
    /\ \A t \in Tables : \A i \in DOMAIN rows[t] :
          Cardinality({n \in DOMAIN audit : audit[n].entity_type = t
                                            /\ audit[n].entity_id = i}) = 1
    /\ \A n \in DOMAIN audit :
          /\ audit[n].entity_id \in DOMAIN rows[audit[n].entity_type]
          /\ rows[audit[n].entity_type][audit[n].entity_id] = audit[n].after
    /\ \A c \in Clients :
          /\ answer[c][1] = "created"
                => \E n \in DOMAIN audit :
                      /\ audit[n].actor = c
                      /\ audit[n].entity_type = asked[c].table
                      /\ {audit[n].entity_id} = answer[c][2]
          /\ answer[c][1] = "already_exists" => Taken(c)

\* The rows when the first n events had been committed.
RowsAt(n) ==
    [t \in Tables |->
        SubSeq(rows[t], 1, Cardinality({m \in 1 .. n : audit[m].entity_type = t}))]

\* What a resolution would have come to in one read of both tables.
ResolutionOf(r, all) ==
    Resolution(asked[r].email, asked[r].product,
               IdsOf("user", Canonical("user", asked[r].email), all),
               Matches(asked[r].product, all))

\* Though a resolution reads the users at one instant and the licences at a
\* later one, its answer was the truth at some instant between its start and
\* its end: never a goal that did not exist, nor a choice between candidates,
\* nor the wrong one of the two "not found".
ResolutionWasTrue ==
    \A r \in Resolvers : answer[r][1] # "none" =>
        \E n \in began[r] .. Len(audit) : answer[r] = ResolutionOf(r, RowsAt(n))
=============================================================================
