---------------------------- MODULE DirectoryProofs ----------------------------
(***************************************************************************)
(* The directory for any number of clients, requests and resolutions, and  *)
(* any words: one row per key, creations audited and truly answered, and   *)
(* every resolution true at one instant of its own.                        *)
(***************************************************************************)
EXTENDS Directory, Integers, SequenceTheorems, FiniteSetTheorems, TLAPS

(* The invariant.                                                          *)

ClientPCs == {"idle", "check", "insert", "audit", "commit"}
ResolverPCs == {"idle", "find_user", "find_licences"}
Requests == [table : Tables, text : Texts]
Goals == [email : Texts, product : Texts]
Codes ==
    {"none", "created", "already_exists", "invalid_input", "error", "resolved",
     "user_not_found", "licence_not_found", "licence_ambiguous"}
AnswerTypes == Codes \X (SUBSET Nat) \X (SUBSET Nat)
Stored == {k \in Texts : Valid(k) /\ ~k.padded}
Event == [entity_type : Tables, actor : Clients, after : Texts, entity_id : Nat]

\* Everything the clients' part is made of.
DirectoryTypes ==
    /\ rows \in [Tables -> Seq(Stored)]
    /\ \A i \in DOMAIN rows.user : ~rows.user[i].upper
    /\ audit \in Seq(Event)
    /\ lock \in Clients \cup {None}
    /\ pc \in [Actors -> ClientPCs \cup ResolverPCs]
    /\ asked \in [Actors -> Requests \cup Goals \cup {None}]
    /\ answer \in [Actors -> AnswerTypes]
    /\ found \in [Resolvers -> SUBSET Nat]
    /\ began \in [Resolvers -> Nat]
    /\ requests \in 0 .. MaxRequests

\* The events of a table among the first n.
EventsOf(t, n) == {m \in 1 .. n : audit[m].entity_type = t}

\* The event of a row.
EventsOfRow(t, i) ==
    {n \in DOMAIN audit : audit[n].entity_type = t /\ audit[n].entity_id = i}

\* CreationsAreAudited, without its cardinality, in parts: ...
EachRowHasItsEvent ==
    \A t \in Tables : \A i \in DOMAIN rows[t] :
        \E n \in DOMAIN audit : EventsOfRow(t, i) = {n}

EachEventHasItsRow ==
    \A n \in DOMAIN audit :
        /\ audit[n].entity_id \in DOMAIN rows[audit[n].entity_type]
        /\ rows[audit[n].entity_type][audit[n].entity_id] = audit[n].after

AnsweredTruly(c) ==
    /\ answer[c][1] = "created"
          => \E n \in DOMAIN audit : /\ audit[n].actor = c
                                     /\ audit[n].entity_type = asked[c].table
                                     /\ {audit[n].entity_id} = answer[c][2]
    /\ answer[c][1] = "already_exists" => Taken(c)

\* ... and what the audit log says of the rows at an instant: how many there
\* were.
RowsAreCounted ==
    \A t \in Tables : Cardinality(EventsOf(t, Len(audit))) = Len(rows[t])

\* A request that has inserted holds the lock, and its key is still free.
ClientFits(c) ==
    /\ pc[c] \in ClientPCs
    /\ pc[c] # "idle" \/ answer[c][1] \in {"created", "already_exists"}
          => asked[c] \in Requests
    /\ pc[c] \in {"insert", "audit", "commit"} => Valid(asked[c].text)
    /\ pc[c] \in {"audit", "commit"} => lock = c /\ ~Taken(c)
    /\ AnsweredTruly(c)

UsersAt(r, n) ==
    IdsOf("user", Canonical("user", asked[r].email), RowsAt(n))

\* A resolution has found the users of an instant since it began, and its
\* answer was true at one.
ResolverFits(r) ==
    /\ pc[r] \in ResolverPCs
    /\ asked[r] = None => pc[r] = "idle" /\ answer[r][1] = "none"
    /\ asked[r] # None => asked[r] \in Goals
    /\ pc[r] # "idle" => answer[r][1] = "none"
    /\ began[r] <= Len(audit)
    /\ pc[r] = "find_licences" =>
          \E n \in began[r] .. Len(audit) : found[r] = UsersAt(r, n)
    /\ answer[r][1] # "none" =>
          \E n \in began[r] .. Len(audit) : answer[r] = ResolutionOf(r, RowsAt(n))

DirectoryInv ==
    /\ DirectoryTypes
    /\ OneRowPerKey
    /\ EachRowHasItsEvent
    /\ EachEventHasItsRow
    /\ RowsAreCounted
    /\ \A c \in Clients : ClientFits(c)
    /\ \A r \in Resolvers : ResolverFits(r)
-----------------------------------------------------------------------------
(* Texts, and what is found of them.                                       *)

LEMMA CanonicalIsStored ==
  ASSUME NEW t \in Tables, NEW text \in Texts
  PROVE  /\ Canonical(t, text) \in Texts
         /\ Valid(text) => Canonical(t, text) \in Stored
         /\ t = "user" => ~Canonical(t, text).upper
  BY DEF Texts, Canonical, Stored, Valid

\* What a resolution answers is made of ids.
LEMMA ResolutionIsAnAnswer ==
  ASSUME NEW email, NEW product, NEW users \in SUBSET Nat,
         NEW licences \in SUBSET Nat
  PROVE  /\ Resolution(email, product, users, licences)
                \in AnswerTypes
         /\ Resolution(email, product, users, licences)[1] # "none"
  BY DEF Resolution, AnswerTypes, Codes

\* The rows when all the events had been committed are the rows.
LEMMA RowsNow ==
  ASSUME DirectoryInv
  PROVE  RowsAt(Len(audit)) = rows
  <1>1. ASSUME NEW t \in Tables
        PROVE  SubSeq(rows[t], 1, Cardinality(EventsOf(t, Len(audit)))) = rows[t]
    <2>1. rows[t] \in Seq(Stored)
      BY DEF DirectoryInv, DirectoryTypes
    <2>2. Cardinality(EventsOf(t, Len(audit))) = Len(rows[t])
      BY DEF DirectoryInv, RowsAreCounted
    <2>. QED  BY <2>1, <2>2, SubSeqFull
  <1>2. rows = [t \in Tables |-> rows[t]]
    BY DEF DirectoryInv, DirectoryTypes
  <1>. QED  BY <1>1, <1>2 DEF RowsAt, EventsOf

\* The rows of an instant were the first of those there are now.
LEMMA RowsOfAnInstant ==
  ASSUME DirectoryInv, NEW n \in 0 .. Len(audit), NEW t \in Tables
  PROVE  /\ IsFiniteSet(EventsOf(t, n))
         /\ Cardinality(EventsOf(t, n)) \in 0 .. Len(rows[t])
         /\ RowsAt(n)[t] = SubSeq(rows[t], 1, Cardinality(EventsOf(t, n)))
         /\ DOMAIN RowsAt(n)[t] = 1 .. Cardinality(EventsOf(t, n))
         /\ \A i \in 1 .. Cardinality(EventsOf(t, n)) : RowsAt(n)[t][i] = rows[t][i]
  <1>1. Len(audit) \in Nat /\ rows[t] \in Seq(Stored) /\ Len(rows[t]) \in Nat
    BY LenProperties DEF DirectoryInv, DirectoryTypes
  <1>2. /\ IsFiniteSet(EventsOf(t, Len(audit)))
        /\ EventsOf(t, n) \subseteq EventsOf(t, Len(audit))
    <2>1. IsFiniteSet(1 .. Len(audit))
      BY <1>1, FS_Interval
    <2>2. EventsOf(t, Len(audit)) \subseteq 1 .. Len(audit)
      BY DEF EventsOf
    <2>3. EventsOf(t, n) \subseteq EventsOf(t, Len(audit))
      BY <1>1 DEF EventsOf
    <2>. QED  BY <2>1, <2>2, <2>3, FS_Subset
  <1>3. Cardinality(EventsOf(t, Len(audit))) = Len(rows[t])
    BY DEF DirectoryInv, RowsAreCounted
  <1>4. /\ IsFiniteSet(EventsOf(t, n))
        /\ Cardinality(EventsOf(t, n)) \in 0 .. Len(rows[t])
    BY <1>1, <1>2, <1>3, FS_Subset, FS_CardinalityType
  <1>5. RowsAt(n)[t] = SubSeq(rows[t], 1, Cardinality(EventsOf(t, n)))
    BY DEF RowsAt, EventsOf
  <1>. DEFINE k == Cardinality(EventsOf(t, n))
  <1>6. /\ DOMAIN SubSeq(rows[t], 1, k) = 1 .. k
        /\ \A i \in 1 .. k : SubSeq(rows[t], 1, k)[i] = rows[t][i]
    <2>. HIDE DEF k
    <2>. QED  BY <1>1, <1>4 DEF k
  <1>. QED  BY <1>4, <1>5, <1>6
-----------------------------------------------------------------------------
(* A client's steps that commit nothing.                                   *)

\* With the tables as they are, only what the client itself is about matters.
LEMMA MoveKeepsInv ==
  ASSUME DirectoryInv, NEW c \in Clients, UNCHANGED <<tables, found, began>>,
         requests' \in 0 .. MaxRequests,
         pc' = [pc EXCEPT ![c] = pc'[c]],
         asked' = [asked EXCEPT ![c] = asked'[c]],
         answer' = [answer EXCEPT ![c] = answer'[c]],
         asked'[c] \in Requests, answer'[c] \in AnswerTypes,
         lock' \in {lock, c, None}, lock' # lock => lock \in {None, c},
         ClientFits(c)'
  PROVE  DirectoryInv'
  <1>1. DirectoryTypes'
    BY DEF DirectoryInv, DirectoryTypes, tables, ClientFits, Actors
  <1>2. OneRowPerKey' /\ EachRowHasItsEvent' /\ EachEventHasItsRow'
          /\ RowsAreCounted'
    BY DEF DirectoryInv, tables, OneRowPerKey, EachRowHasItsEvent, EventsOfRow,
       EachEventHasItsRow, RowsAreCounted, EventsOf
  <1>3. ASSUME NEW b \in Clients, b # c PROVE ClientFits(b)'
    <2>1. b \in Actors /\ c \in Actors /\ ClientFits(b)
      BY DEF DirectoryInv, Actors
    <2>2. pc'[b] = pc[b] /\ asked'[b] = asked[b] /\ answer'[b] = answer[b]
      BY <1>3, <2>1 DEF DirectoryInv, DirectoryTypes
    <2>3. lock = b => lock' = b
      BY <1>3, DirectoryAssumption
    <2>4. Taken(b)' = Taken(b)
      BY <2>2 DEF Taken, KeyOf, tables
    <2>. QED
      BY <2>1, <2>2, <2>3, <2>4 DEF ClientFits, AnsweredTruly, tables
  <1>4. ASSUME NEW r \in Resolvers PROVE ResolverFits(r)'
    <2>1. r \in Actors /\ r # c /\ ResolverFits(r)
      BY DirectoryAssumption DEF DirectoryInv, Actors
    <2>2. pc'[r] = pc[r] /\ asked'[r] = asked[r] /\ answer'[r] = answer[r]
      BY <2>1 DEF DirectoryInv, DirectoryTypes
    <2>3. \A n : UsersAt(r, n)' = UsersAt(r, n)
      BY <2>2 DEF UsersAt, RowsAt, tables
    <2>4. \A n : ResolutionOf(r, RowsAt(n))' = ResolutionOf(r, RowsAt(n))
      BY <2>2 DEF ResolutionOf, RowsAt, tables
    <2>. QED
      BY <2>1, <2>2, <2>3, <2>4 DEF ResolverFits, tables
  <1>. QED
    BY <1>1, <1>2, <1>3, <1>4 DEF DirectoryInv

LEMMA BeginKeepsInv ==
  ASSUME DirectoryInv, NEW c \in Clients, BeginCreate(c)
  PROVE  DirectoryInv'
  <1>1. c \in Actors /\ ClientFits(c)
    BY DEF DirectoryInv, Actors
  <1>2. /\ pc'[c] = "check" /\ pc' = [pc EXCEPT ![c] = pc'[c]]
        /\ asked'[c] \in Requests /\ asked' = [asked EXCEPT ![c] = asked'[c]]
        /\ answer'[c] = <<"none", {}, {}>>
        /\ answer' = [answer EXCEPT ![c] = answer'[c]]
    BY <1>1 DEF BeginCreate, At, Answer, DirectoryInv, DirectoryTypes, Requests
  <1>3. ClientFits(c)'
    BY <1>2 DEF ClientFits, AnsweredTruly, ClientPCs
  <1>4. requests' \in 0 .. MaxRequests
    BY DirectoryAssumption DEF BeginCreate, DirectoryInv, DirectoryTypes
  <1>5. answer'[c] \in AnswerTypes
    BY <1>2 DEF AnswerTypes, Codes
  <1>. QED
    BY <1>2, <1>3, <1>4, <1>5, MoveKeepsInv DEF BeginCreate

\* A request that ends without a commit was refused, or met an error; told of a
\* row that exists, the client has met it.
LEMMA RefusalKeepsInv ==
  ASSUME DirectoryInv, NEW c \in Clients, NEW here \in ClientPCs \ {"idle"},
         NEW code \in {"invalid_input", "already_exists", "error"},
         Refuse(c, here, code), code = "already_exists" => Taken(c)
  PROVE  DirectoryInv'
  <1>1. c \in Actors /\ ClientFits(c)
    BY DEF DirectoryInv, Actors
  <1>2. /\ pc'[c] = "idle" /\ pc' = [pc EXCEPT ![c] = pc'[c]]
        /\ pc[c] = here
        /\ answer'[c] = <<code, {}, {}>>
        /\ answer' = [answer EXCEPT ![c] = answer'[c]]
    BY <1>1 DEF Refuse, At, Answer, DirectoryInv, DirectoryTypes
  <1>3. asked'[c] \in Requests /\ asked' = [asked EXCEPT ![c] = asked'[c]]
    BY <1>1, <1>2 DEF Refuse, ClientFits, DirectoryInv, DirectoryTypes
  <1>4. Taken(c)' = Taken(c)
    BY DEF Refuse, tables, Taken, KeyOf
  <1>5. ClientFits(c)'
    BY <1>2, <1>3, <1>4 DEF ClientFits, AnsweredTruly, ClientPCs
  <1>6. answer'[c] \in AnswerTypes
    BY <1>2 DEF AnswerTypes, Codes
  <1>7. requests' \in 0 .. MaxRequests
    BY DEF Refuse, DirectoryInv, DirectoryTypes
  <1>. QED
    BY <1>2, <1>3, <1>5, <1>6, <1>7, MoveKeepsInv DEF Refuse

\* The INSERT meets no row of its key, and takes the lock: nobody commits one
\* until this client does.
LEMMA StatementKeepsInv ==
  ASSUME DirectoryInv, NEW c \in Clients,
         CheckDuplicate(c) \/ Insert(c) \/ AddEvent(c)
  PROVE  DirectoryInv'
  <1>1. c \in Actors /\ ClientFits(c)
    BY DEF DirectoryInv, Actors
  <1>2. /\ pc'[c] \in {"insert", "audit", "commit"}
        /\ pc' = [pc EXCEPT ![c] = pc'[c]]
        /\ pc[c] # "idle"
        /\ UNCHANGED <<tables, asked, found, began, answer, requests>>
    BY <1>1 DEF CheckDuplicate, Insert, AddEvent, At, DirectoryInv, DirectoryTypes
  <1>3. /\ asked'[c] \in Requests /\ asked' = [asked EXCEPT ![c] = asked'[c]]
        /\ answer' = [answer EXCEPT ![c] = answer'[c]]
        /\ answer'[c] \in AnswerTypes
        /\ requests' \in 0 .. MaxRequests
    BY <1>1, <1>2 DEF ClientFits, DirectoryInv, DirectoryTypes
  <1>4. Taken(c)' = Taken(c)
    BY <1>2 DEF tables, Taken, KeyOf
  <1>5. Valid(asked[c].text)
    BY <1>1 DEF ClientFits, CheckDuplicate, Insert, AddEvent, At
  <1>6. pc'[c] \in {"audit", "commit"} => lock' = c /\ ~Taken(c)
    BY <1>1 DEF ClientFits, CheckDuplicate, Insert, AddEvent, At, DirectoryInv,
       DirectoryTypes
  <1>7. AnsweredTruly(c)'
    BY <1>1, <1>2, <1>4 DEF ClientFits, AnsweredTruly, tables
  <1>8. ClientFits(c)'
    BY <1>2, <1>3, <1>4, <1>5, <1>6, <1>7 DEF ClientFits, ClientPCs
  <1>9. lock' \in {lock, c, None} /\ (lock' # lock => lock \in {None, c})
    BY DEF CheckDuplicate, Insert, AddEvent
  <1>. QED
    BY <1>2, <1>3, <1>8, <1>9, MoveKeepsInv
-----------------------------------------------------------------------------
(* A resolution's steps.                                                   *)

LEMMA ReadKeepsInv ==
  ASSUME DirectoryInv, NEW r \in Resolvers, UNCHANGED <<tables, lock, requests>>,
         pc' = [pc EXCEPT ![r] = pc'[r]],
         asked' = [asked EXCEPT ![r] = asked'[r]],
         answer' = [answer EXCEPT ![r] = answer'[r]],
         found' = [found EXCEPT ![r] = found'[r]],
         began' = [began EXCEPT ![r] = began'[r]],
         asked'[r] \in Goals, answer'[r] \in AnswerTypes,
         found'[r] \in SUBSET Nat, began'[r] \in Nat,
         ResolverFits(r)'
  PROVE  DirectoryInv'
  <1>1. DirectoryTypes'
    BY DEF DirectoryInv, DirectoryTypes, tables, ResolverFits, Actors
  <1>2. OneRowPerKey' /\ EachRowHasItsEvent' /\ EachEventHasItsRow'
          /\ RowsAreCounted'
    BY DEF DirectoryInv, tables, OneRowPerKey, EachRowHasItsEvent, EventsOfRow,
       EachEventHasItsRow, RowsAreCounted, EventsOf
  <1>3. ASSUME NEW c \in Clients PROVE ClientFits(c)'
    <2>1. c \in Actors /\ r \in Actors /\ c # r /\ ClientFits(c)
      BY DirectoryAssumption DEF DirectoryInv, Actors
    <2>2. pc'[c] = pc[c] /\ asked'[c] = asked[c] /\ answer'[c] = answer[c]
      BY <2>1 DEF DirectoryInv, DirectoryTypes
    <2>3. Taken(c)' = Taken(c)
      BY <2>2 DEF Taken, KeyOf, tables
    <2>. QED
      BY <2>1, <2>2, <2>3 DEF ClientFits, AnsweredTruly, tables
  <1>4. ASSUME NEW q \in Resolvers, q # r PROVE ResolverFits(q)'
    <2>1. q \in Actors /\ ResolverFits(q)
      BY DEF DirectoryInv, Actors
    <2>2. /\ pc'[q] = pc[q] /\ asked'[q] = asked[q] /\ answer'[q] = answer[q]
          /\ found'[q] = found[q] /\ began'[q] = began[q]
      BY <1>4, <2>1 DEF DirectoryInv, DirectoryTypes
    <2>3. \A n : UsersAt(q, n)' = UsersAt(q, n)
      BY <2>2 DEF UsersAt, RowsAt, tables
    <2>4. \A n : ResolutionOf(q, RowsAt(n))' = ResolutionOf(q, RowsAt(n))
      BY <2>2 DEF ResolutionOf, RowsAt, tables
    <2>. QED
      BY <2>1, <2>2, <2>3, <2>4 DEF ResolverFits, tables
  <1>. QED
    BY <1>1, <1>2, <1>3, <1>4 DEF DirectoryInv

LEMMA BeginResolveKeepsInv ==
  ASSUME DirectoryInv, NEW r \in Resolvers, BeginResolve(r)
  PROVE  DirectoryInv'
  <1>1. r \in Actors /\ ResolverFits(r) /\ Len(audit) \in Nat
    BY LenProperties DEF DirectoryInv, DirectoryTypes, Actors
  <1>2. /\ pc'[r] = "find_user" /\ pc' = [pc EXCEPT ![r] = pc'[r]]
        /\ asked'[r] \in Goals /\ asked' = [asked EXCEPT ![r] = asked'[r]]
        /\ began'[r] = Len(audit) /\ began' = [began EXCEPT ![r] = began'[r]]
        /\ answer[r][1] = "none"
    BY <1>1 DEF BeginResolve, At, DirectoryInv, DirectoryTypes, Goals, ResolverFits
  <1>3. /\ answer' = [answer EXCEPT ![r] = answer'[r]] /\ answer' = answer
        /\ found' = [found EXCEPT ![r] = found'[r]]
        /\ answer'[r] \in AnswerTypes /\ found'[r] \in SUBSET Nat
    BY <1>1 DEF BeginResolve, DirectoryInv, DirectoryTypes
  <1>4. ResolverFits(r)'
    <2>1. asked'[r] # None
      BY <1>2, DirectoryAssumption DEF Goals
    <2>. QED
      BY <1>1, <1>2, <1>3, <2>1 DEF BeginResolve, ResolverFits, ResolverPCs, tables
  <1>. QED
    BY <1>1, <1>2, <1>3, <1>4, ReadKeepsInv DEF BeginResolve

\* The users of now are those of an instant since the resolution began.
LEMMA FindUserKeepsInv ==
  ASSUME DirectoryInv, NEW r \in Resolvers, FindUser(r)
  PROVE  DirectoryInv'
  <1>1. r \in Actors /\ ResolverFits(r) /\ Len(audit) \in Nat
    BY LenProperties DEF DirectoryInv, DirectoryTypes, Actors
  <1>2. /\ pc[r] = "find_user" /\ pc'[r] = "find_licences"
        /\ pc' = [pc EXCEPT ![r] = pc'[r]]
        /\ found'[r] = IdsOf("user", Canonical("user", asked[r].email), rows)
        /\ found' = [found EXCEPT ![r] = found'[r]]
    BY <1>1 DEF FindUser, At, DirectoryInv, DirectoryTypes
  <1>3. /\ UNCHANGED <<tables, lock, asked, began, answer, requests>>
        /\ asked[r] \in Goals /\ answer[r][1] = "none"
    BY <1>1, <1>2 DEF FindUser, ResolverFits
  <1>4. /\ asked' = [asked EXCEPT ![r] = asked'[r]]
        /\ answer' = [answer EXCEPT ![r] = answer'[r]]
        /\ began' = [began EXCEPT ![r] = began'[r]]
        /\ answer'[r] \in AnswerTypes /\ began'[r] \in Nat
    BY <1>1, <1>3 DEF DirectoryInv, DirectoryTypes
  <1>5. found'[r] \in SUBSET Nat
    <2>1. rows.user \in Seq(Stored)
      BY DEF DirectoryInv, DirectoryTypes, Tables
    <2>2. DOMAIN rows.user \subseteq Nat
      BY <2>1, LenProperties
    <2>. QED  BY <1>2, <2>2 DEF IdsOf
  <1>6. ResolverFits(r)'
    <2>1. UsersAt(r, Len(audit))' = found'[r]
      <3>1. RowsAt(Len(audit))' = RowsAt(Len(audit))
        BY <1>3 DEF RowsAt, tables
      <3>2. RowsAt(Len(audit))' = rows
        BY <3>1, RowsNow
      <3>. QED  BY <1>2, <1>3, <3>2 DEF UsersAt
    <2>2. Len(audit)' = Len(audit) /\ began'[r] <= Len(audit)
      BY <1>1, <1>3 DEF tables, ResolverFits
    <2>3. \E n \in (began[r] .. Len(audit))' : found'[r] = UsersAt(r, n)'
      BY <1>1, <1>4, <2>1, <2>2
    <2>4. asked'[r] \in Goals /\ answer'[r][1] = "none" /\ asked'[r] # None
      BY <1>3, DirectoryAssumption DEF Goals
    <2>. QED
      BY <1>2, <2>2, <2>3, <2>4 DEF ResolverFits, ResolverPCs
  <1>. QED
    BY <1>2, <1>3, <1>4, <1>5, <1>6, ReadKeepsInv

\* What the two SELECTs found together is what one of the two instants shows:
\* where no user was found, or a text is refused, the first; otherwise the
\* user is still the only one of that email, at the second.
LEMMA ReadsAreOneInstant ==
  ASSUME DirectoryInv, NEW r \in Resolvers, pc[r] = "find_licences"
  PROVE  \E n \in began[r] .. Len(audit) :
            Resolution(asked[r].email, asked[r].product, found[r],
                       Matches(asked[r].product, rows))
               = ResolutionOf(r, RowsAt(n))
  <1>. DEFINE email == asked[r].email
              product == asked[r].product
  <1>1. ResolverFits(r) /\ began[r] \in Nat /\ Len(audit) \in Nat
    BY LenProperties DEF DirectoryInv, DirectoryTypes
  <1>2. PICK n \in began[r] .. Len(audit) : found[r] = UsersAt(r, n)
    BY <1>1 DEF ResolverFits
  <1>3. CASE ~Valid(email) \/ ~Valid(product) \/ found[r] = {}
    <2>1. Resolution(email, product, found[r], Matches(product, rows))
            = Resolution(email, product, found[r], Matches(product, RowsAt(n)))
      BY <1>3 DEF Resolution
    <2>2. ResolutionOf(r, RowsAt(n))
            = Resolution(email, product, found[r], Matches(product, RowsAt(n)))
      BY <1>2 DEF ResolutionOf, UsersAt
    <2>. QED  BY <1>2, <2>1, <2>2
  <1>4. CASE found[r] # {}
    <2>. DEFINE key == Canonical("user", email)
    <2>1. /\ DOMAIN RowsAt(n).user \subseteq DOMAIN rows.user
          /\ \A i \in DOMAIN RowsAt(n).user : RowsAt(n).user[i] = rows.user[i]
      <3>1. "user" \in Tables /\ n \in 0 .. Len(audit)
        BY <1>1, <1>2 DEF Tables
      <3>2. DOMAIN rows.user = 1 .. Len(rows.user) /\ Len(rows.user) \in Nat
        BY <3>1, LenProperties DEF DirectoryInv, DirectoryTypes
      <3>3. /\ DOMAIN RowsAt(n)["user"] = 1 .. Cardinality(EventsOf("user", n))
            /\ Cardinality(EventsOf("user", n)) \in 0 .. Len(rows["user"])
            /\ \A i \in 1 .. Cardinality(EventsOf("user", n)) :
                  RowsAt(n)["user"][i] = rows["user"][i]
        BY <3>1, RowsOfAnInstant
      <3>. QED  BY <3>2, <3>3
    <2>2. found[r] \subseteq IdsOf("user", key, rows)
      BY <1>2, <2>1 DEF UsersAt, IdsOf
    <2>3. \A i, j \in IdsOf("user", key, rows) : i = j
      BY DEF IdsOf, DirectoryInv, OneRowPerKey, Tables
    <2>4. found[r] = IdsOf("user", key, rows)
      BY <1>4, <2>2, <2>3
    <2>5. ResolutionOf(r, RowsAt(Len(audit)))
            = Resolution(email, product, found[r], Matches(product, rows))
      BY <2>4, RowsNow DEF ResolutionOf
    <2>6. Len(audit) \in began[r] .. Len(audit)
      BY <1>1 DEF ResolverFits
    <2>. QED  BY <2>5, <2>6
  <1>. QED  BY <1>3, <1>4

LEMMA FindLicencesKeepsInv ==
  ASSUME DirectoryInv, NEW r \in Resolvers, FindLicences(r) \/ RefuseEmail(r)
  PROVE  DirectoryInv'
  <1>1. r \in Actors /\ ResolverFits(r) /\ Len(audit) \in Nat /\ began[r] \in Nat
    BY LenProperties DEF DirectoryInv, DirectoryTypes, Actors
  <1>2. /\ pc[r] # "idle" /\ pc'[r] = "idle" /\ pc' = [pc EXCEPT ![r] = pc'[r]]
        /\ UNCHANGED <<tables, lock, asked, began, requests>>
        /\ answer' = [answer EXCEPT ![r] = answer'[r]]
        /\ found' = [found EXCEPT ![r] = found'[r]]
        /\ found'[r] \in SUBSET Nat
    BY <1>1 DEF FindLicences, RefuseEmail, At, Answer, DirectoryInv, DirectoryTypes
  <1>3. asked[r] \in Goals /\ asked[r] # None
    BY <1>1, <1>2 DEF ResolverFits
  <1>4. /\ asked' = [asked EXCEPT ![r] = asked'[r]]
        /\ began' = [began EXCEPT ![r] = began'[r]]
    BY <1>1, <1>2 DEF DirectoryInv, DirectoryTypes
  <1>5. /\ answer'[r] \in AnswerTypes
        /\ \E n \in began[r] .. Len(audit) : answer'[r] = ResolutionOf(r, RowsAt(n))
    <2>1. CASE FindLicences(r)
      <3>1. answer'[r] = Resolution(asked[r].email, asked[r].product, found[r],
                                    Matches(asked[r].product, rows))
        BY <1>1, <2>1 DEF FindLicences, Answer, DirectoryInv, DirectoryTypes
      <3>2. found[r] \in SUBSET Nat /\ Matches(asked[r].product, rows) \in SUBSET Nat
        <4>1. rows.licence \in Seq(Stored)
          BY DEF DirectoryInv, DirectoryTypes, Tables
        <4>2. DOMAIN rows.licence \subseteq Nat
          BY <4>1, LenProperties
        <4>. QED  BY <4>2 DEF Matches, DirectoryInv, DirectoryTypes
      <3>3. pc[r] = "find_licences"
        BY <2>1 DEF FindLicences, At
      <3>. QED  BY <3>1, <3>2, <3>3, ReadsAreOneInstant, ResolutionIsAnAnswer
    <2>2. CASE RefuseEmail(r)
      <3>1. answer'[r] = <<"invalid_input", {}, {}>> /\ ~Valid(asked[r].email)
        BY <1>1, <2>2 DEF RefuseEmail, Answer, DirectoryInv, DirectoryTypes
      <3>2. \A all : ResolutionOf(r, all) = <<"invalid_input", {}, {}>>
        BY <3>1 DEF ResolutionOf, Resolution
      <3>3. Len(audit) \in began[r] .. Len(audit)
        BY <1>1 DEF ResolverFits
      <3>. QED  BY <3>1, <3>2, <3>3 DEF AnswerTypes, Codes
    <2>. QED  BY <2>1, <2>2
  <1>6. ResolverFits(r)'
    <2>1. \A n : ResolutionOf(r, RowsAt(n))' = ResolutionOf(r, RowsAt(n))
      BY <1>2 DEF ResolutionOf, RowsAt, tables
    <2>2. /\ began'[r] = began[r] /\ Len(audit)' = Len(audit)
          /\ began[r] <= Len(audit)
      BY <1>1, <1>2 DEF tables, ResolverFits
    <2>3. \E n \in (began[r] .. Len(audit))' :
             answer'[r] = ResolutionOf(r, RowsAt(n))'
      BY <1>5, <2>1, <2>2
    <2>. QED
      BY <1>2, <1>3, <2>2, <2>3 DEF ResolverFits, ResolverPCs
  <1>. QED
    BY <1>1, <1>2, <1>3, <1>4, <1>5, <1>6, ReadKeepsInv
-----------------------------------------------------------------------------
(* A creation's commit.                                                    *)

\* It adds one row and its event, at the end of either.
LEMMA CommitAppends ==
  ASSUME DirectoryInv, NEW c \in Clients, Commit(c)
  PROVE  /\ asked[c].table \in Tables /\ KeyOf(c) \in Stored
         /\ asked[c].table = "user" => ~KeyOf(c).upper
         /\ EventOf(c) \in Event
         /\ Len(audit) \in Nat /\ DOMAIN audit = 1 .. Len(audit)
         /\ audit' \in Seq(Event) /\ Len(audit') = Len(audit) + 1
         /\ DOMAIN audit' = 1 .. Len(audit) + 1
         /\ audit'[Len(audit) + 1] = EventOf(c)
         /\ \A n \in 1 .. Len(audit) : audit'[n] = audit[n]
         /\ rows' \in [Tables -> Seq(Stored)]
         /\ \A t \in Tables :
               /\ Len(rows[t]) \in Nat /\ DOMAIN rows[t] = 1 .. Len(rows[t])
               /\ Len(rows'[t]) = IF t = asked[c].table THEN Len(rows[t]) + 1
                                  ELSE Len(rows[t])
               /\ DOMAIN rows'[t] = 1 .. Len(rows'[t])
               /\ \A i \in 1 .. Len(rows[t]) : rows'[t][i] = rows[t][i]
         /\ rows'[asked[c].table][Len(rows[asked[c].table]) + 1] = KeyOf(c)
         /\ lock = c /\ ~Taken(c)
  <1>. DEFINE t == asked[c].table
  <1>1. ClientFits(c) /\ pc[c] = "commit" /\ asked[c] \in Requests
    BY DEF DirectoryInv, ClientFits, Commit, At
  <1>2. t \in Tables /\ KeyOf(c) \in Stored /\ (t = "user" => ~KeyOf(c).upper)
    BY <1>1, CanonicalIsStored DEF Requests, KeyOf, ClientFits
  <1>3. rows \in [Tables -> Seq(Stored)] /\ audit \in Seq(Event)
    BY DEF DirectoryInv, DirectoryTypes
  <1>4. \A s \in Tables : Len(rows[s]) \in Nat /\ DOMAIN rows[s] = 1 .. Len(rows[s])
    BY <1>3, LenProperties
  <1>5. EventOf(c) \in Event
    BY <1>2, <1>4 DEF EventOf, Event, Stored
  <1>6. /\ audit' = Append(audit, EventOf(c))
        /\ rows' = [rows EXCEPT ![t] = Append(rows[t], KeyOf(c))]
    BY DEF Commit
  <1>7. /\ Len(audit) \in Nat /\ DOMAIN audit = 1 .. Len(audit)
        /\ audit' \in Seq(Event) /\ Len(audit') = Len(audit) + 1
        /\ audit'[Len(audit) + 1] = EventOf(c)
        /\ \A n \in 1 .. Len(audit) : audit'[n] = audit[n]
    BY <1>3, <1>5, <1>6, AppendProperties, LenProperties
  <1>8. DOMAIN audit' = 1 .. Len(audit) + 1
    BY <1>7, LenProperties
  <1>9. LET longer == Append(rows[t], KeyOf(c))
        IN  /\ longer \in Seq(Stored) /\ Len(longer) = Len(rows[t]) + 1
            /\ longer[Len(rows[t]) + 1] = KeyOf(c)
            /\ \A i \in 1 .. Len(rows[t]) : longer[i] = rows[t][i]
    BY <1>2, <1>3, AppendProperties
  <1>10. /\ rows' \in [Tables -> Seq(Stored)]
         /\ rows'[t] = Append(rows[t], KeyOf(c))
         /\ \A s \in Tables : s # t => rows'[s] = rows[s]
    BY <1>2, <1>3, <1>6, <1>9
  <1>11. \A s \in Tables : DOMAIN rows'[s] = 1 .. Len(rows'[s])
    BY <1>10, LenProperties
  <1>12. \A s \in Tables :
            /\ Len(rows'[s]) = IF s = t THEN Len(rows[s]) + 1 ELSE Len(rows[s])
            /\ \A i \in 1 .. Len(rows[s]) : rows'[s][i] = rows[s][i]
    BY <1>9, <1>10
  <1>13. rows'[t][Len(rows[t]) + 1] = KeyOf(c)
    BY <1>9, <1>10
  <1>. HIDE DEF t
  <1>14. lock = c /\ ~Taken(c)
    BY <1>1 DEF ClientFits
  <1>. QED
    BY <1>2, <1>4, <1>5, <1>7, <1>8, <1>10, <1>11, <1>12, <1>13, <1>14 DEF t

\* What an instant shows is not changed by it.
LEMMA InstantsStay ==
  ASSUME DirectoryInv, NEW c \in Clients, Commit(c), NEW n \in 0 .. Len(audit)
  PROVE  RowsAt(n)' = RowsAt(n)
  <1>1. ASSUME NEW t \in Tables
        PROVE  {m \in 1 .. n : audit'[m].entity_type = t} = EventsOf(t, n)
    <2>1. /\ Len(audit) \in Nat
          /\ \A m \in 1 .. Len(audit) : audit'[m] = audit[m]
      BY CommitAppends
    <2>. QED  BY <2>1 DEF EventsOf
  <1>2. ASSUME NEW t \in Tables
        PROVE  SubSeq(rows'[t], 1, Cardinality(EventsOf(t, n)))
                 = SubSeq(rows[t], 1, Cardinality(EventsOf(t, n)))
    <2>. DEFINE k == Cardinality(EventsOf(t, n))
    <2>1. k \in 0 .. Len(rows[t])
      BY RowsOfAnInstant
    <2>2. /\ Len(rows[t]) \in Nat
          /\ \A i \in 1 .. Len(rows[t]) : rows'[t][i] = rows[t][i]
      BY CommitAppends
    <2>3. \A i \in 1 .. Len(rows[t]) : rows[t][i] \in Stored
      BY ElementOfSeq DEF DirectoryInv, DirectoryTypes
    <2>. HIDE DEF k
    <2>4. \A i \in 1 .. k : rows'[t][i] = rows[t][i] /\ rows[t][i] \in Stored
      BY <2>1, <2>2, <2>3
    <2>5. /\ SubSeq(rows[t], 1, k) \in Seq(Stored)
          /\ Len(SubSeq(rows[t], 1, k)) = k
          /\ \A i \in 1 .. k : SubSeq(rows[t], 1, k)[i] = rows[t][i]
      BY <2>1, <2>2, <2>4, SubSeqProperties
    <2>6. /\ SubSeq(rows'[t], 1, k) \in Seq(Stored)
          /\ Len(SubSeq(rows'[t], 1, k)) = k
          /\ \A i \in 1 .. k : SubSeq(rows'[t], 1, k)[i] = rows'[t][i]
      BY <2>1, <2>2, <2>4, SubSeqProperties
    <2>. QED  BY <2>4, <2>5, <2>6, SeqEqual DEF k
  <1>. QED  BY <1>1, <1>2 DEF RowsAt, EventsOf

LEMMA CommitKeepsInv ==
  ASSUME DirectoryInv, NEW c \in Clients, Commit(c)
  PROVE  DirectoryInv'
  <1>. DEFINE t == asked[c].table
              N == Len(audit) + 1
              id == Len(rows[t]) + 1
              key == KeyOf(c)
              event == EventOf(c)
  <1>1. c \in Actors /\ asked[c] \in Requests
    BY DEF DirectoryInv, ClientFits, Commit, At, Actors
  <1>2. /\ pc' = [pc EXCEPT ![c] = "idle"] /\ lock' = None
        /\ answer' = [answer EXCEPT ![c] = <<"created", {event.entity_id}, {}>>]
        /\ UNCHANGED <<asked, found, began, requests>>
    BY DEF Commit, At, Answer, DirectoryInv, DirectoryTypes
  <1>3. /\ t \in Tables /\ key \in Stored /\ (t = "user" => ~key.upper)
        /\ event \in Event /\ event.entity_type = t /\ event.actor = c
        /\ event.after = key /\ event.entity_id = id
    BY CommitAppends DEF EventOf
  <1>4. /\ Len(audit) \in Nat /\ DOMAIN audit = 1 .. Len(audit)
        /\ N = Len(audit) + 1 /\ Len(audit') = N
        /\ audit' \in Seq(Event) /\ DOMAIN audit' = 1 .. N
        /\ audit'[N] = event
        /\ \A n \in 1 .. Len(audit) : audit'[n] = audit[n]
    BY CommitAppends
  <1>5. /\ rows' \in [Tables -> Seq(Stored)]
        /\ id = Len(rows[t]) + 1 /\ rows'[t][id] = key
    BY CommitAppends
  <1>6. \A s \in Tables :
           /\ Len(rows[s]) \in Nat /\ DOMAIN rows[s] = 1 .. Len(rows[s])
           /\ Len(rows'[s]) = IF s = t THEN Len(rows[s]) + 1 ELSE Len(rows[s])
           /\ DOMAIN rows'[s] = 1 .. Len(rows'[s])
           /\ \A i \in 1 .. Len(rows[s]) : rows'[s][i] = rows[s][i]
    BY CommitAppends
  <1>7. lock = c /\ \A i \in 1 .. Len(rows[t]) : rows[t][i] # key
    BY <1>3, <1>6, CommitAppends DEF Taken, IdsOf
  <1>8. t = asked[c].table /\ event = EventOf(c)
    OBVIOUS
  <1>. HIDE DEF t, N, id, key, event
  <1>10. DirectoryTypes'
    <2>1. <<"created", {event.entity_id}, {}>> \in AnswerTypes
      BY <1>3 DEF AnswerTypes, Codes, Event
    <2>2. answer' \in [Actors -> AnswerTypes]
      BY <1>2, <2>1 DEF DirectoryInv, DirectoryTypes
    <2>3. "user" \in Tables
      BY DEF Tables
    <2>4. ASSUME NEW i \in DOMAIN rows'["user"] PROVE ~rows'["user"][i].upper
      <3>1. CASE i \in 1 .. Len(rows["user"])
        BY <1>6, <2>3, <3>1 DEF DirectoryInv, DirectoryTypes
      <3>2. CASE i \notin 1 .. Len(rows["user"])
        <4>1. t = "user" /\ i = id
          BY <1>5, <1>6, <2>3, <2>4, <3>2
        <4>. QED  BY <1>3, <1>5, <4>1
      <3>. QED  BY <3>1, <3>2
    <2>. QED
      BY <1>2, <1>4, <1>5, <2>2, <2>4
         DEF DirectoryInv, DirectoryTypes, ClientPCs
  <1>11. OneRowPerKey'
    <2>. SUFFICES ASSUME NEW s \in Tables, NEW i \in DOMAIN rows'[s],
                         NEW j \in DOMAIN rows'[s], rows'[s][i] = rows'[s][j]
                  PROVE  i = j
      BY DEF OneRowPerKey
    <2>1. ASSUME NEW m \in DOMAIN rows'[s], m \notin DOMAIN rows[s]
          PROVE  s = t /\ m = id /\ rows'[s][m] = key
      BY <1>5, <1>6, <2>1
    <2>2. \A m \in DOMAIN rows[s] : /\ rows'[s][m] = rows[s][m]
                                    /\ s = t => rows[s][m] # key
      BY <1>6, <1>7
    <2>3. \A m, n \in DOMAIN rows[s] : rows[s][m] = rows[s][n] => m = n
      BY DEF DirectoryInv, OneRowPerKey
    <2>. QED  BY <2>1, <2>2, <2>3
  <1>12. \A n \in 1 .. Len(audit) :
            /\ audit[n].entity_type \in Tables
            /\ audit[n].entity_id \in 1 .. Len(rows[audit[n].entity_type])
            /\ rows[audit[n].entity_type][audit[n].entity_id] = audit[n].after
    <2>. SUFFICES ASSUME NEW n \in 1 .. Len(audit)
                  PROVE  /\ audit[n].entity_type \in Tables
                         /\ audit[n].entity_id
                               \in 1 .. Len(rows[audit[n].entity_type])
                         /\ rows[audit[n].entity_type][audit[n].entity_id]
                               = audit[n].after
      OBVIOUS
    <2>1. audit[n] \in Event
      BY ElementOfSeq DEF DirectoryInv, DirectoryTypes
    <2>2. audit[n].entity_type \in Tables
      BY <2>1 DEF Event
    <2>3. /\ audit[n].entity_id \in DOMAIN rows[audit[n].entity_type]
          /\ rows[audit[n].entity_type][audit[n].entity_id] = audit[n].after
      BY <1>4 DEF DirectoryInv, EachEventHasItsRow
    <2>. QED  BY <1>6, <2>2, <2>3
  <1>13. EachEventHasItsRow'
    <2>. SUFFICES ASSUME NEW n \in 1 .. N
                  PROVE  /\ audit'[n].entity_id
                               \in DOMAIN rows'[audit'[n].entity_type]
                         /\ rows'[audit'[n].entity_type][audit'[n].entity_id]
                               = audit'[n].after
      BY <1>4 DEF EachEventHasItsRow
    <2>1. CASE n = N
      <3>1. /\ audit'[n].entity_type = t /\ audit'[n].entity_id = id
            /\ audit'[n].after = key
        BY <1>3, <1>4, <2>1
      <3>2. id \in DOMAIN rows'[t]
        BY <1>3, <1>5, <1>6
      <3>. QED  BY <1>5, <3>1, <3>2
    <2>2. CASE n # N
      <3>1. n \in 1 .. Len(audit) /\ audit'[n] = audit[n]
        BY <1>4, <2>2
      <3>2. PICK s \in Tables :
               /\ audit[n].entity_type = s
               /\ audit[n].entity_id \in 1 .. Len(rows[s])
               /\ rows[s][audit[n].entity_id] = audit[n].after
        BY <1>12, <3>1
      <3>3. /\ audit[n].entity_id \in DOMAIN rows'[s]
            /\ rows'[s][audit[n].entity_id] = audit[n].after
        BY <1>6, <3>2
      <3>. QED  BY <3>1, <3>2, <3>3
    <2>. QED  BY <2>1, <2>2
  <1>14. EachRowHasItsEvent'
    <2>. SUFFICES ASSUME NEW s \in Tables, NEW i \in DOMAIN rows'[s]
                  PROVE  \E n \in DOMAIN audit' : EventsOfRow(s, i)' = {n}
      BY DEF EachRowHasItsEvent
    <2>1. EventsOfRow(s, i)'
            = EventsOfRow(s, i) \cup {n \in {N} : s = t /\ i = id}
      BY <1>3, <1>4 DEF EventsOfRow
    <2>2. CASE i \in DOMAIN rows[s]
      <3>1. ~(s = t /\ i = id)
        BY <1>5, <1>6, <2>2
      <3>2. PICK n \in DOMAIN audit : EventsOfRow(s, i) = {n}
        BY <2>2 DEF DirectoryInv, EachRowHasItsEvent
      <3>. QED  BY <1>4, <2>1, <3>1, <3>2
    <2>3. CASE i \notin DOMAIN rows[s]
      <3>1. s = t /\ i = id
        BY <1>5, <1>6, <2>3
      <3>2. EventsOfRow(s, i) = {}
        BY <1>4, <1>6, <1>12, <2>3 DEF EventsOfRow
      <3>. QED  BY <1>4, <2>1, <3>1, <3>2
    <2>. QED  BY <2>2, <2>3
  <1>15. RowsAreCounted'
    <2>. SUFFICES ASSUME NEW s \in Tables
                  PROVE  Cardinality(EventsOf(s, Len(audit))') = Len(rows'[s])
      BY DEF RowsAreCounted
    <2>1. EventsOf(s, Len(audit))'
            = EventsOf(s, Len(audit)) \cup {n \in {N} : s = t}
      BY <1>3, <1>4 DEF EventsOf
    <2>2. /\ IsFiniteSet(EventsOf(s, Len(audit)))
          /\ Cardinality(EventsOf(s, Len(audit))) = Len(rows[s])
      BY <1>4, RowsOfAnInstant DEF DirectoryInv, RowsAreCounted
    <2>3. N \notin EventsOf(s, Len(audit))
      BY <1>4 DEF EventsOf
    <2>4. CASE s = t
      <3>1. EventsOf(s, Len(audit))' = EventsOf(s, Len(audit)) \cup {N}
        BY <2>1, <2>4
      <3>2. Cardinality(EventsOf(s, Len(audit)) \cup {N})
              = Cardinality(EventsOf(s, Len(audit))) + 1
        BY <2>2, <2>3, FS_AddElement
      <3>. QED  BY <1>6, <2>2, <2>4, <3>1, <3>2
    <2>5. CASE s # t
      <3>1. EventsOf(s, Len(audit))' = EventsOf(s, Len(audit))
        BY <2>1, <2>5
      <3>. QED  BY <1>6, <2>2, <2>5, <3>1
    <2>. QED  BY <2>4, <2>5
  <1>16. ClientFits(c)'
    <2>1. pc'[c] = "idle" /\ answer'[c] = <<"created", {event.entity_id}, {}>>
      BY <1>1, <1>2 DEF DirectoryInv, DirectoryTypes
    <2>2. /\ N \in DOMAIN audit' /\ audit'[N].actor = c
          /\ audit'[N].entity_type = asked'[c].table
          /\ {audit'[N].entity_id} = answer'[c][2]
      <3>1. N \in DOMAIN audit' /\ audit'[N] = event
        BY <1>4
      <3>2. asked'[c].table = t
        BY <1>2, <1>8
      <3>3. answer'[c][2] = {event.entity_id}
        BY <2>1
      <3>. QED  BY <1>3, <3>1, <3>2, <3>3
    <2>3. AnsweredTruly(c)'
      BY <2>1, <2>2 DEF AnsweredTruly
    <2>. QED  BY <1>1, <1>2, <2>1, <2>3 DEF ClientFits, ClientPCs
  <1>17. ASSUME NEW b \in Clients, b # c PROVE ClientFits(b)'
    <2>1. b \in Actors /\ ClientFits(b)
      BY DEF DirectoryInv, Actors
    <2>2. pc'[b] = pc[b] /\ answer'[b] = answer[b] /\ asked'[b] = asked[b]
      BY <1>2, <1>17, <2>1 DEF DirectoryInv, DirectoryTypes
    <2>3. pc[b] \notin {"audit", "commit"}
      BY <1>7, <1>17, <2>1 DEF ClientFits
    <2>4. ASSUME answer[b][1] = "already_exists" PROVE Taken(b)'
      <3>1. asked[b] \in Requests /\ Taken(b)
        BY <2>1, <2>4 DEF ClientFits, AnsweredTruly
      <3>2. PICK i \in DOMAIN rows[asked[b].table] :
                   rows[asked[b].table][i] = KeyOf(b)
        BY <3>1 DEF Taken, IdsOf
      <3>3. asked[b].table \in Tables
        BY <3>1 DEF Requests
      <3>4. /\ i \in DOMAIN rows'[asked[b].table]
            /\ rows'[asked[b].table][i] = KeyOf(b)
        BY <1>6, <3>2, <3>3
      <3>. QED  BY <2>2, <3>4 DEF Taken, KeyOf, IdsOf
    <2>5. ASSUME answer[b][1] = "created"
          PROVE  \E n \in DOMAIN audit' :
                    /\ audit'[n].actor = b
                    /\ audit'[n].entity_type = asked[b].table
                    /\ {audit'[n].entity_id} = answer[b][2]
      <3>1. PICK n \in DOMAIN audit : /\ audit[n].actor = b
                                      /\ audit[n].entity_type = asked[b].table
                                      /\ {audit[n].entity_id} = answer[b][2]
        BY <2>1, <2>5 DEF ClientFits, AnsweredTruly
      <3>2. n \in DOMAIN audit' /\ audit'[n] = audit[n]
        BY <1>4
      <3>. QED  BY <3>1, <3>2
    <2>6. AnsweredTruly(b)'
      BY <2>2, <2>4, <2>5 DEF AnsweredTruly
    <2>. QED  BY <2>1, <2>2, <2>3, <2>6 DEF ClientFits
  <1>18. ASSUME NEW r \in Resolvers PROVE ResolverFits(r)'
    <2>1. r \in Actors /\ r # c /\ ResolverFits(r) /\ began[r] \in Nat
      BY DirectoryAssumption DEF DirectoryInv, DirectoryTypes, Actors
    <2>2. /\ pc'[r] = pc[r] /\ answer'[r] = answer[r] /\ asked'[r] = asked[r]
          /\ found'[r] = found[r] /\ began'[r] = began[r]
      BY <1>2, <2>1 DEF DirectoryInv, DirectoryTypes
    <2>3. ASSUME NEW n \in began[r] .. Len(audit)
          PROVE  /\ n \in began[r] .. Len(audit')
                 /\ RowsAt(n)' = RowsAt(n)
      BY <1>4, <2>1, InstantsStay
    <2>4. \A n \in began[r] .. Len(audit) :
             /\ UsersAt(r, n)' = UsersAt(r, n)
             /\ ResolutionOf(r, RowsAt(n))' = ResolutionOf(r, RowsAt(n))
      BY <2>2, <2>3 DEF UsersAt, ResolutionOf
    <2>5. began[r] <= Len(audit')
      BY <1>4, <2>1 DEF ResolverFits
    <2>. QED
      BY <2>1, <2>2, <2>3, <2>4, <2>5 DEF ResolverFits
  <1>. QED
    BY <1>10, <1>11, <1>13, <1>14, <1>15, <1>16, <1>17, <1>18 DEF DirectoryInv
-----------------------------------------------------------------------------
(* The theorems.                                                           *)

LEMMA DirectoryAtFirst == Init => DirectoryInv
  <1>. SUFFICES ASSUME Init PROVE DirectoryInv
    OBVIOUS
  <1>1. <<>> \in Seq(Stored) /\ <<>> \in Seq(Event) /\ Len(<<>>) = 0
    BY EmptySeq
  <1>2. DirectoryTypes
    BY <1>1, DirectoryAssumption
       DEF Init, DirectoryTypes, ClientPCs, AnswerTypes, Codes, Tables
  <1>3. RowsAreCounted
    <2>1. \A t \in Tables : EventsOf(t, Len(audit)) = {}
      BY <1>1 DEF Init, EventsOf
    <2>. QED  BY <1>1, <2>1, FS_EmptySet DEF RowsAreCounted, Init
  <1>4. OneRowPerKey /\ EachRowHasItsEvent /\ EachEventHasItsRow
    BY DEF Init, OneRowPerKey, EachRowHasItsEvent, EachEventHasItsRow
  <1>5. ASSUME NEW c \in Clients PROVE ClientFits(c)
    BY DEF Init, Actors, ClientFits, AnsweredTruly, ClientPCs
  <1>6. ASSUME NEW r \in Resolvers PROVE ResolverFits(r)
    BY <1>1 DEF Init, Actors, ResolverFits, ResolverPCs
  <1>. QED
    BY <1>2, <1>3, <1>4, <1>5, <1>6 DEF DirectoryInv

LEMMA DirectoryStep ==
  ASSUME DirectoryInv, [Next]_vars
  PROVE  DirectoryInv'
  <1>1. ASSUME NEW c \in Clients, BeginCreate(c) PROVE DirectoryInv'
    BY <1>1, BeginKeepsInv
  <1>2. ASSUME NEW c \in Clients,
               RefuseInvalid(c) \/ RefuseKnown(c) \/ InsertDuplicate(c)
                  \/ LockTimeout(c) \/ Fail(c)
        PROVE  DirectoryInv'
    BY <1>2, RefusalKeepsInv
       DEF RefuseInvalid, RefuseKnown, InsertDuplicate, LockTimeout, Fail, ClientPCs
  <1>3. ASSUME NEW c \in Clients, CheckDuplicate(c) \/ Insert(c) \/ AddEvent(c)
        PROVE  DirectoryInv'
    BY <1>3, StatementKeepsInv
  <1>4. ASSUME NEW c \in Clients, Commit(c) PROVE DirectoryInv'
    BY <1>4, CommitKeepsInv
  <1>5. ASSUME NEW r \in Resolvers, BeginResolve(r) PROVE DirectoryInv'
    BY <1>5, BeginResolveKeepsInv
  <1>6. ASSUME NEW r \in Resolvers, FindUser(r) PROVE DirectoryInv'
    BY <1>6, FindUserKeepsInv
  <1>7. ASSUME NEW r \in Resolvers, FindLicences(r) \/ RefuseEmail(r)
        PROVE  DirectoryInv'
    BY <1>7, FindLicencesKeepsInv
  <1>8. CASE UNCHANGED vars
    <2>1. DirectoryTypes' /\ OneRowPerKey' /\ EachRowHasItsEvent'
            /\ EachEventHasItsRow' /\ RowsAreCounted'
      BY <1>8 DEF vars, tables, DirectoryInv, DirectoryTypes, OneRowPerKey,
         EachRowHasItsEvent, EventsOfRow, EachEventHasItsRow, RowsAreCounted,
         EventsOf
    <2>2. ASSUME NEW c \in Clients PROVE ClientFits(c)'
      BY <1>8 DEF vars, tables, DirectoryInv, ClientFits, AnsweredTruly, Taken,
         KeyOf
    <2>3. ASSUME NEW r \in Resolvers PROVE ResolverFits(r)'
      <3>1. \A n : /\ UsersAt(r, n)' = UsersAt(r, n)
                   /\ ResolutionOf(r, RowsAt(n))' = ResolutionOf(r, RowsAt(n))
        BY <1>8 DEF vars, tables, UsersAt, RowsAt, ResolutionOf
      <3>. QED
        BY <1>8, <3>1 DEF vars, tables, DirectoryInv, ResolverFits
    <2>. QED  BY <2>1, <2>2, <2>3 DEF DirectoryInv
  <1>. QED
    BY <1>1, <1>2, <1>3, <1>4, <1>5, <1>6, <1>7, <1>8 DEF Next

\* For any number of clients and resolutions: the invariant of all that follows.
THEOREM DirectoryIsSound == Spec => []DirectoryInv
  BY DirectoryAtFirst, DirectoryStep, PTL DEF Spec

\* Stored texts are in the form they are looked up in (normalize_email,
\* required_text), and the other variables have their types.
THEOREM TypeCorrect == Spec => []TypeOK
  <1>1. DirectoryInv => TypeOK
    BY DEF DirectoryInv, DirectoryTypes, TypeOK, Stored, Event, Tables
  <1>. QED  BY <1>1, DirectoryIsSound, PTL

\* However create requests race, get_by_email and get_by_product find one row
\* at most.
THEOREM OneRow == Spec => []OneRowPerKey
  <1>1. DirectoryInv => OneRowPerKey
    BY DEF DirectoryInv
  <1>. QED  BY <1>1, DirectoryIsSound, PTL

\* Rows and create events are one to one, and what a client was told is so.
THEOREM CreationsAudited == Spec => []CreationsAreAudited
  <1>1. ASSUME DirectoryInv PROVE CreationsAreAudited
    <2>1. ASSUME NEW t \in Tables, NEW i \in DOMAIN rows[t]
          PROVE  Cardinality(EventsOfRow(t, i)) = 1
      <3>1. PICK n \in DOMAIN audit : EventsOfRow(t, i) = {n}
        BY <1>1 DEF DirectoryInv, EachRowHasItsEvent
      <3>. QED  BY <3>1, FS_Singleton
    <2>. QED
      BY <1>1, <2>1 DEF DirectoryInv, EachEventHasItsRow, ClientFits,
         AnsweredTruly, EventsOfRow, CreationsAreAudited
  <1>. QED  BY <1>1, DirectoryIsSound, PTL

\* A resolution tells what one instant of it shows, whatever is created between
\* its two SELECTs.
THEOREM ResolutionsAreTrue == Spec => []ResolutionWasTrue
  <1>1. DirectoryInv => ResolutionWasTrue
    BY DEF DirectoryInv, ResolverFits, ResolutionWasTrue
  <1>. QED  BY <1>1, DirectoryIsSound, PTL
=============================================================================
