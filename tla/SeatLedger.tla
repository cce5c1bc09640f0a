----------------------------- MODULE SeatLedger -----------------------------
(***************************************************************************)
(* What the seat assignments of the application promise, and no more.      *)
(*                                                                         *)
(* A licence has a number of seats; a user may hold one seat of a licence. *)
(* A client of AssignmentService (an HTTP request, or the business         *)
(* transaction of an agent's tool call) first counts the seats in use,     *)
(* outside any write transaction, and later takes a seat in a write        *)
(* transaction of its own: the check and the insert are two steps, and     *)
(* other clients run in between (services/assignments.py, assign_licence). *)
(* So a licence can be given out more often than it has seats, but only by *)
(* clients that all passed the check before any of them took its seat.     *)
(***************************************************************************)
EXTENDS Naturals, FiniteSets

CONSTANTS
    Users,        \* ids of users
    Licences,     \* ids of licences
    SeatsTotal,   \* licences.seats_total, which no code changes once created
    Clients,      \* those who may be assigning a licence at the same time
    None          \* "no value", NULL in the database

Pairs == Users \X Licences

ASSUME SeatLedgerAssumption ==
    /\ IsFiniteSet(Users)
    /\ IsFiniteSet(Clients)
    /\ Clients # {}
    /\ SeatsTotal \in [Licences -> Nat]
    /\ None \notin Pairs

VARIABLES
    held,     \* the active assignments: pairs of a user and a licence
    passed    \* the pair for which a client has passed the seat count, or None

vars == <<held, passed>>

\* count_active_for_licence: the seats of the licence in use.
ActiveSeats(l) == {p \in held : p[2] = l}

\* The clients that found a free seat of the licence and have not used it.
Claimants(l) == {c \in Clients : passed[c] # None /\ passed[c][2] = l}

SeatsUsed(l) == Cardinality(ActiveSeats(l))
-----------------------------------------------------------------------------
Init ==
    /\ held = {}
    /\ passed = [c \in Clients |-> None]

\* Mutant of PassSeatCheck: the comparison lets one seat too many through.
PassSeatCheckOffByOne(c, p) ==
    /\ passed[c] = None
    /\ SeatsUsed(p[2]) <= SeatsTotal[p[2]]
    /\ passed' = [passed EXCEPT ![c] = p]
    /\ UNCHANGED held

\* The client counts the active assignments and finds a free seat.
PassSeatCheck(c, p) ==
    /\ passed[c] = None
    /\ SeatsUsed(p[2]) < SeatsTotal[p[2]]
    /\ passed' = [passed EXCEPT ![c] = p]
    /\ UNCHANGED held

\* Mutant of TakeSeat: an insert that no check went before.
TakeUnclaimedSeat(c) ==
    /\ passed[c] \notin held
    /\ held' = held \cup {passed[c]}
    /\ passed' = [passed EXCEPT ![c] = None]

\* Its insert commits. The unique index refuses a second active assignment of
\* the same licence to the same user; nothing looks at the seats again.
TakeSeat(c) ==
    /\ passed[c] # None
    /\ passed[c] \notin held
    /\ held' = held \cup {passed[c]}
    /\ passed' = [passed EXCEPT ![c] = None]

\* It fails, is refused by the index, or its process stops: nothing changes.
GiveUp(c) ==
    /\ passed[c] # None
    /\ passed' = [passed EXCEPT ![c] = None]
    /\ UNCHANGED held

\* An assignment is revoked: the seat is free again.
ReleaseSeat(p) ==
    /\ p \in held
    /\ held' = held \ {p}
    /\ UNCHANGED passed

Next ==
    \/ \E c \in Clients, p \in Pairs : PassSeatCheck(c, p)
    \/ \E c \in Clients : TakeSeat(c)
    \/ \E c \in Clients : GiveUp(c)
    \/ \E p \in Pairs : ReleaseSeat(p)

Spec == Init /\ [][Next]_vars
-----------------------------------------------------------------------------
TypeOK ==
    /\ held \subseteq Pairs
    /\ passed \in [Clients -> Pairs \cup {None}]

\* The inductive strengthening of OverfillBounded: a client that has passed
\* the check holds its place in the count until it takes the seat or gives up.
ClaimsBounded ==
    \A l \in Licences :
        SeatsUsed(l) + Cardinality(Claimants(l))
            < SeatsTotal[l] + Cardinality(Clients)

\* How far the count-then-insert of assign_licence can overfill a licence: by
\* fewer seats than there are clients assigning at once. One client alone
\* never overfills it.
OverfillBounded ==
    \A l \in Licences : SeatsUsed(l) < SeatsTotal[l] + Cardinality(Clients)
=============================================================================
