-------------------------- MODULE SeatLedgerProofs --------------------------
(***************************************************************************)
(* The seat ledger keeps its promise for any number of users, licences,    *)
(* seats and clients: count-then-insert can overfill a licence only by     *)
(* fewer seats than there are clients assigning at once.                   *)
(***************************************************************************)
EXTENDS SeatLedger, FiniteSetTheorems, TLAPS

\* Every reachable state of the ledger is well typed: what is held, and what
\* a client has passed the check for, is a user and a licence.
THEOREM TypeCorrect == Spec => []TypeOK
<1>1. Init => TypeOK
  BY DEF Init, TypeOK
<1>2. TypeOK /\ [Next]_vars => TypeOK'
  BY SeatLedgerAssumption
  DEF TypeOK, Next, vars, PassSeatCheck, TakeSeat, GiveUp, ReleaseSeat
<1>3. QED
  BY <1>1, <1>2, PTL DEF Spec

-----------------------------------------------------------------------------
\* The sets the counts range over are finite.
LEMMA CountsAreFinite ==
    ASSUME TypeOK, NEW l \in Licences
    PROVE  /\ IsFiniteSet(ActiveSeats(l))
           /\ IsFiniteSet(Claimants(l))
           /\ SeatsUsed(l) \in Nat
           /\ Cardinality(Claimants(l)) \in Nat
           /\ Cardinality(Clients) \in Nat
           /\ Cardinality(Clients) # 0
           /\ SeatsTotal[l] \in Nat
<1>1. IsFiniteSet(ActiveSeats(l))
  <2>1. IsFiniteSet(Users \X {l})
    BY SeatLedgerAssumption, FS_Singleton, FS_Product
  <2>2. ActiveSeats(l) \subseteq Users \X {l}
    BY DEF ActiveSeats, TypeOK, Pairs
  <2>3. QED
    BY <2>1, <2>2, FS_Subset
<1>2. IsFiniteSet(Claimants(l))
  BY SeatLedgerAssumption, FS_Subset DEF Claimants
<1>3. QED
  BY <1>1, <1>2, SeatLedgerAssumption, FS_CardinalityType, FS_EmptySet
  DEF SeatsUsed

\* A client not yet counted leaves room in the set of clients.
LEMMA OneMoreClaimant ==
    ASSUME TypeOK, NEW l \in Licences,
           NEW c \in Clients, c \notin Claimants(l)
    PROVE  Cardinality(Claimants(l)) < Cardinality(Clients)
<1>1. Claimants(l) \subseteq Clients \ {c}
  BY DEF Claimants
<1>2. Cardinality(Clients \ {c}) = Cardinality(Clients) - 1
  BY SeatLedgerAssumption, FS_RemoveElement
<1>3. Cardinality(Claimants(l)) <= Cardinality(Clients \ {c})
  BY <1>1, SeatLedgerAssumption, FS_Subset, FS_RemoveElement
<1>4. QED
  BY <1>2, <1>3, CountsAreFinite

LEMMA ClaimsBoundedStep ==
    ASSUME TypeOK, ClaimsBounded, [Next]_vars
    PROVE  ClaimsBounded'
<1> SUFFICES ASSUME NEW l \in Licences
             PROVE  SeatsUsed(l)' + Cardinality(Claimants(l)')
                        < SeatsTotal[l] + Cardinality(Clients)
  BY DEF ClaimsBounded
<1> USE CountsAreFinite
<1>0. SeatsUsed(l) + Cardinality(Claimants(l))
          < SeatsTotal[l] + Cardinality(Clients)
  BY DEF ClaimsBounded
<1>1. ASSUME NEW c \in Clients, NEW p \in Pairs, PassSeatCheck(c, p)
      PROVE  SeatsUsed(l)' + Cardinality(Claimants(l)')
                 < SeatsTotal[l] + Cardinality(Clients)
  <2>1. SeatsUsed(l)' = SeatsUsed(l)
    BY <1>1 DEF PassSeatCheck, SeatsUsed, ActiveSeats
  <2>2. CASE p[2] = l
    <3>1. Claimants(l)' = Claimants(l) \cup {c} /\ c \notin Claimants(l)
      BY <1>1, <2>2, SeatLedgerAssumption
      DEF PassSeatCheck, Claimants, TypeOK
    <3>2. Cardinality(Claimants(l)') = Cardinality(Claimants(l)) + 1
      BY <3>1, FS_AddElement
    <3>3. SeatsUsed(l) < SeatsTotal[l]
      BY <1>1, <2>2 DEF PassSeatCheck
    <3>4. Cardinality(Claimants(l)) < Cardinality(Clients)
      BY <3>1, OneMoreClaimant
    <3>5. QED
      BY <2>1, <3>2, <3>3, <3>4
  <2>3. CASE p[2] # l
    <3>1. Claimants(l)' = Claimants(l)
      BY <1>1, <2>3 DEF PassSeatCheck, Claimants, TypeOK
    <3>2. QED
      BY <1>0, <2>1, <3>1
  <2>4. QED
    BY <2>2, <2>3
<1>2. ASSUME NEW c \in Clients, TakeSeat(c)
      PROVE  SeatsUsed(l)' + Cardinality(Claimants(l)')
                 < SeatsTotal[l] + Cardinality(Clients)
  <2>1. CASE passed[c][2] = l
    <3>1. ActiveSeats(l)' = ActiveSeats(l) \cup {passed[c]}
      BY <1>2, <2>1 DEF TakeSeat, ActiveSeats
    <3>2. passed[c] \notin ActiveSeats(l)
      BY <1>2 DEF TakeSeat, ActiveSeats
    <3>3. SeatsUsed(l)' = SeatsUsed(l) + 1
      BY <3>1, <3>2, FS_AddElement DEF SeatsUsed
    <3>4. Claimants(l)' = Claimants(l) \ {c} /\ c \in Claimants(l)
      BY <1>2, <2>1 DEF TakeSeat, Claimants, TypeOK
    <3>5. Cardinality(Claimants(l)') = Cardinality(Claimants(l)) - 1
      BY <3>4, FS_RemoveElement
    <3>6. QED
      BY <1>0, <3>3, <3>5
  <2>2. CASE passed[c][2] # l
    <3>1. ActiveSeats(l)' = ActiveSeats(l) /\ Claimants(l)' = Claimants(l)
      BY <1>2, <2>2 DEF TakeSeat, ActiveSeats, Claimants, TypeOK
    <3>2. QED
      BY <1>0, <3>1 DEF SeatsUsed
  <2>3. QED
    BY <2>1, <2>2
<1>3. ASSUME NEW c \in Clients, GiveUp(c)
      PROVE  SeatsUsed(l)' + Cardinality(Claimants(l)')
                 < SeatsTotal[l] + Cardinality(Clients)
  <2>1. SeatsUsed(l)' = SeatsUsed(l)
    BY <1>3 DEF GiveUp, SeatsUsed, ActiveSeats
  <2>2. Claimants(l)' \subseteq Claimants(l)
    BY <1>3 DEF GiveUp, Claimants, TypeOK
  <2>3. /\ Cardinality(Claimants(l)') <= Cardinality(Claimants(l))
        /\ Cardinality(Claimants(l)') \in Nat
    BY <2>2, FS_Subset, FS_CardinalityType
  <2>4. QED
    BY <1>0, <2>1, <2>3
<1>4. ASSUME NEW p \in Pairs, ReleaseSeat(p)
      PROVE  SeatsUsed(l)' + Cardinality(Claimants(l)')
                 < SeatsTotal[l] + Cardinality(Clients)
  <2>1. Claimants(l)' = Claimants(l)
    BY <1>4 DEF ReleaseSeat, Claimants
  <2>2. ActiveSeats(l)' \subseteq ActiveSeats(l)
    BY <1>4 DEF ReleaseSeat, ActiveSeats
  <2>3. SeatsUsed(l)' <= SeatsUsed(l) /\ SeatsUsed(l)' \in Nat
    BY <2>2, FS_Subset, FS_CardinalityType DEF SeatsUsed
  <2>4. QED
    BY <1>0, <2>1, <2>3
<1>5. CASE UNCHANGED vars
  BY <1>0, <1>5 DEF vars, SeatsUsed, ActiveSeats, Claimants
<1>6. QED
  BY <1>1, <1>2, <1>3, <1>4, <1>5 DEF Next

\* However many clients assign at once, a licence with n seats never has n +
\* |Clients| active assignments: the overfill the docstring of assign_licence
\* warns of is bounded by the number of concurrent callers.
THEOREM OverfillIsBounded == Spec => []OverfillBounded
<1>1. Init => ClaimsBounded
  <2> SUFFICES ASSUME Init, NEW l \in Licences
               PROVE  SeatsUsed(l) + Cardinality(Claimants(l))
                          < SeatsTotal[l] + Cardinality(Clients)
    BY DEF ClaimsBounded
  <2>1. ActiveSeats(l) = {} /\ Claimants(l) = {}
    BY DEF Init, ActiveSeats, Claimants
  <2>2. TypeOK
    BY DEF Init, TypeOK
  <2>3. QED
    BY <2>1, <2>2, CountsAreFinite, FS_EmptySet DEF SeatsUsed
<1>2. TypeOK /\ ClaimsBounded /\ [Next]_vars => ClaimsBounded'
  BY ClaimsBoundedStep
<1>3. TypeOK /\ ClaimsBounded => OverfillBounded
  <2> SUFFICES ASSUME TypeOK, ClaimsBounded, NEW l \in Licences
               PROVE  SeatsUsed(l) < SeatsTotal[l] + Cardinality(Clients)
    BY DEF OverfillBounded
  <2>1. SeatsUsed(l) + Cardinality(Claimants(l))
            < SeatsTotal[l] + Cardinality(Clients)
    BY DEF ClaimsBounded
  <2>2. QED
    BY <2>1, CountsAreFinite
<1>4. QED
  BY <1>1, <1>2, <1>3, TypeCorrect, PTL DEF Spec

\* One client at a time never gives out more seats than a licence has.
THEOREM AloneNeverOverfills ==
    ASSUME Cardinality(Clients) = 1
    PROVE  Spec => [](\A l \in Licences : SeatsUsed(l) <= SeatsTotal[l])
<1>1. TypeOK /\ OverfillBounded
          => \A l \in Licences : SeatsUsed(l) <= SeatsTotal[l]
  <2> SUFFICES ASSUME TypeOK, OverfillBounded, NEW l \in Licences
               PROVE  SeatsUsed(l) <= SeatsTotal[l]
    OBVIOUS
  <2>1. SeatsUsed(l) < SeatsTotal[l] + 1
    BY DEF OverfillBounded
  <2>2. QED
    BY <2>1, CountsAreFinite
<1>2. QED
  BY <1>1, TypeCorrect, OverfillIsBounded, PTL
=============================================================================
