--------------------------- MODULE ReplayKeysProofs ---------------------------
(***************************************************************************)
(* What the calls of lib/replay.js do to the number of reservations that   *)
(* have been made of each key, and facts about the sets of invocations     *)
(* that made them.  The proofs of the endpoints that reserve operationIds  *)
(* rest on these lemmas.                                                   *)
(***************************************************************************)
EXTENDS ReplayKeys, FiniteSetTheorems, TLAPS

Entries == {Absent} \union [state : OpStates, expires : {TRUE}]

\* Every key that is there has its expiry.
KeysInv ==
    /\ replay \in [Keys -> Entries]
    /\ expiries \in [Keys -> Nat]

\* How often a key has been reserved: each reservation but the last has expired.
Reservations(k) == expiries[k] + IF replay[k] = Absent THEN 0 ELSE 1

LEMMA InitKeysInv == InitKeys => KeysInv /\ \A k \in Keys : Reservations(k) = 0
  BY DEF InitKeys, KeysInv, Entries, Reservations

LEMMA ReservationsType == KeysInv => \A k \in Keys : Reservations(k) \in Nat
  BY DEF KeysInv, Reservations

\* SET NX adds one reservation, of its own key, which must have been absent.
LEMMA ReserveCounts ==
    ASSUME KeysInv, NEW k \in Keys, Reserve(k), UNCHANGED expiries
    PROVE  /\ KeysInv'
           /\ replay'[k] = [state |-> "RESERVED", expires |-> TRUE]
           /\ \A j \in Keys \ {k} : replay'[j] = replay[j]
           /\ Reservations(k)' = Reservations(k) + 1
           /\ \A j \in Keys \ {k} : Reservations(j)' = Reservations(j)
  <1> DEFINE e == [state |-> "RESERVED", expires |-> TRUE]
  <1>1. e \in Entries /\ e # Absent
    BY DEF Entries, OpStates, Absent
  <1>2. replay' = [replay EXCEPT ![k] = e] /\ replay[k] = Absent
    BY DEF Reserve
  <1> HIDE DEF e
  <1>3. KeysInv'
    BY <1>1, <1>2 DEF KeysInv
  <1>4. replay'[k] = e /\ \A j \in Keys \ {k} : replay'[j] = replay[j]
    BY <1>2 DEF KeysInv
  <1>5. Reservations(k)' = Reservations(k) + 1
    BY <1>1, <1>2, <1>4 DEF KeysInv, Reservations
  <1>6. \A j \in Keys \ {k} : Reservations(j)' = Reservations(j)
    BY <1>4 DEF KeysInv, Reservations
  <1> QED
    BY <1>3, <1>4, <1>5, <1>6 DEF e

\* SET XX changes the state of a key that is there, or nothing.
LEMMA UpdateKeepsReservations ==
    ASSUME KeysInv, NEW k \in Keys, NEW state \in OpStates, UpdateOperationState(k, state)
    PROVE  /\ KeysInv'
           /\ \A j \in Keys \ {k} : replay'[j] = replay[j]
           /\ replay'[k] = replay[k] \/ replay'[k].state = state
           /\ replay[k] # Absent /\ "redis" \notin Faults => replay'[k].state = state
           /\ UNCHANGED expiries
           /\ \A j \in Keys : Reservations(j)' = Reservations(j)
  <1>1. CASE replay' = replay /\ (replay[k] = Absent \/ "redis" \in Faults)
    BY <1>1 DEF KeysInv, Reservations, UpdateOperationState
  <1>2. CASE replay[k] # Absent /\ replay' = [replay EXCEPT ![k].state = state]
    <2> DEFINE e == [replay[k] EXCEPT !.state = state]
    <2>1. replay[k] \in [state : OpStates, expires : {TRUE}]
      BY <1>2 DEF KeysInv, Entries
    <2>2. e \in Entries /\ e # Absent /\ e.state = state
      BY <2>1 DEF Entries, OpStates, Absent
    <2>3. replay' = [replay EXCEPT ![k] = e]
      BY <1>2 DEF KeysInv
    <2> HIDE DEF e
    <2>4. KeysInv' /\ UNCHANGED expiries
      BY <2>2, <2>3 DEF KeysInv, UpdateOperationState
    <2>5. replay'[k] = e /\ \A j \in Keys \ {k} : replay'[j] = replay[j]
      BY <2>3 DEF KeysInv
    <2>6. \A j \in Keys : Reservations(j)' = Reservations(j)
      BY <2>2, <2>4, <2>5, <1>2 DEF KeysInv, Reservations
    <2> QED
      BY <2>2, <2>4, <2>5, <2>6
  <1> QED
    BY <1>1, <1>2 DEF UpdateOperationState

\* Expiry forgets no reservation.
LEMMA ExpiryKeepsReservations ==
    ASSUME KeysInv, NEW k \in Keys, ExpireKey(k)
    PROVE  /\ KeysInv'
           /\ replay'[k] = Absent /\ expiries'[k] = expiries[k] + 1
           /\ \A j \in Keys \ {k} : replay'[j] = replay[j] /\ expiries'[j] = expiries[j]
           /\ \A j \in Keys : Reservations(j)' = Reservations(j)
  <1>1. replay[k] # Absent
    BY DEF ExpireKey, Absent
  <1>2. Absent \in Entries
    BY DEF Entries
  <1>3. KeysInv'
    BY <1>2 DEF KeysInv, ExpireKey
  <1>4. replay'[k] = Absent /\ expiries'[k] = expiries[k] + 1
    BY DEF KeysInv, ExpireKey
  <1>5. \A j \in Keys \ {k} : replay'[j] = replay[j] /\ expiries'[j] = expiries[j]
    BY DEF KeysInv, ExpireKey
  <1>6. \A j \in Keys : Reservations(j)' = Reservations(j)
    BY <1>1, <1>4, <1>5 DEF KeysInv, Reservations
  <1> QED
    BY <1>3, <1>4, <1>5, <1>6

-----------------------------------------------------------------------------
(* Counting invocations.                                                   *)

LEMMA SmallerSet ==
    ASSUME NEW S, IsFiniteSet(S), NEW T \in SUBSET S
    PROVE  IsFiniteSet(T) /\ Cardinality(T) \in Nat /\ Cardinality(T) <= Cardinality(S)
  BY FS_Subset, FS_CardinalityType

\* One element more or less counts one.
LEMMA OneMore ==
    ASSUME NEW S, IsFiniteSet(S), NEW x, x \notin S
    PROVE  IsFiniteSet(S \union {x}) /\ Cardinality(S \union {x}) = Cardinality(S) + 1
  BY FS_AddElement

LEMMA AtMostOne ==
    ASSUME NEW S, IsFiniteSet(S), Cardinality(S) <= 1, NEW x \in S, NEW y \in S
    PROVE  x = y
  <1> SUFFICES ASSUME x # y PROVE FALSE
    OBVIOUS
  <1>1. IsFiniteSet({x}) /\ Cardinality({x}) = 1
    BY FS_Singleton
  <1>2. IsFiniteSet({x} \union {y}) /\ Cardinality({x} \union {y}) = 2
    BY <1>1, OneMore
  <1>3. {x} \union {y} \in SUBSET S
    OBVIOUS
  <1> QED
    BY <1>2, <1>3, SmallerSet

LEMMA AtMostOneMore ==
    ASSUME NEW S, IsFiniteSet(S), NEW x, NEW T \in SUBSET (S \union {x})
    PROVE  /\ IsFiniteSet(T)
           /\ Cardinality(T) \in Nat /\ Cardinality(S) \in Nat
           /\ Cardinality(T) <= Cardinality(S) + 1
  <1>1. /\ IsFiniteSet(S \union {x})
        /\ Cardinality(S \union {x}) \in Nat /\ Cardinality(S) \in Nat
        /\ Cardinality(S \union {x}) <= Cardinality(S) + 1
    BY FS_AddElement, FS_CardinalityType
  <1>2. IsFiniteSet(T) /\ Cardinality(T) \in Nat /\ Cardinality(T) <= Cardinality(S \union {x})
    BY <1>1, SmallerSet
  <1> QED
    BY <1>1, <1>2

=============================================================================
