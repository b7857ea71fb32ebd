------------------------- MODULE RoomProtocolProofs -------------------------
(***************************************************************************)
(* The promise of RoomProtocol says what it is meant to say: whatever      *)
(* implements it never has three people in the room and never takes back   *)
(* somebody who left.                                                      *)
(***************************************************************************)
EXTENDS RoomProtocol, TLAPS, FiniteSetTheorems

\* TwoAtMost needs the members to be a finite set of people not gone.
IInv == TypeOK /\ IsFiniteSet(members) /\ TwoAtMost

LEMMA NextIInv == IInv /\ [Next]_vars => IInv'
<1> SUFFICES ASSUME IInv, [Next]_vars PROVE IInv'
  OBVIOUS
<1> USE DEF IInv, TypeOK, TwoAtMost
<1>1. ASSUME NEW u \in Users, Join(u) PROVE IInv'
  <2>1. members' = members \cup {u} /\ u \notin gone /\ Cardinality(members) < 2
        /\ UNCHANGED <<connected, leaving, gone>>
    BY <1>1 DEF Join
  <2>2. IsFiniteSet(members') /\ Cardinality(members') <= 2
    BY <2>1, FS_AddElement, FS_CardinalityType
  <2>3. QED
    BY <2>1, <2>2
<1>2. ASSUME NEW u \in Users, Connect(u) PROVE IInv'
  BY <1>2 DEF Connect
<1>3. ASSUME NEW u \in Users, AskToLeave(u) PROVE IInv'
  BY <1>3 DEF AskToLeave
<1>4. ASSUME NEW u \in Users, Leave(u) PROVE IInv'
  <2>1. members' = members \ {u} /\ connected' = connected \ {u}
        /\ gone' = gone \cup {u} /\ UNCHANGED leaving
    BY <1>4 DEF Leave
  <2>2. IsFiniteSet(members') /\ Cardinality(members') <= Cardinality(members)
    BY <2>1, FS_Subset
  <2>3. Cardinality(members) \in Nat /\ Cardinality(members') \in Nat
    BY <2>2, FS_CardinalityType
  <2>4. QED
    BY <2>1, <2>2, <2>3
<1>5. CASE UNCHANGED vars
  BY <1>5 DEF vars
<1>6. QED
  BY <1>1, <1>2, <1>3, <1>4, <1>5 DEF Next

\* A room that keeps its promise never holds more than two people, and nobody
\* who is in it has left it.
THEOREM TwoAtMostHolds == SafeSpec => []TwoAtMost
<1>1. Init => IInv
  BY FS_EmptySet DEF Init, IInv, TypeOK, TwoAtMost
<1>2. IInv /\ [Next]_vars => IInv'
  BY NextIInv
<1>3. IInv => TwoAtMost
  BY DEF IInv
<1>4. QED
  BY <1>1, <1>2, <1>3, PTL DEF SafeSpec
=============================================================================
