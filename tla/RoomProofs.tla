----------------------------- MODULE RoomProofs -----------------------------
(***************************************************************************)
(* What the methods of Room do to its members, its connected users and the *)
(* shape of its slots, for every room and user.  The proofs about the      *)
(* servers use these facts and never look at the slots again.              *)
(***************************************************************************)
EXTENDS Room, TLAPS

USE BlankSlotIsNoUser, AbsentIsNoEntity

\* The users whose slot says connected.
ConnectedOf(r) == {u \in Users : IsConnected(r, u)}

\* The shape every stored room has: the first slot in use, and no flag left
\* on a blank second slot.
WellFormed(r) == r.user1 # NoUser /\ (r.user2 = NoUser => ~r.conn2)

\* A new room holds one user, not connected: Room.addUser on new Room(roomKey).
LEMMA NewRoomFacts ==
    ASSUME NEW u \in Users
    PROVE  LET r == AddUser(NewRoom, u)
           IN  /\ r \in RoomEntity /\ WellFormed(r)
               /\ MembersOf(r) = {u} /\ ConnectedOf(r) = {}
               /\ r.user2 = NoUser
<1> DEFINE r == [user1 |-> u, user2 |-> NoUser, conn1 |-> FALSE, conn2 |-> FALSE]
<1>1. AddUser(NewRoom, u) = r
  BY DEF AddUser, NewRoom
<1>2. r \in RoomEntity /\ WellFormed(r) /\ r.user2 = NoUser
  BY DEF RoomEntity, Slot, WellFormed
<1>3. MembersOf(r) = {u}
  BY <1>2 DEF MembersOf
<1>4. ConnectedOf(r) = {}
  BY DEF ConnectedOf, IsConnected
<1>5. QED
  BY <1>1, <1>2, <1>3, <1>4

\* A loopback room holds one user in both slots, not connected.
LEMMA LoopbackRoomFacts ==
    ASSUME NEW u \in Users
    PROVE  LET r == AddUser(AddUser(NewRoom, u), u)
           IN  /\ r \in RoomEntity /\ WellFormed(r)
               /\ MembersOf(r) = {u} /\ ConnectedOf(r) = {}
               /\ r.user2 = u
  BY DEF AddUser, NewRoom, RoomEntity, Slot, WellFormed, MembersOf, ConnectedOf,
         IsConnected, Occupancy

\* Room.addUser on a room with one occupant adds that user, not connected.
LEMMA AddSecondFacts ==
    ASSUME NEW r \in RoomEntity, NEW u \in Users,
           WellFormed(r), Occupancy(r) = 1, u \notin MembersOf(r)
    PROVE  LET q == AddUser(r, u)
           IN  /\ q \in RoomEntity /\ WellFormed(q)
               /\ MembersOf(q) = MembersOf(r) \cup {u}
               /\ ConnectedOf(q) = ConnectedOf(r)
               /\ q.user2 = u
  BY DEF AddUser, RoomEntity, Slot, WellFormed, MembersOf, ConnectedOf,
         IsConnected, Occupancy

\* Room.setConnected marks exactly that member.
LEMMA SetConnectedFacts ==
    ASSUME NEW r \in RoomEntity, NEW u \in Users, WellFormed(r), HasUser(r, u)
    PROVE  LET q == SetConnected(r, u)
           IN  /\ q \in RoomEntity /\ WellFormed(q)
               /\ MembersOf(q) = MembersOf(r)
               /\ ConnectedOf(q) = ConnectedOf(r) \cup {u}
               /\ q.user2 = r.user2
  BY DEF SetConnected, HasUser, RoomEntity, Slot, WellFormed, MembersOf,
         ConnectedOf, IsConnected

\* Room.removeUser takes out exactly that user, whatever slot it is in and
\* whoever moves, and leaves the first slot in use unless nobody is left.
LEMMA RemoveUserFacts ==
    ASSUME NEW r \in RoomEntity, NEW u \in Users, WellFormed(r),
           NEW q, q = RemoveUser(r, u)
    PROVE  /\ q \in RoomEntity
           /\ MembersOf(q) = MembersOf(r) \ {u}
           /\ ConnectedOf(q) = ConnectedOf(r) \ {u}
           /\ Occupancy(q) > 0 <=> MembersOf(q) # {}
           /\ Occupancy(q) > 0 => WellFormed(q)
           /\ q.user2 # NoUser => q.user2 = r.user2
<1>0. /\ r.user1 \in Users /\ r.user2 \in Slot /\ r # NoRoom
      /\ r.conn1 \in BOOLEAN /\ r.conn2 \in BOOLEAN
  BY DEF RoomEntity, Slot, WellFormed
<1>1. CASE u # r.user1 /\ u # r.user2
  <2>1. q = r
    BY <1>1 DEF RemoveUser
  <2>2. u \notin MembersOf(r) /\ u \notin ConnectedOf(r) /\ MembersOf(r) # {}
    BY <1>0, <1>1 DEF MembersOf, ConnectedOf, IsConnected
  <2>3. Occupancy(r) > 0
    BY <1>0 DEF Occupancy
  <2>4. QED
    BY <2>1, <2>2, <2>3
<1>2. CASE u # r.user1 /\ u = r.user2
  <2>1. /\ q \in RoomEntity
        /\ q.user1 = r.user1 /\ q.user2 = NoUser
        /\ q.conn1 = r.conn1 /\ q.conn2 = FALSE
    BY <1>2 DEF RemoveUser, RoomEntity, Slot
  <2>2. MembersOf(q) = {r.user1} /\ MembersOf(r) = {r.user1, u}
    BY <1>0, <1>2, <2>1 DEF MembersOf
  <2>3. ConnectedOf(q) = ConnectedOf(r) \ {u}
    BY <1>0, <1>2, <2>1 DEF ConnectedOf, IsConnected
  <2>4. Occupancy(q) > 0 /\ WellFormed(q)
    BY <1>0, <2>1 DEF Occupancy, WellFormed
  <2>5. QED
    BY <1>2, <2>1, <2>2, <2>3, <2>4
<1>3. CASE u = r.user1 /\ u # r.user2 /\ r.user2 # NoUser
  <2>1. q = [user1 |-> r.user2, user2 |-> NoUser, conn1 |-> r.conn2, conn2 |-> FALSE]
    BY <1>3 DEF RemoveUser
  <2>2. q \in RoomEntity
    BY <1>0, <2>1 DEF RoomEntity, Slot
  <2>3. MembersOf(q) = {r.user2} /\ MembersOf(r) = {u, r.user2}
    BY <1>0, <1>3, <2>1, <2>2 DEF MembersOf
  <2>4. ConnectedOf(q) = ConnectedOf(r) \ {u}
    BY <1>0, <1>3, <2>1 DEF ConnectedOf, IsConnected, Slot
  <2>5. Occupancy(q) > 0 /\ WellFormed(q) /\ q.user2 = NoUser
    BY <1>3, <2>1 DEF Occupancy, WellFormed
  <2>6. QED
    BY <1>3, <2>2, <2>3, <2>4, <2>5
<1>4. CASE u = r.user1 /\ (u = r.user2 \/ r.user2 = NoUser)
  <2>1. /\ q \in RoomEntity
        /\ q.user1 = NoUser /\ q.user2 = NoUser
    BY <1>0, <1>4 DEF RemoveUser, RoomEntity, Slot
  <2>2. MembersOf(q) = {} /\ MembersOf(r) = {u}
    BY <1>0, <1>4, <2>1 DEF MembersOf
  <2>3. ConnectedOf(q) = {} /\ ConnectedOf(r) \subseteq {u}
    BY <1>0, <1>4, <2>1 DEF ConnectedOf, IsConnected
  <2>4. Occupancy(q) = 0
    BY <2>1 DEF Occupancy
  <2>5. QED
    BY <2>1, <2>2, <2>3, <2>4
<1>5. QED
  BY <1>0, <1>1, <1>2, <1>3, <1>4
=============================================================================
