-------------------------------- MODULE Room --------------------------------
(***************************************************************************)
(* The room entity of the signalling server: com.mymobkit.model.Room.      *)
(*                                                                         *)
(* A room is one datastore entity with two user slots and a "channel       *)
(* connected" flag per slot.  The operators are the methods of the class,  *)
(* without their save(): each takes the in-memory copy of the entity and   *)
(* returns the copy the method leaves behind.  What is written to the      *)
(* datastore, and when, belongs to the servers that use them.              *)
(***************************************************************************)
EXTENDS Naturals

CONSTANTS Users,   \* the user ids SpyServlet hands out (generateRandom)
          NoUser,  \* a blank slot
          NoRoom   \* what a datastore lookup finds when no entity is stored

Slot == Users \cup {NoUser}

RoomEntity == [user1 : Slot, user2 : Slot, conn1 : BOOLEAN, conn2 : BOOLEAN]

ASSUME BlankSlotIsNoUser == NoUser \notin Users
ASSUME AbsentIsNoEntity == NoRoom \notin RoomEntity

\* new Room(roomKey), before anybody is in it.
NewRoom ==
    [user1 |-> NoUser, user2 |-> NoUser, conn1 |-> FALSE, conn2 |-> FALSE]

\* Room.getOccupancy: the slots in use, so a loopback room counts twice.
Occupancy(r) ==
    (IF r.user1 # NoUser THEN 1 ELSE 0) + (IF r.user2 # NoUser THEN 1 ELSE 0)

\* A lookup that answers with the user's own slot.
OtherUserIsSelf(r, u) ==
    IF u = r.user1 THEN r.user1 ELSE IF u = r.user2 THEN r.user2 ELSE NoUser

\* Room.getOtherUser: the other slot's user, blank for somebody not in the room.
OtherUser(r, u) ==
    IF u = r.user1 THEN r.user2 ELSE IF u = r.user2 THEN r.user1 ELSE NoUser

\* Room.hasUser
HasUser(r, u) == u # NoUser /\ u \in {r.user1, r.user2}

\* Room.addUser takes the first blank slot; its callers never call it on a
\* full room, where it throws.
AddUser(r, u) ==
    IF r.user1 = NoUser THEN [r EXCEPT !.user1 = u] ELSE [r EXCEPT !.user2 = u]

\* A removal that forgets to move the flag along with the user.
RemoveUserKeepsFlag(r, u) ==
    IF u = r.user1
    THEN [r EXCEPT !.user1 = r.user2, !.user2 = NoUser, !.conn2 = FALSE]
    ELSE IF u = r.user2 THEN [r EXCEPT !.user2 = NoUser, !.conn2 = FALSE] ELSE r

\* A removal that empties the first slot and leaves the second one where it is.
RemoveUserNoShift(r, u) ==
    IF u = r.user1
    THEN [r EXCEPT !.user1 = NoUser, !.conn1 = FALSE]
    ELSE IF u = r.user2 THEN [r EXCEPT !.user2 = NoUser, !.conn2 = FALSE] ELSE r

\* A removal that looks at the second slot only.
RemoveSecondOnly(r, u) ==
    IF u = r.user2 THEN [r EXCEPT !.user2 = NoUser, !.conn2 = FALSE] ELSE r

\* Room.removeUser up to its save() or delete(): the second slot is cleared
\* first, then the first one, which the second slot's user inherits.
RemoveUser(r, u) ==
    LET r2 == IF u = r.user2 THEN [r EXCEPT !.user2 = NoUser, !.conn2 = FALSE]
                             ELSE r
    IN  IF u # r2.user1 THEN r2
        ELSE IF r2.user2 = NoUser THEN [r2 EXCEPT !.user1 = NoUser, !.conn1 = FALSE]
        ELSE [user1 |-> r2.user2, user2 |-> NoUser, conn1 |-> r2.conn2, conn2 |-> FALSE]

\* Room.setConnected up to its save()
SetConnected(r, u) ==
    [r EXCEPT !.conn1 = @ \/ u = r.user1, !.conn2 = @ \/ u = r.user2]

\* Room.isConnected
IsConnected(r, u) ==
    IF u = r.user1 THEN r.conn1 ELSE u = r.user2 /\ r.conn2

\* The users a stored entity, or no entity, has in its slots.
MembersOf(r) == IF r = NoRoom THEN {} ELSE {r.user1, r.user2} \ {NoUser}
=============================================================================
