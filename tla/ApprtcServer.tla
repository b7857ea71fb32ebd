---------------------------- MODULE ApprtcServer ----------------------------
(***************************************************************************)
(* The signalling server as war/apprtc.py writes it: every handler holds   *)
(* LOCK from its first read of the datastore to its last write, so a       *)
(* handler is one step.  The order in which requests are taken up is free. *)
(***************************************************************************)
EXTENDS Signalling, SequencesExt

\* The mapping onto the room's promise.
Protocol == INSTANCE RoomProtocol
    WITH members <- Members, connected <- Connected,
         leaving <- Leaving, gone <- Gone

-----------------------------------------------------------------------------
(* The datastore queries on Message.                                       *)

\* get_saved_messages: WHERE client_id = :id
GetSavedMessages(u) == {m \in saved : m.client_id = u}

\* room.put(), or room.delete() when nobody is left.
StoreOrDelete(r) == IF Occupancy(r) > 0 THEN r ELSE NoRoom

\* A removal that leaves the messages saved for the user behind.
RemoveUserOnly(u) ==
    /\ room' = StoreOrDelete(RemoveUser(room, u))
    /\ UNCHANGED saved

\* Room.remove_user: the messages saved for the user go with the user.
RemoveFromRoom(u) ==
    /\ room' = StoreOrDelete(RemoveUser(room, u))
    /\ saved' = saved \ GetSavedMessages(u)

-----------------------------------------------------------------------------
(* The handlers, each one step under LOCK.                                 *)

Take(r) == r \in pending /\ pending' = pending \ {r}

\* MainPage.get: a new room, the second user of a room, or "full".
MainPage(u, debug) ==
    /\ Take([kind |-> "spy", user |-> u, arg |-> debug])
    /\ \/ /\ Admits(room, debug)
          /\ room' = CASE room # NoRoom -> AddUser(room, u)
                       [] room = NoRoom /\ debug # "loopback" -> AddUser(NewRoom, u)
                       [] OTHER -> AddUser(AddUser(NewRoom, u), u)
          /\ page' = [page EXCEPT ![u] = Role(room, debug)]
       \/ /\ ~Admits(room, debug)
          /\ page' = [page EXCEPT ![u] = "full"]
          /\ UNCHANGED room
    /\ UNCHANGED <<saved, channel>>

\* A connect that forgets to deliver what was saved.
ConnectPageNoReplay(u) ==
    /\ Take([kind |-> "connect", user |-> u, arg |-> "none"])
    /\ room' = IF room # NoRoom /\ HasUser(room, u)
               THEN SetConnected(room, u) ELSE room
    /\ UNCHANGED <<channel, page, saved>>

\* ConnectPage.post: mark the user connected, then send_saved_messages, which
\* delivers what was saved for the user in the query's order and deletes it.
\* A user the room no longer has is ignored.
ConnectPage(u) ==
    /\ Take([kind |-> "connect", user |-> u, arg |-> "none"])
    /\ UNCHANGED page
    /\ \/ /\ room # NoRoom /\ HasUser(room, u)
          /\ room' = SetConnected(room, u)
          /\ \E order \in SetToSeqs(GetSavedMessages(u)) :
                Send(u, [i \in 1..Len(order) |-> order[i].message])
          /\ saved' = saved \ GetSavedMessages(u)
       \/ /\ ~(room # NoRoom /\ HasUser(room, u))
          /\ UNCHANGED <<room, saved, channel>>

\* DisconnectPage.post: remove the user and send the other one a bye, whether
\* or not the other one is connected.
DisconnectPage(u) ==
    /\ Take([kind |-> "disconnect", user |-> u, arg |-> "none"])
    /\ UNCHANGED page
    /\ \/ /\ room # NoRoom /\ HasUser(room, u)
          /\ RemoveFromRoom(u)
          /\ LET other == OtherUser(room, u)
             IN  IF other \notin {NoUser, u} THEN Send(other, <<Bye(u)>>)
                                             ELSE UNCHANGED channel
       \/ /\ ~(room # NoRoom /\ HasUser(room, u))
          /\ UNCHANGED <<room, saved, channel>>

\* on_message: deliver to a connected user, save for one who is not.
OnMessage(r, to, msg, before) ==
    \/ /\ IsConnected(r, to)
       /\ Send(to, <<msg>>)
       /\ saved' = before
    \/ /\ ~IsConnected(r, to)
       /\ saved' = before \cup {[client_id |-> to, message |-> msg]}
       /\ UNCHANGED channel

\* handle_message for a bye: the sender is removed, and the bye is forwarded
\* if the other user is still there.
ByePage(u) ==
    LET r == RemoveUser(room, u)
        other == OtherUser(room, u)
        left == saved \ GetSavedMessages(u)
    IN  /\ Take([kind |-> "message", user |-> u, arg |-> "bye"])
        /\ UNCHANGED page
        /\ \/ /\ room # NoRoom
              /\ room' = StoreOrDelete(r)
              /\ \/ other # NoUser /\ HasUser(r, other)
                    /\ OnMessage(r, other, Bye(u), left)
                 \/ ~(other # NoUser /\ HasUser(r, other))
                    /\ saved' = left /\ UNCHANGED channel
           \/ /\ room = NoRoom
              /\ UNCHANGED <<room, saved, channel>>

\* A handler that does not ask whether there is another user.
MessagePageUnchecked(u, type) ==
    /\ type # "bye"
    /\ Take([kind |-> "message", user |-> u, arg |-> type])
    /\ UNCHANGED <<room, page>>
    /\ IF room # NoRoom
       THEN OnMessage(room, OtherUser(room, u), Forwarded(u, OtherUser(room, u), type), saved)
       ELSE UNCHANGED <<saved, channel>>

\* handle_message for everything else.
MessagePage(u, type) ==
    LET other == OtherUser(room, u)
        known == room # NoRoom /\ other # NoUser /\ HasUser(room, other)
    IN  /\ type # "bye"
        /\ Take([kind |-> "message", user |-> u, arg |-> type])
        /\ UNCHANGED <<room, page>>
        /\ \/ known /\ OnMessage(room, other, Forwarded(u, other, type), saved)
           \/ ~known /\ UNCHANGED <<saved, channel>>

Handle(u) ==
    \/ \E debug \in Debugs : MainPage(u, debug)
    \/ ConnectPage(u)
    \/ DisconnectPage(u)
    \/ ByePage(u)
    \/ \E type \in PostTypes : MessagePage(u, type)

Next ==
    \E u \in Users :
        \/ Browser(u)
        \/ Handle(u) /\ UNCHANGED browserVars

\* App Engine takes up every request that was posted.
Fairness == \A u \in Users : WF_netVars(Handle(u) /\ UNCHANGED browserVars)

Spec == NetInit /\ [][Next]_netVars /\ Fairness

-----------------------------------------------------------------------------
TypeOK == NetTypeOK

\* A stored room always has its first slot in use.  A stored room nobody is
\* in would be full for ever: it is neither "not found" nor of occupancy 1.
NoEmptyRoom == room # NoRoom => room.user1 # NoUser

\* The room is exactly the people who were let in: nobody is in it who was
\* not given a page, and nobody is out who has not said goodbye.
RoomIsAdmitted ==
    /\ \A u \in Members : Served(u)
    /\ \A u \in Gone : u \in Leaving

\* The second user of a room was told to call, so a full room never waits for
\* an offer that neither side will make.
FullRoomHasCaller ==
    room # NoRoom /\ room.user2 # NoUser => page[room.user2] = "caller"

\* The flag of a slot belongs to the user in it, through the move of the
\* second user into the first slot: the server never believes a user
\* connected whose channel was not opened.
ConnectedWasOpened == \A u \in Connected : chan[u] # "none"

\* Messages are kept only for members who are not connected yet, so nothing
\* is kept for ever for somebody who connected or left.
SavedOnlyForWaiting ==
    \A m \in saved : m.client_id \in Members \ Connected

\* The server implements the promise of RoomProtocol.
ImplementsRoomProtocol == Protocol!Spec

\* Who opens the channel gets the messages that were saved, or leaves.
SavedIsSettled ==
    \A u \in Users : (chan[u] # "none") ~> (GetSavedMessages(u) = {})
=============================================================================
