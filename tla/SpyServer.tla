------------------------------ MODULE SpyServer ------------------------------
(***************************************************************************)
(* The signalling server myMobKitWeb deploys: SpyServlet, ConnectServlet,  *)
(* DisconnectServlet and MessageServlet over Room, Message and RTCUtils.   *)
(*                                                                         *)
(* appengine-web.xml declares the application <threadsafe>, so several     *)
(* requests run at once, each on a thread of its own, and no handler takes *)
(* a lock or a transaction: a handler reads the room entity once, works on *)
(* its copy and writes the copy back.  Every datastore operation and every *)
(* Channel message is a step; what lies between two of them is local.      *)
(***************************************************************************)
EXTENDS Signalling, SequencesExt

CONSTANT Threads  \* the requests App Engine runs at once, one thread each

VARIABLE thread   \* per thread, the handler it runs and its local variables

vars == <<netVars, thread>>

Protocol == INSTANCE RoomProtocol
    WITH members <- Members, connected <- Connected,
         leaving <- Leaving, gone <- Gone

\* pc is the datastore or Channel operation the thread does next; copy is the
\* Room object, other is the local otherUser, role is initiator.
Task == [pc    : {"idle", "save", "saveAgain", "serve", "connect", "replay",
                  "purge", "remove", "sendBye", "forward"},
         user  : Slot,
         arg   : {"none", "loopback", "full"} \cup MsgTypes,
         copy  : RoomEntity,
         other : Slot,
         role  : {"none", "callee", "caller"}]

Idle == [pc |-> "idle", user |-> NoUser, arg |-> "none", copy |-> NewRoom,
         other |-> NoUser, role |-> "none"]

Init == NetInit /\ thread = [t \in Threads |-> Idle]

-----------------------------------------------------------------------------
(* RTCUtils and ModelBase.                                                 *)

\* RTCUtils.getSavedMessages filters on the property "clientId"; an entity
\* without that property does not match.
GetSavedMessages(u) ==
    {m \in saved : "clientId" \in DOMAIN m /\ m["clientId"] = u}

StoreOrDelete(r) == IF Occupancy(r) > 0 THEN r ELSE NoRoom

Done(t) == thread' = [thread EXCEPT ![t] = Idle]

Goto(t, pc) == thread' = [thread EXCEPT ![t].pc = pc]

Run(t, task) == thread' = [thread EXCEPT ![t] = task]

\* A free thread takes up a request.
Take(t, r) ==
    /\ thread[t].pc = "idle"
    /\ r \in pending
    /\ pending' = pending \ {r}

\* Two-argument short forms of a request and of the task that serves it.
Req(kind, u, arg) == [kind |-> kind, user |-> u, arg |-> arg]

NewTask(pc, u, arg, copy) ==
    [Idle EXCEPT !.pc = pc, !.user = u, !.arg = arg, !.copy = copy,
                 !.other = OtherUser(copy, u)]

-----------------------------------------------------------------------------
(* SpyServlet.doGet: find, addUser (which saves twice), serve the page.    *)

\* A page load that adds the user first and looks at the occupancy then.
SpyFindAddsFirst(t, u, debug) ==
    LET found == IF room = NoRoom THEN NewRoom ELSE room
    IN  /\ Take(t, Req("spy", u, debug))
        /\ Run(t, [Idle EXCEPT !.pc = "save", !.user = u, !.arg = debug,
                               !.copy = AddUser(found, u), !.role = Role(room, debug)])
        /\ page' = IF Admits(room, debug) THEN page ELSE [page EXCEPT ![u] = "full"]
        /\ UNCHANGED <<room, saved, channel>>

SpyFind(t, u, debug) ==
    LET found == IF room = NoRoom THEN NewRoom ELSE room
    IN  /\ Take(t, Req("spy", u, debug))
        /\ \/ /\ Admits(room, debug)
              /\ Run(t, [Idle EXCEPT !.pc = "save", !.user = u, !.arg = debug,
                                     !.copy = AddUser(found, u),
                                     !.role = Role(room, debug)])
              /\ UNCHANGED page
           \/ /\ ~Admits(room, debug)
              /\ page' = [page EXCEPT ![u] = "full"]
              /\ UNCHANGED thread
        /\ UNCHANGED <<room, saved, channel>>

\* The save() inside addUser's branch.
SpySave(t) ==
    /\ thread[t].pc = "save"
    /\ room' = thread[t].copy
    /\ Goto(t, "saveAgain")
    /\ UNCHANGED <<saved, channel, page, pending>>

\* The save() at addUser's end; a new loopback room then adds the same user
\* again, saving the room twice more.
SpySaveAgain(t) ==
    LET task == thread[t]
    IN  /\ task.pc = "saveAgain"
        /\ room' = task.copy
        /\ IF task.arg = "loopback" /\ task.copy.user2 = NoUser
           THEN Run(t, [task EXCEPT !.pc = "save",
                                    !.copy = AddUser(task.copy, task.user)])
           ELSE Goto(t, "serve")
        /\ UNCHANGED <<saved, channel, page, pending>>

\* The channel token and the page, with its initiator attribute.
SpyServe(t) ==
    /\ thread[t].pc = "serve"
    /\ page' = [page EXCEPT ![thread[t].user] = thread[t].role]
    /\ Done(t)
    /\ UNCHANGED <<room, saved, channel, pending>>

-----------------------------------------------------------------------------
(* ConnectServlet.doPost: find, setConnected, sendSavedMessages.           *)

ConnectFind(t, u) ==
    /\ Take(t, Req("connect", u, "none"))
    /\ IF room # NoRoom /\ HasUser(room, u)
       THEN Run(t, NewTask("connect", u, "none", SetConnected(room, u)))
       ELSE UNCHANGED thread
    /\ UNCHANGED serverVars

ConnectSave(t) ==
    /\ thread[t].pc = "connect"
    /\ room' = thread[t].copy
    /\ Goto(t, "replay")
    /\ UNCHANGED <<saved, channel, page, pending>>

ConnectReplay(t) ==
    LET u == thread[t].user
    IN  /\ thread[t].pc = "replay"
        /\ \E order \in SetToSeqs(GetSavedMessages(u)) :
              Send(u, [i \in 1..Len(order) |-> order[i].message])
        /\ saved' = saved \ GetSavedMessages(u)
        /\ Done(t)
        /\ UNCHANGED <<room, page, pending>>

-----------------------------------------------------------------------------
(* Room.removeUser, for DisconnectServlet and for a bye: the saved messages *)
(* go first, then the copy is changed and stored or the entity deleted.    *)

Purge(t) ==
    /\ thread[t].pc = "purge"
    /\ saved' = saved \ GetSavedMessages(thread[t].user)
    /\ Goto(t, "remove")
    /\ UNCHANGED <<room, channel, page, pending>>

\* What follows: a bye is forwarded if the other user is in the copy, and a
\* disconnect is announced to the other user.
RemoveAndStore(t) ==
    LET task == thread[t]
        copy == RemoveUser(task.copy, task.user)
        next == CASE task.arg = "bye" /\ task.other # NoUser
                                      /\ HasUser(copy, task.other) -> "forward"
                  [] task.arg = "none" /\ task.other \notin {NoUser, task.user} -> "sendBye"
                  [] OTHER -> "idle"
    IN  /\ task.pc = "remove"
        /\ room' = StoreOrDelete(copy)
        /\ IF next = "idle" THEN Done(t)
                            ELSE Run(t, [task EXCEPT !.pc = next, !.copy = copy])
        /\ UNCHANGED <<saved, channel, page, pending>>

-----------------------------------------------------------------------------
(* DisconnectServlet.doPost: find, removeUser, tell the other user.        *)

DisconnectFind(t, u) ==
    /\ Take(t, Req("disconnect", u, "none"))
    /\ IF room # NoRoom /\ HasUser(room, u)
       THEN Run(t, NewTask("purge", u, "none", room))
       ELSE UNCHANGED thread
    /\ UNCHANGED serverVars

DisconnectBye(t) ==
    /\ thread[t].pc = "sendBye"
    /\ Send(thread[t].other, <<Bye(thread[t].user)>>)
    /\ Done(t)
    /\ UNCHANGED <<room, saved, page, pending>>

-----------------------------------------------------------------------------
(* MessageServlet.doPost and RTCUtils.handleMessage, onMessage.            *)

\* A message handler that does not ask whether there is another user.
MessageFindUnchecked(t, u, type) ==
    /\ Take(t, Req("message", u, type))
    /\ IF room # NoRoom
       THEN Run(t, NewTask(IF type = "bye" THEN "purge" ELSE "forward", u, type, room))
       ELSE UNCHANGED thread
    /\ UNCHANGED serverVars

MessageFind(t, u, type) ==
    LET other == OtherUser(room, u)
    IN  /\ Take(t, Req("message", u, type))
        /\ IF /\ room # NoRoom
              /\ type = "bye" \/ (other # NoUser /\ HasUser(room, other))
           THEN Run(t, NewTask(IF type = "bye" THEN "purge" ELSE "forward",
                               u, type, room))
           ELSE UNCHANGED thread
        /\ UNCHANGED serverVars

MessageForward(t) ==
    LET task == thread[t]
        msg  == Forwarded(task.user, task.other, task.arg)
    IN  /\ task.pc = "forward"
        /\ \/ /\ IsConnected(task.copy, task.other)
              /\ Send(task.other, <<msg>>)
              /\ UNCHANGED saved
           \/ /\ ~IsConnected(task.copy, task.other)
              /\ saved' = saved \cup {[client_id |-> task.other, message |-> msg]}
              /\ UNCHANGED channel
        /\ Done(t)
        /\ UNCHANGED <<room, page, pending>>

-----------------------------------------------------------------------------
Find(t) ==
    \E u \in Users :
        \/ \E debug \in Debugs : SpyFind(t, u, debug)
        \/ ConnectFind(t, u)
        \/ DisconnectFind(t, u)
        \/ \E type \in PostTypes : MessageFind(t, u, type)

Step(t) ==
    \/ SpySave(t) \/ SpySaveAgain(t) \/ SpyServe(t)
    \/ ConnectSave(t) \/ ConnectReplay(t)
    \/ Purge(t) \/ RemoveAndStore(t)
    \/ DisconnectBye(t)
    \/ MessageForward(t)

Server(t) == (Find(t) \/ Step(t)) /\ UNCHANGED browserVars

Next ==
    \/ \E u \in Users : Browser(u) /\ UNCHANGED thread
    \/ \E t \in Threads : Server(t)

\* App Engine takes up every request and lets every handler finish.
Fairness == \A t \in Threads : WF_vars(Server(t))

Spec == Init /\ [][Next]_vars /\ Fairness

-----------------------------------------------------------------------------
TypeOK == NetTypeOK /\ thread \in [Threads -> Task]

(* What holds however the handlers interleave.                             *)

\* No interleaving stores a room without a first user.  Such a room could
\* never be entered again: it is neither "not found" nor of occupancy 1, and
\* nobody is in it to leave it.
NoEmptyRoom == room # NoRoom => room.user1 # NoUser

\* Whatever copies overwrite each other, the second user of a stored room is
\* one whose page says (or will say) initiator 1, so the two pages of a full
\* room do not both wait for an offer.
FullRoomHasCaller ==
    room # NoRoom /\ room.user2 # NoUser
        => \/ page[room.user2] = "caller"
           \/ \E t \in Threads : /\ thread[t].user = room.user2
                                 /\ thread[t].role = "caller"

\* However stale the copies, the flag of a slot goes with the user in it: no
\* user is believed connected whose channel was never opened.
ConnectedWasOpened == \A u \in Connected : chan[u] # "none"

\* Who was told that the room is full is not written into it by any handler,
\* and holds no slot.
FullPageHoldsNoSlot ==
    \A u \in Users : page[u] = "full" =>
        /\ u \notin Members
        /\ \A t \in Threads : u \notin MembersOf(thread[t].copy)

\* Outside a loopback room nobody's own message comes back to them: no
\* interleaving puts one user in both slots.
NoEcho ==
    \A u \in Users : \A i \in DOMAIN channel[u] :
        channel[u][i].from = u => "loopback" \in Debugs

(* What the comments promise, and holds when one handler runs at a time.   *)

Quiescent == pending = {} /\ \A t \in Threads : thread[t].pc = "idle"

\* SpyServlet's third branch: with two occupants the room is full, so three
\* people never hold a page of one room.
AtMostTwoAdmitted == Cardinality({u \in Users : Served(u)} \ Leaving) <= 2

\* spy.js posts the bye "to ensure the room is cleaned for next session":
\* once everything posted was served, no one who left is still in the room.
LeftIsOut == Quiescent => Leaving \cap Members = {}

\* Once everything posted was served, the people who were let in and have not
\* left are in the room: nobody is put out by another handler.
AdmittedIsIn == Quiescent => {u \in Users : Served(u)} \ Leaving \subseteq Members

\* One thread at a time, the servlets implement RoomProtocol.
ImplementsRoomProtocol == Protocol!Spec
=============================================================================
