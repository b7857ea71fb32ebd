-------------------------- MODULE VideoCallProofs --------------------------
(***************************************************************************)
(* Proofs about calls through the server of apprtc.py.  First ApprtcServer: *)
(* its inductive invariant and the refinement of the protocol of a room,    *)
(* for any number of page loads.  Then VideoCall: the pages of spy.js post  *)
(* as the signalling environment does, so the same holds of real calls, and *)
(* the queue of a page stays in order.  Last, where the offer and the bye   *)
(* of a call go, that nobody is left in a call with who said bye, and that  *)
(* two pages that stay have their call once there is nothing left to do.    *)
(***************************************************************************)
EXTENDS VideoCall, RoomProofs, FiniteSetTheorems, NaturalLemmas

-----------------------------------------------------------------------------
(* The inductive invariant.                                                *)

RoomOK == room # NoRoom => WellFormed(room)

\* What a request in flight says about the browser that posted it.
PendingOK ==
    \A r \in pending :
        /\ r.kind = "spy" => page[r.user] = "loading"
        /\ r.kind = "connect" => chan[r.user] # "none"
        /\ r.kind = "disconnect" => chan[r.user] = "closed"
        /\ r.kind = "message" => r.arg \in posted[r.user]

\* A page is asked for once.
OneSpyEach ==
    \A r, s \in pending :
        r.kind = "spy" /\ s.kind = "spy" /\ r.user = s.user => r = s

\* Only a page that was served opens a channel and posts messages.
BrowserOK == \A u \in Users : chan[u] # "none" \/ posted[u] # {} => Served(u)

IInv ==
    /\ TypeOK /\ IsFiniteSet(saved)
    /\ RoomOK /\ PendingOK /\ OneSpyEach /\ BrowserOK
    /\ RoomIsAdmitted /\ FullRoomHasCaller
    /\ ConnectedWasOpened /\ SavedOnlyForWaiting

\* The connected users in terms of the lemmas about Room.
LEMMA ConnectedIs ==
    Connected = IF room = NoRoom THEN {} ELSE ConnectedOf(room)
  BY DEF Connected, ConnectedOf

LEMMA MembersAreUsers == TypeOK => Members \subseteq Users
  BY DEF TypeOK, NetTypeOK, RoomEntity, Slot, Members, MembersOf

LEMMA InitIInv == NetInit => IInv
<1> SUFFICES ASSUME NetInit PROVE IInv
  OBVIOUS
<1>1. TypeOK /\ IsFiniteSet(saved)
  BY FS_EmptySet DEF NetInit, TypeOK, NetTypeOK, ChanState, PageState
<1>2. Members = {} /\ Connected = {}
  BY DEF NetInit, Members, MembersOf, Connected
<1>3. QED
  BY <1>1, <1>2 DEF NetInit, IInv, RoomOK, PendingOK, OneSpyEach, BrowserOK, Served,
     RoomIsAdmitted, Gone, FullRoomHasCaller, ConnectedWasOpened, SavedOnlyForWaiting

-----------------------------------------------------------------------------
(* The browsers: they add a request and change nothing the server keeps.   *)

\* What all browser steps have in common.
LEMMA BrowserKeepsServer ==
    ASSUME NEW u \in Users, Browser(u)
    PROVE  UNCHANGED <<room, saved, channel>> /\ Members' = Members
           /\ Connected' = Connected
  BY DEF Browser, OpenPage, OpenChannel, CloseChannel, PostMessage, serverVars,
     Members, MembersOf, Connected, IsConnected

LEMMA BrowserStep ==
    ASSUME IInv, NEW u \in Users, Browser(u)
    PROVE  IInv'
<1> USE DEF IInv, TypeOK, NetTypeOK
<1>1. UNCHANGED <<room, saved, channel>> /\ Members' = Members /\ Connected' = Connected
  BY BrowserKeepsServer
<1>2. CASE \E debug \in Debugs : OpenPage(u, debug)
  <2> PICK debug \in Debugs : OpenPage(u, debug)
    BY <1>2
  <2> DEFINE req == [kind |-> "spy", user |-> u, arg |-> debug]
  <2>1. /\ page[u] = "none" /\ page' = [page EXCEPT ![u] = "loading"]
        /\ pending' = pending \cup {req} /\ UNCHANGED <<chan, posted>>
    BY DEF OpenPage, Post
  <2>2. req \in Request
    BY DebugsAreModes DEF Request
  <2>3. TypeOK'
    BY <1>1, <2>1, <2>2 DEF PageState
  <2>4. ~Served(u) /\ ~Served(u)' /\ \A v \in Users \ {u} : Served(v)' = Served(v)
    BY <2>1 DEF Served
  <2>5. PendingOK' /\ OneSpyEach'
    BY <2>1, <2>2 DEF PendingOK, OneSpyEach, Request
  <2>6. BrowserOK'
    BY <2>1, <2>4 DEF BrowserOK
  <2>7. RoomIsAdmitted'
    BY <1>1, <2>1, <2>4, MembersAreUsers DEF RoomIsAdmitted, Gone, Leaving
  <2>8. FullRoomHasCaller'
    BY <1>1, <2>1 DEF FullRoomHasCaller, RoomEntity, Slot
  <2>9. QED
    BY <1>1, <2>1, <2>3, <2>5, <2>6, <2>7, <2>8
       DEF RoomOK, WellFormed, ConnectedWasOpened, SavedOnlyForWaiting
<1>3. CASE OpenChannel(u)
  <2> DEFINE req == [kind |-> "connect", user |-> u, arg |-> "none"]
  <2>1. /\ Served(u) /\ chan[u] = "none" /\ chan' = [chan EXCEPT ![u] = "open"]
        /\ pending' = pending \cup {req} /\ UNCHANGED <<page, posted>>
    BY <1>3 DEF OpenChannel, Post, serverVars
  <2>2. req \in Request
    BY DEF Request
  <2>3. TypeOK'
    BY <1>1, <2>1, <2>2 DEF ChanState
  <2>4. PendingOK' /\ OneSpyEach'
    BY <2>1, <2>2 DEF PendingOK, OneSpyEach, Request
  <2>5. BrowserOK'
    BY <2>1 DEF BrowserOK, Served
  <2>6. RoomIsAdmitted'
    BY <1>1, <2>1 DEF RoomIsAdmitted, Gone, Leaving, Served
  <2>7. ConnectedWasOpened'
    BY <1>1, <2>1 DEF ConnectedWasOpened, Connected
  <2>8. QED
    BY <1>1, <2>1, <2>3, <2>4, <2>5, <2>6, <2>7
       DEF RoomOK, WellFormed, FullRoomHasCaller, SavedOnlyForWaiting
<1>4. CASE CloseChannel(u)
  <2> DEFINE req == [kind |-> "disconnect", user |-> u, arg |-> "none"]
  <2>1. /\ chan[u] = "open" /\ chan' = [chan EXCEPT ![u] = "closed"]
        /\ pending' = pending \cup {req} /\ UNCHANGED <<page, posted>>
    BY <1>4 DEF CloseChannel, Post, serverVars
  <2>2. req \in Request
    BY DEF Request
  <2>3. TypeOK'
    BY <1>1, <2>1, <2>2 DEF ChanState
  <2>4. PendingOK' /\ OneSpyEach'
    BY <2>1, <2>2 DEF PendingOK, OneSpyEach, Request
  <2>5. BrowserOK'
    BY <2>1 DEF BrowserOK, Served
  <2>6. RoomIsAdmitted'
    BY <1>1, <2>1 DEF RoomIsAdmitted, Gone, Leaving, Served
  <2>7. ConnectedWasOpened'
    BY <1>1, <2>1 DEF ConnectedWasOpened, Connected
  <2>8. QED
    BY <1>1, <2>1, <2>3, <2>4, <2>5, <2>6, <2>7
       DEF RoomOK, WellFormed, FullRoomHasCaller, SavedOnlyForWaiting
<1>5. CASE \E type \in PostTypes : PostMessage(u, type)
  <2> PICK type \in PostTypes : PostMessage(u, type)
    BY <1>5
  <2> DEFINE req == [kind |-> "message", user |-> u, arg |-> type]
  <2>1. /\ Served(u) /\ posted' = [posted EXCEPT ![u] = @ \cup {type}]
        /\ pending' = pending \cup {req} /\ UNCHANGED <<page, chan>>
    BY DEF PostMessage, Post, serverVars
  <2>2. req \in Request /\ type \in MsgTypes
    BY PostTypesAreTypes DEF Request, MsgTypes
  <2>3. TypeOK'
    BY <1>1, <2>1, <2>2
  <2>4. PendingOK' /\ OneSpyEach'
    BY <2>1, <2>2 DEF PendingOK, OneSpyEach, Request
  <2>5. BrowserOK'
    BY <2>1 DEF BrowserOK, Served
  <2>6. RoomIsAdmitted'
    BY <1>1, <2>1 DEF RoomIsAdmitted, Gone, Leaving, Served
  <2>7. QED
    BY <1>1, <2>1, <2>3, <2>4, <2>5, <2>6
       DEF RoomOK, WellFormed, FullRoomHasCaller, ConnectedWasOpened, SavedOnlyForWaiting
<1>6. QED
  BY <1>2, <1>3, <1>4, <1>5 DEF Browser

-----------------------------------------------------------------------------
(* What the handlers have in common.                                       *)

\* Taking up a request keeps the facts about the browsers, as long as the
\* handler leaves the page alone.
LEMMA TakeKeepsBrowsers ==
    ASSUME IInv, NEW r, Take(r), UNCHANGED <<chan, posted, page>>
    PROVE  PendingOK' /\ OneSpyEach' /\ BrowserOK' /\ pending' \subseteq Request
<1>1. pending' \subseteq pending /\ pending \subseteq Request
  BY DEF Take, IInv, TypeOK, NetTypeOK
<1>2. PendingOK'
  BY <1>1 DEF IInv, PendingOK
<1>3. OneSpyEach'
  BY <1>1 DEF IInv, OneSpyEach
<1>4. BrowserOK'
  BY DEF IInv, BrowserOK, Served
<1>5. QED
  BY <1>1, <1>2, <1>3, <1>4

\* The Channel service delivers messages, in order, to one client.
LEMMA SendKeepsType ==
    ASSUME channel \in [Users -> Seq(Payload)],
           NEW u, NEW msgs \in Seq(Payload), Send(u, msgs)
    PROVE  channel' \in [Users -> Seq(Payload)]
<1> DEFINE new == IF chan[u] = "open" THEN channel[u] \o msgs ELSE channel[u]
<1>1. channel' = [channel EXCEPT ![u] = new]
  BY DEF Send
<1>2. u \in Users => new \in Seq(Payload)
  OBVIOUS
<1>3. QED
  BY <1>1, <1>2

\* on_message keeps a message only for a user who is not connected.
LEMMA OnMessageStep ==
    ASSUME IInv, NEW r, NEW to \in Users, NEW msg \in Payload,
           NEW before \in SUBSET saved, OnMessage(r, to, msg, before)
    PROVE  /\ channel' \in [Users -> Seq(Payload)]
           /\ saved' \subseteq MessageEntity /\ IsFiniteSet(saved')
           /\ \A m \in saved' :
                 m \in before \/ (m.client_id = to /\ ~IsConnected(r, to))
<1> DEFINE new == [client_id |-> to, message |-> msg]
<1>1. /\ channel \in [Users -> Seq(Payload)]
      /\ before \subseteq MessageEntity /\ IsFiniteSet(before)
  BY FS_Subset DEF IInv, TypeOK, NetTypeOK
<1>2. new \in MessageEntity /\ new.client_id = to
  BY DEF MessageEntity
<1>3. CASE IsConnected(r, to) /\ Send(to, <<msg>>) /\ saved' = before
  <2>1. <<msg>> \in Seq(Payload)
    OBVIOUS
  <2>2. QED
    BY <1>1, <1>3, <2>1, SendKeepsType
<1>4. CASE ~IsConnected(r, to) /\ saved' = before \cup {new} /\ UNCHANGED channel
  <2>1. IsFiniteSet(saved')
    BY <1>1, <1>4, FS_AddElement
  <2>2. QED
    BY <1>1, <1>2, <1>4, <2>1
<1>5. QED
  BY <1>3, <1>4 DEF OnMessage

\* Removing a user who said goodbye takes exactly that user out of the room,
\* of the members and of the connected ones.
LEMMA RemoveStep ==
    ASSUME IInv, NEW u \in Leaving, room # NoRoom,
           room' = StoreOrDelete(RemoveUser(room, u)),
           UNCHANGED <<page, chan, posted>>
    PROVE  /\ room' \in RoomEntity \cup {NoRoom} /\ RoomOK'
           /\ Members' = Members \ {u} /\ Connected' = Connected \ {u}
           /\ RoomIsAdmitted' /\ FullRoomHasCaller' /\ ConnectedWasOpened'
<1> DEFINE q == RemoveUser(room, u)
<1>1. room \in RoomEntity /\ WellFormed(room) /\ u \in Users
  BY DEF IInv, TypeOK, NetTypeOK, RoomOK, Leaving
<1>2. /\ q \in RoomEntity
      /\ MembersOf(q) = MembersOf(room) \ {u}
      /\ ConnectedOf(q) = ConnectedOf(room) \ {u}
      /\ Occupancy(q) > 0 <=> MembersOf(q) # {}
      /\ Occupancy(q) > 0 => WellFormed(q)
      /\ q.user2 # NoUser => q.user2 = room.user2
  BY <1>1, RemoveUserFacts
<1> HIDE DEF q
<1>3. room' = IF Occupancy(q) > 0 THEN q ELSE NoRoom
  BY DEF StoreOrDelete, q
<1>4. MembersOf(NoRoom) = {} /\ ConnectedOf(q) \subseteq MembersOf(q)
  BY <1>2, BlankSlotIsNoUser, AbsentIsNoEntity DEF MembersOf, ConnectedOf, IsConnected
<1>5. room' \in RoomEntity \cup {NoRoom} /\ RoomOK'
  BY <1>2, <1>3 DEF RoomOK
<1>6. Members' = MembersOf(room') /\ Members = MembersOf(room)
  BY DEF Members, MembersOf
<1>7. Members' = Members \ {u}
  BY <1>2, <1>3, <1>4, <1>6
<1>8. Connected = ConnectedOf(room) /\ Connected' = IF room' = NoRoom THEN {} ELSE ConnectedOf(room')
  BY DEF Connected, ConnectedOf, IsConnected
<1>9. Connected' = Connected \ {u}
  BY <1>2, <1>3, <1>4, <1>8
<1>10. RoomIsAdmitted'
  BY <1>7, MembersAreUsers DEF IInv, RoomIsAdmitted, Gone, Leaving, Served
<1>11. FullRoomHasCaller'
  BY <1>2, <1>3 DEF IInv, FullRoomHasCaller
<1>12. ConnectedWasOpened'
  BY <1>9 DEF IInv, ConnectedWasOpened
<1>13. QED
  BY <1>5, <1>7, <1>9, <1>10, <1>11, <1>12

-----------------------------------------------------------------------------
(* One lemma per handler: what it does to the members and to the connected *)
(* users, and that it preserves the invariant.                             *)

\* MainPage.get lets the user in, or leaves the room alone.
LEMMA MainPageStep ==
    ASSUME IInv, NEW u \in Users, NEW debug \in Debugs,
           MainPage(u, debug), UNCHANGED browserVars
    PROVE  /\ IInv'
           /\ Connected' = Connected /\ Leaving' = Leaving /\ Gone' = Gone
           /\ u \notin Members \cup Gone
           /\ \/ Members' = Members
              \/ Members' = Members \cup {u} /\ Cardinality(Members) < 2
<1> DEFINE req == [kind |-> "spy", user |-> u, arg |-> debug]
<1> USE DEF browserVars
<1>1. /\ req \in pending /\ pending' = pending \ {req}
      /\ UNCHANGED <<saved, channel, chan, posted>>
  BY DEF MainPage, Take
<1>2. page[u] = "loading" /\ ~Served(u)
  BY <1>1 DEF IInv, PendingOK, Served
<1>3. u \notin Members \cup Gone
  BY <1>2 DEF IInv, RoomIsAdmitted, Gone
<1>4. \E to \in {"callee", "caller", "full"} : page' = [page EXCEPT ![u] = to]
  BY DEF MainPage, Role
<1>5. page' \in [Users -> PageState] /\ page'[u] \in {"callee", "caller", "full"}
      /\ \A v \in Users \ {u} : page'[v] = page[v]
  BY <1>4 DEF IInv, TypeOK, NetTypeOK, PageState
<1>6. PendingOK'
  <2> SUFFICES ASSUME NEW r \in pending'
               PROVE  /\ r.kind = "spy" => page'[r.user] = "loading"
                      /\ r.kind = "connect" => chan[r.user] # "none"
                      /\ r.kind = "disconnect" => chan[r.user] = "closed"
                      /\ r.kind = "message" => r.arg \in posted[r.user]
    BY <1>1 DEF PendingOK
  <2>1. r \in pending /\ r # req /\ r \in Request /\ r.user \in Users
    BY <1>1 DEF IInv, TypeOK, NetTypeOK, Request
  <2>2. r.kind = "spy" => r.user # u
    BY <1>1, <2>1 DEF IInv, OneSpyEach
  <2>3. QED
    BY <1>5, <2>1, <2>2 DEF IInv, PendingOK
<1>7. OneSpyEach' /\ pending' \subseteq Request
  BY <1>1 DEF IInv, OneSpyEach, TypeOK, NetTypeOK
<1>8. BrowserOK'
  BY <1>1, <1>2, <1>5 DEF IInv, BrowserOK, Served
<1>9. Leaving' = Leaving
  BY <1>1 DEF Leaving
<1>10. CASE Admits(room, debug)
  <2>1. /\ room' = CASE room # NoRoom -> AddUser(room, u)
                      [] room = NoRoom /\ debug # "loopback" -> AddUser(NewRoom, u)
                      [] OTHER -> AddUser(AddUser(NewRoom, u), u)
        /\ page' = [page EXCEPT ![u] = Role(room, debug)]
    BY <1>10 DEF MainPage
  <2>2. Served(u)' /\ page'[u] = Role(room, debug)
    BY <1>5, <2>1 DEF Role, Served, IInv, TypeOK, NetTypeOK
  <2>3. /\ room' \in RoomEntity /\ WellFormed(room')
        /\ MembersOf(room') = Members \cup {u}
        /\ ConnectedOf(room') = Connected
        /\ room'.user2 \in {u, NoUser}
        /\ room'.user2 = u => page'[u] = "caller"
        /\ Cardinality(Members) < 2
    <3>1. CASE room # NoRoom
      <4>1. room \in RoomEntity /\ WellFormed(room) /\ Occupancy(room) = 1
        BY <1>10, <3>1 DEF Admits, IInv, TypeOK, NetTypeOK, RoomOK
      <4>2. Members = MembersOf(room) /\ Connected = ConnectedOf(room)
        BY <3>1, ConnectedIs DEF Members
      <4>3. room' = AddUser(room, u)
        BY <2>1, <3>1
      <4>4. Members = {room.user1}
        BY <3>1, <4>1, <4>2 DEF MembersOf, Occupancy, WellFormed
      <4>5. Cardinality(Members) = 1
        BY <4>4, FS_Singleton
      <4>6. QED
        BY <1>3, <2>2, <3>1, <4>1, <4>2, <4>3, <4>5, AddSecondFacts DEF Role
    <3>2. CASE room = NoRoom
      <4>1. Members = {} /\ Connected = {}
        BY <3>2, ConnectedIs DEF Members, MembersOf
      <4>2. Cardinality(Members) = 0
        BY <4>1, FS_EmptySet
      <4>3. CASE debug # "loopback"
        <5>1. room' = AddUser(NewRoom, u)
          BY <2>1, <3>2, <4>3
        <5>2. QED
          BY <4>1, <4>2, <5>1, NewRoomFacts, BlankSlotIsNoUser
      <4>4. CASE debug = "loopback"
        <5>1. room' = AddUser(AddUser(NewRoom, u), u)
          BY <2>1, <3>2, <4>4
        <5>2. page'[u] = "caller"
          BY <2>2, <4>4 DEF Role
        <5>3. QED
          BY <4>1, <4>2, <5>1, <5>2, LoopbackRoomFacts
      <4>5. QED
        BY <4>3, <4>4
    <3>3. QED
      BY <3>1, <3>2
  <2>4. room' # NoRoom
    BY <2>3, AbsentIsNoEntity
  <2>5. Members' = Members \cup {u} /\ Connected' = Connected
    BY <2>3, <2>4 DEF Members, MembersOf, Connected, ConnectedOf, IsConnected
  <2>6. Gone' = Gone
    BY <1>2, <1>5, <2>2, <2>5 DEF Gone, Served
  <2>7. RoomIsAdmitted'
    BY <1>5, <1>9, <2>2, <2>5, <2>6, MembersAreUsers DEF IInv, RoomIsAdmitted, Served
  <2>8. FullRoomHasCaller' /\ RoomOK'
    BY <2>3 DEF FullRoomHasCaller, RoomOK
  <2>9. ConnectedWasOpened' /\ SavedOnlyForWaiting'
    BY <1>1, <2>5, <1>3 DEF IInv, ConnectedWasOpened, SavedOnlyForWaiting
  <2>10. TypeOK' /\ IsFiniteSet(saved)'
    BY <1>1, <1>5, <1>7, <2>3 DEF IInv, TypeOK, NetTypeOK
  <2>11. QED
    BY <1>3, <1>6, <1>7, <1>8, <1>9, <2>3, <2>5, <2>6, <2>7, <2>8, <2>9, <2>10 DEF IInv
<1>11. CASE ~Admits(room, debug)
  <2>1. UNCHANGED room /\ page' = [page EXCEPT ![u] = "full"]
    BY <1>11 DEF MainPage
  <2>2. ~Served(u)'
    BY <2>1 DEF Served, IInv, TypeOK, NetTypeOK
  <2>3. Members' = Members /\ Connected' = Connected
    BY <2>1 DEF Members, MembersOf, Connected, IsConnected
  <2>4. Gone' = Gone
    BY <1>2, <1>5, <2>2, <2>3 DEF Gone, Served
  <2>5. RoomIsAdmitted'
    BY <1>3, <1>5, <1>9, <2>3, <2>4, MembersAreUsers DEF IInv, RoomIsAdmitted, Served
  <2>6. FullRoomHasCaller'
    <3>1. room # NoRoom /\ room.user2 # NoUser => room.user2 \in Members
      BY DEF Members, MembersOf
    <3>2. QED
      BY <1>3, <1>5, <2>1, <3>1, MembersAreUsers DEF IInv, FullRoomHasCaller
  <2>7. RoomOK' /\ ConnectedWasOpened' /\ SavedOnlyForWaiting'
    BY <1>1, <2>1, <2>3 DEF IInv, RoomOK, WellFormed, ConnectedWasOpened, SavedOnlyForWaiting
  <2>8. TypeOK' /\ IsFiniteSet(saved)'
    BY <1>1, <1>5, <1>7, <2>1 DEF IInv, TypeOK, NetTypeOK
  <2>9. QED
    BY <1>3, <1>6, <1>7, <1>8, <1>9, <2>3, <2>4, <2>5, <2>6, <2>7, <2>8 DEF IInv
<1>12. QED
  BY <1>10, <1>11
\* ConnectPage.post marks a member connected and empties what was saved for
\* that member.
LEMMA ConnectPageStep ==
    ASSUME IInv, NEW u \in Users, ConnectPage(u), UNCHANGED browserVars
    PROVE  /\ IInv'
           /\ Members' = Members /\ Leaving' = Leaving /\ Gone' = Gone
           /\ \/ u \notin Members /\ Connected' = Connected
              \/ u \in Members /\ Connected' = Connected \cup {u}
<1> DEFINE req == [kind |-> "connect", user |-> u, arg |-> "none"]
<1> USE DEF browserVars
<1>1. Take(req) /\ UNCHANGED <<page, chan, posted>>
  BY DEF ConnectPage
<1>2. PendingOK' /\ OneSpyEach' /\ BrowserOK' /\ pending' \subseteq Request
  BY <1>1, TakeKeepsBrowsers
<1>3. chan[u] # "none"
  BY <1>1 DEF Take, IInv, PendingOK
<1>4. Leaving' = Leaving
  BY <1>1 DEF Leaving
<1>5. CASE room # NoRoom /\ HasUser(room, u)
  <2>1. /\ room' = SetConnected(room, u)
        /\ \E order \in SetToSeqs(GetSavedMessages(u)) :
              Send(u, [i \in 1..Len(order) |-> order[i].message])
        /\ saved' = saved \ GetSavedMessages(u)
    BY <1>5 DEF ConnectPage
  <2>2. room \in RoomEntity /\ WellFormed(room)
    BY <1>5 DEF IInv, TypeOK, NetTypeOK, RoomOK
  <2>3. /\ room' \in RoomEntity /\ WellFormed(room')
        /\ MembersOf(room') = MembersOf(room)
        /\ ConnectedOf(room') = ConnectedOf(room) \cup {u}
        /\ room'.user2 = room.user2
    BY <1>5, <2>1, <2>2, SetConnectedFacts
  <2>4. room' # NoRoom
    BY <2>3, AbsentIsNoEntity
  <2>5. Members' = Members /\ Connected' = Connected \cup {u} /\ u \in Members
    BY <1>5, <2>3, <2>4 DEF Members, MembersOf, Connected, ConnectedOf, IsConnected, HasUser
  <2>6. channel' \in [Users -> Seq(Payload)]
    <3>1. PICK order \in SetToSeqs(GetSavedMessages(u)) :
              Send(u, [i \in 1..Len(order) |-> order[i].message])
      BY <2>1
    <3>2. GetSavedMessages(u) \subseteq saved /\ saved \subseteq MessageEntity
      BY DEF GetSavedMessages, IInv, TypeOK, NetTypeOK
    <3>3. Cardinality(GetSavedMessages(u)) \in Nat
      BY <3>2, FS_Subset, FS_CardinalityType DEF IInv
    <3>4. order \in [1..Cardinality(GetSavedMessages(u)) -> GetSavedMessages(u)]
      BY DEF SetToSeqs
    <3>5. order \in Seq(MessageEntity)
      BY <3>2, <3>3, <3>4
    <3>6. [i \in 1..Len(order) |-> order[i].message] \in Seq(Payload)
      <4>1. Len(order) \in Nat
            /\ \A i \in 1..Len(order) : order[i] \in MessageEntity
        BY <3>5
      <4>2. \A i \in 1..Len(order) : order[i].message \in Payload
        BY <4>1 DEF MessageEntity
      <4>3. QED
        BY <4>1, <4>2
    <3>7. QED
      BY <3>1, <3>6, SendKeepsType DEF IInv, TypeOK, NetTypeOK
  <2>7. TypeOK' /\ IsFiniteSet(saved)'
    BY <1>1, <1>2, <2>1, <2>3, <2>6, FS_Subset DEF IInv, TypeOK, NetTypeOK, GetSavedMessages
  <2>8. Gone' = Gone
    BY <1>1, <2>5 DEF Gone, Served
  <2>9. RoomIsAdmitted' /\ RoomOK' /\ FullRoomHasCaller'
    <3>1. RoomIsAdmitted'
      BY <1>1, <1>4, <2>5, <2>8 DEF IInv, RoomIsAdmitted, Served
    <3>2. RoomOK'
      BY <2>3 DEF RoomOK
    <3>3. FullRoomHasCaller'
      BY <1>1, <1>5, <2>3 DEF IInv, FullRoomHasCaller
    <3>4. QED
      BY <3>1, <3>2, <3>3
  <2>10. ConnectedWasOpened'
    BY <1>1, <1>3, <2>5 DEF IInv, ConnectedWasOpened
  <2>11. SavedOnlyForWaiting'
    BY <2>1, <2>5 DEF IInv, SavedOnlyForWaiting, GetSavedMessages
  <2>12. QED
    BY <1>2, <1>4, <2>5, <2>7, <2>8, <2>9, <2>10, <2>11 DEF IInv
<1>6. CASE ~(room # NoRoom /\ HasUser(room, u))
  <2>1. UNCHANGED <<room, saved, channel>>
    BY <1>6 DEF ConnectPage
  <2>2. Members' = Members /\ Connected' = Connected
    BY <2>1 DEF Members, MembersOf, Connected, IsConnected
  <2>3. Gone' = Gone /\ u \notin Members
    BY <1>1, <1>6, <2>2, BlankSlotIsNoUser DEF Gone, Served, Members, MembersOf, HasUser
  <2>4. TypeOK' /\ IsFiniteSet(saved)'
    BY <1>1, <1>2, <2>1 DEF IInv, TypeOK, NetTypeOK
  <2>5. QED
    BY <1>1, <1>2, <1>4, <2>1, <2>2, <2>3, <2>4
       DEF IInv, RoomOK, WellFormed, RoomIsAdmitted, Served, FullRoomHasCaller,
           ConnectedWasOpened, SavedOnlyForWaiting
<1>7. QED
  BY <1>5, <1>6

\* What leaving takes care of besides the room: the messages saved for the
\* user go with the user.
LEMMA DropSaved ==
    ASSUME IInv, NEW u
    PROVE  LET left == saved \ GetSavedMessages(u)
           IN  /\ left \in SUBSET saved /\ IsFiniteSet(left)
               /\ \A m \in left : m.client_id \in (Members \ Connected) \ {u}
  BY FS_Subset DEF IInv, SavedOnlyForWaiting, GetSavedMessages

\* DisconnectPage.post takes a member out and tells the other one.
LEMMA DisconnectPageStep ==
    ASSUME IInv, NEW u \in Users, DisconnectPage(u), UNCHANGED browserVars
    PROVE  /\ IInv' /\ Leaving' = Leaving /\ u \in Leaving
           /\ Members' = Members \ {u} /\ Connected' = Connected \ {u}
<1> DEFINE req == [kind |-> "disconnect", user |-> u, arg |-> "none"]
<1> USE DEF browserVars
<1>1. Take(req) /\ UNCHANGED <<page, chan, posted>>
  BY DEF DisconnectPage
<1>2. PendingOK' /\ OneSpyEach' /\ BrowserOK' /\ pending' \subseteq Request
  BY <1>1, TakeKeepsBrowsers
<1>3. u \in Leaving
  BY <1>1 DEF Take, IInv, PendingOK, Leaving
<1>4. Leaving' = Leaving
  BY <1>1 DEF Leaving
<1>5. CASE room # NoRoom /\ HasUser(room, u)
  <2>1. /\ room' = StoreOrDelete(RemoveUser(room, u))
        /\ saved' = saved \ GetSavedMessages(u)
        /\ LET other == OtherUser(room, u)
           IN  IF other \notin {NoUser, u} THEN Send(other, <<Bye(u)>>)
                                           ELSE UNCHANGED channel
    BY <1>5 DEF DisconnectPage, RemoveFromRoom
  <2>2. /\ room' \in RoomEntity \cup {NoRoom} /\ RoomOK'
        /\ Members' = Members \ {u} /\ Connected' = Connected \ {u}
        /\ RoomIsAdmitted' /\ FullRoomHasCaller' /\ ConnectedWasOpened'
    BY <1>1, <1>3, <1>5, <2>1, RemoveStep
  <2>3. channel' \in [Users -> Seq(Payload)]
    <3>1. <<Bye(u)>> \in Seq(Payload)
      BY DEF Bye, Payload, MsgTypes, Slot
    <3>2. QED
      BY <2>1, <3>1, SendKeepsType DEF IInv, TypeOK, NetTypeOK
  <2>4. IsFiniteSet(saved)' /\ saved' \subseteq saved /\ SavedOnlyForWaiting'
    BY <2>1, <2>2, DropSaved DEF SavedOnlyForWaiting
  <2>5. TypeOK'
    BY <1>1, <1>2, <2>2, <2>3, <2>4 DEF IInv, TypeOK, NetTypeOK
  <2>6. QED
    BY <1>2, <1>3, <1>4, <2>2, <2>4, <2>5 DEF IInv
<1>6. CASE ~(room # NoRoom /\ HasUser(room, u))
  <2>1. UNCHANGED <<room, saved, channel>>
    BY <1>6 DEF DisconnectPage
  <2>2. Members' = Members /\ Connected' = Connected
    BY <2>1 DEF Members, MembersOf, Connected, IsConnected
  <2>3. u \notin Members /\ u \notin Connected
    BY <1>6, BlankSlotIsNoUser DEF Members, MembersOf, Connected, IsConnected, HasUser
  <2>4. TypeOK' /\ IsFiniteSet(saved)'
    BY <1>1, <1>2, <2>1 DEF IInv, TypeOK, NetTypeOK
  <2>5. QED
    BY <1>1, <1>2, <1>3, <1>4, <2>1, <2>2, <2>3, <2>4
       DEF IInv, RoomOK, WellFormed, RoomIsAdmitted, Gone, Served, FullRoomHasCaller,
           ConnectedWasOpened, SavedOnlyForWaiting
<1>7. QED
  BY <1>5, <1>6
\* handle_message for a bye takes the sender out, member or not, and tells
\* the other one if there is one.
LEMMA ByePageStep ==
    ASSUME IInv, NEW u \in Users, ByePage(u), UNCHANGED browserVars
    PROVE  /\ IInv' /\ Leaving' = Leaving /\ u \in Leaving
           /\ Members' = Members \ {u} /\ Connected' = Connected \ {u}
<1> DEFINE req == [kind |-> "message", user |-> u, arg |-> "bye"]
           r == RemoveUser(room, u)
           other == OtherUser(room, u)
           left == saved \ GetSavedMessages(u)
<1> USE DEF browserVars
<1>1. Take(req) /\ UNCHANGED <<page, chan, posted>>
  BY DEF ByePage
<1>2. PendingOK' /\ OneSpyEach' /\ BrowserOK' /\ pending' \subseteq Request
  BY <1>1, TakeKeepsBrowsers
<1>3. u \in Leaving
  BY <1>1 DEF Take, IInv, PendingOK, Leaving
<1>4. Leaving' = Leaving
  BY <1>1 DEF Leaving
<1>5. CASE room # NoRoom
  <2>1. /\ room' = StoreOrDelete(r)
        /\ \/ /\ other # NoUser /\ HasUser(r, other)
              /\ OnMessage(r, other, Bye(u), left)
           \/ /\ ~(other # NoUser /\ HasUser(r, other))
              /\ saved' = left /\ UNCHANGED channel
    BY <1>5 DEF ByePage
  <2>2. /\ room' \in RoomEntity \cup {NoRoom} /\ RoomOK'
        /\ Members' = Members \ {u} /\ Connected' = Connected \ {u}
        /\ RoomIsAdmitted' /\ FullRoomHasCaller' /\ ConnectedWasOpened'
    BY <1>1, <1>3, <1>5, <2>1, RemoveStep
  <2>3. /\ left \in SUBSET saved /\ IsFiniteSet(left)
        /\ \A m \in left : m.client_id \in (Members \ Connected) \ {u}
    BY DropSaved
  <2>4. /\ channel' \in [Users -> Seq(Payload)] /\ saved' \subseteq MessageEntity
        /\ IsFiniteSet(saved') /\ SavedOnlyForWaiting'
    <3>1. CASE /\ other # NoUser /\ HasUser(r, other)
               /\ OnMessage(r, other, Bye(u), left)
      <4>1. room \in RoomEntity /\ WellFormed(room)
        BY <1>5 DEF IInv, TypeOK, NetTypeOK, RoomOK
      <4>2. /\ r \in RoomEntity
            /\ MembersOf(r) = MembersOf(room) \ {u}
            /\ ConnectedOf(r) = ConnectedOf(room) \ {u}
        BY <4>1, RemoveUserFacts
      <4>3. Bye(u) \in Payload
        BY DEF Bye, Payload, MsgTypes, Slot
      <4>4. other \in Users
        BY <3>1, <4>1 DEF OtherUser, RoomEntity, Slot
      <4>5. other \in Members'
        BY <1>5, <2>2, <3>1, <4>2, AbsentIsNoEntity DEF HasUser, Members, MembersOf
      <4>6. Connected' = ConnectedOf(r)
        BY <1>5, <2>2, <4>2, ConnectedIs
      <4>7. /\ channel' \in [Users -> Seq(Payload)]
            /\ saved' \subseteq MessageEntity /\ IsFiniteSet(saved')
            /\ \A m \in saved' :
                  m \in left \/ (m.client_id = other /\ ~IsConnected(r, other))
        BY <2>3, <3>1, <4>3, <4>4, OnMessageStep
      <4>8. SavedOnlyForWaiting'
        BY <2>2, <2>3, <4>5, <4>6, <4>7 DEF SavedOnlyForWaiting, ConnectedOf
      <4>9. QED
        BY <4>7, <4>8
    <3>2. CASE saved' = left /\ UNCHANGED channel
      BY <2>2, <2>3, <3>2 DEF IInv, TypeOK, NetTypeOK, SavedOnlyForWaiting
    <3>3. QED
      BY <2>1, <3>1, <3>2
  <2>5. TypeOK'
    BY <1>1, <1>2, <2>2, <2>4 DEF IInv, TypeOK, NetTypeOK
  <2>6. QED
    BY <1>2, <1>3, <1>4, <2>2, <2>4, <2>5 DEF IInv
<1>6. CASE room = NoRoom
  <2>1. UNCHANGED <<room, saved, channel>>
    BY <1>6 DEF ByePage
  <2>2. Members = {} /\ Connected = {} /\ Members' = {} /\ Connected' = {}
    BY <1>6, <2>1 DEF Members, MembersOf, Connected
  <2>3. TypeOK' /\ IsFiniteSet(saved)'
    BY <1>1, <1>2, <2>1 DEF IInv, TypeOK, NetTypeOK
  <2>4. QED
    BY <1>1, <1>2, <1>3, <1>4, <1>6, <2>1, <2>2, <2>3
       DEF IInv, RoomOK, RoomIsAdmitted, Gone, Served, FullRoomHasCaller,
           ConnectedWasOpened, SavedOnlyForWaiting
<1>7. QED
  BY <1>5, <1>6

\* handle_message for any other message forwards it and touches no room.
LEMMA MessagePageStep ==
    ASSUME IInv, NEW u \in Users, NEW type \in PostTypes,
           MessagePage(u, type), UNCHANGED browserVars
    PROVE  /\ IInv' /\ Leaving' = Leaving /\ Gone' = Gone
           /\ Members' = Members /\ Connected' = Connected
<1> DEFINE req == [kind |-> "message", user |-> u, arg |-> type]
           other == OtherUser(room, u)
           known == room # NoRoom /\ other # NoUser /\ HasUser(room, other)
           msg == Forwarded(u, other, type)
<1> USE DEF browserVars
<1>1. /\ Take(req) /\ UNCHANGED <<room, page, chan, posted>>
      /\ \/ known /\ OnMessage(room, other, msg, saved)
         \/ ~known /\ UNCHANGED <<saved, channel>>
  BY DEF MessagePage
<1>2. PendingOK' /\ OneSpyEach' /\ BrowserOK' /\ pending' \subseteq Request
  BY <1>1, TakeKeepsBrowsers
<1>3. /\ Leaving' = Leaving /\ Members' = Members
      /\ Connected' = Connected /\ Gone' = Gone
  BY <1>1 DEF Leaving, Members, MembersOf, Connected, IsConnected, Gone, Served
<1>4. /\ channel' \in [Users -> Seq(Payload)] /\ saved' \subseteq MessageEntity
      /\ IsFiniteSet(saved') /\ SavedOnlyForWaiting'
  <2>1. CASE known /\ OnMessage(room, other, msg, saved)
    <3>1. msg \in Payload
      BY PostTypesAreTypes DEF Forwarded, Payload, MsgTypes, Slot
    <3>2. room \in RoomEntity
      BY <2>1 DEF IInv, TypeOK, NetTypeOK
    <3>3. other \in Users
      BY <2>1, <3>2 DEF OtherUser, RoomEntity, Slot
    <3>4. other \in Members
      BY <2>1 DEF HasUser, Members, MembersOf
    <3>5. ~IsConnected(room, other) => other \notin Connected
      BY DEF Connected
    <3>6. /\ channel' \in [Users -> Seq(Payload)]
          /\ saved' \subseteq MessageEntity /\ IsFiniteSet(saved')
          /\ \A m \in saved' :
                m \in saved \/ (m.client_id = other /\ ~IsConnected(room, other))
      BY <2>1, <3>1, <3>3, OnMessageStep
    <3>7. SavedOnlyForWaiting'
      BY <1>3, <3>4, <3>5, <3>6 DEF IInv, SavedOnlyForWaiting
    <3>8. QED
      BY <3>6, <3>7
  <2>2. CASE UNCHANGED <<saved, channel>>
    BY <1>3, <2>2 DEF IInv, TypeOK, NetTypeOK, SavedOnlyForWaiting
  <2>3. QED
    BY <1>1, <2>1, <2>2
<1>5. TypeOK'
  BY <1>1, <1>2, <1>4 DEF IInv, TypeOK, NetTypeOK
<1>6. QED
  BY <1>1, <1>2, <1>3, <1>4, <1>5
     DEF IInv, RoomOK, WellFormed, RoomIsAdmitted, Served, FullRoomHasCaller, ConnectedWasOpened

-----------------------------------------------------------------------------
(* The theorems.                                                           *)

\* Every step of the server and of the browsers preserves the invariant.
LEMMA NextIInv == IInv /\ [Next]_netVars => IInv'
<1> SUFFICES ASSUME IInv, [Next]_netVars PROVE IInv'
  OBVIOUS
<1>1. CASE UNCHANGED netVars
  <2>1. Members' = Members /\ Connected' = Connected /\ Gone' = Gone /\ Leaving' = Leaving
    BY <1>1 DEF netVars, Members, MembersOf, Connected, IsConnected, Gone, Served, Leaving
  <2>2. QED
    BY <1>1, <2>1 DEF netVars, IInv, TypeOK, NetTypeOK, RoomOK, WellFormed, PendingOK,
       OneSpyEach, BrowserOK, Served, RoomIsAdmitted, FullRoomHasCaller,
       ConnectedWasOpened, SavedOnlyForWaiting
<1>2. ASSUME NEW u \in Users, Browser(u) PROVE IInv'
  BY <1>2, BrowserStep
<1>3. ASSUME NEW u \in Users, Handle(u), UNCHANGED browserVars PROVE IInv'
  BY <1>3, MainPageStep, ConnectPageStep, DisconnectPageStep, ByePageStep, MessagePageStep
     DEF Handle
<1>4. QED
  BY <1>1, <1>2, <1>3 DEF Next

\* The inductive invariant of the server and what is under way to it: a request in
\* flight has the history that entitles it.
THEOREM Invariance == Spec => []IInv
<1>1. NetInit => IInv
  BY InitIInv
<1>2. IInv /\ [Next]_netVars => IInv'
  BY NextIInv
<1>3. QED
  BY <1>1, <1>2, PTL DEF Spec
\* The types of the state, under every request in any order.
THEOREM TypeCorrect == Spec => []TypeOK
  BY Invariance, PTL DEF IInv

\* No handler stores a room nobody is in: Room.remove_user deletes it.
THEOREM NoEmptyRoomHolds == Spec => []NoEmptyRoom
<1>1. IInv => NoEmptyRoom
  BY DEF IInv, RoomOK, WellFormed, NoEmptyRoom
<1>2. QED
  BY <1>1, Invariance, PTL

\* Only users who were given a page are in the room, and only users who said
\* goodbye are out of it again.
THEOREM RoomIsAdmittedHolds == Spec => []RoomIsAdmitted
  BY Invariance, PTL DEF IInv

\* The second user of a room is always the one who was told to call.
THEOREM FullRoomHasCallerHolds == Spec => []FullRoomHasCaller
  BY Invariance, PTL DEF IInv

\* A user the room says is connected has opened its channel.
THEOREM ConnectedWasOpenedHolds == Spec => []ConnectedWasOpened
  BY Invariance, PTL DEF IInv

\* No saved message outlives its receiver's wait.
THEOREM SavedOnlyForWaitingHolds == Spec => []SavedOnlyForWaiting
  BY Invariance, PTL DEF IInv

-----------------------------------------------------------------------------
(* The refinement.                                                         *)

\* A browser step asks to leave, or is invisible to the room's promise.
LEMMA BrowserSimulates ==
    ASSUME IInv, NEW u \in Users, Browser(u)
    PROVE  [Protocol!Next]_(Protocol!vars)
<1> USE DEF IInv, TypeOK, NetTypeOK
<1>1. Members' = Members /\ Connected' = Connected
  BY BrowserKeepsServer
<1>2. Gone' = Gone
  BY <1>1 DEF Browser, OpenPage, OpenChannel, CloseChannel, PostMessage, serverVars,
     Gone, Served
<1>3. CASE Leaving' = Leaving
  BY <1>1, <1>2, <1>3 DEF Protocol!vars
<1>4. CASE Leaving' = Leaving \cup {u} /\ Served(u)
  <2>1. u \in Members \cup Gone
    BY <1>4 DEF Gone
  <2>2. Protocol!AskToLeave(u)
    BY <1>1, <1>2, <1>4, <2>1 DEF Protocol!AskToLeave
  <2>3. QED
    BY <2>2 DEF Protocol!Next
<1>5. CASE \E debug \in Debugs : OpenPage(u, debug)
  BY <1>3, <1>5 DEF OpenPage, Leaving
<1>6. CASE OpenChannel(u)
  <2>1. /\ chan[u] = "none" /\ chan' = [chan EXCEPT ![u] = "open"] /\ posted' = posted
    BY <1>6 DEF OpenChannel
  <2>2. Leaving' = Leaving
    BY <2>1 DEF Leaving
  <2>3. QED
    BY <1>3, <2>2
<1>7. CASE CloseChannel(u)
  <2>1. /\ chan[u] = "open" /\ chan' = [chan EXCEPT ![u] = "closed"] /\ posted' = posted
    BY <1>7 DEF CloseChannel
  <2>2. Leaving' = Leaving \cup {u}
    BY <2>1 DEF Leaving
  <2>3. Served(u)
    BY <2>1 DEF BrowserOK
  <2>4. QED
    BY <1>4, <2>2, <2>3
<1>8. CASE \E type \in PostTypes : PostMessage(u, type)
  <2>1. PICK type \in PostTypes : PostMessage(u, type)
    BY <1>8
  <2>2. /\ Served(u) /\ posted' = [posted EXCEPT ![u] = @ \cup {type}] /\ chan' = chan
    BY <2>1 DEF PostMessage
  <2>3. CASE type = "bye"
    <3>1. Leaving' = Leaving \cup {u}
      BY <2>2, <2>3 DEF Leaving
    <3>2. QED
      BY <1>4, <2>2, <3>1
  <2>4. CASE type # "bye"
    <3>1. Leaving' = Leaving
      BY <2>2, <2>4 DEF Leaving
    <3>2. QED
      BY <1>3, <3>1
  <2>5. QED
    BY <2>3, <2>4
<1>9. QED
  BY <1>5, <1>6, <1>7, <1>8 DEF Browser

\* Taking a user out who said goodbye is the promise's Leave, or nothing for
\* somebody who is not in the room.
LEMMA LeaveSimulates ==
    ASSUME IInv, NEW u \in Users, u \in Leaving, Leaving' = Leaving, page' = page,
           Members' = Members \ {u}, Connected' = Connected \ {u}
    PROVE  [Protocol!Next]_(Protocol!vars)
<1>1. CASE u \in Members
  <2>1. Gone' = Gone \cup {u}
    BY <1>1, MembersAreUsers DEF IInv, RoomIsAdmitted, Gone, Served
  <2>2. Protocol!Leave(u)
    BY <1>1, <2>1 DEF Protocol!Leave
  <2>3. QED
    BY <2>2 DEF Protocol!Next
<1>2. CASE u \notin Members
  <2>1. Members' = Members /\ Gone' = Gone
    BY <1>2 DEF Gone, Served
  <2>2. u \notin Connected
    BY <1>2, BlankSlotIsNoUser DEF Connected, IsConnected, Members, MembersOf
  <2>3. Connected' = Connected
    BY <2>2
  <2>4. QED
    BY <2>1, <2>3 DEF Protocol!vars
<1>3. QED
  BY <1>1, <1>2

\* A handler joins, connects or takes out one user, or is invisible.
LEMMA HandleSimulates ==
    ASSUME IInv, NEW u \in Users, Handle(u), UNCHANGED browserVars
    PROVE  [Protocol!Next]_(Protocol!vars)
<1>1. CASE \E debug \in Debugs : MainPage(u, debug)
  <2>1. /\ Connected' = Connected /\ Leaving' = Leaving /\ Gone' = Gone
        /\ u \notin Members \cup Gone
        /\ \/ Members' = Members
           \/ Members' = Members \cup {u} /\ Cardinality(Members) < 2
    BY <1>1, MainPageStep
  <2>2. Protocol!Join(u) \/ UNCHANGED Protocol!vars
    BY <2>1 DEF Protocol!Join, Protocol!vars, Protocol!Cardinality, Cardinality
  <2>3. QED
    BY <2>2 DEF Protocol!Next
<1>2. CASE ConnectPage(u)
  <2>1. /\ Members' = Members /\ Leaving' = Leaving /\ Gone' = Gone
        /\ \/ Connected' = Connected
           \/ u \in Members /\ Connected' = Connected \cup {u}
    BY <1>2, ConnectPageStep
  <2>2. Protocol!Connect(u) \/ UNCHANGED Protocol!vars
    BY <2>1 DEF Protocol!Connect, Protocol!vars
  <2>3. QED
    BY <2>2 DEF Protocol!Next
<1>3. CASE DisconnectPage(u)
  <2>1. page' = page
    BY <1>3 DEF DisconnectPage
  <2>2. QED
    BY <1>3, <2>1, DisconnectPageStep, LeaveSimulates
<1>4. CASE ByePage(u)
  <2>1. page' = page
    BY <1>4 DEF ByePage
  <2>2. QED
    BY <1>4, <2>1, ByePageStep, LeaveSimulates
<1>5. CASE \E type \in PostTypes : MessagePage(u, type)
  BY <1>5, MessagePageStep DEF Protocol!vars
<1>6. QED
  BY <1>1, <1>2, <1>3, <1>4, <1>5 DEF Handle

LEMMA InitSimulates == NetInit => Protocol!Init
  BY DEF NetInit, Protocol!Init, Members, MembersOf, Connected, Leaving, Gone, Served

LEMMA NextSimulates ==
    ASSUME IInv, [Next]_netVars
    PROVE  [Protocol!Next]_(Protocol!vars)
<1>1. CASE UNCHANGED netVars
  BY <1>1 DEF netVars, Protocol!vars, Members, MembersOf, Connected, IsConnected,
     Gone, Served, Leaving
<1>2. CASE Next
  BY <1>2, BrowserSimulates, HandleSimulates DEF Next
<1>3. QED
  BY <1>1, <1>2

\* Whatever the requests and their order, what the server does to the room
\* is what RoomProtocol allows (its liveness part is left to TLC).
THEOREM Refinement == Spec => Protocol!SafeSpec
<1>1. NetInit => Protocol!Init
  BY InitSimulates
<1>2. IInv /\ [Next]_netVars => [Protocol!Next]_(Protocol!vars)
  BY NextSimulates
<1>3. QED
  BY <1>1, <1>2, Invariance, PTL DEF Spec, Protocol!SafeSpec

-----------------------------------------------------------------------------
(* The pages.                                                              *)

HasOfferIn(msgs) == \E i \in DOMAIN msgs : msgs[i].type = "offer"

\* The queue of a page that waits to be called.
QueueOK(p) ==
    p.msgQueue # <<>> =>
        /\ ~p.started
        /\ ~p.initiator
        /\ \A i \in DOMAIN p.msgQueue : p.msgQueue[i].type = "offer" => p.msgQueue[1].type = "offer"

\* What the variables p of a page have to do with how it was served, with what it
\* has posted and with what the Channel service delivered to it.
PageOK(p, served, said, heard) ==
    /\ p \in Tab
    /\ QueueOK(p)
    /\ p.initiator \/ "offer" \in p.work => served = "caller"
    /\ "answer" \in p.work \/ HasOfferIn(p.msgQueue) => HasOfferIn(heard)
    /\ p.pc \in {"haveLocalOffer", "stable"} => said \cap {"offer", "answer"} # {}
    /\ p.status \in {"waiting", "left"} => served \in {"callee", "caller"}
    /\ p.status # "unloaded" => "bye" \notin said

PagesOK == \A u \in Users : PageOK(tab[u], page[u], posted[u], channel[u])

CallInv == IInv /\ tab \in [Users -> Tab] /\ PagesOK

-----------------------------------------------------------------------------
(* The functions of spy.js.                                                *)

\* calleeStart processes the messages of the queue one by one.
LEMMA CalleeStartRuns ==
    ASSUME NEW p, p.msgQueue \in Seq(Payload)
    PROVE  \E done :
              /\ done[0] = [p EXCEPT !.msgQueue = <<>>]
              /\ \A n \in Nat : n + 1 <= Len(p.msgQueue)
                                  => done[n + 1] = Process(done[n], p.msgQueue[n + 1])
              /\ CalleeStart(p) = done[Len(p.msgQueue)]
<1> DEFINE queue == p.msgQueue
           base == [p EXCEPT !.msgQueue = <<>>]
           Run(f, n) == f = [k \in 0 .. n |-> IF k = 0 THEN base ELSE Process(f[k - 1], queue[k])]
           S == {n \in Nat : \E f : Run(f, n)}
<1>1. 0 \in S
  <2> DEFINE f == [k \in 0 .. 0 |-> base]
  <2>1. Run(f, 0)
    <3>1. \A k \in 0 .. 0 : k = 0
      OBVIOUS
    <3> HIDE DEF base
    <3> QED BY <3>1
  <2> HIDE DEF f, Run
  <2> QED BY <2>1
<1>2. ASSUME NEW n \in Nat, n \in S PROVE n + 1 \in S
  <2>1. PICK f : Run(f, n)
    BY <1>2
  <2> DEFINE g == [k \in 0 .. (n + 1) |-> IF k = n + 1 THEN Process(f[n], queue[k]) ELSE f[k]]
  <2>2. \A k \in 0 .. n : g[k] = f[k]
    OBVIOUS
  <2>3. \A k \in 0 .. (n + 1) : g[k] = IF k = 0 THEN base ELSE Process(g[k - 1], queue[k])
    <3> TAKE k \in 0 .. (n + 1)
    <3>1. CASE k = n + 1
      <4>1. g[k] = Process(f[n], queue[k]) /\ k # 0 /\ k - 1 = n /\ n \in 0 .. n
        BY <3>1
      <4>2. g[k - 1] = f[n]
        BY <2>2, <4>1
      <4> HIDE DEF g, base, Run
      <4> QED BY <4>1, <4>2
    <3>2. CASE k \in 0 .. n
      <4>1. g[k] = f[k] /\ f[k] = IF k = 0 THEN base ELSE Process(f[k - 1], queue[k])
        <5> HIDE DEF g, base
        <5> QED BY <2>1, <2>2, <3>2
      <4>2. k # 0 => k - 1 \in 0 .. n
        BY <3>2
      <4>3. k # 0 => g[k - 1] = f[k - 1]
        <5> HIDE DEF g, base, Run
        <5> QED BY <2>2, <4>2
      <4> HIDE DEF g, base, Run
      <4> QED BY <4>1, <4>3
    <3> QED BY <3>1, <3>2
  <2>4. Run(g, n + 1)
    <3>1. g = [k \in 0 .. (n + 1) |-> g[k]]
      OBVIOUS
    <3> HIDE DEF g, base
    <3> QED BY <2>3, <3>1
  <2> HIDE DEF g, Run
  <2> QED BY <2>4
<1>3. Len(queue) \in S
  <2> HIDE DEF S
  <2>1. Nat \subseteq S
    BY <1>1, <1>2, SetInduction
  <2> QED BY <2>1
<1> DEFINE done == CHOOSE f : Run(f, Len(queue))
<1>4. Run(done, Len(queue))
  BY <1>3
<1>5. CalleeStart(p) = done[Len(queue)]
  BY DEF CalleeStart
<1> HIDE DEF done, base, S
<1>6. done[0] = base
  BY <1>4
<1>7. ASSUME NEW n \in Nat, n + 1 <= Len(queue)
      PROVE  done[n + 1] = Process(done[n], queue[n + 1])
  <2>1. n + 1 \in 0 .. Len(queue) /\ n + 1 # 0 /\ (n + 1) - 1 = n
    BY <1>7
  <2> QED BY <1>4, <2>1
<1> QED BY <1>5, <1>6, <1>7 DEF base

\* What a set of pages has that is closed under each message of the queue, the page
\* has at the end.
LEMMA CalleeStartIn ==
    ASSUME NEW p, NEW G, p.msgQueue \in Seq(Payload),
           [p EXCEPT !.msgQueue = <<>>] \in G,
           \A r \in G, i \in DOMAIN p.msgQueue : Process(r, p.msgQueue[i]) \in G
    PROVE  CalleeStart(p) \in G
<1> DEFINE queue == p.msgQueue
<1>1. PICK done :
          /\ done[0] = [p EXCEPT !.msgQueue = <<>>]
          /\ \A n \in Nat : n + 1 <= Len(queue) => done[n + 1] = Process(done[n], queue[n + 1])
          /\ CalleeStart(p) = done[Len(queue)]
  BY CalleeStartRuns
<1> DEFINE T == {n \in Nat : n <= Len(queue) => done[n] \in G}
<1>2. 0 \in T
  BY <1>1
<1>3. ASSUME NEW n \in Nat, n \in T PROVE n + 1 \in T
  <2> SUFFICES ASSUME n + 1 <= Len(queue) PROVE done[n + 1] \in G
    OBVIOUS
  <2>1. n + 1 \in DOMAIN queue
    OBVIOUS
  <2>2. done[n] \in G
    BY <1>3
  <2> QED BY <1>1, <2>1, <2>2
<1>4. Len(queue) \in T
  <2> HIDE DEF T
  <2>1. Nat \subseteq T
    BY <1>2, <1>3, SetInduction
  <2> QED BY <2>1
<1> QED BY <1>1, <1>4

\* And what one message of the queue brings about and none undoes, the page has.
LEMMA CalleeStartTurns ==
    ASSUME NEW p, NEW G, NEW H, p.msgQueue \in Seq(Payload),
           [p EXCEPT !.msgQueue = <<>>] \in G,
           \A r \in G, i \in DOMAIN p.msgQueue : Process(r, p.msgQueue[i]) \in G,
           NEW k \in DOMAIN p.msgQueue,
           \A r \in G : Process(r, p.msgQueue[k]) \in H,
           \A r \in H, i \in DOMAIN p.msgQueue : Process(r, p.msgQueue[i]) \in H
    PROVE  CalleeStart(p) \in H
<1> DEFINE queue == p.msgQueue
<1>1. PICK done :
          /\ done[0] = [p EXCEPT !.msgQueue = <<>>]
          /\ \A n \in Nat : n + 1 <= Len(queue) => done[n + 1] = Process(done[n], queue[n + 1])
          /\ CalleeStart(p) = done[Len(queue)]
  BY CalleeStartRuns
<1>0. k \in Nat /\ k > 0 /\ k <= Len(queue)
  OBVIOUS
<1> DEFINE T == {n \in Nat : n <= Len(queue) => done[n] \in G /\ (n >= k => done[n] \in H)}
<1>2. 0 \in T
  BY <1>0, <1>1
<1>3. ASSUME NEW n \in Nat, n \in T PROVE n + 1 \in T
  <2> SUFFICES ASSUME n + 1 <= Len(queue)
               PROVE  done[n + 1] \in G /\ (n + 1 >= k => done[n + 1] \in H)
    OBVIOUS
  <2>1. n + 1 \in DOMAIN queue /\ (n + 1 >= k => n >= k \/ n + 1 = k)
    OBVIOUS
  <2>2. done[n] \in G /\ (n >= k => done[n] \in H)
    BY <1>3
  <2>3. done[n + 1] = Process(done[n], queue[n + 1])
    BY <1>1
  <2> HIDE DEF T
  <2> QED BY <2>1, <2>2, <2>3
<1>4. Len(queue) \in T
  <2> HIDE DEF T
  <2>1. Nat \subseteq T
    BY <1>2, <1>3, SetInduction
  <2> QED BY <2>1
<1> QED BY <1>0, <1>1, <1>4

\* The page is of its type, field by field.
LEMMA TabFields ==
    ASSUME NEW p \in Tab
    PROVE  /\ p.status \in {"blank", "waiting", "left", "unloaded"}
           /\ p.initiator \in BOOLEAN /\ p.channelReady \in BOOLEAN
           /\ p.signalingReady \in BOOLEAN /\ p.started \in BOOLEAN
           /\ p.media \in {"none", "asked", "granted"}
           /\ p.pc \in {"null", "new", "haveLocalOffer", "haveRemoteOffer", "stable"}
           /\ p.work \subseteq {"offer", "answer"} /\ p.video \in BOOLEAN
           /\ p.msgQueue \in Seq(Payload) /\ p.seen \in Nat
  BY DEF Tab

\* A page with no connection and nothing to send, and no queue, has nothing to
\* account for but how it was served.
LEMMA Stopped ==
    ASSUME NEW p, NEW q \in Tab, NEW served, NEW said, NEW heard,
           PageOK(p, served, said, heard),
           q.msgQueue = <<>>, q.work = {}, q.pc = "null",
           q.initiator => p.initiator,
           q.status # "unloaded" => q.status # "blank" /\ p.status \in {"waiting", "left"}
    PROVE  PageOK(q, served, said, heard)
  BY DEF PageOK, QueueOK, HasOfferIn

\* An offer or an answer that can be set, with the button or without.
LEMMA RemoteIsSet ==
    ASSUME NEW p \in Tab, NEW msg
    PROVE  \E video \in BOOLEAN :
             /\ p.pc # "haveLocalOffer" =>
                  OnOffer(p, msg) = [p EXCEPT !.pc = "haveRemoteOffer",
                                              !.work = @ \cup {"answer"}, !.video = video]
             /\ p.pc = "haveLocalOffer" =>
                  OnAnswer(p, msg) = [p EXCEPT !.pc = "stable", !.video = video]
<1> DEFINE video == p.video \/ BringsStream(msg)
<1>1. video \in BOOLEAN
  OBVIOUS
<1>2. /\ p.pc # "haveLocalOffer" =>
           OnOffer(p, msg) = [p EXCEPT !.pc = "haveRemoteOffer",
                                       !.work = @ \cup {"answer"}, !.video = video]
      /\ p.pc = "haveLocalOffer" =>
           OnAnswer(p, msg) = [p EXCEPT !.pc = "stable", !.video = video]
  BY DEF OnOffer, OnAnswer, Tab
<1> HIDE DEF video
<1> QED BY <1>1, <1>2

LEMMA NewTabIsTab == NewTab \in Tab
<1>1. <<>> \in Seq(Payload)
  OBVIOUS
<1> QED BY <1>1 DEF NewTab, Tab

LEMMA StopIsTab ==
    ASSUME NEW p \in Tab
    PROVE  /\ Stop(p) \in Tab
           /\ Stop(p).msgQueue = <<>> /\ Stop(p).work = {} /\ Stop(p).pc = "null"
           /\ ~Stop(p).started
           /\ Stop(p).initiator = p.initiator /\ Stop(p).status = p.status
<1>1. <<>> \in Seq(Payload)
  OBVIOUS
<1> QED BY <1>1 DEF Stop, Tab

\* processSignalingMessage keeps the queue or empties it, answers an offer that
\* was heard, and forgets about the call with a bye.
LEMMA ProcessOK ==
    ASSUME NEW p, NEW served, NEW said, NEW heard, PageOK(p, served, said, heard),
           NEW msg \in Payload, msg.type = "offer" => HasOfferIn(heard),
           p.status \in {"waiting", "left"}
    PROVE  /\ PageOK(Process(p, msg), served, said, heard)
           /\ Process(p, msg).msgQueue \in {p.msgQueue, <<>>}
           /\ Process(p, msg).status \in {"waiting", "left"}
           /\ Process(p, msg).initiator => p.initiator
<1>0. p \in Tab
  BY DEF PageOK
<1>1. CASE ~p.started \/ msg.type \notin {"offer", "answer", "bye"}
  <2>1. CASE ~p.started
    BY <2>1 DEF Process
  <2>2. CASE p.started
    <3>1. msg.type # "offer" /\ msg.type # "answer" /\ msg.type # "bye"
      BY <1>1, <2>2
    <3>2. Process(p, msg) = p
      BY <2>2, <3>1 DEF Process
    <3> QED BY <3>2
  <2> QED BY <2>1, <2>2
<1>2. CASE p.started /\ msg.type = "offer"
  <2>1. Process(p, msg) = OnOffer(p, msg)
    BY <1>2 DEF Process
  <2>2. CASE p.pc = "haveLocalOffer"
    BY <2>1, <2>2 DEF OnOffer
  <2>3. CASE p.pc # "haveLocalOffer"
    <3> PICK video \in BOOLEAN :
            OnOffer(p, msg) = [p EXCEPT !.pc = "haveRemoteOffer", !.work = @ \cup {"answer"},
                                        !.video = video]
      BY <1>0, <2>3, RemoteIsSet
    <3> DEFINE q == [p EXCEPT !.pc = "haveRemoteOffer", !.work = @ \cup {"answer"},
                              !.video = video]
    <3>1. Process(p, msg) = q
      BY <2>1
    <3>2. q \in Tab
      BY <1>0 DEF Tab
    <3>3. /\ q.msgQueue = p.msgQueue /\ q.started = p.started /\ q.initiator = p.initiator
          /\ q.work = p.work \cup {"answer"} /\ q.pc = "haveRemoteOffer" /\ q.status = p.status
      BY <1>0 DEF Tab
    <3> HIDE DEF q
    <3>4. PageOK(q, served, said, heard)
      BY <1>2, <3>2, <3>3 DEF PageOK, QueueOK
    <3> QED BY <3>1, <3>3, <3>4
  <2> QED BY <2>2, <2>3
<1>3. CASE p.started /\ msg.type = "answer"
  <2>1. Process(p, msg) = OnAnswer(p, msg)
    BY <1>3 DEF Process
  <2>2. CASE p.pc # "haveLocalOffer"
    BY <2>1, <2>2 DEF OnAnswer
  <2>3. CASE p.pc = "haveLocalOffer"
    <3> PICK video \in BOOLEAN : OnAnswer(p, msg) = [p EXCEPT !.pc = "stable", !.video = video]
      BY <1>0, <2>3, RemoteIsSet
    <3> DEFINE q == [p EXCEPT !.pc = "stable", !.video = video]
    <3>1. Process(p, msg) = q
      BY <2>1
    <3>2. q \in Tab
      BY <1>0 DEF Tab
    <3>3. /\ q.msgQueue = p.msgQueue /\ q.started = p.started /\ q.initiator = p.initiator
          /\ q.work = p.work /\ q.pc = "stable" /\ q.status = p.status
      BY <1>0 DEF Tab
    <3> HIDE DEF q
    <3>4. PageOK(q, served, said, heard)
      BY <2>3, <3>2, <3>3 DEF PageOK, QueueOK
    <3> QED BY <3>1, <3>3, <3>4
  <2> QED BY <2>2, <2>3
<1>4. CASE p.started /\ msg.type = "bye"
  <2> DEFINE q == [Stop(p) EXCEPT !.initiator = FALSE, !.status = "waiting"]
  <2>1. Process(p, msg) = q
    BY <1>4 DEF Process, OnRemoteHangup
  <2>2. Stop(p) \in Tab /\ Stop(p).msgQueue = <<>> /\ Stop(p).work = {} /\ Stop(p).pc = "null"
    BY <1>0, StopIsTab
  <2>3. q \in Tab
    BY <2>2 DEF Tab
  <2>4. /\ q.msgQueue = <<>> /\ q.work = {} /\ q.pc = "null" /\ ~q.initiator
        /\ q.status = "waiting"
    BY <2>2 DEF Tab
  <2> HIDE DEF q
  <2>5. PageOK(q, served, said, heard)
    BY <2>3, <2>4, Stopped
  <2> QED BY <2>1, <2>4, <2>5
<1> QED BY <1>1, <1>2, <1>3, <1>4

LEMMA CalleeStartOK ==
    ASSUME NEW p, NEW served, NEW said, NEW heard, p \in Tab,
           PageOK([p EXCEPT !.msgQueue = <<>>], served, said, heard),
           HasOfferIn(p.msgQueue) => HasOfferIn(heard), p.status \in {"waiting", "left"}
    PROVE  /\ PageOK(CalleeStart(p), served, said, heard)
           /\ CalleeStart(p).msgQueue = <<>>
           /\ CalleeStart(p).status \in {"waiting", "left"}
<1> DEFINE G == {r \in Tab : /\ PageOK(r, served, said, heard)
                            /\ r.msgQueue = <<>> /\ r.status \in {"waiting", "left"}}
           base == [p EXCEPT !.msgQueue = <<>>]
<1>1. p.msgQueue \in Seq(Payload)
  BY DEF Tab
<1>2. base \in G
  <2>1. base \in Tab
    BY DEF PageOK
  <2>2. base.msgQueue = <<>> /\ base.status = p.status
    BY DEF Tab
  <2> QED BY <2>1, <2>2
<1>3. ASSUME NEW r \in G, NEW i \in DOMAIN p.msgQueue PROVE Process(r, p.msgQueue[i]) \in G
  <2>1. p.msgQueue[i] \in Payload
    BY <1>1
  <2>2. p.msgQueue[i].type = "offer" => HasOfferIn(heard)
    BY DEF HasOfferIn
  <2> DEFINE msg == p.msgQueue[i]
             s == Process(r, msg)
  <2>3. /\ PageOK(s, served, said, heard)
        /\ s.msgQueue \in {r.msgQueue, <<>>} /\ s.status \in {"waiting", "left"}
    <3> HIDE DEF msg
    <3>1. msg \in Payload /\ (msg.type = "offer" => HasOfferIn(heard))
      BY <2>1, <2>2 DEF msg
    <3> QED BY <3>1, ProcessOK
  <2>4. s \in Tab
    BY <2>3 DEF PageOK
  <2> HIDE DEF s
  <2>5. s \in G
    BY <2>3, <2>4
  <2> QED BY <2>5 DEF s
<1>4. CalleeStart(p) \in G
  <2> HIDE DEF G
  <2> QED BY <1>1, <1>2, <1>3, CalleeStartIn
<1> QED BY <1>4

\* createPeerConnection and what follows leave an empty queue.
LEMMA StartCallOK ==
    ASSUME NEW p, NEW served, NEW said, NEW heard, PageOK(p, served, said, heard),
           p.status \in {"waiting", "left"}
    PROVE  /\ PageOK(StartCall(p), served, said, heard)
           /\ StartCall(p).msgQueue = <<>>
           /\ StartCall(p).status \in {"waiting", "left"}
<1> DEFINE q == [p EXCEPT !.pc = "new", !.started = TRUE]
<1>0. p \in Tab
  BY DEF PageOK
<1>1. q \in Tab
  BY <1>0 DEF Tab
<1>2. /\ q.msgQueue = p.msgQueue /\ q.initiator = p.initiator /\ q.work = p.work
      /\ q.pc = "new" /\ q.status = p.status
  BY <1>0 DEF Tab
<1>3. CASE p.initiator
  <2> DEFINE r == [q EXCEPT !.work = @ \cup {"offer"}]
  <2>1. StartCall(p) = r
    BY <1>3 DEF StartCall
  <2>2. r \in Tab
    <3> HIDE DEF q
    <3> QED BY <1>1 DEF Tab
  <2>3. /\ r.msgQueue = q.msgQueue /\ r.initiator = q.initiator /\ r.pc = q.pc
        /\ r.work = q.work \cup {"offer"} /\ r.status = q.status
    <3> HIDE DEF q
    <3> QED BY <1>1 DEF Tab
  <2>4. p.msgQueue = <<>>
    BY <1>3 DEF PageOK, QueueOK
  <2> HIDE DEF q, r
  <2>5. PageOK(r, served, said, heard)
    BY <1>2, <1>3, <2>2, <2>3, <2>4 DEF PageOK, QueueOK
  <2> QED BY <1>2, <2>1, <2>3, <2>4, <2>5
<1>4. CASE ~p.initiator
  <2>1. StartCall(p) = CalleeStart(q)
    BY <1>4 DEF StartCall
  <2> DEFINE r == [q EXCEPT !.msgQueue = <<>>]
  <2>2. r \in Tab
    <3>1. <<>> \in Seq(Payload)
      OBVIOUS
    <3> HIDE DEF q
    <3> QED BY <1>1, <3>1 DEF Tab
  <2>3. /\ r.msgQueue = <<>> /\ r.initiator = q.initiator /\ r.pc = q.pc
        /\ r.work = q.work /\ r.status = q.status
    <3> HIDE DEF q
    <3> QED BY <1>1 DEF Tab
  <2> HIDE DEF q
  <2>4. PageOK(r, served, said, heard)
    <3> HIDE DEF r
    <3> QED BY <1>2, <1>4, <2>2, <2>3 DEF PageOK, QueueOK, HasOfferIn
  <2>5. HasOfferIn(q.msgQueue) => HasOfferIn(heard)
    BY <1>2 DEF PageOK
  <2> QED BY <1>1, <1>2, <2>1, <2>4, <2>5, CalleeStartOK
<1> QED BY <1>3, <1>4

LEMMA MaybeStartOK ==
    ASSUME NEW p, NEW served, NEW said, NEW heard, PageOK(p, served, said, heard),
           p.status \in {"waiting", "left"}
    PROVE  PageOK(MaybeStart(p), served, said, heard)
<1> DEFINE q == [p EXCEPT !.status = "waiting"]
<1>1. p \in Tab
  BY DEF PageOK
<1>2. q \in Tab
  BY <1>1 DEF Tab
<1>3. /\ q.msgQueue = p.msgQueue /\ q.initiator = p.initiator /\ q.work = p.work
      /\ q.pc = p.pc /\ q.status = "waiting" /\ q.started = p.started
  BY <1>1 DEF Tab
<1>4. MaybeStart(p) \in {p, StartCall(q)}
  BY DEF MaybeStart
<1> HIDE DEF q
<1>5. PageOK(q, served, said, heard)
  BY <1>2, <1>3 DEF PageOK, QueueOK
<1> QED BY <1>3, <1>4, <1>5, StartCallOK

\* An offer stands at the head of the queue, what follows it behind it.
LEMMA EnqueueOK ==
    ASSUME NEW p, NEW served, NEW said, NEW heard, PageOK(p, served, said, heard),
           NEW msg \in Payload, msg.type = "offer" => HasOfferIn(heard),
           p.status \in {"waiting", "left"}, ~p.initiator, ~p.started
    PROVE  PageOK(Enqueue(p, msg), served, said, heard)
<1>0. p \in Tab /\ p.msgQueue \in Seq(Payload)
  BY TabFields DEF PageOK
<1>1. CASE msg.type = "offer"
  <2> DEFINE q == [p EXCEPT !.msgQueue = <<msg>> \o @, !.signalingReady = TRUE]
             m == <<msg>> \o p.msgQueue
  <2>1. Enqueue(p, msg) = MaybeStart(q)
    BY <1>1 DEF Enqueue
  <2>2. m \in Seq(Payload) /\ m[1] = msg
    BY <1>0
  <2>3. q \in Tab
    <3> HIDE DEF m
    <3> q = [p EXCEPT !.msgQueue = m, !.signalingReady = TRUE]
      BY <1>0 DEF Tab, m
    <3> HIDE DEF q
    <3> QED BY <1>0, <2>2 DEF Tab
  <2>4. /\ q.msgQueue = m /\ q.initiator = p.initiator /\ q.work = p.work
        /\ q.pc = p.pc /\ q.status = p.status /\ q.started = p.started
    BY <1>0 DEF Tab
  <2> HIDE DEF q, m
  <2>5. PageOK(q, served, said, heard)
    BY <1>1, <2>2, <2>3, <2>4 DEF PageOK, QueueOK
  <2> QED BY <2>1, <2>4, <2>5, MaybeStartOK
<1>2. CASE msg.type # "offer"
  <2> DEFINE q == [p EXCEPT !.msgQueue = Append(@, msg)]
             m == Append(p.msgQueue, msg)
  <2>1. Enqueue(p, msg) = q
    BY <1>2 DEF Enqueue
  <2>2. /\ m \in Seq(Payload) /\ DOMAIN m = 1 .. (Len(p.msgQueue) + 1)
        /\ DOMAIN p.msgQueue = 1 .. Len(p.msgQueue) /\ Len(p.msgQueue) \in Nat
        /\ m[Len(p.msgQueue) + 1] = msg
        /\ \A i \in DOMAIN p.msgQueue : m[i] = p.msgQueue[i]
    BY <1>0
  <2>3. q \in Tab
    <3> HIDE DEF m
    <3> q = [p EXCEPT !.msgQueue = m]
      BY <1>0 DEF Tab, m
    <3> HIDE DEF q
    <3> QED BY <1>0, <2>2 DEF Tab
  <2>4. /\ q.msgQueue = m /\ q.initiator = p.initiator /\ q.work = p.work
        /\ q.pc = p.pc /\ q.status = p.status /\ q.started = p.started
    BY <1>0 DEF Tab
  <2> HIDE DEF q, m
  <2>5. ASSUME NEW i \in DOMAIN m, m[i].type = "offer"
        PROVE  i \in DOMAIN p.msgQueue /\ p.msgQueue[i].type = "offer" /\ p.msgQueue # <<>>
    <3>1. i # Len(p.msgQueue) + 1
      BY <1>2, <2>2, <2>5
    <3>2. i \in DOMAIN p.msgQueue
      BY <2>2, <3>1
    <3>3. p.msgQueue # <<>>
      BY <1>0, <3>2
    <3> QED BY <2>2, <2>5, <3>2, <3>3
  <2>6. QueueOK(q)
    <3> SUFFICES ASSUME NEW i \in DOMAIN m, m[i].type = "offer" PROVE m[1].type = "offer"
      BY <2>4 DEF QueueOK
    <3>1. p.msgQueue[1].type = "offer"
      BY <2>5 DEF PageOK, QueueOK
    <3>2. 1 \in DOMAIN p.msgQueue
      BY <1>0, <2>5
    <3> QED BY <2>2, <3>1, <3>2
  <2>7. HasOfferIn(m) => HasOfferIn(p.msgQueue)
    BY <2>5 DEF HasOfferIn
  <2>8. PageOK(q, served, said, heard)
    BY <2>3, <2>4, <2>6, <2>7 DEF PageOK
  <2> QED BY <2>1, <2>8
<1> QED BY <1>1, <1>2

LEMMA ReceiveOK ==
    ASSUME NEW p, NEW served, NEW said, NEW heard, PageOK(p, served, said, heard),
           NEW msg \in Payload, msg.type = "offer" => HasOfferIn(heard),
           p.status \in {"waiting", "left"}
    PROVE  PageOK(Receive(p, msg), served, said, heard)
  BY ProcessOK, EnqueueOK DEF Receive

-----------------------------------------------------------------------------
(* What the server and the network do to a page.                           *)

\* More posts that are not a bye, and more messages, leave a page what it is.
LEMMA PageOKGrows ==
    ASSUME NEW p, NEW served, NEW said, NEW heard, PageOK(p, served, said, heard),
           NEW served2, NEW said2, NEW heard2,
           served \in {"callee", "caller"} => served2 = served,
           said \subseteq said2, "bye" \in said2 => "bye" \in said,
           HasOfferIn(heard) => HasOfferIn(heard2)
    PROVE  PageOK(p, served2, said2, heard2)
  BY DEF PageOK

\* The messages saved for a user are delivered as a sequence of messages.
LEMMA SavedAsSequence ==
    ASSUME IInv, NEW u, NEW order \in SetToSeqs(GetSavedMessages(u))
    PROVE  [i \in 1..Len(order) |-> order[i].message] \in Seq(Payload)
<1>1. GetSavedMessages(u) \subseteq saved /\ saved \subseteq MessageEntity
  BY DEF GetSavedMessages, IInv, TypeOK, NetTypeOK
<1>2. Cardinality(GetSavedMessages(u)) \in Nat
  BY <1>1, FS_Subset, FS_CardinalityType DEF IInv
<1>3. order \in [1..Cardinality(GetSavedMessages(u)) -> GetSavedMessages(u)]
  BY DEF SetToSeqs
<1>4. order \in Seq(MessageEntity)
  BY <1>1, <1>2, <1>3
<1>5. Len(order) \in Nat /\ \A i \in 1..Len(order) : order[i] \in MessageEntity
  BY <1>4
<1>6. \A i \in 1..Len(order) : order[i].message \in Payload
  BY <1>5 DEF MessageEntity
<1> QED BY <1>5, <1>6

\* The Channel service takes nothing back.
LEMMA SendGrows ==
    ASSUME IInv, NEW w, NEW msgs, Len(msgs) \in Nat, Send(w, msgs), NEW v \in Users,
           HasOfferIn(channel[v])
    PROVE  HasOfferIn(channel'[v])
<1>1. channel[v] \in Seq(Payload)
  BY DEF IInv, TypeOK, NetTypeOK
<1>2. CASE channel'[v] = channel[v]
  BY <1>2
<1>3. CASE channel'[v] # channel[v]
  <2>1. channel'[v] = channel[v] \o msgs
    BY <1>3 DEF Send, IInv, TypeOK, NetTypeOK
  <2>2. PICK i \in DOMAIN channel[v] : channel[v][i].type = "offer"
    BY DEF HasOfferIn
  <2>3. i \in DOMAIN (channel[v] \o msgs) /\ (channel[v] \o msgs)[i] = channel[v][i]
    BY <1>1, <2>2
  <2> QED BY <2>1, <2>2, <2>3 DEF HasOfferIn
<1> QED BY <1>2, <1>3

LEMMA HandleGrows ==
    ASSUME IInv, NEW u \in Users, Handle(u), UNCHANGED browserVars,
           NEW v \in Users, HasOfferIn(channel[v])
    PROVE  HasOfferIn(channel'[v])
<1>0. ASSUME NEW m PROVE Len(<<m>>) \in Nat
  OBVIOUS
<1>1. CASE UNCHANGED channel
  BY <1>1
<1>2. ASSUME NEW r, NEW to, NEW msg, NEW before, OnMessage(r, to, msg, before)
      PROVE  HasOfferIn(channel'[v])
  BY <1>0, <1>1, <1>2, SendGrows DEF OnMessage
<1>3. CASE \E debug \in Debugs : MainPage(u, debug)
  BY <1>1, <1>3 DEF MainPage
<1>4. CASE ConnectPage(u)
  <2>1. CASE room # NoRoom /\ HasUser(room, u)
    <3>1. PICK order \in SetToSeqs(GetSavedMessages(u)) :
              Send(u, [i \in 1..Len(order) |-> order[i].message])
      BY <1>4, <2>1 DEF ConnectPage
    <3> DEFINE msgs == [i \in 1..Len(order) |-> order[i].message]
    <3>2. msgs \in Seq(Payload)
      BY SavedAsSequence
    <3> HIDE DEF msgs
    <3>3. Len(msgs) \in Nat
      BY <3>2
    <3> QED BY <3>1, <3>3, SendGrows DEF msgs
  <2>2. CASE ~(room # NoRoom /\ HasUser(room, u))
    BY <1>1, <1>4, <2>2 DEF ConnectPage
  <2> QED BY <2>1, <2>2
<1>5. CASE DisconnectPage(u)
  <2>1. UNCHANGED channel \/ Send(OtherUser(room, u), <<Bye(u)>>)
    BY <1>5 DEF DisconnectPage
  <2> QED BY <1>0, <1>1, <2>1, SendGrows
<1>6. CASE ByePage(u)
  BY <1>1, <1>2, <1>6 DEF ByePage
<1>7. CASE \E type \in PostTypes : MessagePage(u, type)
  BY <1>1, <1>2, <1>7 DEF MessagePage
<1> QED BY <1>3, <1>4, <1>5, <1>6, <1>7 DEF Handle

\* A page is served to somebody who asked for it.
LEMMA HandleServes ==
    ASSUME IInv, NEW u \in Users, Handle(u), NEW v \in Users, page[v] \in {"callee", "caller"}
    PROVE  page'[v] = page[v]
<1>1. CASE \E debug \in Debugs : MainPage(u, debug)
  <2>1. PICK debug \in Debugs : MainPage(u, debug)
    BY <1>1
  <2>2. page[u] = "loading"
    BY <2>1 DEF MainPage, Take, IInv, PendingOK
  <2>3. \E answer : page' = [page EXCEPT ![u] = answer]
    BY <2>1 DEF MainPage
  <2> QED BY <2>2, <2>3 DEF IInv, TypeOK, NetTypeOK
<1>2. CASE ConnectPage(u) \/ DisconnectPage(u) \/ ByePage(u)
  BY <1>2 DEF ConnectPage, DisconnectPage, ByePage
<1>3. CASE \E type \in PostTypes : MessagePage(u, type)
  BY <1>3 DEF MessagePage
<1> QED BY <1>1, <1>2, <1>3 DEF Handle

LEMMA HandleKeepsPages ==
    ASSUME IInv, PagesOK, NEW u \in Users, Handle(u), UNCHANGED <<browserVars, tab>>
    PROVE  PagesOK'
<1> SUFFICES ASSUME NEW v \in Users
             PROVE  PageOK(tab'[v], page'[v], posted'[v], channel'[v])
  BY DEF PagesOK
<1>1. PageOK(tab[v], page[v], posted[v], channel[v])
  BY DEF PagesOK
<1>2. tab' = tab /\ posted' = posted /\ UNCHANGED browserVars
  BY DEF browserVars
<1>3. page[v] \in {"callee", "caller"} => page'[v] = page[v]
  BY HandleServes
<1>4. HasOfferIn(channel[v]) => HasOfferIn(channel'[v])
  BY <1>2, HandleGrows
<1> QED BY <1>1, <1>2, <1>3, <1>4, PageOKGrows

-----------------------------------------------------------------------------
(* The callbacks.                                                          *)

\* A callback that changes only its own page.
LEMMA OnlyPage ==
    ASSUME CallInv, NEW u \in Users, NEW p, tab' = [tab EXCEPT ![u] = p],
           UNCHANGED <<page, posted, channel>>,
           PageOK(p, page[u], posted[u], channel[u])
    PROVE  PagesOK' /\ tab' \in [Users -> Tab]
<1>1. tab' \in [Users -> Tab]
  BY DEF CallInv, PageOK
<1> SUFFICES ASSUME NEW v \in Users
             PROVE  PageOK(tab'[v], page'[v], posted'[v], channel'[v])
  BY <1>1 DEF PagesOK
<1> QED BY DEF CallInv, PagesOK

\* A callback that posts a message, and says bye only when the page is gone.
LEMMA PageAndPost ==
    ASSUME CallInv, NEW u \in Users, NEW p, NEW type, tab' = [tab EXCEPT ![u] = p],
           SendMessage(u, type),
           PageOK(p, page[u], posted[u] \cup {type}, channel[u])
    PROVE  PagesOK' /\ tab' \in [Users -> Tab]
<1>1. tab' \in [Users -> Tab]
  BY DEF CallInv, PageOK
<1>2. posted' = [posted EXCEPT ![u] = @ \cup {type}] /\ UNCHANGED <<page, channel>>
  BY DEF SendMessage, serverVars
<1>3. posted'[u] = posted[u] \cup {type} /\ \A v \in Users \ {u} : posted'[v] = posted[v]
  BY <1>2 DEF CallInv, IInv, TypeOK, NetTypeOK
<1> SUFFICES ASSUME NEW v \in Users
             PROVE  PageOK(tab'[v], page'[v], posted'[v], channel'[v])
  BY <1>1 DEF PagesOK
<1>4. CASE v = u
  <2>1. tab'[v] = p
    BY <1>4 DEF CallInv
  <2> QED BY <1>2, <1>3, <1>4, <2>1
<1>5. CASE v # u
  <2>1. tab'[v] = tab[v]
    BY <1>5 DEF CallInv
  <2> QED BY <1>2, <1>3, <1>5, <2>1 DEF CallInv, PagesOK
<1> QED BY <1>4, <1>5

LEMMA InitializeOK ==
    ASSUME CallInv, NEW u \in Users, Initialize(u)
    PROVE  PagesOK' /\ tab' \in [Users -> Tab]
<1> DEFINE init == [NewTab EXCEPT !.status = "waiting", !.initiator = page[u] = "caller"]
           asked == [init EXCEPT !.media = "asked"]
           ready(p) == [p EXCEPT !.signalingReady = p.initiator]
           OK(p) == PageOK(p, page[u], posted[u], channel[u])
<1>0. /\ Served(u) /\ tab[u].status = "blank" /\ UNCHANGED <<page, posted, channel>>
      /\ \/ tab' = [tab EXCEPT ![u] = ready(asked)]
         \/ tab' = [tab EXCEPT ![u] = ready(StartCall(init))]
  BY DEF Initialize, SetTab, netVars
<1>1. "bye" \notin posted[u]
  BY <1>0 DEF CallInv, PagesOK, PageOK
<1>2. init \in Tab /\ asked \in Tab
  BY NewTabIsTab DEF Tab
<1>3. /\ init.msgQueue = <<>> /\ init.work = {} /\ init.pc = "null" /\ init.status = "waiting"
      /\ init.initiator = (page[u] = "caller")
      /\ asked.msgQueue = <<>> /\ asked.work = {} /\ asked.pc = "null"
      /\ asked.status = "waiting" /\ asked.initiator = (page[u] = "caller")
  BY DEF NewTab
<1> HIDE DEF init, asked
<1>4. OK(init) /\ OK(asked)
  <2>1. ASSUME NEW q \in Tab, q.msgQueue = <<>>, q.work = {}, q.pc = "null",
               q.status = "waiting", q.initiator => page[u] = "caller"
        PROVE  OK(q)
    BY <1>0, <1>1, <2>1 DEF PageOK, QueueOK, HasOfferIn, Served
  <2>2. (init.initiator => page[u] = "caller") /\ (asked.initiator => page[u] = "caller")
    BY <1>3
  <2> HIDE DEF OK
  <2> QED BY <1>2, <1>3, <2>1, <2>2
<1>5. OK(StartCall(init))
  BY <1>3, <1>4, StartCallOK
<1>6. ASSUME NEW p, OK(p) PROVE OK(ready(p))
  <2>1. p \in Tab
    BY <1>6 DEF PageOK
  <2>2. ready(p) \in Tab
    BY <2>1 DEF Tab
  <2>3. /\ ready(p).msgQueue = p.msgQueue /\ ready(p).work = p.work /\ ready(p).pc = p.pc
        /\ ready(p).status = p.status /\ ready(p).initiator = p.initiator
        /\ ready(p).started = p.started
    BY <2>1 DEF Tab
  <2> DEFINE q == ready(p)
  <2> HIDE DEF ready, q
  <2>4. q \in Tab /\ q.msgQueue = p.msgQueue /\ q.work = p.work /\ q.pc = p.pc
        /\ q.status = p.status /\ q.initiator = p.initiator /\ q.started = p.started
    BY <2>2, <2>3 DEF q
  <2>5. OK(q)
    BY <1>6, <2>4 DEF PageOK, QueueOK
  <2> QED BY <2>5 DEF q
<1>7. OK(ready(asked)) /\ OK(ready(StartCall(init)))
  <2> HIDE DEF OK, ready
  <2> QED BY <1>4, <1>5, <1>6
<1> HIDE DEF ready
<1> QED BY <1>0, <1>7, OnlyPage

\* A page that has been initialized and is not gone.
LEMMA AliveIs ==
    ASSUME CallInv, NEW u \in Users
    PROVE  /\ tab[u] \in Tab /\ PageOK(tab[u], page[u], posted[u], channel[u])
           /\ Alive(u) => tab[u].status \in {"waiting", "left"} /\ Served(u)
                          /\ "bye" \notin posted[u]
<1>1. tab[u] \in Tab /\ PageOK(tab[u], page[u], posted[u], channel[u])
  BY DEF CallInv, PagesOK
<1>2. Alive(u) => tab[u].status \in {"waiting", "left"}
  BY <1>1, TabFields DEF Alive
<1> QED BY <1>1, <1>2 DEF PageOK, Served

\* A field that says nothing about the call.
LEMMA SmallChange ==
    ASSUME NEW p, NEW q \in Tab, NEW served, NEW said, NEW heard,
           PageOK(p, served, said, heard),
           q.msgQueue = p.msgQueue, q.work = p.work, q.pc = p.pc, q.status = p.status,
           q.initiator = p.initiator, q.started = p.started
    PROVE  PageOK(q, served, said, heard)
  BY DEF PageOK, QueueOK

LEMMA OnChannelOpenedOK ==
    ASSUME CallInv, NEW u \in Users, OnChannelOpened(u) \/ OnUserMediaSuccess(u)
    PROVE  PagesOK' /\ tab' \in [Users -> Tab]
<1> DEFINE ready == [tab[u] EXCEPT !.channelReady = TRUE]
           granted == [tab[u] EXCEPT !.media = "granted"]
<1>1. /\ Alive(u) /\ UNCHANGED <<page, posted, channel>>
      /\ \/ tab' = [tab EXCEPT ![u] = MaybeStart(ready)]
         \/ tab' = [tab EXCEPT ![u] = MaybeStart(granted)]
  BY DEF OnChannelOpened, OnUserMediaSuccess, SetTab, netVars
<1>2. /\ tab[u] \in Tab /\ PageOK(tab[u], page[u], posted[u], channel[u])
      /\ tab[u].status \in {"waiting", "left"}
  BY <1>1, AliveIs
<1>3. /\ ready \in Tab /\ ready.msgQueue = tab[u].msgQueue /\ ready.work = tab[u].work
      /\ ready.pc = tab[u].pc /\ ready.status = tab[u].status
      /\ ready.initiator = tab[u].initiator /\ ready.started = tab[u].started
  BY <1>2 DEF Tab
<1>4. /\ granted \in Tab /\ granted.msgQueue = tab[u].msgQueue /\ granted.work = tab[u].work
      /\ granted.pc = tab[u].pc /\ granted.status = tab[u].status
      /\ granted.initiator = tab[u].initiator /\ granted.started = tab[u].started
  BY <1>2 DEF Tab
<1> HIDE DEF ready, granted
<1>5. /\ PageOK(ready, page[u], posted[u], channel[u])
      /\ PageOK(granted, page[u], posted[u], channel[u])
  BY <1>2, <1>3, <1>4, SmallChange
<1>6. /\ PageOK(MaybeStart(ready), page[u], posted[u], channel[u])
      /\ PageOK(MaybeStart(granted), page[u], posted[u], channel[u])
  BY <1>2, <1>3, <1>4, <1>5, MaybeStartOK
<1> QED BY <1>1, <1>6, OnlyPage

LEMMA OnChannelMessageOK ==
    ASSUME CallInv, NEW u \in Users, OnChannelMessage(u)
    PROVE  PagesOK' /\ tab' \in [Users -> Tab]
<1> DEFINE n == tab[u].seen + 1
           p == [tab[u] EXCEPT !.seen = n]
           msg == channel[u][n]
<1>1. /\ Alive(u) /\ UNCHANGED <<page, posted, channel>> /\ n \in DOMAIN channel[u]
      /\ tab' = [tab EXCEPT ![u] = Receive(p, msg)]
  BY DEF OnChannelMessage, SetTab, netVars
<1>2. /\ tab[u] \in Tab /\ PageOK(tab[u], page[u], posted[u], channel[u])
      /\ tab[u].status \in {"waiting", "left"}
  BY <1>1, AliveIs
<1>3. n \in Nat
  BY <1>2, TabFields
<1>4. msg \in Payload /\ (msg.type = "offer" => HasOfferIn(channel[u]))
  <2>1. channel[u] \in Seq(Payload)
    BY DEF CallInv, IInv, TypeOK, NetTypeOK
  <2> HIDE DEF n
  <2> QED BY <1>1, <2>1 DEF HasOfferIn
<1> HIDE DEF n
<1>5. /\ p \in Tab /\ p.msgQueue = tab[u].msgQueue /\ p.work = tab[u].work
      /\ p.pc = tab[u].pc /\ p.status = tab[u].status
      /\ p.initiator = tab[u].initiator /\ p.started = tab[u].started
  BY <1>2, <1>3 DEF Tab
<1> HIDE DEF p, msg
<1>6. PageOK(p, page[u], posted[u], channel[u])
  BY <1>2, <1>5, SmallChange
<1>7. PageOK(Receive(p, msg), page[u], posted[u], channel[u])
  BY <1>2, <1>4, <1>5, <1>6, ReceiveOK
<1> QED BY <1>1, <1>7, OnlyPage

LEMMA SetLocalOK ==
    ASSUME CallInv, NEW u \in Users, NEW type \in {"offer", "answer"},
           SetLocalAndSendMessage(u, type)
    PROVE  PagesOK' /\ tab' \in [Users -> Tab]
<1> DEFINE p == tab[u]
           q == [p EXCEPT !.work = @ \ {type}, !.pc = SetLocal(@, type)]
<1>1. Alive(u) /\ type \in p.work /\ tab' = [tab EXCEPT ![u] = q] /\ SendMessage(u, type)
  BY DEF SetLocalAndSendMessage, SetTab
<1>2. p \in Tab /\ PageOK(p, page[u], posted[u], channel[u]) /\ p.status \in {"waiting", "left"}
  BY <1>1, AliveIs
<1>3. SetLocal(p.pc, type) \in {p.pc, "haveLocalOffer", "stable"}
  BY DEF SetLocal
<1>4. /\ q \in Tab /\ q.msgQueue = p.msgQueue /\ q.work = p.work \ {type}
      /\ q.pc = SetLocal(p.pc, type) /\ q.status = p.status
      /\ q.initiator = p.initiator /\ q.started = p.started
  <2> HIDE DEF p
  <2> QED BY <1>2, <1>3 DEF Tab
<1> HIDE DEF p, q
<1>5. PageOK(q, page[u], posted[u] \cup {type}, channel[u])
  BY <1>2, <1>3, <1>4 DEF PageOK, QueueOK
<1> QED BY <1>1, <1>5, PageAndPost

\* Hanging up leaves no queue to a page that waits and no call to one that talks.
LEMMA OnHangupOK ==
    ASSUME CallInv, NEW u \in Users, OnHangup(u)
    PROVE  PagesOK' /\ tab' \in [Users -> Tab]
<1> DEFINE p == tab[u]
           left == [p EXCEPT !.status = "left", !.video = FALSE]
           idle == [left EXCEPT !.started = FALSE, !.signalingReady = FALSE]
           stopped == Stop(left)
           OK(q) == PageOK(q, page[u], posted[u], channel[u])
<1>1. /\ Alive(u) /\ UNCHANGED <<page, posted, channel>>
      /\ \E q \in {left, idle, stopped} : tab' = [tab EXCEPT ![u] = q]
  BY DEF OnHangup, SetTab, netVars, CloseChannel, serverVars
<1>2. p \in Tab /\ OK(p) /\ p.status \in {"waiting", "left"}
  BY <1>1, AliveIs
<1>3. /\ left \in Tab /\ left.msgQueue = p.msgQueue /\ left.work = p.work
      /\ left.pc = p.pc /\ left.status = "left"
      /\ left.initiator = p.initiator /\ left.started = p.started
  <2> HIDE DEF p
  <2> QED BY <1>2 DEF Tab
<1>4. /\ idle \in Tab /\ idle.msgQueue = p.msgQueue /\ idle.work = p.work
      /\ idle.pc = p.pc /\ idle.status = "left"
      /\ idle.initiator = p.initiator /\ ~idle.started
  <2> HIDE DEF p, left
  <2> QED BY <1>3 DEF Tab
<1> HIDE DEF p, left, idle
<1>5. /\ stopped \in Tab /\ stopped.msgQueue = <<>> /\ stopped.work = {}
      /\ stopped.pc = "null" /\ stopped.initiator = p.initiator /\ stopped.status = "left"
  BY <1>3, StopIsTab
<1> HIDE DEF stopped
<1>6. OK(left) /\ OK(idle)
  BY <1>2, <1>3, <1>4 DEF PageOK, QueueOK
<1>7. OK(stopped)
  BY <1>2, <1>5, Stopped
<1> QED BY <1>1, <1>6, <1>7, OnlyPage

LEMMA GoneOK ==
    ASSUME NEW p \in Tab, NEW served, NEW said, NEW heard
    PROVE  PageOK(Unloaded(p), served, said, heard)
<1> DEFINE q == Unloaded(p)
<1>1. q \in Tab
  BY NewTabIsTab DEF Unloaded, Tab
<1>2. /\ q.msgQueue = <<>> /\ q.work = {} /\ q.pc = "null" /\ q.status = "unloaded"
      /\ ~q.initiator
  BY DEF Unloaded, NewTab
<1> HIDE DEF q
<1>3. PageOK(q, served, said, heard)
  BY <1>1, <1>2 DEF PageOK, QueueOK, HasOfferIn
<1> QED BY <1>3 DEF q

-----------------------------------------------------------------------------
(* The page is a browser of Signalling.                                    *)

\* A page may answer a second caller, after the first one has left: a message of
\* a type it has posted before, which Signalling leaves out because it repeats
\* the same handler.
PostAgain(u, type) ==
    /\ Served(u)
    /\ MayPost(u, type)
    /\ type \in posted[u] \ {"bye"}
    /\ Post([kind |-> "message", user |-> u, arg |-> type])
    /\ UNCHANGED <<serverVars, chan, posted>>

SignallingNext == Next \/ \E u \in Users, type \in PostTypes : PostAgain(u, type)

\* What spy.js posts is among the messages that the servers are asked about.
PostTypesCoverCall == {"offer", "answer", "bye"} \subseteq PostTypes

LEMMA SendIsPost ==
    ASSUME CallInv, NEW u \in Users, NEW type \in PostTypes, SendMessage(u, type),
           Served(u), MayPost(u, type), "bye" \notin posted[u]
    PROVE  PostMessage(u, type) \/ PostAgain(u, type)
<1>1. CASE type \notin posted[u]
  BY <1>1 DEF SendMessage, PostMessage
<1>2. CASE type \in posted[u]
  <2>1. posted' = posted
    BY <1>2 DEF SendMessage, CallInv, IInv, TypeOK, NetTypeOK
  <2> QED BY <1>2, <2>1 DEF SendMessage, PostAgain
<1> QED BY <1>1, <1>2

\* What a page does is what Signalling lets a browser do, or it is not seen by
\* the server.
LEMMA PageIsBrowser ==
    ASSUME PostTypesCoverCall, CallInv, NEW u \in Users, Page(u)
    PROVE  \/ Browser(u)
           \/ \E type \in PostTypes : PostAgain(u, type)
           \/ UNCHANGED netVars
<1>0. /\ PageOK(tab[u], page[u], posted[u], channel[u])
      /\ Alive(u) => Served(u) /\ "bye" \notin posted[u]
  BY AliveIs
<1>1. CASE \E debug \in Debugs : OpenPage(u, debug) /\ UNCHANGED tab
  BY <1>1 DEF Browser
<1>2. CASE Initialize(u) \/ OnChannelOpened(u) \/ OnChannelMessage(u) \/ OnUserMediaSuccess(u)
           \/ Crash(u)
  BY <1>2 DEF Initialize, OnChannelOpened, OnChannelMessage, OnUserMediaSuccess, Crash
<1>3. CASE SocketOpens(u) \/ ConnectionLost(u)
  BY <1>3 DEF SocketOpens, ConnectionLost, Browser
<1>4. CASE \E type \in {"offer", "answer"} : SetLocalAndSendMessage(u, type)
  <2>1. PICK type \in {"offer", "answer"} : SetLocalAndSendMessage(u, type)
    BY <1>4
  <2>2. Alive(u) /\ type \in tab[u].work /\ SendMessage(u, type) /\ type \in PostTypes
    BY <2>1 DEF SetLocalAndSendMessage, PostTypesCoverCall
  <2>3. CASE type = "offer"
    <3>1. MayPost(u, type)
      BY <1>0, <2>2, <2>3 DEF PageOK, MayPost
    <3> QED BY <1>0, <2>2, <3>1, SendIsPost DEF Browser
  <2>4. CASE type = "answer"
    <3>1. HasOffer(u)
      BY <1>0, <2>2, <2>4 DEF PageOK, HasOffer, HasOfferIn
    <3>2. MayPost(u, type)
      BY <2>4, <3>1 DEF MayPost
    <3> QED BY <1>0, <2>2, <3>2, SendIsPost DEF Browser
  <2> QED BY <2>3, <2>4
<1>5. CASE OnIceCandidate(u)
  <2>1. /\ Alive(u) /\ SendMessage(u, "candidate") /\ "candidate" \in PostTypes
        /\ tab[u].pc \in {"haveLocalOffer", "stable"}
    BY <1>5 DEF OnIceCandidate
  <2>2. posted[u] \cap {"offer", "answer"} # {}
    BY <1>0, <2>1 DEF PageOK
  <2>3. MayPost(u, "candidate")
    BY <2>2 DEF MayPost
  <2> QED BY <1>0, <2>1, <2>3, SendIsPost DEF Browser
<1>6. CASE OnHangup(u)
  BY <1>6 DEF OnHangup, Browser
<1>7. CASE OnBeforeUnload(u)
  <2>1. Alive(u) /\ SendMessage(u, "bye") /\ "bye" \in PostTypes
    BY <1>7 DEF OnBeforeUnload, PostTypesCoverCall
  <2>2. MayPost(u, "bye")
    BY DEF MayPost
  <2> QED BY <1>0, <2>1, <2>2, SendIsPost DEF Browser
<1> QED BY <1>1, <1>2, <1>3, <1>4, <1>5, <1>6, <1>7 DEF Page, Callback

LEMMA CallIsSignalling ==
    ASSUME PostTypesCoverCall, CallInv, [CallNext]_callVars
    PROVE  [SignallingNext]_netVars
<1>1. CASE UNCHANGED callVars
  BY <1>1 DEF callVars
<1>2. ASSUME NEW u \in Users, Page(u) PROVE [SignallingNext]_netVars
  BY <1>2, PageIsBrowser DEF SignallingNext, Next
<1>3. ASSUME NEW u \in Users, Handle(u), UNCHANGED <<browserVars, tab>>
      PROVE  [SignallingNext]_netVars
  BY <1>3 DEF SignallingNext, Next
<1> QED BY <1>1, <1>2, <1>3 DEF CallNext

\* A message of a type that was posted before changes nothing but what is in flight.
LEMMA AgainStep ==
    ASSUME IInv, NEW u \in Users, NEW type \in PostTypes, PostAgain(u, type)
    PROVE  /\ IInv'
           /\ Members' = Members /\ Connected' = Connected
           /\ Gone' = Gone /\ Leaving' = Leaving
<1> DEFINE req == [kind |-> "message", user |-> u, arg |-> type]
<1>1. /\ type \in posted[u] /\ pending' = pending \cup {req}
      /\ UNCHANGED <<room, saved, channel, page, chan, posted>>
  BY DEF PostAgain, Post, serverVars
<1>2. Members' = Members /\ Connected' = Connected /\ Gone' = Gone /\ Leaving' = Leaving
  BY <1>1 DEF Members, MembersOf, Connected, IsConnected, Gone, Served, Leaving
<1>3. req \in Request
  BY PostTypesAreTypes DEF Request, MsgTypes
<1>4. TypeOK'
  BY <1>1, <1>3 DEF IInv, TypeOK, NetTypeOK
<1>5. PendingOK' /\ OneSpyEach'
  BY <1>1, <1>3 DEF IInv, PendingOK, OneSpyEach, Request
<1> QED BY <1>1, <1>2, <1>4, <1>5
     DEF IInv, RoomOK, WellFormed, BrowserOK, Served, RoomIsAdmitted, FullRoomHasCaller,
         ConnectedWasOpened, SavedOnlyForWaiting

\* So the invariant of the server survives the real page.
LEMMA SignallingStep ==
    ASSUME IInv, [SignallingNext]_netVars
    PROVE  IInv' /\ [Protocol!Next]_(Protocol!vars)
<1>1. CASE [Next]_netVars
  BY <1>1, NextIInv, NextSimulates
<1>2. ASSUME NEW u \in Users, NEW type \in PostTypes, PostAgain(u, type)
      PROVE  IInv' /\ [Protocol!Next]_(Protocol!vars)
  BY <1>2, AgainStep DEF Protocol!vars
<1> QED BY <1>1, <1>2 DEF SignallingNext

LEMMA PageKeepsPages ==
    ASSUME CallInv, NEW u \in Users, Page(u)
    PROVE  PagesOK' /\ tab' \in [Users -> Tab]
<1>1. ASSUME UNCHANGED tab, page' = page \/ (page[u] = "none" /\ \E x : page' = [page EXCEPT ![u] = x]),
             \A v \in Users : posted[v] \subseteq posted'[v] /\ ("bye" \in posted'[v] => "bye" \in posted[v]),
             UNCHANGED channel
      PROVE  PagesOK' /\ tab' \in [Users -> Tab]
  <2>1. tab' \in [Users -> Tab]
    BY <1>1 DEF CallInv
  <2> SUFFICES ASSUME NEW v \in Users
               PROVE  PageOK(tab'[v], page'[v], posted'[v], channel'[v])
    BY <2>1 DEF PagesOK
  <2>2. page[v] \in {"callee", "caller"} => page'[v] = page[v]
    BY <1>1 DEF CallInv, IInv, TypeOK, NetTypeOK
  <2>3. PageOK(tab[v], page[v], posted[v], channel[v])
    BY DEF CallInv, PagesOK
  <2> QED BY <1>1, <2>2, <2>3, PageOKGrows
<1>2. CASE \E debug \in Debugs : OpenPage(u, debug) /\ UNCHANGED tab
  BY <1>1, <1>2 DEF OpenPage
<1>3. CASE SocketOpens(u) \/ ConnectionLost(u)
  BY <1>1, <1>3 DEF SocketOpens, ConnectionLost, OpenChannel, CloseChannel, serverVars
<1>4. CASE Initialize(u)
  BY <1>4, InitializeOK
<1>5. CASE OnChannelOpened(u) \/ OnUserMediaSuccess(u)
  BY <1>5, OnChannelOpenedOK
<1>6. CASE OnChannelMessage(u)
  BY <1>6, OnChannelMessageOK
<1>7. CASE \E type \in {"offer", "answer"} : SetLocalAndSendMessage(u, type)
  BY <1>7, SetLocalOK
<1>8. CASE OnIceCandidate(u)
  <2>1. UNCHANGED <<tab, page, channel>> /\ posted' = [posted EXCEPT ![u] = @ \cup {"candidate"}]
    BY <1>8 DEF OnIceCandidate, SendMessage, serverVars
  <2>2. posted \in [Users -> SUBSET MsgTypes]
    BY DEF CallInv, IInv, TypeOK, NetTypeOK
  <2> QED BY <1>1, <2>1, <2>2
<1>9. CASE OnHangup(u)
  BY <1>9, OnHangupOK
<1>10. CASE OnBeforeUnload(u)
  BY <1>10, AliveIs, GoneOK, PageAndPost DEF OnBeforeUnload, SetTab
<1>11. CASE Crash(u)
  BY <1>11, AliveIs, GoneOK, OnlyPage DEF Crash, SetTab, netVars
<1> QED BY <1>2, <1>3, <1>4, <1>5, <1>6, <1>7, <1>8, <1>9, <1>10, <1>11 DEF Page, Callback

LEMMA CallStep ==
    ASSUME PostTypesCoverCall
    PROVE  CallInv /\ [CallNext]_callVars => CallInv'
<1> SUFFICES ASSUME CallInv, [CallNext]_callVars PROVE CallInv'
  OBVIOUS
<1>1. IInv'
  BY CallIsSignalling, SignallingStep DEF CallInv
<1>2. PagesOK' /\ tab' \in [Users -> Tab]
  <2>1. CASE UNCHANGED callVars
    BY <2>1 DEF callVars, netVars, CallInv, PagesOK
  <2>2. ASSUME NEW u \in Users, Page(u) PROVE PagesOK' /\ tab' \in [Users -> Tab]
    BY <2>2, PageKeepsPages
  <2>3. ASSUME NEW u \in Users, Handle(u), UNCHANGED <<browserVars, tab>>
        PROVE  PagesOK' /\ tab' \in [Users -> Tab]
    BY <2>3, HandleKeepsPages DEF CallInv
  <2> QED BY <2>1, <2>2, <2>3 DEF CallNext
<1> QED BY <1>1, <1>2 DEF CallInv

LEMMA CallStart == CallInit => CallInv
<1> SUFFICES ASSUME CallInit PROVE CallInv
  OBVIOUS
<1>1. NetInit /\ tab = [u \in Users |-> NewTab]
  BY DEF CallInit, TabInit
<1>2. PageOK(NewTab, "none", {}, <<>>)
  <2>1. /\ NewTab.msgQueue = <<>> /\ NewTab.work = {} /\ NewTab.pc = "null"
        /\ NewTab.status = "blank" /\ ~NewTab.initiator
    BY DEF NewTab
  <2> QED BY <2>1, NewTabIsTab DEF PageOK, QueueOK, HasOfferIn
<1>3. PagesOK /\ tab \in [Users -> Tab]
  BY <1>1, <1>2, NewTabIsTab DEF NetInit, PagesOK
<1> QED BY <1>1, <1>3, InitIInv DEF CallInv

-----------------------------------------------------------------------------
(* The theorems about the call.                                            *)

\* The inductive invariant of a call, for any number of page loads: every page of
\* spy.js agrees with what the server told it, with what it posted and with what
\* its channel delivered, whatever the order of its callbacks.
THEOREM CallInvariance == ASSUME PostTypesCoverCall PROVE CallSpec => []CallInv
<1>1. CallInv /\ [CallNext]_callVars => CallInv'
  BY CallStep
<1> QED BY <1>1, CallStart, PTL DEF CallSpec

\* The variables of a page keep their types, under every order of its callbacks.
THEOREM CallTypeOKHolds == ASSUME PostTypesCoverCall PROVE CallSpec => []CallTypeOK
<1>1. CallInv => CallTypeOK
  BY DEF CallInv, IInv, TypeOK, CallTypeOK
<1> QED BY <1>1, CallInvariance, PTL

\* The queue of onChannelMessage is empty once a page has started or calls itself,
\* and has an offer in front if it has one, so that calleeStart processes it before
\* the candidates and byes.
THEOREM QueueOrderHolds == ASSUME PostTypesCoverCall PROVE CallSpec => []QueueOrder
<1>1. CallInv => QueueOrder
  BY DEF CallInv, PagesOK, PageOK, QueueOK, QueueOrder
<1> QED BY <1>1, CallInvariance, PTL

\* What the pages of spy.js post is what Signalling assumes of a browser, except
\* that a page whose first caller has left may answer a second one (PostAgain).
THEOREM CallPostsAsSignalling ==
    ASSUME PostTypesCoverCall
    PROVE  CallSpec => NetInit /\ [][SignallingNext]_netVars
<1>1. CallInv /\ [CallNext]_callVars => [SignallingNext]_netVars
  BY CallIsSignalling
<1>2. CallInit => NetInit
  BY DEF CallInit
<1> QED BY <1>1, <1>2, CallInvariance, PTL DEF CallSpec

\* The server keeps its invariants under the pages of spy.js: the room is never
\* stored empty, holds only those who were admitted, has its caller when it is full,
\* and keeps messages only for those who wait.
THEOREM CallKeepsServer ==
    ASSUME PostTypesCoverCall
    PROVE  CallSpec => []( /\ NoEmptyRoom /\ RoomIsAdmitted /\ FullRoomHasCaller
                           /\ ConnectedWasOpened /\ SavedOnlyForWaiting)
<1>1. CallInv => /\ NoEmptyRoom /\ RoomIsAdmitted /\ FullRoomHasCaller
                 /\ ConnectedWasOpened /\ SavedOnlyForWaiting
  BY DEF CallInv, IInv, RoomOK, WellFormed, NoEmptyRoom
<1> QED BY <1>1, CallInvariance, PTL

\* What calls through the server do to the room is what RoomProtocol allows, for any
\* number of page loads, repeated answers included.
THEOREM CallKeepsPromise ==
    ASSUME PostTypesCoverCall
    PROVE  CallSpec => Protocol!SafeSpec
<1>1. CallInit => Protocol!Init
  BY InitSimulates DEF CallInit
<1>2. CallInv /\ [CallNext]_callVars => [Protocol!Next]_(Protocol!vars)
  BY CallIsSignalling, SignallingStep DEF CallInv
<1> QED BY <1>1, <1>2, CallInvariance, PTL DEF CallSpec, Protocol!SafeSpec

-----------------------------------------------------------------------------
(* What a page did with the calls that reached it.                         *)

HasByeIn(msgs) == \E i \in DOMAIN msgs : msgs[i].type = "bye"

\* A page has a peer connection from createPeerConnection to stop, and descriptions
\* to send only with one.
Linked(p) == (p.started <=> p.pc # "null") /\ (~p.started => p.work = {})

\* A page calls once: doCall is not reached again after the offer was sent.
CallsOnce(p, said) ==
    /\ "offer" \in p.work => "offer" \notin said
    /\ p.initiator /\ p.signalingReady /\ ~p.started => "offer" \notin said

\* A page that was sent one offer answers it once.  got is the set of the types of
\* the messages it has received.
AnswersOnce(p, said, got) ==
    /\ HasOfferIn(p.msgQueue) => "offer" \in got
    /\ "answer" \in p.work \cup said => "offer" \in got /\ ~HasOfferIn(p.msgQueue)
    /\ "answer" \in p.work => "answer" \notin said

\* A page that waits to be called: nothing happens before the offer, and once a bye
\* was received the call is over, or will be when calleeStart reaches the bye.
Waits(p, got) ==
    /\ ~p.initiator /\ "offer" \notin p.work /\ p.pc # "haveLocalOffer"
    /\ "offer" \notin got =>
          /\ p.pc \in {"null", "new"} /\ p.work = {} /\ ~p.signalingReady
          /\ p.started => p.media = "none"
    /\ "bye" \in got =>
          /\ ~p.started
          /\ HasByeIn(p.msgQueue) \/ p.media = "none" \/ (~p.signalingReady /\ "offer" \in got)

\* A caller whose call is over, and to whom nobody made an offer, stays idle.
GivesUp(p, got) ==
    "offer" \notin got /\ ~p.initiator => ~p.started /\ ~p.signalingReady

OneCall(p, served, said, got) ==
    /\ AnswersOnce(p, said, got)
    /\ served = "callee" => Waits(p, got)
    /\ served = "caller" => GivesUp(p, got)

\* processSignalingMessage, field by field.
LEMMA ProcessFields ==
    ASSUME NEW p \in Tab, NEW msg \in Payload, NEW q, q = Process(p, msg)
    PROVE  /\ q \in Tab /\ q.seen = p.seen /\ q.media = p.media
           /\ q.status \in {p.status, "waiting"}
           /\ q.video => p.video \/ q.started
           /\ \/ /\ q = p /\ ~(p.started /\ msg.type = "bye")
                 /\ ~(p.started /\ msg.type = "offer" /\ p.pc # "haveLocalOffer")
                 /\ ~(p.started /\ msg.type = "answer" /\ p.pc = "haveLocalOffer")
              \/ /\ p.started /\ msg.type = "offer"
                 /\ q.pc = "haveRemoteOffer" /\ q.work = p.work \cup {"answer"}
                 /\ q.started = p.started /\ q.initiator = p.initiator
                 /\ q.signalingReady = p.signalingReady /\ q.msgQueue = p.msgQueue
              \/ /\ p.started /\ msg.type = "answer" /\ p.pc = "haveLocalOffer"
                 /\ q.pc = "stable" /\ q.work = p.work
                 /\ q.started = p.started /\ q.initiator = p.initiator
                 /\ q.signalingReady = p.signalingReady /\ q.msgQueue = p.msgQueue
              \/ /\ p.started /\ msg.type = "bye"
                 /\ q.pc = "null" /\ q.work = {} /\ ~q.started /\ ~q.initiator
                 /\ ~q.signalingReady /\ q.msgQueue = <<>>
<1>1. CASE ~p.started
  BY <1>1 DEF Process
<1>2. CASE p.started /\ msg.type \notin {"offer", "answer", "bye"}
  <2>1. msg.type # "offer" /\ msg.type # "answer" /\ msg.type # "bye"
    BY <1>2
  <2> QED BY <1>2, <2>1 DEF Process
<1>3. CASE p.started /\ msg.type = "offer"
  <2>1. q = OnOffer(p, msg)
    BY <1>3 DEF Process
  <2>2. CASE p.pc = "haveLocalOffer"
    BY <1>3, <2>1, <2>2 DEF OnOffer
  <2>3. CASE p.pc # "haveLocalOffer"
    <3>1. PICK video \in BOOLEAN :
              q = [p EXCEPT !.pc = "haveRemoteOffer", !.work = @ \cup {"answer"}, !.video = video]
      BY <2>1, <2>3, RemoteIsSet
    <3> QED BY <1>3, <3>1 DEF Tab
  <2> QED BY <2>2, <2>3
<1>4. CASE p.started /\ msg.type = "answer"
  <2>1. q = OnAnswer(p, msg)
    BY <1>4 DEF Process
  <2>2. CASE p.pc # "haveLocalOffer"
    BY <1>4, <2>1, <2>2 DEF OnAnswer
  <2>3. CASE p.pc = "haveLocalOffer"
    <3>1. PICK video \in BOOLEAN : q = [p EXCEPT !.pc = "stable", !.video = video]
      BY <2>1, <2>3, RemoteIsSet
    <3> QED BY <1>4, <2>3, <3>1 DEF Tab
  <2> QED BY <2>2, <2>3
<1>5. CASE p.started /\ msg.type = "bye"
  <2>1. <<>> \in Seq(Payload)
    OBVIOUS
  <2> DEFINE s == [p EXCEPT !.started = FALSE, !.signalingReady = FALSE,
                            !.pc = "null", !.work = {}, !.msgQueue = <<>>]
  <2>2. /\ s \in Tab /\ s.seen = p.seen /\ s.media = p.media /\ s.status = p.status
        /\ s.pc = "null" /\ s.work = {} /\ s.video = p.video
        /\ ~s.started /\ ~s.signalingReady /\ s.msgQueue = <<>>
    BY <2>1 DEF Tab
  <2>3. q = [s EXCEPT !.initiator = FALSE, !.status = "waiting"]
    BY <1>5 DEF Process, OnRemoteHangup, Stop
  <2> HIDE DEF s
  <2> QED BY <1>5, <2>2, <2>3 DEF Tab
<1> QED BY <1>1, <1>2, <1>3, <1>4, <1>5

\* The pages that calleeStart may leave behind, from a page p that was not started.
Starting(p) ==
    {r \in Tab :
        /\ r.msgQueue = <<>> /\ ~r.initiator /\ r.seen = p.seen /\ r.media = p.media
        /\ r.status \in {p.status, "waiting"}
        /\ Linked(r)
        /\ r.signalingReady => r.started /\ p.signalingReady
        /\ "offer" \notin r.work /\ r.pc # "haveLocalOffer"
        /\ ~HasOfferIn(p.msgQueue) => r.pc \in {"null", "new"} /\ r.work = {}}

LEMMA CalleeStartFields ==
    ASSUME NEW p \in Tab, ~p.initiator, ~p.started, p.work = {},
           NEW q, q = [p EXCEPT !.pc = "new", !.started = TRUE]
    PROVE  /\ CalleeStart(q) \in Starting(p)
           /\ HasByeIn(p.msgQueue) => ~CalleeStart(q).started
<1> DEFINE G == Starting(p)
           H == {r \in G : ~r.started}
           base == [q EXCEPT !.msgQueue = <<>>]
<1>0. <<>> \in Seq(Payload)
  OBVIOUS
<1>1. q \in Tab /\ q.msgQueue = p.msgQueue /\ p.msgQueue \in Seq(Payload)
  BY DEF Tab
<1>2. /\ q.pc = "new" /\ q.started /\ ~q.initiator /\ q.seen = p.seen /\ q.media = p.media
      /\ q.work = {} /\ q.signalingReady = p.signalingReady /\ q.status = p.status
  BY DEF Tab
<1>3. /\ base \in Tab /\ base.msgQueue = <<>> /\ base.pc = "new" /\ base.started /\ ~base.initiator
      /\ base.seen = p.seen /\ base.media = p.media /\ base.work = {}
      /\ base.signalingReady = p.signalingReady /\ base.status = p.status
  <2> HIDE DEF base
  <2> SUFFICES ASSUME NEW b, b = [q EXCEPT !.msgQueue = <<>>]
               PROVE  /\ b \in Tab /\ b.msgQueue = <<>> /\ b.pc = "new" /\ b.started /\ ~b.initiator
                      /\ b.seen = p.seen /\ b.media = p.media /\ b.work = {}
                      /\ b.signalingReady = p.signalingReady /\ b.status = p.status
    BY DEF base
  <2> QED BY <1>0, <1>1, <1>2 DEF Tab
<1>4. base \in G
  <2> HIDE DEF base
  <2> QED BY <1>3 DEF Starting, Linked
<1>5. ASSUME NEW r \in G, NEW i \in DOMAIN q.msgQueue
      PROVE  /\ Process(r, q.msgQueue[i]) \in G
             /\ q.msgQueue[i].type = "bye" \/ ~r.started => ~Process(r, q.msgQueue[i]).started
  <2> DEFINE m == q.msgQueue[i]
             s == Process(r, m)
  <2>1. m \in Payload /\ (m.type = "offer" => HasOfferIn(p.msgQueue))
    BY <1>1 DEF HasOfferIn
  <2>2. r \in Tab
    BY DEF Starting
  <2> HIDE DEF m
  <2>3. PICK t : t = s
    OBVIOUS
  <2> HIDE DEF s, G
  <2>4. t = Process(r, m)
    BY <2>3 DEF s
  <2>5. r \in Starting(p)
    BY DEF G
  <2>6. t \in Starting(p) /\ (m.type = "bye" \/ ~r.started => ~t.started)
    BY <2>1, <2>2, <2>4, <2>5, ProcessFields DEF Starting, Linked
  <2> QED BY <2>3, <2>6 DEF s, m, G
<1>6. CalleeStart(q) \in G
  <2> HIDE DEF G, base
  <2>1. [q EXCEPT !.msgQueue = <<>>] \in G
    BY <1>4 DEF base
  <2> QED BY <1>1, <1>5, <2>1, CalleeStartIn
<1>7. ASSUME HasByeIn(p.msgQueue) PROVE ~CalleeStart(q).started
  <2>1. PICK k \in DOMAIN q.msgQueue : q.msgQueue[k].type = "bye"
    BY <1>1, <1>7 DEF HasByeIn
  <2>2. \A r \in G : Process(r, q.msgQueue[k]) \in H
    BY <1>5, <2>1
  <2>3. \A r \in H, i \in DOMAIN q.msgQueue : Process(r, q.msgQueue[i]) \in H
    BY <1>5
  <2>4. [q EXCEPT !.msgQueue = <<>>] \in G
    BY <1>4
  <2>5. CalleeStart(q) \in H
    <3> HIDE DEF G, H
    <3> QED BY <1>1, <1>5, <2>1, <2>2, <2>3, <2>4, CalleeStartTurns
  <2> QED BY <2>5
<1> QED BY <1>6, <1>7

LEMMA StartCallFields ==
    ASSUME NEW p \in Tab, Linked(p), ~p.started, NEW q, q = StartCall(p)
    PROVE  \/ /\ p.initiator /\ q \in Tab /\ q.status = p.status /\ q.seen = p.seen /\ q.media = p.media
              /\ q.msgQueue = p.msgQueue /\ q.initiator /\ q.signalingReady = p.signalingReady
              /\ q.started /\ q.pc = "new" /\ q.work = {"offer"}
           \/ /\ ~p.initiator /\ q \in Starting(p) /\ q \in Tab
              /\ HasByeIn(p.msgQueue) => ~q.started
<1> DEFINE s == [p EXCEPT !.pc = "new", !.started = TRUE]
<1>1. /\ s \in Tab /\ s.seen = p.seen /\ s.media = p.media /\ s.msgQueue = p.msgQueue
      /\ s.initiator = p.initiator /\ s.signalingReady = p.signalingReady
      /\ s.started /\ s.pc = "new" /\ s.work = p.work /\ s.status = p.status
  BY DEF Tab
<1>2. p.work = {}
  BY DEF Linked
<1>3. CASE p.initiator
  <2>1. q = [s EXCEPT !.work = @ \cup {"offer"}]
    BY <1>3, <1>1 DEF StartCall
  <2> HIDE DEF s
  <2> QED BY <1>1, <1>2, <1>3, <2>1 DEF Tab
<1>4. CASE ~p.initiator
  <2>1. q = CalleeStart(s)
    BY <1>4, <1>1 DEF StartCall
  <2>2. PICK t : t = s
    OBVIOUS
  <2>3. CalleeStart(t) \in Starting(p) /\ (HasByeIn(p.msgQueue) => ~CalleeStart(t).started)
    BY <1>2, <1>4, <2>2, CalleeStartFields
  <2> HIDE DEF s
  <2>4. q \in Starting(p) /\ (HasByeIn(p.msgQueue) => ~q.started)
    BY <2>1, <2>2, <2>3
  <2>5. q \in Tab
    BY <2>4 DEF Starting
  <2> QED BY <1>4, <2>4, <2>5
<1> QED BY <1>3, <1>4

LEMMA MaybeStartFields ==
    ASSUME NEW p \in Tab, Linked(p), NEW q, q = MaybeStart(p)
    PROVE  \/ q = p
           \/ /\ ~p.started /\ p.signalingReady /\ p.media = "granted"
              /\ p.initiator /\ q \in Tab /\ q.status = "waiting"
              /\ q.seen = p.seen /\ q.media = p.media
              /\ q.msgQueue = p.msgQueue /\ q.initiator /\ q.signalingReady = p.signalingReady
              /\ q.started /\ q.pc = "new" /\ q.work = {"offer"}
           \/ /\ ~p.started /\ p.signalingReady /\ p.media = "granted"
              /\ ~p.initiator /\ q \in Starting(p) /\ q \in Tab
              /\ HasByeIn(p.msgQueue) => ~q.started
<1>1. CASE ~(~p.started /\ p.signalingReady /\ p.media = "granted" /\ p.channelReady)
  BY <1>1 DEF MaybeStart
<1>2. CASE ~p.started /\ p.signalingReady /\ p.media = "granted" /\ p.channelReady
  <2> DEFINE w == [p EXCEPT !.status = "waiting"]
  <2>1. q = StartCall(w)
    BY <1>2 DEF MaybeStart
  <2>2. /\ w \in Tab /\ w.seen = p.seen /\ w.media = p.media /\ w.msgQueue = p.msgQueue
        /\ w.initiator = p.initiator /\ w.signalingReady = p.signalingReady
        /\ w.started = p.started /\ w.pc = p.pc /\ w.work = p.work /\ w.status = "waiting"
    BY DEF Tab
  <2>3. PICK t : t = w
    OBVIOUS
  <2>4. q = StartCall(t)
    BY <2>1, <2>3
  <2>5. /\ t \in Tab /\ t.seen = p.seen /\ t.media = p.media /\ t.msgQueue = p.msgQueue
        /\ t.initiator = p.initiator /\ t.signalingReady = p.signalingReady
        /\ t.started = p.started /\ t.pc = p.pc /\ t.work = p.work /\ t.status = "waiting"
    BY <2>2, <2>3
  <2> HIDE DEF w
  <2>6. Linked(t) /\ ~t.started
    BY <1>2, <2>5 DEF Linked
  <2>7. Starting(t) \subseteq Starting(p)
    BY <2>5 DEF Starting
  <2> QED BY <1>2, <2>4, <2>5, <2>6, <2>7, StartCallFields
<1> QED BY <1>1, <1>2

\* The page has one connection and calls once, whatever maybeStart does.
LEMMA MaybeStartKeeps ==
    ASSUME NEW p \in Tab, NEW q, q = MaybeStart(p), NEW served, NEW said, NEW got,
           Linked(p), CallsOnce(p, said)
    PROVE  /\ q \in Tab /\ q.seen = p.seen /\ q.status \in {p.status, "waiting"}
           /\ Linked(q) /\ CallsOnce(q, said)
           /\ OneCall(p, served, said, got) => OneCall(q, served, said, got)
<1>1. CASE q = p
  BY <1>1
<1>2. CASE /\ ~p.started /\ p.signalingReady /\ p.media = "granted"
           /\ p.initiator /\ q \in Tab /\ q.status = "waiting" /\ q.seen = p.seen /\ q.media = p.media
           /\ q.msgQueue = p.msgQueue /\ q.initiator /\ q.signalingReady = p.signalingReady
           /\ q.started /\ q.pc = "new" /\ q.work = {"offer"}
  BY <1>2 DEF Linked, CallsOnce, OneCall, AnswersOnce, Waits, GivesUp
<1>3. CASE /\ ~p.started /\ p.signalingReady /\ p.media = "granted"
           /\ ~p.initiator /\ q \in Starting(p) /\ q \in Tab
           /\ HasByeIn(p.msgQueue) => ~q.started
  <2>1. q.msgQueue = <<>> /\ ~HasOfferIn(<<>>)
    BY <1>3 DEF Starting, HasOfferIn
  <2>2. /\ Linked(q) /\ CallsOnce(q, said) /\ q.seen = p.seen
        /\ q.status \in {p.status, "waiting"}
    BY <1>3 DEF Starting, CallsOnce
  <2>3. ASSUME OneCall(p, served, said, got) PROVE OneCall(q, served, said, got)
    <3>1. AnswersOnce(q, said, got)
      BY <1>3, <2>1, <2>3 DEF Starting, OneCall, AnswersOnce
    <3>2. served = "callee" => Waits(q, got)
      BY <1>3, <2>1, <2>3 DEF Starting, OneCall, Waits
    <3>3. served = "caller" => GivesUp(q, got)
      BY <1>3, <2>3 DEF OneCall, GivesUp
    <3> QED BY <3>1, <3>2, <3>3 DEF OneCall
  <2> QED BY <1>3, <2>2, <2>3
<1> QED BY <1>1, <1>2, <1>3, MaybeStartFields

LEMMA ProcessKeeps ==
    ASSUME NEW p \in Tab, NEW msg \in Payload, NEW q, q = Process(p, msg),
           NEW served, NEW said, NEW got, Linked(p), CallsOnce(p, said),
           p.initiator \/ p.started
    PROVE  /\ q \in Tab /\ q.seen = p.seen /\ q.status \in {p.status, "waiting"}
           /\ Linked(q) /\ CallsOnce(q, said)
           /\ OneCall(p, served, said, got) /\ (msg.type = "offer" => "offer" \notin got)
              => OneCall(q, served, said, got \cup {msg.type})
<1>1. /\ q \in Tab /\ q.seen = p.seen /\ q.status \in {p.status, "waiting"}
      /\ Linked(q) /\ CallsOnce(q, said)
  BY ProcessFields DEF Linked, CallsOnce
<1>2. ASSUME OneCall(p, served, said, got), msg.type = "offer" => "offer" \notin got
      PROVE  OneCall(q, served, said, got \cup {msg.type})
  <2>0. ~HasOfferIn(<<>>)
    BY DEF HasOfferIn
  <2>1. AnswersOnce(q, said, got \cup {msg.type})
    BY <1>2, <2>0, ProcessFields DEF OneCall, AnswersOnce, Linked
  <2>2. served = "callee" => Waits(q, got \cup {msg.type})
    BY <1>2, ProcessFields DEF OneCall, Waits, Linked
  <2>3. served = "caller" => GivesUp(q, got \cup {msg.type})
    BY <1>2, ProcessFields DEF OneCall, GivesUp, Linked
  <2> QED BY <2>1, <2>2, <2>3 DEF OneCall
<1> QED BY <1>1, <1>2

LEMMA EnqueueKeeps ==
    ASSUME NEW p \in Tab, NEW msg \in Payload, NEW q, q = Enqueue(p, msg),
           NEW served, NEW said, NEW got, Linked(p), CallsOnce(p, said),
           ~p.initiator, ~p.started
    PROVE  /\ q \in Tab /\ q.seen = p.seen /\ q.status \in {p.status, "waiting"}
           /\ Linked(q) /\ CallsOnce(q, said)
           /\ OneCall(p, served, said, got) /\ (msg.type = "offer" => "offer" \notin got)
              => OneCall(q, served, said, got \cup {msg.type})
<1>0. p.msgQueue \in Seq(Payload)
  BY TabFields
<1>1. CASE msg.type = "offer"
  <2> DEFINE m == <<msg>> \o p.msgQueue
  <2>1. m \in Seq(Payload) /\ (HasByeIn(p.msgQueue) => HasByeIn(m))
    <3>1. m \in Seq(Payload)
      BY <1>0
    <3>2. ASSUME NEW i \in DOMAIN p.msgQueue, p.msgQueue[i].type = "bye" PROVE HasByeIn(m)
      <4>1. i + 1 \in DOMAIN m /\ m[i + 1] = p.msgQueue[i]
        BY <1>0
      <4> QED BY <3>2, <4>1 DEF HasByeIn
    <3> QED BY <3>1, <3>2 DEF HasByeIn
  <2>2. PICK s : s = [p EXCEPT !.msgQueue = m, !.signalingReady = TRUE]
    OBVIOUS
  <2>3. q = MaybeStart(s)
    <3>1. [p EXCEPT !.msgQueue = <<msg>> \o @, !.signalingReady = TRUE] = s
      BY <2>2 DEF Tab
    <3> QED BY <1>1, <3>1 DEF Enqueue
  <2> HIDE DEF m
  <2>4. /\ s \in Tab /\ s.seen = p.seen /\ s.media = p.media /\ s.msgQueue = m
        /\ ~s.initiator /\ s.signalingReady /\ ~s.started /\ s.pc = p.pc /\ s.work = p.work
        /\ s.status = p.status
    BY <2>1, <2>2 DEF Tab
  <2>5. Linked(s) /\ CallsOnce(s, said)
    BY <2>4 DEF Linked, CallsOnce
  <2>6. OneCall(p, served, said, got) /\ "offer" \notin got
        => OneCall(s, served, said, got \cup {"offer"})
    BY <2>1, <2>4 DEF OneCall, AnswersOnce, Waits, GivesUp
  <2>7. /\ q \in Tab /\ q.seen = s.seen /\ q.status \in {s.status, "waiting"} /\ Linked(q) /\ CallsOnce(q, said)
        /\ OneCall(s, served, said, got \cup {"offer"}) => OneCall(q, served, said, got \cup {"offer"})
    BY <2>3, <2>4, <2>5, MaybeStartKeeps
  <2> QED BY <1>1, <2>4, <2>6, <2>7
<1>2. CASE msg.type # "offer"
  <2> DEFINE m == Append(p.msgQueue, msg)
  <2>1. /\ m \in Seq(Payload) /\ DOMAIN m = 1 .. (Len(p.msgQueue) + 1)
        /\ DOMAIN p.msgQueue = 1 .. Len(p.msgQueue) /\ Len(p.msgQueue) \in Nat
        /\ m[Len(p.msgQueue) + 1] = msg
        /\ \A i \in DOMAIN p.msgQueue : i \in DOMAIN m /\ m[i] = p.msgQueue[i]
    BY <1>0
  <2>2. q = [p EXCEPT !.msgQueue = m]
    BY <1>2 DEF Enqueue, Tab
  <2> HIDE DEF m
  <2>3. /\ q \in Tab /\ q.seen = p.seen /\ q.media = p.media /\ q.msgQueue = m
        /\ ~q.initiator /\ q.signalingReady = p.signalingReady /\ ~q.started
        /\ q.pc = p.pc /\ q.work = p.work /\ q.status = p.status
    BY <2>1, <2>2 DEF Tab
  <2>4. HasByeIn(p.msgQueue) \/ msg.type = "bye" => HasByeIn(m)
    <3>1. Len(p.msgQueue) + 1 \in DOMAIN m
      BY <2>1
    <3> QED BY <2>1, <3>1 DEF HasByeIn
  <2>5. HasOfferIn(m) => HasOfferIn(p.msgQueue)
    <3> SUFFICES ASSUME NEW i \in DOMAIN m, m[i].type = "offer" PROVE HasOfferIn(p.msgQueue)
      BY DEF HasOfferIn
    <3>1. i # Len(p.msgQueue) + 1
      BY <1>2, <2>1
    <3>2. i \in DOMAIN p.msgQueue
      BY <2>1, <3>1
    <3> QED BY <2>1, <3>2 DEF HasOfferIn
  <2>6. Linked(q) /\ CallsOnce(q, said)
    BY <2>3 DEF Linked, CallsOnce
  <2>7. OneCall(p, served, said, got) => OneCall(q, served, said, got \cup {msg.type})
    BY <1>2, <2>3, <2>4, <2>5 DEF OneCall, AnswersOnce, Waits, GivesUp, Linked
  <2> QED BY <2>3, <2>6, <2>7
<1> QED BY <1>1, <1>2

\* onChannelMessage: what a page did with its calls stays in order with each message,
\* if no second offer is among them.
LEMMA ReceiveKeeps ==
    ASSUME NEW p \in Tab, NEW msg \in Payload, NEW q, q = Receive(p, msg),
           NEW served, NEW said, NEW got, Linked(p), CallsOnce(p, said)
    PROVE  /\ q \in Tab /\ q.seen = p.seen /\ q.status \in {p.status, "waiting"}
           /\ Linked(q) /\ CallsOnce(q, said)
           /\ OneCall(p, served, said, got) /\ (msg.type = "offer" => "offer" \notin got)
              => OneCall(q, served, said, got \cup {msg.type})
<1>1. CASE ~p.initiator /\ ~p.started
  <2>1. q = Enqueue(p, msg)
    BY <1>1 DEF Receive
  <2> QED BY <1>1, <2>1, EnqueueKeeps
<1>2. CASE p.initiator \/ p.started
  <2>1. q = Process(p, msg)
    BY <1>2 DEF Receive
  <2> QED BY <1>2, <2>1, ProcessKeeps
<1> QED BY <1>1, <1>2

-----------------------------------------------------------------------------
(* Where an offer is: in flight, kept for its receiver, or delivered.      *)

Offer(v) == [type |-> "offer", from |-> v]

OfferRequest(v) == [kind |-> "message", user |-> v, arg |-> "offer"]

\* The messages that are kept for a user, and those the Channel service delivered.
Kept(x) == {m.message : m \in GetSavedMessages(x)}
Delivered(x) == {channel[x][i] : i \in DOMAIN channel[x]}

\* handle_message takes up the offer of u and finds x on the other side.
OfferPasses(u, x) ==
    /\ OfferRequest(u) \in pending /\ OfferRequest(u) \notin pending'
    /\ room # NoRoom /\ x = OtherUser(room, u) /\ x # u /\ {u, x} \subseteq Members

\* What a handler delivers to x: no message twice, and offers only from those kept
\* for x, which are kept no longer, or the offer it has just taken up; and it
\* keeps at most that one.
Delivers(u, x, msgs) ==
    /\ msgs \in Seq(Payload) /\ channel'[x] = channel[x] \o msgs
    /\ \A i, j \in DOMAIN msgs : msgs[i] = msgs[j] => i = j
    /\ \A i \in DOMAIN msgs : msgs[i].type = "offer" =>
          \/ msgs[i] \in Kept(x) \ Kept(x)'
          \/ msgs[i] = Offer(u) /\ OfferPasses(u, x) /\ Kept(x)' = Kept(x)
    /\ \A m \in Kept(x)' \ Kept(x) :
          m.type = "offer" => m = Offer(u) /\ OfferPasses(u, x) /\ msgs = <<>>

LEMMA Nothing ==
    ASSUME NEW u, NEW x \in Users, channel \in [Users -> Seq(Payload)],
           channel'[x] = channel[x], saved' \subseteq saved
    PROVE  Delivers(u, x, <<>>)
<1>1. <<>> \in Seq(Payload) /\ channel[x] \o <<>> = channel[x] /\ DOMAIN <<>> = {}
  OBVIOUS
<1>2. Kept(x)' \subseteq Kept(x)
  BY DEF Kept, GetSavedMessages
<1> QED BY <1>1, <1>2 DEF Delivers

LEMMA One ==
    ASSUME NEW u, NEW x \in Users, NEW to, channel \in [Users -> Seq(Payload)],
           NEW msg \in Payload, Send(to, <<msg>>), saved' \subseteq saved,
           msg.type = "offer" /\ x = to => msg = Offer(u) /\ OfferPasses(u, x) /\ saved' = saved
    PROVE  \E msgs : Delivers(u, x, msgs)
<1>1. CASE channel'[x] = channel[x]
  BY <1>1, Nothing
<1>2. CASE channel'[x] # channel[x]
  <2>1. x = to /\ channel'[x] = channel[x] \o <<msg>>
    BY <1>2 DEF Send
  <2>2. <<msg>> \in Seq(Payload) /\ DOMAIN <<msg>> = {1} /\ <<msg>>[1] = msg
    OBVIOUS
  <2>3. Kept(x)' \subseteq Kept(x) /\ (saved' = saved => Kept(x)' = Kept(x))
    BY DEF Kept, GetSavedMessages
  <2> DEFINE msgs == <<msg>>
  <2>4. /\ msgs \in Seq(Payload) /\ channel'[x] = channel[x] \o msgs
        /\ \A i \in DOMAIN msgs : i = 1 /\ msgs[i] = msg
    BY <2>1, <2>2
  <2> HIDE DEF msgs
  <2>5. Delivers(u, x, msgs)
    BY <2>1, <2>3, <2>4 DEF Delivers
  <2> QED BY <2>5
<1> QED BY <1>1, <1>2

LEMMA Keeping ==
    ASSUME NEW u, NEW x \in Users, NEW r, NEW to, NEW before, channel \in [Users -> Seq(Payload)],
           NEW msg \in Payload, OnMessage(r, to, msg, before), before \subseteq saved,
           msg.type = "offer" /\ x = to => msg = Offer(u) /\ OfferPasses(u, x) /\ before = saved
    PROVE  \E msgs : Delivers(u, x, msgs)
<1>1. CASE Send(to, <<msg>>) /\ saved' = before
  BY <1>1, One
<1>2. CASE UNCHANGED channel /\ saved' = before \cup {[client_id |-> to, message |-> msg]}
  <2>1. <<>> \in Seq(Payload) /\ channel[x] \o <<>> = channel[x] /\ DOMAIN <<>> = {}
    OBVIOUS
  <2>2. ASSUME NEW m \in Kept(x)' \ Kept(x) PROVE x = to /\ m = msg
    BY <1>2 DEF Kept, GetSavedMessages
  <2>3. channel'[x] = channel[x] \o <<>>
    BY <1>2, <2>1
  <2>4. Delivers(u, x, <<>>)
    BY <2>1, <2>2, <2>3 DEF Delivers
  <2> QED BY <2>4
<1> QED BY <1>1, <1>2 DEF OnMessage

\* ConnectPage delivers each message that was kept, and keeps none.
LEMMA ConnectDelivers ==
    ASSUME IInv, NEW u \in Users, NEW x \in Users, ConnectPage(u)
    PROVE  \E msgs : Delivers(u, x, msgs)
<1>0. channel \in [Users -> Seq(Payload)]
  BY DEF IInv, TypeOK, NetTypeOK
<1>1. CASE ~(room # NoRoom /\ HasUser(room, u))
  BY <1>0, <1>1, Nothing DEF ConnectPage
<1>2. CASE room # NoRoom /\ HasUser(room, u)
  <2>1. PICK order \in SetToSeqs(GetSavedMessages(u)) :
            Send(u, [i \in 1..Len(order) |-> order[i].message])
    BY <1>2 DEF ConnectPage
  <2>2. saved' = saved \ GetSavedMessages(u)
    BY <1>2 DEF ConnectPage
  <2> DEFINE msgs == [i \in 1..Len(order) |-> order[i].message]
  <2>3. CASE channel'[x] = channel[x]
    BY <1>0, <2>2, <2>3, Nothing
  <2>4. CASE channel'[x] # channel[x]
    <3>1. x = u /\ channel'[x] = channel[x] \o msgs
      <4> HIDE DEF msgs
      <4>1. Send(u, msgs)
        BY <2>1 DEF msgs
      <4> QED BY <1>0, <2>4, <4>1 DEF Send
    <3>2. msgs \in Seq(Payload)
      BY <2>1, SavedAsSequence
    <3>3. GetSavedMessages(u) \subseteq saved /\ saved \subseteq MessageEntity
      BY DEF GetSavedMessages, IInv, TypeOK, NetTypeOK
    <3>4. Cardinality(GetSavedMessages(u)) \in Nat
      BY <3>3, FS_Subset, FS_CardinalityType DEF IInv
    <3> DEFINE D == 1..Cardinality(GetSavedMessages(u))
    <3>5. /\ order \in [D -> GetSavedMessages(u)]
          /\ \A i, j \in D : i # j => order[i] # order[j]
      BY <2>1 DEF SetToSeqs
    <3>6. 1..Len(order) = D
      BY <3>4, <3>5
    <3>7. DOMAIN msgs = D
      BY <3>6
    <3>8. \A i \in D : /\ msgs[i] = order[i].message /\ order[i] \in GetSavedMessages(u)
                       /\ order[i] \in MessageEntity /\ order[i].client_id = u
      BY <3>3, <3>5, <3>6 DEF GetSavedMessages
    <3> HIDE DEF D, msgs
    <3>9. \A i, j \in D : msgs[i] = msgs[j] => i = j
      BY <3>5, <3>8 DEF MessageEntity
    <3>10. \A i \in D : msgs[i] \in Kept(x)
      BY <3>1, <3>8 DEF Kept
    <3>11. Kept(x)' = {}
      BY <2>2, <3>1 DEF Kept, GetSavedMessages
    <3>12. Delivers(u, x, msgs)
      BY <3>1, <3>2, <3>7, <3>9, <3>10, <3>11 DEF Delivers
    <3> QED BY <3>12
  <2> QED BY <2>3, <2>4
<1> QED BY <1>1, <1>2

LEMMA HandleDelivers ==
    ASSUME IInv, NEW u \in Users, NEW x \in Users, Handle(u), UNCHANGED browserVars
    PROVE  \E msgs : Delivers(u, x, msgs)
<1>0. channel \in [Users -> Seq(Payload)] /\ Bye(u) \in Payload /\ Bye(u).type = "bye"
  BY DEF IInv, TypeOK, NetTypeOK, Bye, Payload, MsgTypes, Slot
<1>1. CASE \E debug \in Debugs : MainPage(u, debug)
  BY <1>0, <1>1, Nothing DEF MainPage
<1>2. CASE ConnectPage(u)
  BY <1>2, ConnectDelivers
<1>3. CASE DisconnectPage(u)
  <2>1. saved' \subseteq saved
    BY <1>3 DEF DisconnectPage, RemoveFromRoom
  <2>2. UNCHANGED channel \/ Send(OtherUser(room, u), <<Bye(u)>>)
    BY <1>3 DEF DisconnectPage
  <2>3. PICK b : b = Bye(u)
    OBVIOUS
  <2> QED BY <1>0, <2>1, <2>2, <2>3, Nothing, One
<1>4. CASE ByePage(u)
  <2> DEFINE left == saved \ GetSavedMessages(u)
  <2>1. left \subseteq saved
    OBVIOUS
  <2>2. \/ UNCHANGED channel /\ saved' \subseteq saved
        \/ OnMessage(RemoveUser(room, u), OtherUser(room, u), Bye(u), left)
    BY <1>4 DEF ByePage
  <2> HIDE DEF left
  <2> QED BY <1>0, <2>1, <2>2, Nothing, Keeping
<1>5. CASE \E type \in PostTypes : MessagePage(u, type)
  <2>1. PICK type \in PostTypes : MessagePage(u, type)
    BY <1>5
  <2> DEFINE other == OtherUser(room, u)
             msg == Forwarded(u, other, type)
  <2>2. CASE UNCHANGED <<saved, channel>>
    BY <1>0, <2>2, Nothing
  <2>3. CASE room # NoRoom /\ other # NoUser /\ HasUser(room, other)
             /\ OnMessage(room, other, msg, saved)
    <3>1. msg \in Payload
      BY PostTypesAreTypes DEF Forwarded, Payload, MsgTypes, Slot
    <3>2. ASSUME msg.type = "offer" PROVE msg = Offer(u) /\ OfferPasses(u, other)
      <4>1. type = "offer" /\ u # other
        BY <3>2 DEF Forwarded
      <4>2. msg = Offer(u)
        BY <4>1 DEF Forwarded, Offer
      <4>3. OfferRequest(u) \in pending /\ OfferRequest(u) \notin pending'
        BY <2>1, <4>1 DEF MessagePage, Take, OfferRequest
      <4>4. u \in {room.user1, room.user2} /\ other \in {room.user1, room.user2}
        BY <2>3 DEF OtherUser
      <4>5. {u, other} \subseteq Members
        BY <2>3, <4>4, BlankSlotIsNoUser DEF Members, MembersOf
      <4> QED BY <2>3, <4>1, <4>2, <4>3, <4>5 DEF OfferPasses
    <3> HIDE DEF msg, other
    <3> QED BY <1>0, <2>3, <3>1, <3>2, Keeping
  <2> QED BY <2>1, <2>2, <2>3 DEF MessagePage
<1> QED BY <1>1, <1>2, <1>3, <1>4, <1>5 DEF Handle

-----------------------------------------------------------------------------
(* The pages agree with what they posted and with what they received.      *)

OneOffer(heard) ==
    \A i, j \in DOMAIN heard : heard[i].type = "offer" /\ heard[j].type = "offer" => i = j

\* The types of the messages a page has received.
TypesHeard(p, heard) == {heard[i].type : i \in {j \in DOMAIN heard : j <= p.seen}}

CallOK(p, served, said, heard) ==
    /\ p.status = "blank" => said = {}
    /\ p.seen <= Len(heard)
    /\ "offer" \in said => served = "caller"
    /\ p.status \in {"waiting", "left"} =>
          /\ Linked(p) /\ CallsOnce(p, said)
          /\ OneOffer(heard) => OneCall(p, served, said, TypesHeard(p, heard))

CallsOK == \A u \in Users : CallOK(tab[u], page[u], posted[u], channel[u])

\* More messages behind those that were received change nothing for the page.
LEMMA CallOKGrows ==
    ASSUME NEW p \in Tab, NEW served, NEW said, NEW heard \in Seq(Payload),
           CallOK(p, served, said, heard), NEW served2, NEW msgs \in Seq(Payload),
           p.status \in {"waiting", "left"} \/ served = "caller" => served2 = served
    PROVE  CallOK(p, served2, said, heard \o msgs)
<1> DEFINE more == heard \o msgs
<1>1. p.seen \in Nat /\ p.seen <= Len(heard)
  BY TabFields DEF CallOK
<1>2. /\ Len(more) = Len(heard) + Len(msgs) /\ Len(heard) \in Nat /\ Len(msgs) \in Nat
      /\ DOMAIN more = 1 .. Len(more) /\ DOMAIN heard = 1 .. Len(heard)
      /\ \A i \in DOMAIN heard : i \in DOMAIN more /\ more[i] = heard[i]
  OBVIOUS
<1> HIDE DEF more
<1>3. p.seen <= Len(more)
  BY <1>1, <1>2
<1>4. {j \in DOMAIN more : j <= p.seen} = {j \in DOMAIN heard : j <= p.seen}
  BY <1>1, <1>2
<1>5. TypesHeard(p, more) = TypesHeard(p, heard)
  BY <1>2, <1>4 DEF TypesHeard
<1>6. OneOffer(more) => OneOffer(heard)
  BY <1>2 DEF OneOffer
<1> QED BY <1>3, <1>5, <1>6 DEF CallOK, more

\* One message more is received.
LEMMA HearsMore ==
    ASSUME NEW p \in Tab, NEW q \in Tab, NEW heard \in Seq(Payload), p.seen <= Len(heard),
           p.seen + 1 \in DOMAIN heard, q.seen = p.seen + 1
    PROVE  /\ TypesHeard(q, heard) = TypesHeard(p, heard) \cup {heard[p.seen + 1].type}
           /\ OneOffer(heard) /\ heard[p.seen + 1].type = "offer"
              => "offer" \notin TypesHeard(p, heard)
<1>1. p.seen \in Nat /\ DOMAIN heard \subseteq Nat
  BY TabFields
<1>2. {j \in DOMAIN heard : j <= q.seen} = {j \in DOMAIN heard : j <= p.seen} \cup {p.seen + 1}
  <2> PICK s \in Nat : s = p.seen
    BY <1>1
  <2>1. \A j \in Nat : j <= s + 1 <=> j <= s \/ j = s + 1
    OBVIOUS
  <2> QED BY <1>1, <2>1
<1>3. \A j \in DOMAIN heard : j <= p.seen => j # p.seen + 1
  BY <1>1
<1> QED BY <1>2, <1>3 DEF TypesHeard, OneOffer

\* A callback that changes only its own page.
LEMMA OnlyCall ==
    ASSUME CallInv, CallsOK, NEW u \in Users, NEW p, tab' = [tab EXCEPT ![u] = p],
           UNCHANGED <<page, posted, channel>>,
           CallOK(p, page[u], posted[u], channel[u])
    PROVE  CallsOK'
<1> SUFFICES ASSUME NEW v \in Users
             PROVE  CallOK(tab'[v], page'[v], posted'[v], channel'[v])
  BY DEF CallsOK
<1> QED BY DEF CallInv, CallsOK

\* A callback that posts a message.
LEMMA CallAndPost ==
    ASSUME CallInv, CallsOK, NEW u \in Users, NEW p, NEW type, tab' = [tab EXCEPT ![u] = p],
           SendMessage(u, type),
           CallOK(p, page[u], posted[u] \cup {type}, channel[u])
    PROVE  CallsOK'
<1>1. posted' = [posted EXCEPT ![u] = @ \cup {type}] /\ UNCHANGED <<page, channel>>
  BY DEF SendMessage, serverVars
<1>2. posted'[u] = posted[u] \cup {type} /\ \A v \in Users \ {u} : posted'[v] = posted[v]
  BY <1>1 DEF CallInv, IInv, TypeOK, NetTypeOK
<1> SUFFICES ASSUME NEW v \in Users
             PROVE  CallOK(tab'[v], page'[v], posted'[v], channel'[v])
  BY DEF CallsOK
<1>3. CASE v = u
  <2>1. tab'[v] = p
    BY <1>3 DEF CallInv
  <2> QED BY <1>1, <1>2, <1>3, <2>1
<1>4. CASE v # u
  <2>1. tab'[v] = tab[v]
    BY <1>4 DEF CallInv
  <2> QED BY <1>1, <1>2, <1>4, <2>1 DEF CallsOK
<1> QED BY <1>3, <1>4

\* What an alive page is known to be.
LEMMA CallIs ==
    ASSUME CallInv, CallsOK, NEW u \in Users, Alive(u)
    PROVE  /\ tab[u] \in Tab /\ tab[u].status \in {"waiting", "left"}
           /\ channel[u] \in Seq(Payload)
           /\ Served(u) /\ "bye" \notin posted[u]
           /\ tab[u].seen \in Nat /\ tab[u].seen <= Len(channel[u])
           /\ "offer" \in posted[u] \cup tab[u].work => page[u] = "caller"
           /\ Linked(tab[u]) /\ CallsOnce(tab[u], posted[u])
           /\ OneOffer(channel[u])
              => OneCall(tab[u], page[u], posted[u], TypesHeard(tab[u], channel[u]))
<1>1. /\ tab[u] \in Tab /\ PageOK(tab[u], page[u], posted[u], channel[u])
      /\ tab[u].status \in {"waiting", "left"} /\ Served(u) /\ "bye" \notin posted[u]
  BY AliveIs
<1>2. CallOK(tab[u], page[u], posted[u], channel[u])
  BY DEF CallsOK
<1>3. channel[u] \in Seq(Payload)
  BY DEF CallInv, IInv, TypeOK, NetTypeOK
<1>4. tab[u].seen \in Nat
  BY <1>1, TabFields
<1> QED BY <1>1, <1>2, <1>3, <1>4 DEF CallOK, PageOK

LEMMA InitializeCall ==
    ASSUME CallInv, CallsOK, NEW u \in Users, Initialize(u)
    PROVE  CallsOK'
<1> DEFINE init == [NewTab EXCEPT !.status = "waiting", !.initiator = page[u] = "caller"]
           asked == [init EXCEPT !.media = "asked"]
           ready(p) == [p EXCEPT !.signalingReady = p.initiator]
           OK(p) == CallOK(p, page[u], posted[u], channel[u])
<1>0. /\ Served(u) /\ tab[u].status = "blank" /\ UNCHANGED <<page, posted, channel>>
      /\ \/ tab' = [tab EXCEPT ![u] = ready(asked)]
         \/ tab' = [tab EXCEPT ![u] = ready(StartCall(init))]
  BY DEF Initialize, SetTab, netVars
<1>1. posted[u] = {} /\ channel[u] \in Seq(Payload)
  BY <1>0 DEF CallsOK, CallOK, CallInv, IInv, TypeOK, NetTypeOK
<1>2. init \in Tab /\ asked \in Tab
  BY NewTabIsTab DEF Tab
<1>3. /\ init.msgQueue = <<>> /\ init.work = {} /\ init.pc = "null" /\ ~init.started
      /\ init.initiator = (page[u] = "caller") /\ init.seen = 0 /\ init.media = "none"
      /\ ~init.signalingReady
      /\ asked.msgQueue = <<>> /\ asked.work = {} /\ asked.pc = "null" /\ ~asked.started
      /\ asked.initiator = (page[u] = "caller") /\ asked.seen = 0
  BY DEF NewTab
<1> HIDE DEF init, asked
<1>4. \A q \in Tab : q.seen = 0 => TypesHeard(q, channel[u]) = {} /\ q.seen <= Len(channel[u])
  <2>1. DOMAIN channel[u] = 1 .. Len(channel[u]) /\ Len(channel[u]) \in Nat
    BY <1>1
  <2> QED BY <2>1 DEF TypesHeard
<1>5. ASSUME NEW p \in Tab, p.seen = 0, p.msgQueue = <<>>, Linked(p),
             \/ /\ page[u] = "caller" /\ p.initiator /\ p.work \subseteq {"offer"}
             \/ /\ page[u] # "caller" /\ ~p.initiator /\ p.work = {}
                /\ p.pc \in {"null", "new"} /\ (p.started => p.media = "none")
      PROVE  OK(ready(p))
  <2> PICK q : q = ready(p)
    OBVIOUS
  <2>1. /\ q \in Tab /\ q.seen = 0 /\ q.msgQueue = <<>> /\ q.work = p.work /\ q.pc = p.pc
        /\ q.started = p.started /\ q.initiator = p.initiator /\ q.media = p.media
        /\ q.signalingReady = p.initiator
    BY <1>5 DEF Tab
  <2> HIDE DEF ready
  <2>2. TypesHeard(q, channel[u]) = {} /\ q.seen <= Len(channel[u]) /\ ~HasOfferIn(<<>>)
    BY <1>4, <2>1 DEF HasOfferIn
  <2>3. Linked(q)
    BY <1>5, <2>1 DEF Linked
  <2>4. CallsOnce(q, {})
    BY <1>5, <2>1 DEF CallsOnce
  <2>5. OneCall(q, page[u], {}, {})
    <3>1. CASE page[u] = "caller"
      BY <1>5, <2>1, <2>2, <3>1 DEF OneCall, AnswersOnce, GivesUp
    <3>2. CASE page[u] # "caller"
      BY <1>5, <2>1, <2>2, <3>2 DEF OneCall, AnswersOnce, Waits
    <3> QED BY <3>1, <3>2
  <2> QED BY <1>1, <2>1, <2>2, <2>3, <2>4, <2>5 DEF CallOK
<1>6. OK(ready(asked))
  <2>1. Linked(asked)
    BY <1>3 DEF Linked
  <2> HIDE DEF OK, ready
  <2> QED BY <1>2, <1>3, <1>5, <2>1
<1>7. OK(ready(StartCall(init)))
  <2> PICK q : q = StartCall(init)
    OBVIOUS
  <2>1. Linked(init) /\ ~HasOfferIn(init.msgQueue)
    BY <1>3 DEF Linked, HasOfferIn
  <2>2. \/ /\ init.initiator /\ q \in Tab /\ q.seen = init.seen
           /\ q.msgQueue = init.msgQueue /\ q.initiator
           /\ q.started /\ q.pc = "new" /\ q.work = {"offer"}
        \/ /\ ~init.initiator /\ q \in Starting(init) /\ q \in Tab
    BY <1>2, <1>3, <2>1, StartCallFields
  <2> HIDE DEF OK, ready
  <2>3. CASE /\ init.initiator /\ q \in Tab /\ q.seen = init.seen
             /\ q.msgQueue = init.msgQueue /\ q.initiator
             /\ q.started /\ q.pc = "new" /\ q.work = {"offer"}
    <3>1. Linked(q)
      BY <2>3 DEF Linked
    <3> QED BY <1>3, <1>5, <2>3, <3>1
  <2>4. CASE ~init.initiator /\ q \in Starting(init) /\ q \in Tab
    <3>1. /\ q.seen = 0 /\ q.msgQueue = <<>> /\ Linked(q) /\ ~q.initiator /\ q.work = {}
          /\ q.pc \in {"null", "new"} /\ q.media = "none"
      BY <1>3, <2>1, <2>4 DEF Starting
    <3> QED BY <1>3, <1>5, <2>4, <3>1
  <2> QED BY <2>2, <2>3, <2>4
<1> HIDE DEF ready
<1> QED BY <1>0, <1>6, <1>7, OnlyCall

LEMMA OpenedCall ==
    ASSUME CallInv, CallsOK, NEW u \in Users, OnChannelOpened(u) \/ OnUserMediaSuccess(u)
    PROVE  CallsOK'
<1> DEFINE p == tab[u]
           ready == [p EXCEPT !.channelReady = TRUE]
           granted == [p EXCEPT !.media = "granted"]
           got == TypesHeard(p, channel[u])
<1>1. /\ Alive(u) /\ UNCHANGED <<page, posted, channel>>
      /\ \/ tab' = [tab EXCEPT ![u] = MaybeStart(ready)]
         \/ p.media = "asked" /\ tab' = [tab EXCEPT ![u] = MaybeStart(granted)]
  BY DEF OnChannelOpened, OnUserMediaSuccess, SetTab, netVars
<1>2. /\ p \in Tab /\ p.seen <= Len(channel[u])
      /\ "offer" \in posted[u] => page[u] = "caller"
      /\ p.status \in {"waiting", "left"}
      /\ Linked(p) /\ CallsOnce(p, posted[u])
      /\ OneOffer(channel[u]) => OneCall(p, page[u], posted[u], got)
  BY <1>1, CallIs
<1>3. ASSUME NEW s \in Tab, s.seen = p.seen, s.msgQueue = p.msgQueue, s.work = p.work,
             s.pc = p.pc, s.initiator = p.initiator, s.started = p.started,
             s.signalingReady = p.signalingReady,
             s.media = p.media \/ p.media = "asked", s.status = p.status,
             tab' = [tab EXCEPT ![u] = MaybeStart(s)]
      PROVE  CallsOK'
  <2> PICK q : q = MaybeStart(s)
    OBVIOUS
  <2>1. Linked(s) /\ CallsOnce(s, posted[u])
    BY <1>2, <1>3 DEF Linked, CallsOnce
  <2> HIDE DEF p, got
  <2>2. OneCall(p, page[u], posted[u], got) => OneCall(s, page[u], posted[u], got)
    BY <1>3 DEF OneCall, AnswersOnce, Waits, GivesUp
  <2>3. /\ q \in Tab /\ q.seen = s.seen /\ q.status \in {s.status, "waiting"}
        /\ Linked(q) /\ CallsOnce(q, posted[u])
        /\ OneCall(s, page[u], posted[u], got) => OneCall(q, page[u], posted[u], got)
    BY <2>1, MaybeStartKeeps, <1>3
  <2>4. TypesHeard(q, channel[u]) = got
    BY <1>3, <2>3 DEF TypesHeard, got
  <2>5. q.status # "blank"
    BY <1>2, <1>3, <2>3
  <2>6. CallOK(q, page[u], posted[u], channel[u])
    BY <1>2, <1>3, <2>2, <2>3, <2>4, <2>5 DEF CallOK
  <2> QED BY <1>1, <1>3, <2>6, OnlyCall
<1>4. /\ ready \in Tab /\ ready.seen = p.seen /\ ready.msgQueue = p.msgQueue /\ ready.work = p.work
      /\ ready.pc = p.pc /\ ready.initiator = p.initiator /\ ready.started = p.started
      /\ ready.signalingReady = p.signalingReady /\ ready.media = p.media
      /\ ready.status = p.status
  <2> HIDE DEF p
  <2> QED BY <1>2 DEF Tab
<1>5. /\ granted \in Tab /\ granted.seen = p.seen /\ granted.msgQueue = p.msgQueue
      /\ granted.work = p.work /\ granted.pc = p.pc /\ granted.initiator = p.initiator
      /\ granted.started = p.started /\ granted.signalingReady = p.signalingReady
      /\ granted.status = p.status
  <2> HIDE DEF p
  <2> QED BY <1>2 DEF Tab
<1> HIDE DEF p, ready, granted
<1> QED BY <1>1, <1>3, <1>4, <1>5

LEMMA MessageCall ==
    ASSUME CallInv, CallsOK, NEW u \in Users, OnChannelMessage(u)
    PROVE  CallsOK'
<1> DEFINE n == tab[u].seen + 1
           heard == channel[u]
           got == TypesHeard(tab[u], heard)
<1>1. /\ Alive(u) /\ UNCHANGED <<page, posted, channel>> /\ n \in DOMAIN heard
      /\ tab' = [tab EXCEPT ![u] = Receive([tab[u] EXCEPT !.seen = n], heard[n])]
  BY DEF OnChannelMessage, SetTab, netVars
<1>2. /\ tab[u] \in Tab /\ tab[u].status \in {"waiting", "left"} /\ heard \in Seq(Payload)
      /\ tab[u].seen \in Nat /\ tab[u].seen <= Len(heard)
      /\ "offer" \in posted[u] => page[u] = "caller"
      /\ Linked(tab[u]) /\ CallsOnce(tab[u], posted[u])
      /\ OneOffer(heard) => OneCall(tab[u], page[u], posted[u], got)
  BY <1>1, CallIs
<1>3. PICK p : p = [tab[u] EXCEPT !.seen = n]
  OBVIOUS
<1>4. PICK q : q = Receive(p, heard[n])
  OBVIOUS
<1>5. tab' = [tab EXCEPT ![u] = q]
  BY <1>1, <1>3, <1>4
<1>6. n \in Nat /\ heard[n] \in Payload /\ n <= Len(heard)
  BY <1>1, <1>2
<1>7. /\ p \in Tab /\ p.seen = n /\ p.msgQueue = tab[u].msgQueue /\ p.work = tab[u].work
      /\ p.pc = tab[u].pc /\ p.status = tab[u].status /\ p.initiator = tab[u].initiator
      /\ p.started = tab[u].started /\ p.media = tab[u].media
      /\ p.signalingReady = tab[u].signalingReady
  <2> HIDE DEF n
  <2> QED BY <1>2, <1>3, <1>6 DEF Tab
<1>8. /\ Linked(p) /\ CallsOnce(p, posted[u])
      /\ OneOffer(heard) => OneCall(p, page[u], posted[u], got)
  <2> HIDE DEF n, heard, got
  <2> QED BY <1>2, <1>7 DEF Linked, CallsOnce, OneCall, AnswersOnce, Waits, GivesUp
<1> DEFINE msg == heard[n]
<1>9. /\ TypesHeard(p, heard) = got \cup {msg.type}
      /\ OneOffer(heard) /\ msg.type = "offer" => "offer" \notin got
  <2> HIDE DEF heard
  <2> QED BY <1>1, <1>2, <1>7, HearsMore
<1> HIDE DEF n, heard, got, msg
<1>10. /\ q \in Tab /\ q.seen = p.seen /\ q.status \in {p.status, "waiting"}
       /\ Linked(q) /\ CallsOnce(q, posted[u])
       /\ OneCall(p, page[u], posted[u], got) /\ (msg.type = "offer" => "offer" \notin got)
          => OneCall(q, page[u], posted[u], got \cup {msg.type})
  <2>1. msg \in Payload /\ q = Receive(p, msg)
    BY <1>4, <1>6 DEF msg
  <2> QED BY <1>7, <1>8, <2>1, ReceiveKeeps
<1>11. TypesHeard(q, heard) = TypesHeard(p, heard)
  BY <1>10 DEF TypesHeard
<1>12. CallOK(q, page[u], posted[u], heard)
  BY <1>2, <1>6, <1>7, <1>8, <1>9, <1>10, <1>11 DEF CallOK
<1> QED BY <1>1, <1>5, <1>12, OnlyCall DEF heard

LEMMA SetLocalCall ==
    ASSUME CallInv, CallsOK, NEW u \in Users, NEW type \in {"offer", "answer"},
           SetLocalAndSendMessage(u, type)
    PROVE  CallsOK'
<1> DEFINE p == tab[u]
           heard == channel[u]
           said == posted[u]
           got == TypesHeard(p, heard)
<1>1. /\ Alive(u) /\ type \in p.work /\ SendMessage(u, type)
      /\ tab' = [tab EXCEPT ![u] = [p EXCEPT !.work = @ \ {type}, !.pc = SetLocal(@, type)]]
  BY DEF SetLocalAndSendMessage, SetTab
<1>2. /\ p \in Tab /\ p.status \in {"waiting", "left"} /\ p.seen <= Len(heard)
      /\ "offer" \in said \cup p.work => page[u] = "caller"
      /\ Linked(p) /\ CallsOnce(p, said)
      /\ OneOffer(heard) => OneCall(p, page[u], said, got)
  BY <1>1, CallIs
<1>3. PICK q : q = [p EXCEPT !.work = @ \ {type}, !.pc = SetLocal(@, type)]
  OBVIOUS
<1>4. \/ SetLocal(p.pc, type) = p.pc
      \/ type = "offer" /\ p.pc = "new" /\ SetLocal(p.pc, type) = "haveLocalOffer"
      \/ type = "answer" /\ p.pc = "haveRemoteOffer" /\ SetLocal(p.pc, type) = "stable"
  BY DEF SetLocal
<1>5. tab' = [tab EXCEPT ![u] = q]
  BY <1>1, <1>3
<1> HIDE DEF p, heard, said
<1>6. /\ q \in Tab /\ q.msgQueue = p.msgQueue /\ q.work = p.work \ {type}
      /\ q.pc = SetLocal(p.pc, type) /\ q.status = p.status /\ q.seen = p.seen
      /\ q.initiator = p.initiator /\ q.started = p.started /\ q.media = p.media
      /\ q.signalingReady = p.signalingReady
  BY <1>2, <1>3, <1>4 DEF Tab
<1>7. p.started /\ Linked(q) /\ CallsOnce(q, said \cup {type})
  BY <1>1, <1>2, <1>4, <1>6 DEF Linked, CallsOnce
<1> HIDE DEF got
<1>8. ASSUME OneCall(p, page[u], said, got)
      PROVE  OneCall(q, page[u], said \cup {type}, got)
  <2>1. AnswersOnce(q, said \cup {type}, got)
    BY <1>1, <1>6, <1>8 DEF OneCall, AnswersOnce
  <2>2. page[u] = "callee" => Waits(q, got)
    BY <1>1, <1>2, <1>4, <1>6, <1>7, <1>8 DEF OneCall, Waits
  <2>3. page[u] = "caller" => GivesUp(q, got)
    BY <1>6, <1>8 DEF OneCall, GivesUp
  <2> QED BY <2>1, <2>2, <2>3 DEF OneCall
<1>9. TypesHeard(q, heard) = got
  BY <1>6 DEF TypesHeard, got
<1>10. CallOK(q, page[u], said \cup {type}, heard)
  BY <1>1, <1>2, <1>6, <1>7, <1>8, <1>9 DEF CallOK
<1> QED BY <1>1, <1>5, <1>10, CallAndPost DEF said, heard

LEMMA CandidateCall ==
    ASSUME CallInv, CallsOK, NEW u \in Users, OnIceCandidate(u)
    PROVE  CallsOK'
<1>1. Alive(u) /\ SendMessage(u, "candidate") /\ tab' = tab
  BY DEF OnIceCandidate
<1>2. PICK p : p = tab[u]
  OBVIOUS
<1>3. tab' = [tab EXCEPT ![u] = p]
  BY <1>1, <1>2 DEF CallInv
<1>4. CallOK(p, page[u], posted[u], channel[u]) /\ p.status # "blank"
  BY <1>1, <1>2 DEF CallsOK, Alive
<1> PICK said : said = posted[u] \cup {"candidate"}
  OBVIOUS
<1>5. /\ "offer" \in said <=> "offer" \in posted[u]
      /\ "answer" \in said <=> "answer" \in posted[u]
  OBVIOUS
<1>6. CallOK(p, page[u], said, channel[u])
  BY <1>4, <1>5 DEF CallOK, CallsOnce, OneCall, AnswersOnce
<1> QED BY <1>1, <1>3, <1>6, CallAndPost

LEMMA HangupCall ==
    ASSUME CallInv, CallsOK, NEW u \in Users, OnHangup(u)
    PROVE  CallsOK'
<1> DEFINE p == tab[u]
           left == [p EXCEPT !.status = "left", !.video = FALSE]
           idle == [left EXCEPT !.started = FALSE, !.signalingReady = FALSE]
           stopped == Stop(left)
           heard == channel[u]
           said == posted[u]
           got == TypesHeard(p, heard)
           OK(q) == CallOK(q, page[u], said, heard)
<1>1. /\ Alive(u) /\ UNCHANGED <<page, posted, channel>>
      /\ \/ tab' = [tab EXCEPT ![u] = left]
         \/ p.pc = "null" /\ tab' = [tab EXCEPT ![u] = idle]
         \/ p.pc # "null" /\ p.media = "granted" /\ tab' = [tab EXCEPT ![u] = stopped]
  BY DEF OnHangup, SetTab, netVars, CloseChannel, serverVars
<1>2. /\ p \in Tab /\ p.status \in {"waiting", "left"} /\ p.seen <= Len(heard)
      /\ "offer" \in said \cup p.work => page[u] = "caller"
      /\ Linked(p) /\ CallsOnce(p, said)
      /\ OneOffer(heard) => OneCall(p, page[u], said, got)
  BY <1>1, CallIs
<1> HIDE DEF p, heard, said
<1>3. /\ left \in Tab /\ left.status = "left" /\ left.seen = p.seen /\ left.media = p.media
      /\ left.msgQueue = p.msgQueue /\ left.work = p.work /\ left.pc = p.pc
      /\ left.initiator = p.initiator /\ left.started = p.started
      /\ left.signalingReady = p.signalingReady
  BY <1>2 DEF Tab
<1> HIDE DEF left
<1>4. /\ idle \in Tab /\ idle.status = "left" /\ idle.seen = p.seen /\ idle.media = p.media
      /\ idle.msgQueue = p.msgQueue /\ idle.work = p.work /\ idle.pc = p.pc
      /\ idle.initiator = p.initiator /\ ~idle.started /\ ~idle.signalingReady
  BY <1>3 DEF Tab
<1>5. /\ stopped \in Tab /\ stopped.status = "left" /\ stopped.seen = p.seen
      /\ stopped.media = p.media /\ stopped.msgQueue = <<>> /\ stopped.work = {}
      /\ stopped.pc = "null" /\ stopped.initiator = p.initiator
      /\ ~stopped.started /\ ~stopped.signalingReady
  <2>1. <<>> \in Seq(Payload)
    OBVIOUS
  <2> QED BY <1>3, <2>1 DEF Stop, Tab
<1> HIDE DEF idle, stopped
<1>6. TypesHeard(left, heard) = got /\ TypesHeard(idle, heard) = got
      /\ TypesHeard(stopped, heard) = got
  BY <1>3, <1>4, <1>5 DEF TypesHeard
<1> HIDE DEF got
<1>7. OK(left)
  <2>1. Linked(left) /\ CallsOnce(left, said)
    BY <1>2, <1>3 DEF Linked, CallsOnce
  <2>2. OneCall(p, page[u], said, got) => OneCall(left, page[u], said, got)
    BY <1>3 DEF OneCall, AnswersOnce, Waits, GivesUp
  <2> QED BY <1>2, <1>3, <1>6, <2>1, <2>2 DEF CallOK
<1>8. p.pc = "null" => OK(idle)
  <2> SUFFICES ASSUME p.pc = "null" PROVE OK(idle)
    OBVIOUS
  <2>0. ~p.started
    BY <1>2 DEF Linked
  <2>1. Linked(idle) /\ CallsOnce(idle, said)
    BY <1>2, <1>4, <2>0 DEF Linked, CallsOnce
  <2>2. OneCall(p, page[u], said, got) => OneCall(idle, page[u], said, got)
    BY <1>4, <2>0 DEF OneCall, AnswersOnce, Waits, GivesUp
  <2> QED BY <1>2, <1>4, <1>6, <2>1, <2>2 DEF CallOK
<1>9. p.pc # "null" => OK(stopped)
  <2> SUFFICES ASSUME p.pc # "null" PROVE OK(stopped)
    OBVIOUS
  <2>0. p.started /\ ~HasOfferIn(<<>>)
    BY <1>2 DEF Linked, HasOfferIn
  <2>1. Linked(stopped) /\ CallsOnce(stopped, said)
    BY <1>2, <1>5, <2>0 DEF Linked, CallsOnce
  <2>2. OneCall(p, page[u], said, got) => OneCall(stopped, page[u], said, got)
    BY <1>5, <2>0 DEF OneCall, AnswersOnce, Waits, GivesUp
  <2> QED BY <1>2, <1>5, <1>6, <2>1, <2>2 DEF CallOK
<1>10. PICK q : tab' = [tab EXCEPT ![u] = q] /\ OK(q)
  <2> HIDE DEF OK
  <2> QED BY <1>1, <1>7, <1>8, <1>9
<1> QED BY <1>1, <1>10, OnlyCall DEF said, heard

LEMMA GoneCall ==
    ASSUME NEW p, NEW served, NEW said, NEW heard \in Seq(Payload),
           "offer" \in said => served = "caller"
    PROVE  CallOK(Unloaded(p), served, said, heard)
<1> DEFINE q == Unloaded(p)
<1>1. q.status = "unloaded" /\ q.seen = 0
  BY DEF Unloaded, NewTab
<1>2. 0 <= Len(heard)
  OBVIOUS
<1> HIDE DEF q
<1>3. CallOK(q, served, said, heard)
  BY <1>1, <1>2 DEF CallOK
<1> QED BY <1>3 DEF q

LEMMA PageKeepsCalls ==
    ASSUME CallInv, CallsOK, NEW u \in Users, Page(u)
    PROVE  CallsOK'
<1>0. /\ channel[u] \in Seq(Payload) /\ ("offer" \in posted[u] => page[u] = "caller")
      /\ page \in [Users -> PageState]
  BY DEF CallInv, IInv, TypeOK, NetTypeOK, CallsOK, CallOK
<1>1. CASE \E debug \in Debugs : OpenPage(u, debug) /\ UNCHANGED tab
  <2>1. /\ page[u] = "none" /\ page' = [page EXCEPT ![u] = "loading"]
        /\ UNCHANGED <<channel, posted, tab>>
    BY <1>1 DEF OpenPage
  <2> SUFFICES ASSUME NEW v \in Users
               PROVE  CallOK(tab[v], page'[v], posted[v], channel[v])
    BY <2>1 DEF CallsOK
  <2>2. CallOK(tab[v], page[v], posted[v], channel[v]) /\ PageOK(tab[v], page[v], posted[v], channel[v])
    BY DEF CallsOK, CallInv, PagesOK
  <2>3. CASE v = u
    <3>1. page[v] = "none"
      BY <2>1, <2>3
    <3>2. "offer" \notin posted[v] /\ tab[v].status \notin {"waiting", "left"}
      BY <2>2, <3>1 DEF CallOK, PageOK
    <3> QED BY <2>2, <3>2 DEF CallOK
  <2>4. CASE v # u
    BY <1>0, <2>1, <2>2, <2>4
  <2> QED BY <2>3, <2>4
<1>2. CASE SocketOpens(u) \/ ConnectionLost(u)
  BY <1>2 DEF SocketOpens, ConnectionLost, OpenChannel, CloseChannel, serverVars, CallsOK
<1>3. CASE OnBeforeUnload(u)
  <2>1. SendMessage(u, "bye") /\ tab' = [tab EXCEPT ![u] = Unloaded(tab[u])]
    BY <1>3 DEF OnBeforeUnload, SetTab
  <2>2. CallOK(Unloaded(tab[u]), page[u], posted[u] \cup {"bye"}, channel[u])
    BY <1>0, GoneCall
  <2> QED BY <2>1, <2>2, CallAndPost
<1>4. CASE Crash(u)
  <2>1. /\ UNCHANGED <<page, posted, channel>>
        /\ tab' = [tab EXCEPT ![u] = Unloaded(tab[u])]
    BY <1>4 DEF Crash, SetTab, netVars
  <2>2. CallOK(Unloaded(tab[u]), page[u], posted[u], channel[u])
    BY <1>0, GoneCall
  <2> QED BY <2>1, <2>2, OnlyCall
<1> QED BY <1>1, <1>2, <1>3, <1>4, InitializeCall, OpenedCall, MessageCall, SetLocalCall,
       CandidateCall, HangupCall DEF Page, Callback

LEMMA HandleKeepsCalls ==
    ASSUME CallInv, CallsOK, NEW u \in Users, Handle(u), UNCHANGED <<browserVars, tab>>
    PROVE  CallsOK'
<1> SUFFICES ASSUME NEW v \in Users
             PROVE  CallOK(tab'[v], page'[v], posted'[v], channel'[v])
  BY DEF CallsOK
<1>1. /\ tab' = tab /\ posted' = posted /\ UNCHANGED browserVars /\ IInv
      /\ tab[v] \in Tab /\ channel[v] \in Seq(Payload)
      /\ CallOK(tab[v], page[v], posted[v], channel[v])
      /\ PageOK(tab[v], page[v], posted[v], channel[v])
  BY DEF browserVars, CallInv, PagesOK, IInv, TypeOK, NetTypeOK, CallsOK
<1>2. page[v] \in {"callee", "caller"} => page'[v] = page[v]
  BY <1>1, HandleServes
<1>3. PICK msgs : msgs \in Seq(Payload) /\ channel'[v] = channel[v] \o msgs
  BY <1>1, HandleDelivers DEF Delivers
<1>4. tab[v].status \in {"waiting", "left"} \/ page[v] = "caller" => page'[v] = page[v]
  BY <1>1, <1>2 DEF PageOK
<1>5. CallOK(tab[v], page'[v], posted[v], channel[v] \o msgs)
  BY <1>1, <1>3, <1>4, CallOKGrows
<1> QED BY <1>1, <1>3, <1>5

LEMMA CallsOKStep ==
    ASSUME CallInv, CallsOK, [CallNext]_callVars
    PROVE  CallsOK'
<1>1. CASE UNCHANGED callVars
  BY <1>1 DEF callVars, netVars, CallsOK
<1>2. ASSUME NEW u \in Users, Page(u) PROVE CallsOK'
  BY <1>2, PageKeepsCalls
<1>3. ASSUME NEW u \in Users, Handle(u), UNCHANGED <<browserVars, tab>> PROVE CallsOK'
  BY <1>3, HandleKeepsCalls
<1> QED BY <1>1, <1>2, <1>3 DEF CallNext

LEMMA CallsOKStart == CallInit => CallsOK
<1> SUFFICES ASSUME CallInit, NEW u \in Users PROVE CallOK(tab[u], page[u], posted[u], channel[u])
  BY DEF CallsOK
<1>1. tab[u] = NewTab /\ posted[u] = {} /\ channel[u] = <<>>
  BY DEF CallInit, NetInit, TabInit
<1>2. NewTab.status = "blank" /\ NewTab.seen = 0
  BY DEF NewTab
<1>3. 0 <= Len(<<>>)
  OBVIOUS
<1> QED BY <1>1, <1>2, <1>3 DEF CallOK

-----------------------------------------------------------------------------
(* Every caller makes one offer, and it is in one place.                   *)

\* The messages that reached a user or are kept to do so.
Placed(x) == Kept(x) \cup Delivered(x)

OffersOK ==
    \A x \in Users :
        /\ \A m \in Placed(x) : m.type = "offer" =>
              \E v \in Users \ {x} : /\ m = Offer(v) /\ "offer" \in posted[v]
                                     /\ OfferRequest(v) \notin pending
                                     /\ Served(v) /\ Served(x)
        /\ \A y \in Users : \A m \in Placed(x) \cap Placed(y) : m.type = "offer" => x = y
        /\ \A m \in Kept(x) \cap Delivered(x) : m.type # "offer"
        /\ \A i, j \in DOMAIN channel[x] :
              channel[x][i].type = "offer" /\ channel[x][i] = channel[x][j] => i = j

\* A page posts its offer once, and leaves the mailboxes to the server.
LEMMA PagePosts ==
    ASSUME CallInv, CallsOK, NEW u \in Users, Page(u)
    PROVE  /\ UNCHANGED <<room, saved, channel>>
           /\ \A v \in Users :
                 /\ posted[v] \subseteq posted'[v] /\ (Served(v) => Served(v)')
                 /\ OfferRequest(v) \in pending' =>
                       OfferRequest(v) \in pending \/ "offer" \notin posted[v]
<1>0. posted \in [Users -> SUBSET MsgTypes] /\ page \in [Users -> PageState]
  BY DEF CallInv, IInv, TypeOK, NetTypeOK
<1>1. CASE UNCHANGED netVars
  BY <1>1 DEF netVars, Served
<1>2. ASSUME NEW type, SendMessage(u, type), type = "offer" => "offer" \notin posted[u]
      PROVE  /\ UNCHANGED <<room, saved, channel>>
             /\ \A v \in Users :
                   /\ posted[v] \subseteq posted'[v] /\ (Served(v) => Served(v)')
                   /\ OfferRequest(v) \in pending' =>
                         OfferRequest(v) \in pending \/ "offer" \notin posted[v]
  <2>1. /\ posted' = [posted EXCEPT ![u] = @ \cup {type}] /\ UNCHANGED serverVars
        /\ pending' = pending \cup {[kind |-> "message", user |-> u, arg |-> type]}
    BY <1>2 DEF SendMessage, Post
  <2>2. \A v \in Users : posted[v] \subseteq posted'[v]
    BY <1>0, <2>1
  <2>3. ASSUME NEW v \in Users, OfferRequest(v) \in pending', OfferRequest(v) \notin pending
        PROVE  "offer" \notin posted[v]
    <3>1. v = u /\ type = "offer"
      BY <2>1, <2>3 DEF OfferRequest
    <3> QED BY <1>2, <3>1
  <2> QED BY <2>1, <2>2, <2>3 DEF serverVars, Served
<1>3. CASE \E debug \in Debugs : OpenPage(u, debug) /\ UNCHANGED tab
  <2>1. PICK debug \in Debugs : OpenPage(u, debug)
    BY <1>3
  <2>2. /\ page[u] = "none" /\ page' = [page EXCEPT ![u] = "loading"]
        /\ pending' = pending \cup {[kind |-> "spy", user |-> u, arg |-> debug]}
        /\ UNCHANGED <<room, saved, channel, posted>>
    BY <2>1 DEF OpenPage, Post
  <2>3. \A v \in Users : Served(v) => Served(v)'
    BY <1>0, <2>2 DEF Served
  <2> QED BY <2>2, <2>3 DEF OfferRequest
<1>4. CASE OpenChannel(u) \/ CloseChannel(u)
  <2>1. UNCHANGED <<serverVars, posted>>
    BY <1>4 DEF OpenChannel, CloseChannel
  <2>2. \E kind \in {"connect", "disconnect"} :
            pending' = pending \cup {[kind |-> kind, user |-> u, arg |-> "none"]}
    BY <1>4 DEF OpenChannel, CloseChannel, Post
  <2> QED BY <2>1, <2>2 DEF serverVars, OfferRequest, Served
<1>5. CASE \E type \in {"offer", "answer"} : SetLocalAndSendMessage(u, type)
  <2>1. PICK type \in {"offer", "answer"} : SetLocalAndSendMessage(u, type)
    BY <1>5
  <2>2. Alive(u) /\ type \in tab[u].work /\ SendMessage(u, type)
    BY <2>1 DEF SetLocalAndSendMessage
  <2>3. type = "offer" => "offer" \notin posted[u]
    BY <2>2, CallIs DEF CallsOnce
  <2> QED BY <1>2, <2>2, <2>3
<1>6. CASE OnIceCandidate(u) \/ OnBeforeUnload(u)
  <2>1. SendMessage(u, "candidate") \/ SendMessage(u, "bye")
    BY <1>6 DEF OnIceCandidate, OnBeforeUnload
  <2> QED BY <1>2, <2>1
<1> QED BY <1>1, <1>3, <1>4, <1>5, <1>6
     DEF Page, Callback, Initialize, SocketOpens, OnChannelOpened, OnChannelMessage,
         OnUserMediaSuccess, OnHangup, Crash, ConnectionLost

\* A member of the room was served, an offer in flight was posted, and requests are
\* taken up.
LEMMA HandleTakes ==
    ASSUME IInv, NEW u \in Users, Handle(u), UNCHANGED browserVars
    PROVE  /\ pending' \subseteq pending /\ UNCHANGED <<posted, chan>>
           /\ \A v \in Users : Served(v) => Served(v)'
           /\ \A v \in Members : v \in Users /\ Served(v)
<1>1. \A r : Take(r) => pending' \subseteq pending
  BY DEF Take
<1>2. pending' \subseteq pending
  <2>1. CASE \E debug \in Debugs : MainPage(u, debug)
    BY <1>1, <2>1 DEF MainPage
  <2>2. CASE ConnectPage(u) \/ DisconnectPage(u) \/ ByePage(u)
    BY <1>1, <2>2 DEF ConnectPage, DisconnectPage, ByePage
  <2>3. CASE \E type \in PostTypes : MessagePage(u, type)
    BY <1>1, <2>3 DEF MessagePage
  <2> QED BY <2>1, <2>2, <2>3 DEF Handle
<1>3. \A v \in Users : Served(v) => Served(v)'
  BY HandleServes DEF Served
<1>4. \A v \in Members : v \in Users /\ Served(v)
  BY MembersAreUsers DEF IInv, RoomIsAdmitted
<1> QED BY <1>2, <1>3, <1>4 DEF browserVars

LEMMA PassingIsNew ==
    ASSUME IInv, OffersOK, NEW u \in Users, NEW x, OfferPasses(u, x)
    PROVE  /\ "offer" \in posted[u] /\ u \in Members /\ x \in Members /\ x # u
           /\ x = OtherUser(room, u)
           /\ \A y \in Users : Offer(u) \notin Placed(y)
<1>1. OfferRequest(u) \in pending
  BY DEF OfferPasses
<1>2. OfferRequest(u).kind = "message" /\ OfferRequest(u).user = u /\ OfferRequest(u).arg = "offer"
  BY DEF OfferRequest
<1>3. "offer" \in posted[u]
  BY <1>1, <1>2 DEF IInv, PendingOK
<1>4. Offer(u).type = "offer" /\ \A v : Offer(u) = Offer(v) => v = u
  BY DEF Offer
<1>5. \A y \in Users : Offer(u) \notin Placed(y)
  BY <1>1, <1>4 DEF OffersOK
<1> QED BY <1>3, <1>5 DEF OfferPasses

\* What reaches a user or is kept to do so, after a handler: of the offers, at most
\* the one it has taken up is new, and no offer is there twice.
LEMMA HandlePlaces ==
    ASSUME IInv, OffersOK, NEW u \in Users, Handle(u), UNCHANGED browserVars, NEW x \in Users
    PROVE  /\ \A m \in Placed(x)' : m.type = "offer" =>
                 \/ m \in Placed(x)
                 \/ m = Offer(u) /\ OfferPasses(u, x)
           /\ \A m \in Kept(x)' \cap Delivered(x)' : m.type # "offer"
           /\ \A i, j \in DOMAIN channel'[x] :
                 channel'[x][i].type = "offer" /\ channel'[x][i] = channel'[x][j] => i = j
<1>0. Offer(u).type = "offer" /\ channel \in [Users -> Seq(Payload)]
  BY DEF Offer, IInv, TypeOK, NetTypeOK
<1> PICK msgs : Delivers(u, x, msgs)
  BY HandleDelivers
<1> DEFINE s == channel[x]
<1>1. s \in Seq(Payload) /\ msgs \in Seq(Payload) /\ channel'[x] = s \o msgs
  BY <1>0 DEF Delivers
<1> HIDE DEF s
<1>2. ASSUME NEW i \in DOMAIN (s \o msgs)
      PROVE  \/ i \in DOMAIN s /\ (s \o msgs)[i] = s[i]
             \/ i - Len(s) \in DOMAIN msgs /\ (s \o msgs)[i] = msgs[i - Len(s)] /\ i \in Nat
  BY <1>1
<1>3. \A m \in Delivered(x)' : m \in Delivered(x) \/ \E k \in DOMAIN msgs : m = msgs[k]
  BY <1>1, <1>2 DEF Delivered, s
<1>4. \A k \in DOMAIN msgs : msgs[k].type = "offer" =>
          /\ msgs[k] \notin Delivered(x) /\ msgs[k] \notin Kept(x)'
          /\ \/ msgs[k] \in Placed(x)
             \/ msgs[k] = Offer(u) /\ OfferPasses(u, x)
  BY PassingIsNew DEF Delivers, OffersOK, Placed
<1>5. \A m \in Kept(x)' : m.type = "offer" =>
          m \in Kept(x) \/ (m = Offer(u) /\ OfferPasses(u, x))
  BY DEF Delivers
<1>6. ASSUME NEW m \in Placed(x)', m.type = "offer"
      PROVE  m \in Placed(x) \/ (m = Offer(u) /\ OfferPasses(u, x))
  BY <1>3, <1>4, <1>5, <1>6 DEF Placed
<1>7. ASSUME NEW m \in Kept(x)' \cap Delivered(x)', m.type = "offer" PROVE FALSE
  <2>1. m \in Delivered(x)
    BY <1>3, <1>4, <1>7
  <2>2. m \in Placed(x) /\ m \notin Kept(x)
    BY <1>7, <2>1 DEF Placed, OffersOK
  <2>3. m = Offer(u) /\ OfferPasses(u, x)
    BY <1>5, <1>7, <2>2
  <2> QED BY <2>2, <2>3, PassingIsNew
<1>8. ASSUME NEW i \in DOMAIN (s \o msgs), NEW j \in DOMAIN (s \o msgs),
             (s \o msgs)[i].type = "offer", (s \o msgs)[i] = (s \o msgs)[j]
      PROVE  i = j
  <2>0. Len(s) \in Nat /\ DOMAIN s \subseteq Nat
    BY <1>1
  <2>1. CASE i \in DOMAIN s /\ j \in DOMAIN s /\ (s \o msgs)[i] = s[i] /\ (s \o msgs)[j] = s[j]
    BY <1>8, <2>1 DEF OffersOK, s
  <2>2. CASE i \in DOMAIN s /\ (s \o msgs)[i] = s[i]
             /\ j - Len(s) \in DOMAIN msgs /\ (s \o msgs)[j] = msgs[j - Len(s)]
    BY <1>4, <1>8, <2>2 DEF Delivered, s
  <2>3. CASE j \in DOMAIN s /\ (s \o msgs)[j] = s[j]
             /\ i - Len(s) \in DOMAIN msgs /\ (s \o msgs)[i] = msgs[i - Len(s)]
    BY <1>4, <1>8, <2>3 DEF Delivered, s
  <2>4. CASE /\ i - Len(s) \in DOMAIN msgs /\ (s \o msgs)[i] = msgs[i - Len(s)] /\ i \in Nat
             /\ j - Len(s) \in DOMAIN msgs /\ (s \o msgs)[j] = msgs[j - Len(s)] /\ j \in Nat
    <3>1. i - Len(s) = j - Len(s)
      BY <1>8, <2>4 DEF Delivers
    <3> QED BY <2>0, <2>4, <3>1
  <2> QED BY <1>2, <2>1, <2>2, <2>3, <2>4
<1> QED BY <1>1, <1>6, <1>7, <1>8

LEMMA HandleKeepsOffers ==
    ASSUME IInv, OffersOK, NEW u \in Users, Handle(u), UNCHANGED browserVars
    PROVE  OffersOK'
<1>1. ASSUME NEW x \in Users
      PROVE  /\ \A m \in Placed(x)' : m.type = "offer" =>
                   \/ m \in Placed(x)
                   \/ m = Offer(u) /\ OfferPasses(u, x)
             /\ \A m \in Kept(x)' \cap Delivered(x)' : m.type # "offer"
             /\ \A i, j \in DOMAIN channel'[x] :
                   channel'[x][i].type = "offer" /\ channel'[x][i] = channel'[x][j] => i = j
  BY HandlePlaces
<1>2. /\ pending' \subseteq pending /\ posted' = posted
      /\ \A v \in Users : Served(v) => Served(v)'
      /\ \A v \in Members : v \in Users /\ Served(v)
  BY HandleTakes
<1>3. ASSUME NEW x \in Users, NEW m \in Placed(x)', m.type = "offer"
      PROVE  \E v \in Users \ {x} : /\ m = Offer(v) /\ "offer" \in posted'[v]
                                    /\ OfferRequest(v) \notin pending'
                                    /\ Served(v)' /\ Served(x)'
  <2>1. CASE m \in Placed(x)
    BY <1>2, <1>3, <2>1 DEF OffersOK
  <2>2. CASE m = Offer(u) /\ OfferPasses(u, x)
    <3>1. "offer" \in posted[u] /\ u \in Members /\ x \in Members /\ x # u
      BY <2>2, PassingIsNew
    <3>2. OfferRequest(u) \notin pending'
      BY <2>2 DEF OfferPasses
    <3> QED BY <1>2, <2>2, <3>1, <3>2
  <2> QED BY <1>1, <1>3, <2>1, <2>2
<1>4. ASSUME NEW x \in Users, NEW y \in Users, NEW m \in Placed(x)' \cap Placed(y)', m.type = "offer"
      PROVE  x = y
  <2>1. m \in Placed(x) \/ (m = Offer(u) /\ OfferPasses(u, x))
    BY <1>1, <1>4
  <2>2. m \in Placed(y) \/ (m = Offer(u) /\ OfferPasses(u, y))
    BY <1>1, <1>4
  <2>3. CASE m \in Placed(x) /\ m \in Placed(y)
    BY <1>4, <2>3 DEF OffersOK
  <2>4. CASE m = Offer(u) /\ OfferPasses(u, x)
    BY <2>2, <2>4, PassingIsNew
  <2>5. CASE m = Offer(u) /\ OfferPasses(u, y)
    BY <2>1, <2>5, PassingIsNew
  <2> QED BY <2>1, <2>2, <2>3, <2>4, <2>5
<1> QED BY <1>1, <1>3, <1>4 DEF OffersOK

LEMMA OffersOKStep ==
    ASSUME CallInv, CallsOK, OffersOK, [CallNext]_callVars
    PROVE  OffersOK'
<1>1. CASE UNCHANGED callVars
  BY <1>1 DEF callVars, netVars, OffersOK, Placed, Kept, Delivered, GetSavedMessages, Served
<1>2. ASSUME NEW u \in Users, Page(u) PROVE OffersOK'
  <2>1. UNCHANGED <<saved, channel>>
    BY <1>2, PagePosts
  <2>2. \A x \in Users : Placed(x)' = Placed(x) /\ Kept(x)' = Kept(x) /\ Delivered(x)' = Delivered(x)
    BY <2>1 DEF Placed, Kept, Delivered, GetSavedMessages
  <2>3. ASSUME NEW x \in Users, NEW m \in Placed(x), m.type = "offer"
        PROVE  \E v \in Users \ {x} : /\ m = Offer(v) /\ "offer" \in posted'[v]
                                      /\ OfferRequest(v) \notin pending'
                                      /\ Served(v)' /\ Served(x)'
    <3>1. PICK v \in Users \ {x} : /\ m = Offer(v) /\ "offer" \in posted[v]
                                   /\ OfferRequest(v) \notin pending
                                   /\ Served(v) /\ Served(x)
      BY <2>3 DEF OffersOK
    <3> QED BY <1>2, <3>1, PagePosts
  <2> QED BY <2>1, <2>2, <2>3 DEF OffersOK
<1>3. ASSUME NEW u \in Users, Handle(u), UNCHANGED <<browserVars, tab>> PROVE OffersOK'
  BY <1>3, HandleKeepsOffers DEF CallInv
<1> QED BY <1>1, <1>2, <1>3 DEF CallNext

LEMMA OffersOKStart == CallInit => OffersOK
<1> SUFFICES ASSUME CallInit PROVE OffersOK
  OBVIOUS
<1>1. saved = {} /\ \A x \in Users : channel[x] = <<>>
  BY DEF CallInit, NetInit
<1>2. \A x \in Users : DOMAIN channel[x] = {}
  <2>1. DOMAIN <<>> = {}
    OBVIOUS
  <2> QED BY <1>1, <2>1
<1>3. \A x \in Users : Kept(x) = {} /\ Delivered(x) = {} /\ Placed(x) = {}
  BY <1>1, <1>2 DEF Kept, Delivered, Placed, GetSavedMessages
<1> QED BY <1>2, <1>3 DEF OffersOK

-----------------------------------------------------------------------------
(* A bye follows the offer.                                                *)

ConnectRequest(u) == [kind |-> "connect", user |-> u, arg |-> "none"]

\* A member with a channel is connected, or its connect is on its way.
ConnectSoon ==
    \A u \in Members : chan[u] # "none" => u \in Connected \/ ConnectRequest(u) \in pending

\* Who called a member and said bye is out of the room, and the bye has gone where
\* the offer went.  A closed channel delivers nothing, and its sender says no bye.
ByeFollows ==
    \A x, v \in Users :
        /\ Offer(v) \in Placed(x)
        /\ x \in Members /\ v \notin Members
        /\ chan[x] # "closed" /\ chan[v] # "closed"
        => Bye(v) \in Placed(x)

\* ConnectPage delivers everything it found.
LEMMA ConnectDeliversAll ==
    ASSUME IInv, NEW u \in Users, ConnectPage(u), chan[u] # "closed"
    PROVE  Kept(u) \subseteq Placed(u)'
<1>0. channel \in [Users -> Seq(Payload)] /\ chan[u] = "open"
  <2>1. ConnectRequest(u) \in pending
    BY DEF ConnectPage, Take, ConnectRequest
  <2>2. ConnectRequest(u).kind = "connect" /\ ConnectRequest(u).user = u
    BY DEF ConnectRequest
  <2>3. chan[u] # "none"
    BY <2>1, <2>2 DEF IInv, PendingOK
  <2> QED BY <2>3 DEF IInv, TypeOK, NetTypeOK, ChanState
<1>1. CASE ~(room # NoRoom /\ HasUser(room, u))
  BY <1>1 DEF ConnectPage, Placed, Kept, GetSavedMessages
<1>2. CASE room # NoRoom /\ HasUser(room, u)
  <2>1. PICK order \in SetToSeqs(GetSavedMessages(u)) :
            Send(u, [i \in 1..Len(order) |-> order[i].message])
    BY <1>2 DEF ConnectPage
  <2> DEFINE msgs == [i \in 1..Len(order) |-> order[i].message]
             D == 1..Cardinality(GetSavedMessages(u))
  <2>2. channel'[u] = channel[u] \o msgs
    <3> HIDE DEF msgs
    <3>1. Send(u, msgs)
      BY <2>1 DEF msgs
    <3> QED BY <1>0, <3>1 DEF Send
  <2>3. IsFiniteSet(GetSavedMessages(u)) /\ Cardinality(GetSavedMessages(u)) \in Nat
    <3>1. GetSavedMessages(u) \subseteq saved
      BY DEF GetSavedMessages
    <3> QED BY <3>1, FS_Subset, FS_CardinalityType DEF IInv
  <2>4. order \in [D -> GetSavedMessages(u)] /\ \A i, j \in D : i # j => order[i] # order[j]
    BY <2>1 DEF SetToSeqs
  <2>5. IsFiniteSet(D) /\ Cardinality(D) = Cardinality(GetSavedMessages(u))
    BY <2>3, FS_Interval
  <2>6. order \in Injection(D, GetSavedMessages(u))
    <3> HIDE DEF D
    <3> QED BY <2>4 DEF Injection, IsInjective
  <2>7. order \in Surjection(D, GetSavedMessages(u))
    <3> HIDE DEF D
    <3> QED BY <2>3, <2>5, <2>6, FS_Injection
  <2>8. \A m \in GetSavedMessages(u) : \E i \in D : order[i] = m
    <3> HIDE DEF D
    <3> QED BY <2>7 DEF Surjection
  <2>9. 1..Len(order) = D /\ DOMAIN msgs = D /\ \A i \in D : msgs[i] = order[i].message
    <3>1. 1..Len(order) = D
      BY <2>3, <2>4
    <3> HIDE DEF D
    <3> QED BY <3>1
  <2>10. msgs \in Seq(Payload) /\ channel[u] \in Seq(Payload)
    BY <1>0, <2>1, SavedAsSequence
  <2> HIDE DEF msgs, D
  <2>11. ASSUME NEW i \in DOMAIN msgs PROVE msgs[i] \in Delivered(u)'
    <3>1. /\ Len(channel[u]) + i \in DOMAIN (channel[u] \o msgs)
          /\ (channel[u] \o msgs)[Len(channel[u]) + i] = msgs[i]
      BY <2>10
    <3> QED BY <2>2, <3>1 DEF Delivered
  <2>12. \A m \in GetSavedMessages(u) : m.message \in Delivered(u)'
    BY <2>8, <2>9, <2>11
  <2> QED BY <2>12 DEF Kept, Placed
<1> QED BY <1>1, <1>2

\* No handler takes back what has reached a member or will.
LEMMA PlacedStays ==
    ASSUME IInv, NEW u \in Users, Handle(u), UNCHANGED browserVars,
           NEW x \in Users, x \in Members', chan[x] # "closed"
    PROVE  Placed(x) \subseteq Placed(x)'
<1>1. Delivered(x) \subseteq Delivered(x)'
  <2>1. PICK msgs : msgs \in Seq(Payload) /\ channel'[x] = channel[x] \o msgs
    BY HandleDelivers DEF Delivers
  <2>2. channel[x] \in Seq(Payload)
    BY DEF IInv, TypeOK, NetTypeOK
  <2>3. ASSUME NEW i \in DOMAIN channel[x]
        PROVE  i \in DOMAIN channel'[x] /\ channel'[x][i] = channel[x][i]
    BY <2>1, <2>2
  <2> QED BY <2>3 DEF Delivered
<1>2. CASE saved \ GetSavedMessages(u) \subseteq saved' /\ x # u
  BY <1>1, <1>2 DEF Placed, Kept, GetSavedMessages
<1>3. CASE saved \subseteq saved'
  BY <1>1, <1>3 DEF Placed, Kept, GetSavedMessages
<1>4. ASSUME NEW r, NEW to, NEW msg, NEW before, OnMessage(r, to, msg, before)
      PROVE  before \subseteq saved'
  BY <1>4 DEF OnMessage
<1>5. CASE \E debug \in Debugs : MainPage(u, debug)
  BY <1>3, <1>5 DEF MainPage
<1>6. CASE ConnectPage(u)
  <2>1. CASE x = u
    BY <1>1, <1>6, <2>1, ConnectDeliversAll DEF Placed
  <2>2. CASE x # u
    BY <1>2, <1>6, <2>2 DEF ConnectPage
  <2> QED BY <2>1, <2>2
<1>7. CASE DisconnectPage(u)
  <2>1. x # u
    BY <1>7, DisconnectPageStep
  <2> QED BY <1>2, <1>7, <2>1 DEF DisconnectPage, RemoveFromRoom
<1>8. CASE ByePage(u)
  <2>1. x # u
    BY <1>8, ByePageStep
  <2> DEFINE left == saved \ GetSavedMessages(u)
  <2>2. \/ saved' = left \/ saved' = saved
        \/ OnMessage(RemoveUser(room, u), OtherUser(room, u), Bye(u), left)
    BY <1>8 DEF ByePage
  <2>3. left \subseteq saved'
    <3> HIDE DEF left
    <3>1. CASE OnMessage(RemoveUser(room, u), OtherUser(room, u), Bye(u), left)
      BY <1>4, <3>1
    <3> QED BY <2>2, <3>1 DEF left
  <2> QED BY <1>2, <2>1, <2>3
<1>9. CASE \E type \in PostTypes : MessagePage(u, type)
  <2>1. PICK type \in PostTypes : MessagePage(u, type)
    BY <1>9
  <2>2. \/ saved' = saved
        \/ OnMessage(room, OtherUser(room, u), Forwarded(u, OtherUser(room, u), type), saved)
    BY <2>1 DEF MessagePage
  <2> QED BY <1>3, <1>4, <2>2
<1> QED BY <1>5, <1>6, <1>7, <1>8, <1>9 DEF Handle

\* handle_message tells the other member of the bye.
LEMMA ByeReaches ==
    ASSUME IInv, NEW u \in Users, ByePage(u), UNCHANGED browserVars,
           u \in Members, NEW x \in Users, x \in Members, x # u, chan[x] # "closed"
    PROVE  Bye(u) \in Placed(x)'
<1> DEFINE r == RemoveUser(room, u)
           left == saved \ GetSavedMessages(u)
<1>1. room # NoRoom /\ {u, x} \subseteq {room.user1, room.user2} /\ x # NoUser
  BY DEF Members, MembersOf
<1>2. room \in RoomEntity /\ WellFormed(room) /\ channel \in [Users -> Seq(Payload)]
  BY <1>1 DEF IInv, TypeOK, NetTypeOK, RoomOK
<1>3. OtherUser(room, u) = x
  BY <1>1 DEF OtherUser
<1>4. MembersOf(r) = MembersOf(room) \ {u} /\ ConnectedOf(r) = ConnectedOf(room) \ {u}
      /\ r \in RoomEntity
  BY <1>2, RemoveUserFacts
<1>5. x \in MembersOf(r)
  BY <1>4 DEF Members
<1>6. HasUser(r, x)
  <2>1. r # NoRoom
    BY <1>4, AbsentIsNoEntity
  <2> QED BY <1>1, <1>5, <2>1 DEF MembersOf, HasUser
<1>7. OnMessage(r, x, Bye(u), left)
  BY <1>1, <1>3, <1>6 DEF ByePage
<1> HIDE DEF r, left
<1>8. CASE ~IsConnected(r, x) /\ saved' = left \cup {[client_id |-> x, message |-> Bye(u)]}
  <2>1. PICK e : e = [client_id |-> x, message |-> Bye(u)]
    OBVIOUS
  <2>2. e \in saved' /\ e.client_id = x /\ e.message = Bye(u)
    BY <1>8, <2>1
  <2> QED BY <2>2 DEF Placed, Kept, GetSavedMessages
<1>9. CASE IsConnected(r, x) /\ Send(x, <<Bye(u)>>)
  <2>1. x \in Connected
    BY <1>1, <1>4, <1>9, ConnectedIs DEF ConnectedOf
  <2>2. chan[x] = "open"
    BY <2>1 DEF IInv, ConnectedWasOpened, TypeOK, NetTypeOK, ChanState
  <2>3. PICK b : b = Bye(u)
    OBVIOUS
  <2>4. channel'[x] = channel[x] \o <<b>> /\ channel[x] \in Seq(Payload)
    BY <1>2, <1>9, <2>2, <2>3 DEF Send
  <2>5. /\ Len(channel[x]) + 1 \in DOMAIN (channel[x] \o <<b>>)
        /\ (channel[x] \o <<b>>)[Len(channel[x]) + 1] = b
    BY <2>4
  <2>6. b \in Delivered(x)'
    BY <2>4, <2>5 DEF Delivered
  <2> QED BY <2>3, <2>6 DEF Placed
<1> QED BY <1>7, <1>8, <1>9 DEF OnMessage

\* An offer is only passed on by handle_message, which leaves the members alone.
LEMMA PassingKeepsMembers ==
    ASSUME IInv, NEW u \in Users, Handle(u), UNCHANGED browserVars, NEW x, OfferPasses(u, x)
    PROVE  Members' = Members
<1>1. OfferRequest(u) \in pending /\ OfferRequest(u) \notin pending'
  BY DEF OfferPasses
<1>2. \A r : Take(r) => r = OfferRequest(u)
  BY <1>1 DEF Take
<1>3. CASE \E debug \in Debugs : MainPage(u, debug)
  BY <1>2, <1>3 DEF MainPage, OfferRequest
<1>4. CASE ConnectPage(u) \/ DisconnectPage(u) \/ ByePage(u)
  BY <1>2, <1>4 DEF ConnectPage, DisconnectPage, ByePage, OfferRequest
<1>5. CASE \E type \in PostTypes : MessagePage(u, type)
  BY <1>5, MessagePageStep
<1> QED BY <1>3, <1>4, <1>5 DEF Handle

\* What the handlers do to the members.
LEMMA HandleMembers ==
    ASSUME IInv, NEW u \in Users, Handle(u), UNCHANGED browserVars
    PROVE  \/ Members' = Members
           \/ Members' = Members \cup {u} /\ ~Served(u)
           \/ Members' = Members \ {u} /\ chan[u] = "closed"
           \/ Members' = Members \ {u} /\ ByePage(u)
<1>1. CASE \E debug \in Debugs : MainPage(u, debug)
  <2>1. PICK debug \in Debugs : MainPage(u, debug)
    BY <1>1
  <2>2. Members' = Members \/ Members' = Members \cup {u}
    BY <2>1, MainPageStep
  <2>3. [kind |-> "spy", user |-> u, arg |-> debug] \in pending
    BY <2>1 DEF MainPage, Take
  <2>4. ~Served(u)
    BY <2>3 DEF IInv, PendingOK, Served
  <2> QED BY <2>2, <2>4
<1>2. CASE ConnectPage(u)
  BY <1>2, ConnectPageStep
<1>3. CASE DisconnectPage(u)
  <2>1. [kind |-> "disconnect", user |-> u, arg |-> "none"] \in pending
    BY <1>3 DEF DisconnectPage, Take
  <2>2. chan[u] = "closed"
    BY <2>1 DEF IInv, PendingOK
  <2> QED BY <1>3, <2>2, DisconnectPageStep
<1>4. CASE ByePage(u)
  BY <1>4, ByePageStep
<1>5. CASE \E type \in PostTypes : MessagePage(u, type)
  BY <1>5, MessagePageStep
<1> QED BY <1>1, <1>2, <1>3, <1>4, <1>5 DEF Handle

\* A page takes back no request, and asks to be connected when it opens its channel.
LEMMA PageAddsRequests ==
    ASSUME IInv, NEW u \in Users, Page(u)
    PROVE  /\ pending \subseteq pending'
           /\ \A v \in Users :
                 /\ chan'[v] # "none" => chan[v] # "none" \/ ConnectRequest(v) \in pending'
                 /\ chan[v] = "closed" => chan'[v] = "closed"
<1>0. chan \in [Users -> ChanState]
  BY DEF IInv, TypeOK, NetTypeOK
<1>1. CASE UNCHANGED netVars
  BY <1>1 DEF netVars
<1>2. CASE \E type \in MsgTypes : SendMessage(u, type)
  BY <1>2 DEF SendMessage, Post
<1>3. CASE \E debug \in Debugs : OpenPage(u, debug) /\ UNCHANGED tab
  BY <1>3 DEF OpenPage, Post
<1>4. CASE OpenChannel(u)
  <2>1. /\ chan[u] = "none" /\ chan' = [chan EXCEPT ![u] = "open"]
        /\ pending' = pending \cup {ConnectRequest(u)}
    BY <1>4 DEF OpenChannel, Post, ConnectRequest
  <2> QED BY <1>0, <2>1
<1>5. CASE CloseChannel(u)
  <2>1. /\ chan[u] = "open" /\ chan' = [chan EXCEPT ![u] = "closed"]
        /\ pending \subseteq pending'
    BY <1>5 DEF CloseChannel, Post
  <2> QED BY <1>0, <2>1
<1>6. CASE \/ \E type \in {"offer", "answer"} : SetLocalAndSendMessage(u, type)
           \/ OnIceCandidate(u) \/ OnBeforeUnload(u)
  <2>1. \E type \in MsgTypes : SendMessage(u, type)
    BY <1>6 DEF SetLocalAndSendMessage, OnIceCandidate, OnBeforeUnload, MsgTypes
  <2> QED BY <1>2, <2>1
<1> QED BY <1>1, <1>3, <1>4, <1>5, <1>6
     DEF Page, Callback, Initialize, SocketOpens, OnChannelOpened, OnChannelMessage,
         OnUserMediaSuccess, OnHangup, Crash, ConnectionLost

LEMMA HandleConnects ==
    ASSUME IInv, ConnectSoon, NEW u \in Users, Handle(u), UNCHANGED browserVars
    PROVE  ConnectSoon'
<1>0. chan' = chan /\ Members \subseteq Users
  BY MembersAreUsers DEF IInv, browserVars
<1> SUFFICES ASSUME NEW v \in Members', chan[v] # "none"
             PROVE  v \in Connected' \/ ConnectRequest(v) \in pending'
  BY <1>0 DEF ConnectSoon
<1>1. v \in Members
  <2>1. v \in Members \/ (v = u /\ ~Served(u))
    BY HandleMembers
  <2> QED BY <2>1 DEF IInv, BrowserOK
<1>2. v \in Users /\ (v \in Connected \/ ConnectRequest(v) \in pending)
  BY <1>0, <1>1 DEF ConnectSoon
<1>4. CASE ConnectPage(u)
  <2>1. /\ u \in Members => Connected' = Connected \cup {u}
        /\ Connected \subseteq Connected'
    BY <1>4, ConnectPageStep
  <2>2. CASE v = u
    BY <1>1, <2>1, <2>2
  <2>3. CASE v # u
    <3>1. pending' = pending \ {ConnectRequest(u)} /\ ConnectRequest(v) # ConnectRequest(u)
      BY <1>4, <2>3 DEF ConnectPage, Take, ConnectRequest
    <3> QED BY <1>2, <2>1, <3>1
  <2> QED BY <2>2, <2>3
<1>5. CASE \E debug \in Debugs : MainPage(u, debug)
  <2>1. PICK debug \in Debugs : MainPage(u, debug)
    BY <1>5
  <2>2. /\ Connected' = Connected
        /\ pending' = pending \ {[kind |-> "spy", user |-> u, arg |-> debug]}
    BY <2>1, MainPageStep DEF MainPage, Take
  <2> QED BY <1>2, <2>2 DEF ConnectRequest
<1>6. CASE \E type \in PostTypes : MessagePage(u, type)
  <2>1. PICK type \in PostTypes : MessagePage(u, type)
    BY <1>6
  <2>2. /\ Connected' = Connected
        /\ pending' = pending \ {[kind |-> "message", user |-> u, arg |-> type]}
    BY <2>1, MessagePageStep DEF MessagePage, Take
  <2> QED BY <1>2, <2>2 DEF ConnectRequest
<1>7. CASE DisconnectPage(u)
  <2>1. /\ Members' = Members \ {u} /\ Connected' = Connected \ {u}
        /\ pending' = pending \ {[kind |-> "disconnect", user |-> u, arg |-> "none"]}
    BY <1>7, DisconnectPageStep DEF DisconnectPage, Take
  <2> QED BY <1>2, <2>1 DEF ConnectRequest
<1>8. CASE ByePage(u)
  <2>1. /\ Members' = Members \ {u} /\ Connected' = Connected \ {u}
        /\ pending' = pending \ {[kind |-> "message", user |-> u, arg |-> "bye"]}
    BY <1>8, ByePageStep DEF ByePage, Take
  <2> QED BY <1>2, <2>1 DEF ConnectRequest
<1> QED BY <1>4, <1>5, <1>6, <1>7, <1>8 DEF Handle

LEMMA ConnectSoonStep ==
    ASSUME IInv, IInv', ConnectSoon, CallInv, CallsOK, [CallNext]_callVars
    PROVE  ConnectSoon'
<1>1. CASE UNCHANGED callVars
  BY <1>1 DEF callVars, netVars, ConnectSoon, Members, Connected
<1>2. ASSUME NEW u \in Users, Page(u) PROVE ConnectSoon'
  <2>1. Members' = Members /\ Connected' = Connected
    BY <1>2, PagePosts DEF Members, Connected
  <2>2. /\ pending \subseteq pending'
        /\ \A v \in Users : chan'[v] # "none" =>
              chan[v] # "none" \/ ConnectRequest(v) \in pending'
    BY <1>2, PageAddsRequests
  <2>3. Members \subseteq Users
    BY MembersAreUsers DEF IInv
  <2> QED BY <2>1, <2>2, <2>3 DEF ConnectSoon
<1>3. ASSUME NEW u \in Users, Handle(u), UNCHANGED <<browserVars, tab>> PROVE ConnectSoon'
  BY <1>3, HandleConnects
<1> QED BY <1>1, <1>2, <1>3 DEF CallNext

LEMMA ConnectSoonStart == CallInit => ConnectSoon
  BY DEF CallInit, NetInit, ConnectSoon, Members, MembersOf

\* The argument for a handler: what was placed stays; an offer is placed only among
\* members, and with a member who was there before; and who leaves says bye.
LEMMA HandleByes ==
    ASSUME IInv, OffersOK, ByeFollows, NEW u \in Users, Handle(u), UNCHANGED browserVars
    PROVE  ByeFollows'
<1>0. chan' = chan
  BY DEF browserVars
<1> SUFFICES ASSUME NEW x \in Users, NEW v \in Users, Offer(v) \in Placed(x)',
                    x \in Members', v \notin Members',
                    chan[x] # "closed", chan[v] # "closed"
             PROVE  Bye(v) \in Placed(x)'
  BY <1>0 DEF ByeFollows
<1>1. Placed(x) \subseteq Placed(x)'
  BY PlacedStays
<1>2. Offer(v).type = "offer" /\ (Offer(v) = Offer(u) => v = u)
  BY DEF Offer
<1>3. Offer(v) \in Placed(x)
  <2>1. CASE \E y : OfferPasses(u, y) /\ Offer(v) = Offer(u)
    <3>1. u \in Members /\ v = u
      BY <1>2, <2>1, PassingIsNew
    <3>2. Members' = Members
      BY <2>1, PassingKeepsMembers
    <3> QED BY <3>1, <3>2
  <2>2. CASE ~(\E y : OfferPasses(u, y) /\ Offer(v) = Offer(u))
    BY <1>2, <2>2, HandlePlaces
  <2> QED BY <2>1, <2>2
<1>4. x \in Members
  <2>1. x \in Members \/ (x = u /\ ~Served(u))
    BY HandleMembers
  <2>2. Served(x)
    BY <1>2, <1>3 DEF OffersOK
  <2> QED BY <2>1, <2>2
<1>5. CASE v \notin Members
  BY <1>0, <1>1, <1>3, <1>4, <1>5 DEF ByeFollows
<1>6. CASE v \in Members
  <2>1. v = u /\ ByePage(u)
    BY <1>6, HandleMembers
  <2>2. x # u
    BY <1>4, <2>1
  <2> QED BY <1>4, <1>6, <2>1, <2>2, ByeReaches
<1> QED BY <1>5, <1>6

LEMMA ByeFollowsStep ==
    ASSUME CallInv, CallsOK, OffersOK, ByeFollows, [CallNext]_callVars
    PROVE  ByeFollows'
<1>0. IInv
  BY DEF CallInv
<1>1. CASE UNCHANGED callVars
  BY <1>1 DEF callVars, netVars, ByeFollows, Members, Placed, Kept, Delivered, GetSavedMessages
<1>2. ASSUME NEW u \in Users, Page(u) PROVE ByeFollows'
  <2>1. UNCHANGED <<room, saved, channel>>
    BY <1>2, PagePosts
  <2>2. Members' = Members /\ \A x : Placed(x)' = Placed(x)
    BY <2>1 DEF Members, Placed, Kept, Delivered, GetSavedMessages
  <2>3. \A x \in Users : chan[x] = "closed" => chan'[x] = "closed"
    BY <1>0, <1>2, PageAddsRequests
  <2> QED BY <2>2, <2>3 DEF ByeFollows
<1>3. ASSUME NEW u \in Users, Handle(u), UNCHANGED <<browserVars, tab>> PROVE ByeFollows'
  BY <1>0, <1>3, HandleByes
<1> QED BY <1>1, <1>2, <1>3 DEF CallNext

LEMMA ByeFollowsStart == CallInit => ByeFollows
  BY DEF CallInit, NetInit, ByeFollows, Members, MembersOf

-----------------------------------------------------------------------------
(* Who is left alone is idle.                                              *)

CallsInv == CallInv /\ CallsOK /\ OffersOK /\ ConnectSoon /\ ByeFollows

LEMMA CallsInvStep ==
    ASSUME PostTypesCoverCall
    PROVE  CallsInv /\ [CallNext]_callVars => CallsInv'
<1> SUFFICES ASSUME CallsInv, [CallNext]_callVars PROVE CallsInv'
  OBVIOUS
<1>1. CallInv'
  BY CallStep DEF CallsInv
<1>2. CallsOK' /\ OffersOK' /\ ByeFollows'
  BY CallsOKStep, OffersOKStep, ByeFollowsStep DEF CallsInv
<1>3. ConnectSoon'
  BY <1>1, ConnectSoonStep DEF CallsInv, CallInv
<1> QED BY <1>1, <1>2, <1>3 DEF CallsInv

LEMMA CallsInvStart == CallInit => CallsInv
  BY CallStart, CallsOKStart, OffersOKStart, ConnectSoonStart, ByeFollowsStart DEF CallsInv

\* Nobody but u closed a channel: the others left, if they did, with a bye.
OthersSaidBye(u) == \A v \in Users : chan[v] = "closed" => v = u

\* A page that waits to be called was made at most one offer, a caller none.
MadeOneOffer(u) ==
    IF page[u] = "callee" THEN OneOffer(channel[u]) ELSE ~HasOfferIn(channel[u])

LEMMA AloneThenIdle ==
    ASSUME CallsInv, Quiet, NEW u \in Users, Deserted(u), OthersSaidBye(u), MadeOneOffer(u)
    PROVE  tab[u].pc \in {"null", "new"}
<1> DEFINE p == tab[u]
           heard == channel[u]
           got == TypesHeard(p, heard)
<1>1. /\ Alive(u) /\ chan[u] = "open" /\ Members = {u} /\ ~p.initiator
      /\ pending = {} /\ p.channelReady /\ p.seen = Len(heard)
  BY DEF Deserted, Quiet, Caught
<1>2. /\ heard \in Seq(Payload) /\ Served(u) /\ Linked(p)
      /\ OneOffer(heard) => OneCall(p, page[u], posted[u], got)
  BY <1>1, CallIs DEF CallsInv
<1>3. OneOffer(heard)
  BY DEF MadeOneOffer, OneOffer, HasOfferIn
<1>4. ASSUME NEW i \in DOMAIN heard PROVE heard[i].type \in got
  <2>1. i <= p.seen
    BY <1>1, <1>2
  <2> QED BY <2>1 DEF TypesHeard
<1>5. CASE page[u] = "caller"
  <2>1. "offer" \notin got
    BY <1>5 DEF MadeOneOffer, HasOfferIn, TypesHeard
  <2>2. ~p.started
    BY <1>1, <1>2, <1>3, <1>5, <2>1 DEF OneCall, GivesUp
  <2> QED BY <1>2, <2>2 DEF Linked
<1>6. CASE page[u] = "callee"
  <2>1. Waits(p, got)
    BY <1>2, <1>3, <1>6 DEF OneCall
  <2>2. CASE "offer" \notin got
    BY <2>1, <2>2 DEF Waits
  <2>3. CASE "offer" \in got
    <3>1. PICK i \in DOMAIN heard : heard[i].type = "offer"
      BY <2>3 DEF TypesHeard
    <3>2. heard[i] \in Placed(u)
      BY <3>1 DEF Placed, Delivered
    <3>3. PICK v \in Users \ {u} : heard[i] = Offer(v)
      BY <3>1, <3>2 DEF CallsInv, OffersOK
    <3>4. Bye(v) \in Placed(u)
      BY <1>1, <3>2, <3>3 DEF CallsInv, ByeFollows, OthersSaidBye
    <3>5. u \in Connected
      BY <1>1 DEF CallsInv, ConnectSoon
    <3>6. Kept(u) = {}
      BY <3>5 DEF CallsInv, CallInv, IInv, SavedOnlyForWaiting, Kept, GetSavedMessages
    <3>7. PICK j \in DOMAIN heard : heard[j] = Bye(v)
      BY <3>4, <3>6 DEF Placed, Delivered
    <3>8. "bye" \in got
      BY <1>4, <3>7 DEF Bye
    <3>9. ~p.started
      BY <2>1, <3>8 DEF Waits
    <3> QED BY <1>2, <3>9 DEF Linked
  <2> QED BY <2>2, <2>3
<1> QED BY <1>2, <1>5, <1>6 DEF Served

\* At most two pages were served.
TwoServed ==
    \A u, v, w \in Users : Served(u) /\ Served(v) /\ Served(w) => u = v \/ u = w \/ v = w

\* With two pages, the first member of a full room is the one that waits, and a
\* caller who is alone was preceded by somebody.
Roles ==
    TwoServed /\ room # NoRoom =>
        /\ room.user2 \notin {NoUser, room.user1} => page[room.user1] = "callee"
        /\ room.user2 = NoUser /\ page[room.user1] = "caller" =>
              \E v \in Users \ {room.user1} : Served(v)

\* So offers go to those who wait.
OffersToCallees ==
    TwoServed => \A x \in Users : \A m \in Placed(x) : m.type = "offer" => page[x] = "callee"

LEMMA HandleRoles ==
    ASSUME IInv, Roles, NEW u \in Users, Handle(u), UNCHANGED browserVars
    PROVE  Roles'
<1>0. /\ \A v \in Users : Served(v) => Served(v)' /\ page'[v] = page[v]
      /\ \A v \in Members : v \in Users /\ Served(v)
      /\ room # NoRoom => room \in RoomEntity /\ WellFormed(room)
  BY HandleTakes, HandleServes DEF Served, IInv, TypeOK, NetTypeOK, RoomOK
<1> SUFFICES ASSUME TwoServed', room' # NoRoom
             PROVE  /\ room'.user2 \notin {NoUser, room'.user1} => page'[room'.user1] = "callee"
                    /\ room'.user2 = NoUser /\ page'[room'.user1] = "caller" =>
                          \E v \in Users \ {room'.user1} : Served(v)'
  BY DEF Roles
<1>1. TwoServed
  BY <1>0 DEF TwoServed
<1>2. room # NoRoom => /\ room.user1 \in Users /\ room.user2 \in Slot /\ Served(room.user1)
                       /\ room.user2 # NoUser => room.user2 \in Users /\ Served(room.user2)
  BY <1>0 DEF WellFormed, RoomEntity, Slot, Members, MembersOf
<1>3. CASE room # NoRoom /\ room'.user1 = room.user1 /\ room'.user2 = room.user2
  BY <1>0, <1>1, <1>2, <1>3 DEF Roles
<1>4. CASE \E debug \in Debugs : MainPage(u, debug)
  <2>1. PICK debug \in Debugs : MainPage(u, debug)
    BY <1>4
  <2>2. ~Served(u) /\ page \in [Users -> PageState]
    <3>1. [kind |-> "spy", user |-> u, arg |-> debug] \in pending
      BY <2>1 DEF MainPage, Take
    <3> QED BY <3>1 DEF IInv, PendingOK, Served, TypeOK, NetTypeOK
  <2>3. CASE UNCHANGED room
    BY <1>3, <2>3
  <2>4. CASE Admits(room, debug) /\ room # NoRoom /\ room' = AddUser(room, u)
             /\ page' = [page EXCEPT ![u] = Role(room, debug)]
    <3>1. room.user2 = NoUser /\ room'.user1 = room.user1 /\ room'.user2 = u
      BY <1>0, <1>2, <2>4, BlankSlotIsNoUser DEF Admits, Occupancy, AddUser, RoomEntity
    <3>2. Served(u)'
      BY <2>2, <2>4 DEF Role, Served
    <3>3. page[room.user1] # "caller"
      <4> SUFFICES ASSUME page[room.user1] = "caller" PROVE FALSE
        OBVIOUS
      <4>1. PICK v \in Users \ {room.user1} : Served(v)
        BY <1>1, <2>4, <3>1 DEF Roles
      <4> QED BY <1>0, <1>2, <2>2, <2>4, <3>2, <4>1 DEF TwoServed
    <3> QED BY <1>0, <1>2, <2>4, <3>1, <3>3, BlankSlotIsNoUser DEF Served
  <2>5. CASE room = NoRoom /\ debug # "loopback" /\ room' = AddUser(NewRoom, u)
             /\ page' = [page EXCEPT ![u] = Role(room, debug)]
    <3>1. room'.user1 = u /\ room'.user2 = NoUser
      BY <2>5 DEF AddUser, NewRoom
    <3>2. page'[u] = "callee"
      BY <2>2, <2>5 DEF Role
    <3> QED BY <3>1, <3>2
  <2>6. CASE room' = AddUser(AddUser(NewRoom, u), u)
    <3>1. room'.user1 = u /\ room'.user2 = u
      BY <2>6, BlankSlotIsNoUser DEF AddUser, NewRoom
    <3> QED BY <3>1, BlankSlotIsNoUser
  <2> QED BY <2>1, <2>3, <2>4, <2>5, <2>6 DEF MainPage
<1>5. CASE room # NoRoom /\ room' = StoreOrDelete(RemoveUser(room, u)) /\ page' = page
  <2>1. CASE u \notin {room.user1, room.user2}
    <3>1. RemoveUser(room, u) = room
      BY <2>1 DEF RemoveUser
    <3>2. room' = room
      BY <1>5, <3>1 DEF StoreOrDelete
    <3> QED BY <1>3, <1>5, <3>2
  <2>2. CASE u \in {room.user1, room.user2}
    <3>1. room' = RemoveUser(room, u) /\ Occupancy(room') > 0
      BY <1>5 DEF StoreOrDelete
    <3>2. room'.user2 = NoUser /\ room'.user1 \in {room.user1, room.user2} \ {u}
      <4>1. PICK q : q = RemoveUser(room, u)
        OBVIOUS
      <4>2. Occupancy(q) > 0
        BY <3>1, <4>1
      <4>3. q.user2 = NoUser /\ (q.user1 = NoUser \/ q.user1 \in {room.user1, room.user2} \ {u})
        BY <1>0, <1>2, <1>5, <2>2, <4>1 DEF RemoveUser, RoomEntity
      <4>4. q.user1 # NoUser
        BY <4>2, <4>3 DEF Occupancy
      <4> QED BY <3>1, <4>1, <4>3, <4>4
    <3>3. u \in Users \ {room'.user1} /\ Served(u)'
      <4>1. u \in {room.user1, room.user2} \ {NoUser}
        BY <2>2, BlankSlotIsNoUser
      <4>2. Served(u)
        BY <1>2, <1>5, <4>1
      <4> QED BY <1>0, <3>2, <4>2
    <3> QED BY <3>2, <3>3
  <2> QED BY <2>1, <2>2
<1>6. CASE UNCHANGED room
  BY <1>3, <1>6
<1>7. CASE ConnectPage(u)
  <2>1. CASE room # NoRoom /\ room' = SetConnected(room, u)
    <3>1. room'.user1 = room.user1 /\ room'.user2 = room.user2
      BY <1>0, <2>1 DEF SetConnected, RoomEntity
    <3> QED BY <1>3, <2>1, <3>1
  <2> QED BY <1>6, <1>7, <2>1 DEF ConnectPage
<1>8. CASE DisconnectPage(u)
  BY <1>5, <1>6, <1>8 DEF DisconnectPage, RemoveFromRoom
<1>9. CASE ByePage(u)
  BY <1>5, <1>6, <1>9 DEF ByePage
<1>10. CASE \E type \in PostTypes : MessagePage(u, type)
  BY <1>6, <1>10 DEF MessagePage
<1> QED BY <1>4, <1>7, <1>8, <1>9, <1>10 DEF Handle

\* The room of the sender and the receiver of an offer is full: the one who called
\* is its second member.
LEMMA HandleOffersToCallees ==
    ASSUME IInv, CallsOK, OffersOK, Roles, OffersToCallees,
           NEW u \in Users, Handle(u), UNCHANGED browserVars
    PROVE  OffersToCallees'
<1>0. \A v \in Users : Served(v) => Served(v)' /\ page'[v] = page[v]
  BY HandleTakes, HandleServes DEF Served
<1> SUFFICES ASSUME TwoServed', NEW x \in Users, NEW m \in Placed(x)', m.type = "offer"
             PROVE  page'[x] = "callee"
  BY DEF OffersToCallees
<1>1. TwoServed
  BY <1>0 DEF TwoServed
<1>2. m \in Placed(x) \/ (m = Offer(u) /\ OfferPasses(u, x))
  BY HandlePlaces
<1>3. CASE m \in Placed(x)
  <2>1. page[x] = "callee"
    BY <1>1, <1>3 DEF OffersToCallees
  <2> QED BY <1>0, <2>1 DEF Served
<1>4. CASE m = Offer(u) /\ OfferPasses(u, x)
  <2>1. "offer" \in posted[u] /\ u \in Members /\ x \in Members /\ x # u
    BY <1>4, PassingIsNew
  <2>2. page[u] = "caller"
    BY <2>1 DEF CallsOK, CallOK
  <2>3. room # NoRoom /\ {u, x} = {room.user1, room.user2} /\ x # NoUser /\ u # NoUser
    BY <2>1 DEF Members, MembersOf
  <2>4. page[room.user1] = "callee"
    BY <1>1, <2>1, <2>3 DEF Roles
  <2>5. page[x] = "callee"
    BY <2>2, <2>3, <2>4
  <2> QED BY <1>0, <2>5 DEF Served
<1> QED BY <1>2, <1>3, <1>4

LEMMA PageKeepsServed ==
    ASSUME CallInv, CallsOK, NEW u \in Users, Page(u)
    PROVE  \A v \in Users : Served(v) => page'[v] = page[v]
<1>0. page \in [Users -> PageState]
  BY DEF CallInv, IInv, TypeOK, NetTypeOK
<1>1. UNCHANGED page \/ \E debug \in Debugs : OpenPage(u, debug)
  BY DEF Page, Callback, Initialize, SocketOpens, OnChannelOpened, OnChannelMessage,
         OnUserMediaSuccess, OnHangup, Crash, ConnectionLost, SetLocalAndSendMessage,
         OnIceCandidate, OnBeforeUnload, SendMessage, OpenChannel, CloseChannel, serverVars, netVars
<1>2. UNCHANGED page \/ (page[u] = "none" /\ page' = [page EXCEPT ![u] = "loading"])
  BY <1>1 DEF OpenPage
<1> QED BY <1>0, <1>2 DEF Served

LEMMA RolesStep ==
    ASSUME CallsInv, Roles, OffersToCallees, [CallNext]_callVars
    PROVE  Roles' /\ OffersToCallees'
<1>0. /\ IInv /\ CallInv /\ CallsOK /\ OffersOK
      /\ room # NoRoom => room.user1 \in Users /\ Served(room.user1)
  BY DEF CallsInv, CallInv, IInv, TypeOK, NetTypeOK, RoomOK, WellFormed, RoomEntity, Slot,
         RoomIsAdmitted, Members, MembersOf
<1>1. ASSUME UNCHANGED <<room, saved, channel>>,
             \A v \in Users : Served(v) => Served(v)' /\ page'[v] = page[v]
      PROVE  Roles' /\ OffersToCallees'
  <2>1. TwoServed' => TwoServed
    BY <1>1 DEF TwoServed
  <2>2. Roles'
    BY <1>0, <1>1, <2>1 DEF Roles
  <2>3. \A x : Placed(x)' = Placed(x)
    BY <1>1 DEF Placed, Kept, Delivered, GetSavedMessages
  <2>4. OffersToCallees'
    BY <1>1, <2>1, <2>3 DEF OffersToCallees, Served
  <2> QED BY <2>2, <2>4
<1>2. CASE UNCHANGED callVars
  BY <1>1, <1>2 DEF callVars, netVars, Served
<1>3. ASSUME NEW u \in Users, Page(u) PROVE Roles' /\ OffersToCallees'
  BY <1>0, <1>1, <1>3, PagePosts, PageKeepsServed
<1>4. ASSUME NEW u \in Users, Handle(u), UNCHANGED <<browserVars, tab>>
      PROVE  Roles' /\ OffersToCallees'
  BY <1>0, <1>4, HandleRoles, HandleOffersToCallees
<1> QED BY <1>2, <1>3, <1>4 DEF CallNext

LEMMA RolesStart == CallInit => Roles /\ OffersToCallees
<1> SUFFICES ASSUME CallInit PROVE Roles /\ OffersToCallees
  OBVIOUS
<1>1. room = NoRoom /\ \A x \in Users : page[x] = "none"
  BY DEF CallInit, NetInit
<1>2. \A x \in Users : \A m \in Placed(x) : m.type # "offer"
  BY <1>1, OffersOKStart DEF OffersOK, Served
<1> QED BY <1>1, <1>2 DEF Roles, OffersToCallees

\* With two pages, a page is made one offer at most, and a caller none.
LEMMA TwoMakeOneOffer ==
    ASSUME CallsInv, OffersToCallees, TwoServed, NEW u \in Users
    PROVE  OneOffer(channel[u]) /\ (Served(u) => MadeOneOffer(u))
<1>1. ASSUME NEW i \in DOMAIN channel[u], channel[u][i].type = "offer"
      PROVE  /\ page[u] = "callee"
             /\ \E v \in Users \ {u} : channel[u][i] = Offer(v) /\ Served(v) /\ Served(u)
  <2>1. channel[u][i] \in Placed(u)
    BY DEF Placed, Delivered
  <2> QED BY <1>1, <2>1 DEF CallsInv, OffersOK, OffersToCallees
<1>2. ASSUME NEW i \in DOMAIN channel[u], NEW j \in DOMAIN channel[u],
             channel[u][i].type = "offer", channel[u][j].type = "offer"
      PROVE  i = j
  <2>1. PICK v \in Users \ {u} : channel[u][i] = Offer(v) /\ Served(v) /\ Served(u)
    BY <1>1, <1>2
  <2>2. PICK w \in Users \ {u} : channel[u][j] = Offer(w) /\ Served(w)
    BY <1>1, <1>2
  <2>3. v = w
    BY <2>1, <2>2 DEF TwoServed
  <2> QED BY <1>2, <2>1, <2>2, <2>3 DEF CallsInv, OffersOK
<1>3. page[u] # "callee" => ~HasOfferIn(channel[u])
  BY <1>1 DEF HasOfferIn
<1> QED BY <1>2, <1>3 DEF OneOffer, MadeOneOffer

\* A page that was made one offer posts no message twice.
LEMMA PageIsBrowserOnce ==
    ASSUME PostTypesCoverCall, CallInv, CallsOK, NEW u \in Users, Page(u), OneOffer(channel[u])
    PROVE  Browser(u) \/ UNCHANGED netVars
<1> SUFFICES ASSUME ~UNCHANGED netVars, NEW type \in PostTypes, PostAgain(u, type) PROVE FALSE
  BY PageIsBrowser
<1>0. /\ UNCHANGED <<page, chan, posted>>
      /\ page \in [Users -> PageState] /\ chan \in [Users -> ChanState]
      /\ posted \in [Users -> SUBSET MsgTypes]
  BY DEF PostAgain, serverVars, CallInv, IInv, TypeOK, NetTypeOK
<1>1. ASSUME NEW said, SendMessage(u, said), said \notin posted[u] PROVE FALSE
  <2>1. posted'[u] = posted[u] \cup {said}
    BY <1>0, <1>1 DEF SendMessage
  <2> QED BY <1>0, <1>1, <2>1
<1>2. CASE \E debug \in Debugs : OpenPage(u, debug) /\ UNCHANGED tab
  <2>1. page[u] = "none" /\ page'[u] = "loading"
    BY <1>0, <1>2 DEF OpenPage
  <2> QED BY <1>0, <2>1
<1>3. CASE OpenChannel(u) \/ CloseChannel(u)
  <2>1. chan'[u] # chan[u]
    BY <1>0, <1>3 DEF OpenChannel, CloseChannel
  <2> QED BY <1>0, <2>1
<1>4. CASE \E said \in {"offer", "answer"} : SetLocalAndSendMessage(u, said)
  <2>1. PICK said \in {"offer", "answer"} : SetLocalAndSendMessage(u, said)
    BY <1>4
  <2>2. Alive(u) /\ said \in tab[u].work /\ SendMessage(u, said)
    BY <2>1 DEF SetLocalAndSendMessage
  <2>3. said \notin posted[u]
    BY <2>2, CallIs DEF CallsOnce, OneCall, AnswersOnce
  <2> QED BY <1>1, <2>2, <2>3
<1>5. CASE OnIceCandidate(u)
  BY <1>1, <1>5 DEF OnIceCandidate
<1>6. CASE OnBeforeUnload(u)
  <2>1. "bye" \notin posted[u]
    BY <1>6, AliveIs DEF OnBeforeUnload
  <2> QED BY <1>1, <1>6, <2>1 DEF OnBeforeUnload
<1> QED BY <1>2, <1>3, <1>4, <1>5, <1>6
     DEF Page, Callback, Initialize, SocketOpens, OnChannelOpened, OnChannelMessage,
         OnUserMediaSuccess, OnHangup, Crash, ConnectionLost

\* What the pages, the server and the Channel service keep of a call, for any number
\* of page loads and in every order of requests and callbacks.
THEOREM CallsInvariance == ASSUME PostTypesCoverCall PROVE CallSpec => []CallsInv
<1>1. CallsInv /\ [CallNext]_callVars => CallsInv'
  BY CallsInvStep
<1> QED BY <1>1, CallsInvStart, PTL DEF CallSpec

\* Each caller makes one offer: whether it is sent on at once, saved for a receiver
\* who is not connected and replayed by connect, or dropped, it is never saved or
\* delivered twice, nor to two users, nor to its sender.
THEOREM OneOfferEach == ASSUME PostTypesCoverCall PROVE CallSpec => []OffersOK
<1>1. CallsInv => OffersOK
  BY DEF CallsInv
<1> QED BY <1>1, CallsInvariance, PTL

\* A bye follows the offer into the Message table or the channel: when a caller has
\* said bye and the bye was taken up, it is where the offer is, so a replay cannot
\* bring the offer without it.
THEOREM ByeFollowsOffer == ASSUME PostTypesCoverCall PROVE CallSpec => []ByeFollows
<1>1. CallsInv => ByeFollows
  BY DEF CallsInv
<1> QED BY <1>1, CallsInvariance, PTL

\* Among any number of page loads, nobody is left behind in a call with somebody who
\* said bye, if the page was made one offer at most, or called and was made none.
THEOREM AloneIsIdleOnceOffered ==
    ASSUME PostTypesCoverCall
    PROVE  CallSpec => [](Quiet => \A u \in Users :
               Deserted(u) /\ OthersSaidBye(u) /\ MadeOneOffer(u) => tab[u].pc \in {"null", "new"})
<1>1. CallsInv => (Quiet => \A u \in Users :
          Deserted(u) /\ OthersSaidBye(u) /\ MadeOneOffer(u) => tab[u].pc \in {"null", "new"})
  BY AloneThenIdle
<1> QED BY <1>1, CallsInvariance, PTL

LEMMA RolesInvariance ==
    ASSUME PostTypesCoverCall PROVE CallSpec => [](Roles /\ OffersToCallees)
<1>1. CallsInv /\ (Roles /\ OffersToCallees) /\ [CallNext]_callVars
      => (Roles /\ OffersToCallees)'
  BY RolesStep
<1> QED BY <1>1, RolesStart, CallsInvariance, PTL DEF CallSpec

\* A call of two: as long as at most two pages were served, nobody is left behind in
\* a call with somebody who said bye, however the offer, the candidates and the bye
\* were saved, replayed and queued.  It is false of three: of two callers in turn, the
\* replay may bring both byes before the second offer.
THEOREM AloneIsIdleOfTwo ==
    ASSUME PostTypesCoverCall PROVE CallSpec => [](TwoServed => AloneIsIdle)
<1>1. CallsInv /\ (Roles /\ OffersToCallees) => (TwoServed => AloneIsIdle)
  <2> SUFFICES ASSUME CallsInv, OffersToCallees, TwoServed, Quiet, NEW u \in Users,
                      Deserted(u), OthersSaidBye(u)
               PROVE  tab[u].pc \in {"null", "new"}
    BY DEF AloneIsIdle, OthersSaidBye
  <2>1. Served(u)
    BY AliveIs DEF Deserted, CallsInv
  <2>2. MadeOneOffer(u)
    BY <2>1, TwoMakeOneOffer
  <2> QED BY <2>2, AloneThenIdle
<1> QED BY <1>1, CallsInvariance, RolesInvariance, PTL

\* A call of two posts exactly what Signalling lets browsers post: no page answers
\* twice, so what is shown of the servers under Signalling holds of it.
THEOREM CallOfTwoIsSignalling ==
    ASSUME PostTypesCoverCall PROVE CallSpec /\ []TwoServed => ImplementsSignalling
<1>1. CallsInv /\ (Roles /\ OffersToCallees) /\ TwoServed /\ [CallNext]_callVars
      => [Next]_netVars
  <2> SUFFICES ASSUME CallsInv, OffersToCallees, TwoServed, [CallNext]_callVars
               PROVE  [Next]_netVars
    OBVIOUS
  <2>1. CASE UNCHANGED callVars
    BY <2>1 DEF callVars
  <2>2. ASSUME NEW u \in Users, Page(u) PROVE [Next]_netVars
    <3>1. OneOffer(channel[u])
      BY TwoMakeOneOffer
    <3>2. Browser(u) \/ UNCHANGED netVars
      BY <2>2, <3>1, PageIsBrowserOnce DEF CallsInv
    <3> QED BY <3>2 DEF Next
  <2>3. ASSUME NEW u \in Users, Handle(u), UNCHANGED <<browserVars, tab>> PROVE [Next]_netVars
    BY <2>3 DEF Next
  <2> QED BY <2>1, <2>2, <2>3 DEF CallNext
<1>2. CallInit => NetInit
  BY DEF CallInit
<1> QED BY <1>1, <1>2, CallsInvariance, RolesInvariance, PTL DEF CallSpec, ImplementsSignalling

-----------------------------------------------------------------------------
(* Two who stay get their call: first what the page of each side has done. *)

\* maybeStart was not missed: nothing that it waits for has come.
NothingMissed(p) ==
    ~(~p.started /\ p.signalingReady /\ p.media = "granted" /\ p.channelReady)

\* A page that waits to be called answers the offer, or keeps it until it may start.
CalleeTalks(p, said, got) ==
    /\ ~p.initiator /\ p.pc # "haveLocalOffer"
    /\ "offer" \in got =>
          \/ p.started /\ p.pc = "haveRemoteOffer" /\ "answer" \in p.work
          \/ p.started /\ p.pc = "stable" /\ "answer" \in said
          \/ ~p.started /\ p.signalingReady /\ HasOfferIn(p.msgQueue) /\ p.media # "none"
    /\ "offer" \notin got => ~p.signalingReady /\ (p.started <=> p.media = "none")

\* A page that calls makes its offer once it may start, and takes the answer.
CallerTalks(p, said, got) ==
    /\ p.initiator /\ p.signalingReady
    /\ \/ /\ "offer" \notin said /\ "answer" \notin got
          /\ \/ ~p.started /\ p.media # "none"
             \/ p.started /\ p.pc = "new" /\ "offer" \in p.work
       \/ /\ "offer" \in said /\ p.started
          /\ p.pc = IF "answer" \in got THEN "stable" ELSE "haveLocalOffer"

\* So it is until a bye comes.
Talks(p, served, said, got) ==
    /\ NothingMissed(p)
    /\ HasByeIn(p.msgQueue) => "bye" \in got
    /\ "bye" \notin got =>
          /\ p.video => p.started
          /\ served = "callee" => CalleeTalks(p, said, got)
          /\ served = "caller" /\ "offer" \notin got => CallerTalks(p, said, got)

\* calleeStart answers the offer of its queue, if no bye is in it.
LEMMA QueueIsAnswered ==
    ASSUME NEW p \in Tab, ~p.initiator, ~p.started, p.work = {}, ~HasByeIn(p.msgQueue),
           NEW q, q = [p EXCEPT !.pc = "new", !.started = TRUE], NEW t, t = CalleeStart(q)
    PROVE  /\ t.started /\ ~t.initiator /\ t.msgQueue = <<>> /\ t.media = p.media
           /\ t.signalingReady = p.signalingReady /\ t.pc # "haveLocalOffer"
           /\ HasOfferIn(p.msgQueue) => t.pc = "haveRemoteOffer" /\ "answer" \in t.work
<1> DEFINE G == {r \in Tab : /\ r.started /\ ~r.initiator /\ r.msgQueue = <<>> /\ r.media = p.media
                             /\ r.signalingReady = p.signalingReady /\ r.pc # "haveLocalOffer"}
           H == {r \in G : r.pc = "haveRemoteOffer" /\ "answer" \in r.work}
           base == [q EXCEPT !.msgQueue = <<>>]
<1>0. <<>> \in Seq(Payload)
  OBVIOUS
<1>1. q \in Tab /\ q.msgQueue = p.msgQueue /\ p.msgQueue \in Seq(Payload)
  BY DEF Tab
<1>2. /\ q.pc = "new" /\ q.started /\ ~q.initiator /\ q.media = p.media
      /\ q.signalingReady = p.signalingReady
  BY DEF Tab
<1>3. base \in G
  <2> HIDE DEF base
  <2> SUFFICES ASSUME NEW b, b = [q EXCEPT !.msgQueue = <<>>] PROVE b \in G
    BY DEF base
  <2> QED BY <1>0, <1>1, <1>2 DEF Tab
<1>4. ASSUME NEW r \in G, NEW i \in DOMAIN q.msgQueue
      PROVE  /\ Process(r, q.msgQueue[i]) \in G
             /\ q.msgQueue[i].type = "offer" \/ r \in H => Process(r, q.msgQueue[i]) \in H
  <2> DEFINE m == q.msgQueue[i]
  <2>1. m \in Payload /\ m.type # "bye"
    BY <1>1 DEF HasByeIn
  <2> HIDE DEF m
  <2>2. PICK s : s = Process(r, m)
    OBVIOUS
  <2>3. s \in G /\ (m.type = "offer" \/ r \in H => s \in H)
    BY <2>1, <2>2, ProcessFields
  <2> QED BY <2>2, <2>3 DEF m
<1>5. t \in G
  <2> HIDE DEF G, base
  <2>1. [q EXCEPT !.msgQueue = <<>>] \in G
    BY <1>3 DEF base
  <2> QED BY <1>1, <1>4, <2>1, CalleeStartIn
<1>6. ASSUME HasOfferIn(p.msgQueue) PROVE t \in H
  <2>1. PICK k \in DOMAIN q.msgQueue : q.msgQueue[k].type = "offer"
    BY <1>1, <1>6 DEF HasOfferIn
  <2>2. \A r \in G : Process(r, q.msgQueue[k]) \in H
    BY <1>4, <2>1
  <2>3. \A r \in H, i \in DOMAIN q.msgQueue : Process(r, q.msgQueue[i]) \in H
    BY <1>4
  <2>4. [q EXCEPT !.msgQueue = <<>>] \in G
    BY <1>3
  <2> HIDE DEF G, H
  <2> QED BY <1>1, <1>4, <2>1, <2>2, <2>3, <2>4, CalleeStartTurns
<1> QED BY <1>5, <1>6

\* maybeStart, with and without what it waits for.
LEMMA MaybeStartTalks ==
    ASSUME NEW p \in Tab, NEW q, q = MaybeStart(p), NEW served, NEW said, NEW got,
           Linked(p), CallsOnce(p, said),
           HasByeIn(p.msgQueue) => "bye" \in got,
           "bye" \notin got =>
              /\ p.video => p.started
              /\ served = "callee" => CalleeTalks(p, said, got)
              /\ served = "caller" /\ "offer" \notin got => CallerTalks(p, said, got)
    PROVE  Talks(q, served, said, got)
<1>1. CASE ~(~p.started /\ p.signalingReady /\ p.media = "granted" /\ p.channelReady)
  <2>1. q = p
    BY <1>1 DEF MaybeStart
  <2> QED BY <1>1, <2>1 DEF Talks, NothingMissed
<1>2. CASE ~p.started /\ p.signalingReady /\ p.media = "granted" /\ p.channelReady
  <2>1. PICK w : w = [p EXCEPT !.status = "waiting"]
    OBVIOUS
  <2>2. q = StartCall(w)
    BY <1>2, <2>1 DEF MaybeStart
  <2>3. /\ w \in Tab /\ w.media = p.media /\ w.msgQueue = p.msgQueue /\ w.video = p.video
        /\ w.initiator = p.initiator /\ w.signalingReady = p.signalingReady
        /\ ~w.started /\ w.work = {} /\ p.work = {}
    BY <1>2, <2>1 DEF Tab, Linked
  <2>4. PICK s : s = [w EXCEPT !.pc = "new", !.started = TRUE]
    OBVIOUS
  <2>5. /\ s \in Tab /\ s.media = p.media /\ s.msgQueue = p.msgQueue /\ s.video = p.video
        /\ s.initiator = p.initiator /\ s.signalingReady = p.signalingReady
        /\ s.started /\ s.work = {} /\ s.pc = "new"
    BY <2>3, <2>4 DEF Tab
  <2>6. CASE p.initiator
    <3>1. q = [s EXCEPT !.work = @ \cup {"offer"}]
      BY <2>2, <2>3, <2>4, <2>5, <2>6 DEF StartCall
    <3>2. /\ q.msgQueue = p.msgQueue /\ q.initiator /\ q.signalingReady /\ q.started
          /\ q.work = {"offer"} /\ q.pc = "new"
      BY <1>2, <2>5, <2>6, <3>1 DEF Tab
    <3> QED BY <1>2, <2>6, <3>2 DEF Talks, NothingMissed, CalleeTalks, CallerTalks
  <2>7. CASE ~p.initiator
    <3>1. q = CalleeStart(s)
      BY <2>2, <2>3, <2>4, <2>5, <2>7 DEF StartCall
    <3>2. q \in Starting(w) /\ (HasByeIn(p.msgQueue) => ~q.started)
      BY <2>3, <2>4, <2>7, <3>1, CalleeStartFields
    <3>3. q.msgQueue = <<>> /\ ~HasByeIn(<<>>) /\ (q.signalingReady => q.started)
      BY <3>2 DEF Starting, HasByeIn
    <3>4. CASE HasByeIn(p.msgQueue) \/ "bye" \in got
      BY <3>3, <3>4 DEF Talks, NothingMissed
    <3>5. CASE ~HasByeIn(p.msgQueue) /\ "bye" \notin got
      <4>1. /\ q.started /\ ~q.initiator /\ q.pc # "haveLocalOffer"
            /\ HasOfferIn(p.msgQueue) => q.pc = "haveRemoteOffer" /\ "answer" \in q.work
        BY <2>3, <2>4, <2>7, <3>1, <3>5, QueueIsAnswered
      <4>2. served = "callee" => CalleeTalks(q, said, got)
        BY <1>2, <3>5, <4>1 DEF CalleeTalks
      <4>3. ~(served = "caller" /\ "offer" \notin got)
        BY <2>7, <3>5 DEF CallerTalks
      <4> QED BY <3>3, <3>5, <4>1, <4>2, <4>3 DEF Talks, NothingMissed
    <3> QED BY <3>4, <3>5
  <2> QED BY <2>6, <2>7
<1> QED BY <1>1, <1>2

\* A queue that grows at its end.
LEMMA QueueAtEnd ==
    ASSUME NEW queue \in Seq(Payload), NEW msg \in Payload, NEW more, more = Append(queue, msg)
    PROVE  /\ more \in Seq(Payload)
           /\ HasOfferIn(queue) => HasOfferIn(more)
           /\ HasByeIn(more) => HasByeIn(queue) \/ msg.type = "bye"
<1>1. /\ more \in Seq(Payload)
      /\ \A i \in DOMAIN queue : i \in DOMAIN more /\ more[i] = queue[i]
      /\ \A i \in DOMAIN more : (i \in DOMAIN queue /\ more[i] = queue[i]) \/ more[i] = msg
  OBVIOUS
<1> QED BY <1>1 DEF HasOfferIn, HasByeIn

\* A queue that an offer is put in front of.
LEMMA QueueInFront ==
    ASSUME NEW queue \in Seq(Payload), NEW msg \in Payload, msg.type = "offer",
           NEW more, more = <<msg>> \o queue
    PROVE  /\ more \in Seq(Payload) /\ HasOfferIn(more)
           /\ HasByeIn(more) => HasByeIn(queue)
<1>1. /\ more \in Seq(Payload) /\ 1 \in DOMAIN more /\ more[1] = msg
      /\ \A i \in DOMAIN more : more[i] = msg \/ (i - 1 \in DOMAIN queue /\ more[i] = queue[i - 1])
  OBVIOUS
<1> QED BY <1>1 DEF HasOfferIn, HasByeIn

\* processSignalingMessage, of a page that calls or is started.
LEMMA ProcessTalks ==
    ASSUME NEW p \in Tab, NEW msg \in Payload, NEW q, q = Process(p, msg), p.initiator \/ p.started,
           NEW served, NEW said, NEW got, Talks(p, served, said, got),
           served = "callee" => Waits(p, got), msg.type = "offer" => "offer" \notin got,
           msg.type = "answer" => "offer" \in said
    PROVE  Talks(q, served, said, got \cup {msg.type})
<1> DEFINE all == got \cup {msg.type}
<1>0. ~HasByeIn(<<>>)
  BY DEF HasByeIn
<1>1. NothingMissed(q) /\ (HasByeIn(q.msgQueue) => "bye" \in all)
  BY <1>0, ProcessFields DEF Talks, NothingMissed
<1> SUFFICES ASSUME "bye" \notin all
             PROVE  /\ q.video => q.started
                    /\ served = "callee" => CalleeTalks(q, said, all)
                    /\ served = "caller" /\ "offer" \notin all => CallerTalks(q, said, all)
  BY <1>1 DEF Talks
<1>2. "bye" \notin got /\ msg.type # "bye" /\ (p.video => p.started)
  BY DEF Talks
<1>3. q.video => q.started
  BY <1>2, ProcessFields
<1>4. ASSUME served = "callee" PROVE CalleeTalks(q, said, all)
  <2>1. CalleeTalks(p, said, got) /\ p.started
    BY <1>2, <1>4 DEF Talks, CalleeTalks
  <2>2. CASE msg.type = "offer"
    <3>1. q.pc = "haveRemoteOffer" /\ "answer" \in q.work /\ q.started /\ ~q.initiator
      BY <2>1, <2>2, ProcessFields DEF CalleeTalks
    <3> QED BY <2>2, <3>1 DEF CalleeTalks
  <2>3. CASE msg.type # "offer"
    <3>1. q = p
      BY <1>2, <2>1, <2>3, ProcessFields DEF CalleeTalks
    <3> QED BY <2>1, <2>3, <3>1 DEF CalleeTalks
  <2> QED BY <2>2, <2>3
<1>5. ASSUME served = "caller", "offer" \notin all PROVE CallerTalks(q, said, all)
  <2>1. CallerTalks(p, said, got) /\ msg.type # "offer"
    BY <1>2, <1>5 DEF Talks
  <2>2. CASE msg.type = "answer"
    <3>1. p.started /\ p.pc = IF "answer" \in got THEN "stable" ELSE "haveLocalOffer"
      BY <2>1, <2>2 DEF CallerTalks
    <3>2. q.started /\ q.pc = "stable" /\ q.initiator /\ q.signalingReady
      BY <1>2, <2>1, <2>2, <3>1, ProcessFields DEF CallerTalks
    <3> QED BY <2>2, <3>2 DEF CallerTalks
  <2>3. CASE msg.type # "answer"
    <3>1. q = p
      BY <1>2, <2>1, <2>3, ProcessFields
    <3> QED BY <2>1, <2>3, <3>1 DEF CallerTalks
  <2> QED BY <2>2, <2>3
<1> QED BY <1>3, <1>4, <1>5

\* The queue of a page that waits to be called and has no connection yet.
LEMMA EnqueueTalks ==
    ASSUME NEW p \in Tab, NEW msg \in Payload, NEW q, q = Enqueue(p, msg), ~p.initiator, ~p.started,
           NEW served, NEW said, NEW got, Talks(p, served, said, got),
           Linked(p), CallsOnce(p, said), msg.type = "offer" => "offer" \notin got
    PROVE  Talks(q, served, said, got \cup {msg.type})
<1> DEFINE all == got \cup {msg.type}
<1>0. p.msgQueue \in Seq(Payload)
  BY TabFields
<1>1. CASE msg.type = "offer"
  <2>1. PICK queue : queue = <<msg>> \o p.msgQueue
    OBVIOUS
  <2>2. queue \in Seq(Payload) /\ HasOfferIn(queue) /\ (HasByeIn(queue) => HasByeIn(p.msgQueue))
    BY <1>0, <1>1, <2>1, QueueInFront
  <2>3. PICK r : r = [p EXCEPT !.msgQueue = queue, !.signalingReady = TRUE]
    OBVIOUS
  <2>4. q = MaybeStart(r)
    BY <1>1, <2>1, <2>3 DEF Enqueue
  <2>5. /\ r \in Tab /\ r.msgQueue = queue /\ r.signalingReady /\ ~r.initiator /\ ~r.started
        /\ r.pc = p.pc /\ r.work = p.work /\ r.media = p.media /\ r.video = p.video
    BY <2>2, <2>3 DEF Tab
  <2>6. Linked(r) /\ CallsOnce(r, said)
    BY <2>5 DEF Linked, CallsOnce
  <2>7. ASSUME "bye" \notin all
        PROVE  /\ r.video => r.started
               /\ served = "callee" => CalleeTalks(r, said, all)
               /\ served = "caller" /\ "offer" \notin all => CallerTalks(r, said, all)
    <3>1. served = "callee" => CalleeTalks(p, said, got)
      BY <2>7 DEF Talks
    <3>2. served = "callee" => CalleeTalks(r, said, all)
      BY <1>1, <2>2, <2>5, <3>1 DEF CalleeTalks
    <3> QED BY <1>1, <2>5, <2>7, <3>2 DEF Talks
  <2>8. HasByeIn(r.msgQueue) => "bye" \in all
    BY <2>2, <2>5 DEF Talks
  <2> HIDE DEF all
  <2> QED BY <2>4, <2>5, <2>6, <2>7, <2>8, MaybeStartTalks DEF all
<1>2. CASE msg.type # "offer"
  <2>1. PICK queue : queue = Append(p.msgQueue, msg)
    OBVIOUS
  <2>2. /\ queue \in Seq(Payload) /\ (HasOfferIn(p.msgQueue) => HasOfferIn(queue))
        /\ HasByeIn(queue) => HasByeIn(p.msgQueue) \/ msg.type = "bye"
    BY <1>0, <2>1, QueueAtEnd
  <2>3. q = [p EXCEPT !.msgQueue = queue]
    BY <1>2, <2>1 DEF Enqueue
  <2>4. /\ q.msgQueue = queue /\ q.signalingReady = p.signalingReady /\ q.initiator = p.initiator
        /\ q.started = p.started /\ q.pc = p.pc /\ q.work = p.work /\ q.media = p.media
        /\ q.video = p.video /\ q.channelReady = p.channelReady
    BY <2>3 DEF Tab
  <2>5. NothingMissed(q) /\ (HasByeIn(q.msgQueue) => "bye" \in all)
    BY <2>2, <2>4 DEF Talks, NothingMissed
  <2>6. ASSUME "bye" \notin all
        PROVE  /\ q.video => q.started
               /\ served = "callee" => CalleeTalks(q, said, all)
               /\ ~(served = "caller" /\ "offer" \notin all)
    <3>1. /\ p.video => p.started
          /\ served = "callee" => CalleeTalks(p, said, got)
          /\ ~(served = "caller" /\ "offer" \notin got)
      BY <2>6 DEF Talks, CallerTalks
    <3>2. served = "callee" => CalleeTalks(q, said, all)
      BY <1>2, <2>2, <2>4, <3>1 DEF CalleeTalks
    <3> QED BY <1>2, <2>4, <3>1, <3>2
  <2> QED BY <2>5, <2>6 DEF Talks
<1> QED BY <1>1, <1>2

\* onChannelMessage
LEMMA ReceiveTalks ==
    ASSUME NEW p \in Tab, NEW msg \in Payload, NEW q, q = Receive(p, msg),
           NEW served, NEW said, NEW got, Talks(p, served, said, got),
           Linked(p), CallsOnce(p, said), served = "callee" => Waits(p, got),
           msg.type = "offer" => "offer" \notin got, msg.type = "answer" => "offer" \in said
    PROVE  Talks(q, served, said, got \cup {msg.type})
<1>1. CASE ~p.initiator /\ ~p.started
  <2>1. q = Enqueue(p, msg)
    BY <1>1 DEF Receive
  <2> QED BY <1>1, <2>1, EnqueueTalks
<1>2. CASE p.initiator \/ p.started
  <2>1. q = Process(p, msg)
    BY <1>2 DEF Receive
  <2> QED BY <1>2, <2>1, ProcessTalks
<1> QED BY <1>1, <1>2

\* The page of a call that two stay in does what the calls need.
TalkOK(p, served, said, heard, socket) ==
    p.status \in {"waiting", "left"} /\ socket # "closed"
    => Talks(p, served, said, TypesHeard(p, heard))

TalksOK ==
    TwoServed => \A u \in Users : TalkOK(tab[u], page[u], posted[u], channel[u], chan[u])

\* An answer is for somebody who offered: with two there is nobody else.
AnswersOK ==
    TwoServed => \A x \in Users : \A m \in Placed(x) : m.type = "answer" => "offer" \in posted[x]

\* The parts of a state that what a page does between two messages builds on.
LEMMA TalkIs ==
    ASSUME CallsInv, OffersToCallees, TwoServed, TalksOK, NEW u \in Users, Alive(u)
    PROVE  /\ tab[u] \in Tab /\ tab[u].status \in {"waiting", "left"} /\ Served(u)
           /\ Linked(tab[u]) /\ CallsOnce(tab[u], posted[u])
           /\ OneCall(tab[u], page[u], posted[u], TypesHeard(tab[u], channel[u]))
           /\ chan[u] # "closed"
              => Talks(tab[u], page[u], posted[u], TypesHeard(tab[u], channel[u]))
<1>1. OneOffer(channel[u])
  BY TwoMakeOneOffer
<1>2. CallInv /\ CallsOK
  BY DEF CallsInv
<1> QED BY <1>1, <1>2, CallIs DEF TalksOK, TalkOK

LEMMA InitializeTalks ==
    ASSUME CallsInv, NEW u \in Users, Initialize(u)
    PROVE  \E p : /\ tab' = [tab EXCEPT ![u] = p]
                  /\ TalkOK(p, page[u], posted[u], channel[u], chan[u])
<1> DEFINE init == [NewTab EXCEPT !.status = "waiting", !.initiator = page[u] = "caller"]
           asked == [init EXCEPT !.media = "asked"]
           ready(p) == [p EXCEPT !.signalingReady = p.initiator]
           OK(p) == TalkOK(p, page[u], posted[u], channel[u], chan[u])
<1>0. /\ Served(u) /\ tab[u].status = "blank"
      /\ \/ tab' = [tab EXCEPT ![u] = ready(asked)]
         \/ tab' = [tab EXCEPT ![u] = ready(StartCall(init))]
  BY DEF Initialize, SetTab
<1>1. posted[u] = {} /\ channel[u] \in Seq(Payload)
  BY <1>0 DEF CallsInv, CallsOK, CallOK, CallInv, IInv, TypeOK, NetTypeOK
<1>2. init \in Tab /\ asked \in Tab
  BY NewTabIsTab DEF Tab
<1>3. /\ init.msgQueue = <<>> /\ init.work = {} /\ init.pc = "null" /\ ~init.started
      /\ init.initiator = (page[u] = "caller") /\ init.seen = 0 /\ init.media = "none"
      /\ ~init.video /\ ~init.signalingReady
      /\ asked.msgQueue = <<>> /\ asked.pc = "null" /\ ~asked.started /\ asked.media = "asked"
      /\ asked.initiator = (page[u] = "caller") /\ asked.seen = 0 /\ ~asked.video
  BY DEF NewTab
<1> HIDE DEF init, asked
<1>4. \A q \in Tab : q.seen = 0 => TypesHeard(q, channel[u]) = {}
  <2>1. DOMAIN channel[u] = 1 .. Len(channel[u])
    BY <1>1
  <2> QED BY <2>1 DEF TypesHeard
<1>5. ASSUME NEW p \in Tab, p.seen = 0, p.msgQueue = <<>>, p.video => p.started,
             p.initiator <=> page[u] = "caller", p.pc \in {"null", "new"},
             p.media # "granted", p.started <=> p.media = "none",
             p.started /\ p.initiator => p.pc = "new" /\ "offer" \in p.work
      PROVE  OK(ready(p))
  <2> PICK q : q = ready(p)
    OBVIOUS
  <2>1. /\ q \in Tab /\ q.seen = 0 /\ q.msgQueue = <<>> /\ q.work = p.work /\ q.pc = p.pc
        /\ q.started = p.started /\ q.initiator = p.initiator /\ q.media = p.media
        /\ q.signalingReady = p.initiator /\ q.video = p.video
    BY <1>5 DEF Tab
  <2> HIDE DEF ready
  <2>2. TypesHeard(q, channel[u]) = {} /\ ~HasByeIn(<<>>)
    BY <1>4, <2>1 DEF HasByeIn
  <2>3. NothingMissed(q)
    BY <1>5, <2>1 DEF NothingMissed
  <2>4. page[u] = "callee" => CalleeTalks(q, {}, {})
    BY <1>5, <2>1 DEF CalleeTalks
  <2>5. page[u] = "caller" => CallerTalks(q, {}, {})
    BY <1>5, <2>1 DEF CallerTalks
  <2>6. Talks(q, page[u], {}, {})
    BY <1>5, <2>1, <2>2, <2>3, <2>4, <2>5 DEF Talks
  <2> QED BY <1>1, <2>2, <2>6 DEF TalkOK
<1>6. OK(ready(asked))
  <2> HIDE DEF OK, ready
  <2> QED BY <1>2, <1>3, <1>5
<1>7. OK(ready(StartCall(init)))
  <2>1. PICK s : s = [init EXCEPT !.pc = "new", !.started = TRUE]
    OBVIOUS
  <2>2. /\ s \in Tab /\ s.seen = 0 /\ s.media = "none" /\ s.msgQueue = <<>> /\ s.work = {}
        /\ s.initiator = init.initiator /\ s.started /\ s.pc = "new"
    BY <1>2, <1>3, <2>1 DEF Tab
  <2>3. PICK q : q = StartCall(init)
    OBVIOUS
  <2>4. CASE init.initiator
    <3>1. q = [s EXCEPT !.work = @ \cup {"offer"}]
      BY <2>1, <2>2, <2>3, <2>4 DEF StartCall
    <3>2. /\ q \in Tab /\ q.seen = 0 /\ q.msgQueue = <<>> /\ q.started /\ q.pc = "new"
          /\ q.initiator = init.initiator /\ q.media = "none" /\ q.work = {"offer"}
      BY <2>2, <3>1 DEF Tab
    <3> HIDE DEF OK, ready
    <3> QED BY <1>3, <1>5, <2>3, <3>2
  <2>5. CASE ~init.initiator
    <3>1. q = CalleeStart(s)
      BY <2>1, <2>2, <2>3, <2>5 DEF StartCall
    <3>2. ~HasByeIn(init.msgQueue) /\ ~HasOfferIn(init.msgQueue)
      BY <1>3 DEF HasByeIn, HasOfferIn
    <3>3. q.started /\ ~q.initiator
      BY <1>2, <1>3, <2>1, <2>5, <3>1, <3>2, QueueIsAnswered
    <3>4. q \in Starting(init)
      BY <1>2, <1>3, <2>1, <2>5, <3>1, CalleeStartFields
    <3>5. /\ q \in Tab /\ q.seen = 0 /\ q.msgQueue = <<>> /\ q.pc \in {"null", "new"}
          /\ q.media = "none"
      BY <1>3, <3>2, <3>4 DEF Starting
    <3> HIDE DEF OK, ready
    <3> QED BY <1>3, <1>5, <2>3, <2>5, <3>3, <3>5
  <2> QED BY <2>4, <2>5
<1> HIDE DEF ready
<1> QED BY <1>0, <1>6, <1>7

LEMMA OpenedTalks ==
    ASSUME CallsInv, OffersToCallees, TwoServed, TalksOK, NEW u \in Users,
           OnChannelOpened(u) \/ OnUserMediaSuccess(u)
    PROVE  \E p : /\ tab' = [tab EXCEPT ![u] = p]
                  /\ TalkOK(p, page[u], posted[u], channel[u], chan[u])
<1> DEFINE p == tab[u]
           said == posted[u]
           got == TypesHeard(p, channel[u])
<1>1. /\ Alive(u)
      /\ \/ tab' = [tab EXCEPT ![u] = MaybeStart([p EXCEPT !.channelReady = TRUE])]
         \/ p.media = "asked" /\ tab' = [tab EXCEPT ![u] = MaybeStart([p EXCEPT !.media = "granted"])]
  BY DEF OnChannelOpened, OnUserMediaSuccess, SetTab
<1>2. /\ p \in Tab /\ Linked(p) /\ CallsOnce(p, said)
      /\ chan[u] # "closed" => Talks(p, page[u], said, got)
  BY <1>1, TalkIs
<1> HIDE DEF p, said, got
<1>3. ASSUME NEW s \in Tab, s.seen = p.seen, s.msgQueue = p.msgQueue, s.work = p.work,
             s.pc = p.pc, s.initiator = p.initiator, s.started = p.started,
             s.signalingReady = p.signalingReady, s.video = p.video,
             s.media = p.media \/ (p.media = "asked" /\ s.media = "granted")
      PROVE  TalkOK(MaybeStart(s), page[u], said, channel[u], chan[u])
  <2> PICK q : q = MaybeStart(s)
    OBVIOUS
  <2>1. Linked(s) /\ CallsOnce(s, said)
    BY <1>2, <1>3 DEF Linked, CallsOnce
  <2>2. q.seen = p.seen
    BY <1>3, <2>1, MaybeStartKeeps
  <2>3. TypesHeard(q, channel[u]) = got
    BY <2>2 DEF TypesHeard, got
  <2>4. ASSUME Talks(p, page[u], said, got) PROVE Talks(q, page[u], said, got)
    <3>1. HasByeIn(s.msgQueue) => "bye" \in got
      BY <1>3, <2>4 DEF Talks
    <3>2. ASSUME "bye" \notin got
          PROVE  /\ s.video => s.started
                 /\ page[u] = "callee" => CalleeTalks(s, said, got)
                 /\ page[u] = "caller" /\ "offer" \notin got => CallerTalks(s, said, got)
      <4>1. /\ p.video => p.started
            /\ page[u] = "callee" => CalleeTalks(p, said, got)
            /\ page[u] = "caller" /\ "offer" \notin got => CallerTalks(p, said, got)
        BY <2>4, <3>2 DEF Talks
      <4>2. page[u] = "callee" => CalleeTalks(s, said, got)
        BY <1>3, <4>1 DEF CalleeTalks
      <4>3. page[u] = "caller" /\ "offer" \notin got => CallerTalks(s, said, got)
        BY <1>3, <4>1 DEF CallerTalks
      <4> QED BY <1>3, <4>1, <4>2, <4>3
    <3> QED BY <2>1, <3>1, <3>2, MaybeStartTalks
  <2> QED BY <1>2, <2>3, <2>4 DEF TalkOK
<1>4. PICK ready : ready = [p EXCEPT !.channelReady = TRUE]
  OBVIOUS
<1>5. PICK granted : granted = [p EXCEPT !.media = "granted"]
  OBVIOUS
<1>6. TalkOK(MaybeStart(ready), page[u], said, channel[u], chan[u])
  <2>1. /\ ready \in Tab /\ ready.seen = p.seen /\ ready.msgQueue = p.msgQueue /\ ready.work = p.work
        /\ ready.pc = p.pc /\ ready.initiator = p.initiator /\ ready.started = p.started
        /\ ready.signalingReady = p.signalingReady /\ ready.video = p.video /\ ready.media = p.media
    BY <1>2, <1>4 DEF Tab
  <2> QED BY <1>3, <2>1
<1>7. p.media = "asked" => TalkOK(MaybeStart(granted), page[u], said, channel[u], chan[u])
  <2>1. /\ granted \in Tab /\ granted.seen = p.seen /\ granted.msgQueue = p.msgQueue
        /\ granted.work = p.work /\ granted.pc = p.pc /\ granted.initiator = p.initiator
        /\ granted.started = p.started /\ granted.signalingReady = p.signalingReady
        /\ granted.video = p.video /\ granted.media = "granted"
    BY <1>2, <1>5 DEF Tab
  <2> QED BY <1>3, <2>1
<1> QED BY <1>1, <1>4, <1>5, <1>6, <1>7 DEF said

LEMMA MessageTalks ==
    ASSUME CallsInv, OffersToCallees, TwoServed, TalksOK, AnswersOK, NEW u \in Users,
           OnChannelMessage(u)
    PROVE  \E p : /\ tab' = [tab EXCEPT ![u] = p]
                  /\ TalkOK(p, page[u], posted[u], channel[u], chan[u])
<1> DEFINE n == tab[u].seen + 1
           heard == channel[u]
           said == posted[u]
           got == TypesHeard(tab[u], heard)
<1>1. /\ Alive(u) /\ chan[u] = "open" /\ n \in DOMAIN heard
      /\ tab' = [tab EXCEPT ![u] = Receive([tab[u] EXCEPT !.seen = n], heard[n])]
  BY DEF OnChannelMessage, SetTab
<1>2. /\ tab[u] \in Tab /\ Linked(tab[u]) /\ CallsOnce(tab[u], said)
      /\ OneCall(tab[u], page[u], said, got) /\ Talks(tab[u], page[u], said, got)
  BY <1>1, TalkIs
<1>3. heard \in Seq(Payload) /\ tab[u].seen \in Nat /\ tab[u].seen <= Len(heard)
  BY <1>1, CallIs DEF CallsInv
<1>4. PICK p : p = [tab[u] EXCEPT !.seen = n]
  OBVIOUS
<1>5. PICK q : q = Receive(p, heard[n])
  OBVIOUS
<1>6. n \in Nat /\ heard[n] \in Payload
  BY <1>1, <1>3
<1>7. /\ p \in Tab /\ p.seen = n /\ p.msgQueue = tab[u].msgQueue /\ p.work = tab[u].work
      /\ p.pc = tab[u].pc /\ p.initiator = tab[u].initiator /\ p.video = tab[u].video
      /\ p.started = tab[u].started /\ p.media = tab[u].media
      /\ p.signalingReady = tab[u].signalingReady /\ p.channelReady = tab[u].channelReady
  <2> HIDE DEF n
  <2> QED BY <1>2, <1>4, <1>6 DEF Tab
<1> DEFINE msg == heard[n]
<1>8. /\ TypesHeard(p, heard) = got \cup {msg.type}
      /\ msg.type = "offer" => "offer" \notin got
  <2>1. OneOffer(heard)
    BY TwoMakeOneOffer
  <2>2. /\ TypesHeard(p, heard) = got \cup {msg.type}
        /\ OneOffer(heard) /\ msg.type = "offer" => "offer" \notin got
    <3> HIDE DEF heard
    <3> QED BY <1>1, <1>2, <1>3, <1>7, HearsMore
  <2> QED BY <2>1, <2>2
<1>9. msg.type = "answer" => "offer" \in said
  BY <1>1 DEF AnswersOK, Placed, Delivered
<1> HIDE DEF n, heard, said, got, msg
<1>10. /\ Linked(p) /\ CallsOnce(p, said) /\ (page[u] = "callee" => Waits(p, got))
       /\ Talks(p, page[u], said, got)
  BY <1>2, <1>7
     DEF Linked, CallsOnce, OneCall, Waits, Talks, NothingMissed, CalleeTalks, CallerTalks
<1>11. msg \in Payload /\ q = Receive(p, msg)
  BY <1>5, <1>6 DEF msg
<1>12. Talks(q, page[u], said, got \cup {msg.type})
  BY <1>7, <1>8, <1>9, <1>10, <1>11, ReceiveTalks
<1>13. q.seen = p.seen
  BY <1>7, <1>10, <1>11, ReceiveKeeps
<1>14. TypesHeard(q, heard) = got \cup {msg.type}
  BY <1>8, <1>13 DEF TypesHeard
<1>15. TalkOK(q, page[u], said, heard, chan[u])
  BY <1>12, <1>14 DEF TalkOK
<1> QED BY <1>1, <1>4, <1>5, <1>15 DEF heard, said

LEMMA SetLocalTalks ==
    ASSUME CallsInv, OffersToCallees, TwoServed, TalksOK, NEW u \in Users,
           NEW type \in {"offer", "answer"}, SetLocalAndSendMessage(u, type)
    PROVE  \E p : /\ tab' = [tab EXCEPT ![u] = p]
                  /\ TalkOK(p, page[u], posted[u] \cup {type}, channel[u], chan[u])
<1> DEFINE p == tab[u]
           said == posted[u]
           got == TypesHeard(p, channel[u])
           more == said \cup {type}
<1>1. /\ Alive(u) /\ type \in p.work
      /\ tab' = [tab EXCEPT ![u] = [p EXCEPT !.work = @ \ {type}, !.pc = SetLocal(@, type)]]
  BY DEF SetLocalAndSendMessage, SetTab
<1>2. /\ p \in Tab /\ Linked(p) /\ CallsOnce(p, said) /\ OneCall(p, page[u], said, got)
      /\ chan[u] # "closed" => Talks(p, page[u], said, got)
  BY <1>1, TalkIs
<1>3. PICK q : q = [p EXCEPT !.work = @ \ {type}, !.pc = SetLocal(@, type)]
  OBVIOUS
<1>4. \/ SetLocal(p.pc, type) = p.pc
      \/ type = "offer" /\ p.pc = "new" /\ SetLocal(p.pc, type) = "haveLocalOffer"
      \/ type = "answer" /\ p.pc = "haveRemoteOffer" /\ SetLocal(p.pc, type) = "stable"
  BY DEF SetLocal
<1>5. tab' = [tab EXCEPT ![u] = q]
  BY <1>1, <1>3
<1> HIDE DEF p
<1>6. /\ q.msgQueue = p.msgQueue /\ q.work = p.work \ {type}
      /\ q.pc = SetLocal(p.pc, type) /\ q.seen = p.seen /\ q.channelReady = p.channelReady
      /\ q.initiator = p.initiator /\ q.started = p.started /\ q.media = p.media
      /\ q.signalingReady = p.signalingReady /\ q.video = p.video
  BY <1>2, <1>3, <1>4 DEF Tab
<1>7. p.started
  BY <1>1, <1>2 DEF Linked
<1>8. TypesHeard(q, channel[u]) = got
  BY <1>6 DEF TypesHeard
<1> HIDE DEF said, got
<1>9. ASSUME Talks(p, page[u], said, got) PROVE Talks(q, page[u], more, got)
  <2>1. NothingMissed(q) /\ (HasByeIn(q.msgQueue) => "bye" \in got)
    BY <1>6, <1>9 DEF Talks, NothingMissed
  <2>2. ASSUME "bye" \notin got, page[u] = "callee" PROVE CalleeTalks(q, more, got)
    <3>1. CalleeTalks(p, said, got) /\ type = "answer"
      BY <1>1, <1>2, <1>9, <2>2 DEF Talks, OneCall, Waits
    <3>2. "offer" \in got /\ "answer" \notin said
      BY <1>1, <1>2, <3>1 DEF OneCall, AnswersOnce
    <3>3. p.pc = "haveRemoteOffer" /\ ~p.initiator
      BY <1>7, <3>1, <3>2 DEF CalleeTalks
    <3>4. q.pc = "stable" /\ q.started /\ ~q.initiator /\ "answer" \in more
      BY <1>6, <1>7, <3>1, <3>3 DEF SetLocal
    <3> QED BY <3>2, <3>4 DEF CalleeTalks
  <2>3. ASSUME "bye" \notin got, page[u] = "caller", "offer" \notin got
        PROVE  CallerTalks(q, more, got)
    <3>1. CallerTalks(p, said, got)
      BY <1>9, <2>3 DEF Talks
    <3>2. type = "offer"
      BY <1>1, <1>2, <2>3 DEF OneCall, AnswersOnce
    <3>3. "offer" \notin said
      BY <1>1, <1>2, <3>2 DEF CallsOnce
    <3>4. "answer" \notin got /\ p.pc = "new" /\ p.initiator /\ p.signalingReady
      BY <1>7, <3>1, <3>3 DEF CallerTalks
    <3>5. q.pc = "haveLocalOffer" /\ q.started /\ q.initiator /\ q.signalingReady /\ "offer" \in more
      BY <1>6, <1>7, <3>2, <3>4 DEF SetLocal
    <3> QED BY <3>4, <3>5 DEF CallerTalks
  <2>4. "bye" \notin got => (q.video => q.started)
    BY <1>6, <1>7
  <2> QED BY <2>1, <2>2, <2>3, <2>4 DEF Talks
<1>10. TalkOK(q, page[u], more, channel[u], chan[u])
  BY <1>2, <1>8, <1>9 DEF TalkOK
<1> QED BY <1>5, <1>10 DEF said

LEMMA HangupTalks ==
    ASSUME CallsInv, OffersToCallees, TwoServed, TalksOK, NEW u \in Users, OnHangup(u)
    PROVE  \E p : /\ tab' = [tab EXCEPT ![u] = p]
                  /\ TalkOK(p, page[u], posted[u], channel[u], chan'[u])
<1> DEFINE p == tab[u]
           said == posted[u]
           got == TypesHeard(p, channel[u])
<1>0. chan \in [Users -> ChanState]
  BY DEF CallsInv, CallInv, IInv, TypeOK, NetTypeOK
<1>1. PICK left : left = [p EXCEPT !.status = "left", !.video = FALSE]
  OBVIOUS
<1>2. PICK idle : idle = [left EXCEPT !.started = FALSE, !.signalingReady = FALSE]
  OBVIOUS
<1>3. /\ Alive(u) /\ p.video
      /\ \/ tab' = [tab EXCEPT ![u] = left] /\ chan' = chan
         \/ p.pc = "null" /\ tab' = [tab EXCEPT ![u] = idle] /\ chan' = chan
         \/ tab' = [tab EXCEPT ![u] = Stop(left)] /\ chan'[u] = "closed"
  BY <1>0, <1>1, <1>2 DEF OnHangup, SetTab, CloseChannel, netVars
<1>4. p \in Tab /\ Linked(p) /\ (chan[u] # "closed" => Talks(p, page[u], said, got))
  BY <1>3, TalkIs
<1> HIDE DEF p, said
<1>5. /\ left \in Tab /\ left.seen = p.seen /\ left.media = p.media /\ ~left.video
      /\ left.msgQueue = p.msgQueue /\ left.work = p.work /\ left.pc = p.pc
      /\ left.initiator = p.initiator /\ left.started = p.started
      /\ left.signalingReady = p.signalingReady /\ left.channelReady = p.channelReady
  BY <1>1, <1>4 DEF Tab
<1>6. idle.seen = p.seen /\ ~idle.signalingReady /\ idle.msgQueue = p.msgQueue
  BY <1>2, <1>5 DEF Tab
<1>7. TypesHeard(left, channel[u]) = got /\ TypesHeard(idle, channel[u]) = got
  BY <1>5, <1>6 DEF TypesHeard
<1> HIDE DEF got
<1>8. TalkOK(left, page[u], said, channel[u], chan[u])
  <2>1. Talks(p, page[u], said, got) => Talks(left, page[u], said, got)
    BY <1>5 DEF Talks, NothingMissed, CalleeTalks, CallerTalks
  <2> QED BY <1>4, <1>7, <2>1 DEF TalkOK
<1>9. p.pc = "null" => TalkOK(idle, page[u], said, channel[u], chan[u])
  <2> SUFFICES ASSUME p.pc = "null", Talks(p, page[u], said, got)
               PROVE  Talks(idle, page[u], said, got)
    BY <1>4, <1>7 DEF TalkOK
  <2>1. ~p.started
    BY <1>4 DEF Linked
  <2>2. "bye" \in got
    BY <1>3, <2>1 DEF Talks
  <2> QED BY <1>6, <2>2 DEF Talks, NothingMissed
<1>10. chan'[u] = "closed" => TalkOK(Stop(left), page[u], said, channel[u], chan'[u])
  BY DEF TalkOK
<1> QED BY <1>3, <1>8, <1>9, <1>10 DEF said

\* A callback of u changes nothing for the others.
LEMMA OnlyTalks ==
    ASSUME CallsInv, TwoServed, TalksOK, NEW u \in Users, NEW p, tab' = [tab EXCEPT ![u] = p],
           UNCHANGED <<page, channel>>,
           \A v \in Users \ {u} : posted'[v] = posted[v] /\ chan'[v] = chan[v],
           TalkOK(p, page[u], posted'[u], channel[u], chan'[u])
    PROVE  TalksOK'
<1> SUFFICES ASSUME NEW v \in Users
             PROVE  TalkOK(tab'[v], page'[v], posted'[v], channel'[v], chan'[v])
  BY DEF TalksOK
<1>1. tab'[u] = p /\ (v # u => tab'[v] = tab[v])
  BY DEF CallsInv, CallInv
<1>2. CASE v = u
  BY <1>1, <1>2
<1>3. CASE v # u
  <2>1. posted'[v] = posted[v] /\ chan'[v] = chan[v] /\ tab'[v] = tab[v]
    BY <1>1, <1>3
  <2> QED BY <2>1 DEF TalksOK
<1> QED BY <1>2, <1>3

LEMMA PageKeepsTalks ==
    ASSUME CallsInv, OffersToCallees, TwoServed, TalksOK, AnswersOK, NEW u \in Users, Page(u)
    PROVE  TalksOK'
<1>0. /\ posted \in [Users -> SUBSET MsgTypes] /\ chan \in [Users -> ChanState]
      /\ page \in [Users -> PageState] /\ tab \in [Users -> Tab]
  BY DEF CallsInv, CallInv, IInv, TypeOK, NetTypeOK
<1>1. ASSUME NEW type, SendMessage(u, type)
      PROVE  /\ posted'[u] = posted[u] \cup {type} /\ UNCHANGED <<page, channel, chan>>
             /\ \A v \in Users \ {u} : posted'[v] = posted[v] /\ chan'[v] = chan[v]
  BY <1>0, <1>1 DEF SendMessage, serverVars
<1>2. CASE \E debug \in Debugs : OpenPage(u, debug) /\ UNCHANGED tab
  <2>1. /\ page[u] = "none" /\ page' = [page EXCEPT ![u] = "loading"]
        /\ UNCHANGED <<channel, posted, chan, tab>>
    BY <1>2 DEF OpenPage
  <2>2. tab[u].status \notin {"waiting", "left"}
    BY <2>1 DEF CallsInv, CallInv, PagesOK, PageOK
  <2>3. ASSUME NEW v \in Users PROVE TalkOK(tab[v], page'[v], posted[v], channel[v], chan[v])
    <3>1. CASE v = u
      BY <2>2, <3>1 DEF TalkOK
    <3>2. CASE v # u
      BY <1>0, <2>1, <3>2 DEF TalksOK
    <3> QED BY <3>1, <3>2
  <2> QED BY <2>1, <2>3 DEF TalksOK
<1>3. CASE SocketOpens(u)
  <2>1. /\ Served(u) /\ chan[u] = "none" /\ chan' = [chan EXCEPT ![u] = "open"]
        /\ UNCHANGED <<page, channel, posted, tab>>
    BY <1>3 DEF SocketOpens, OpenChannel, serverVars
  <2> SUFFICES ASSUME NEW v \in Users
               PROVE  TalkOK(tab[v], page[v], posted[v], channel[v], chan'[v])
    BY <2>1 DEF TalksOK
  <2>2. TalkOK(tab[v], page[v], posted[v], channel[v], chan[v])
    BY DEF TalksOK
  <2>3. chan'[v] = "closed" => chan[v] = "closed"
    BY <1>0, <2>1
  <2>4. chan[v] = "closed" => chan'[v] = "closed"
    BY <1>0, <2>1
  <2> QED BY <2>2, <2>3, <2>4 DEF TalkOK
<1>4. CASE ConnectionLost(u)
  <2>1. chan' = [chan EXCEPT ![u] = "closed"] /\ UNCHANGED <<page, channel, posted, tab>>
    BY <1>4 DEF ConnectionLost, CloseChannel, serverVars
  <2> SUFFICES ASSUME NEW v \in Users
               PROVE  TalkOK(tab[v], page[v], posted[v], channel[v], chan'[v])
    BY <2>1 DEF TalksOK
  <2>2. TalkOK(tab[v], page[v], posted[v], channel[v], chan[v])
    BY DEF TalksOK
  <2>3. chan'[v] # "closed" => chan'[v] = chan[v]
    BY <1>0, <2>1
  <2> QED BY <2>2, <2>3 DEF TalkOK
<1>5. CASE Initialize(u)
  <2>1. UNCHANGED <<page, channel, posted, chan>>
    BY <1>5 DEF Initialize, netVars
  <2> QED BY <1>5, <2>1, InitializeTalks, OnlyTalks
<1>6. CASE OnChannelOpened(u) \/ OnUserMediaSuccess(u)
  <2>1. UNCHANGED <<page, channel, posted, chan>>
    BY <1>6 DEF OnChannelOpened, OnUserMediaSuccess, netVars
  <2> QED BY <1>6, <2>1, OpenedTalks, OnlyTalks
<1>7. CASE OnChannelMessage(u)
  <2>1. UNCHANGED <<page, channel, posted, chan>>
    BY <1>7 DEF OnChannelMessage, netVars
  <2> QED BY <1>7, <2>1, MessageTalks, OnlyTalks
<1>8. CASE \E type \in {"offer", "answer"} : SetLocalAndSendMessage(u, type)
  <2>1. PICK type \in {"offer", "answer"} : SetLocalAndSendMessage(u, type)
    BY <1>8
  <2>2. SendMessage(u, type)
    BY <2>1 DEF SetLocalAndSendMessage
  <2>3. PICK p : /\ tab' = [tab EXCEPT ![u] = p]
                 /\ TalkOK(p, page[u], posted[u] \cup {type}, channel[u], chan[u])
    BY <2>1, SetLocalTalks
  <2> QED BY <1>1, <2>2, <2>3, OnlyTalks
<1>9. CASE OnIceCandidate(u)
  <2>1. SendMessage(u, "candidate") /\ tab' = tab
    BY <1>9 DEF OnIceCandidate
  <2>2. PICK p : p = tab[u]
    OBVIOUS
  <2>3. tab' = [tab EXCEPT ![u] = p]
    BY <1>0, <2>1, <2>2
  <2>4. PICK said : said = posted[u] \cup {"candidate"}
    OBVIOUS
  <2>5. ("offer" \in said <=> "offer" \in posted[u]) /\ ("answer" \in said <=> "answer" \in posted[u])
    BY <2>4
  <2>6. TalkOK(p, page[u], posted[u], channel[u], chan[u])
    BY <2>2 DEF TalksOK
  <2>7. TalkOK(p, page[u], said, channel[u], chan[u])
    BY <2>5, <2>6 DEF TalkOK, Talks, CalleeTalks, CallerTalks
  <2> QED BY <1>1, <2>1, <2>3, <2>4, <2>7, OnlyTalks
<1>10. CASE OnHangup(u)
  <2>1. /\ UNCHANGED <<page, channel, posted>>
        /\ \A v \in Users \ {u} : chan'[v] = chan[v]
    BY <1>0, <1>10 DEF OnHangup, netVars, CloseChannel, serverVars
  <2> QED BY <1>10, <2>1, HangupTalks, OnlyTalks
<1> DEFINE gone == Unloaded(tab[u])
<1>11. gone.status = "unloaded"
  BY DEF Unloaded, NewTab
<1> HIDE DEF gone
<1>12. TalkOK(gone, page[u], posted'[u], channel[u], chan'[u])
  BY <1>11 DEF TalkOK
<1>13. CASE OnBeforeUnload(u)
  <2>1. SendMessage(u, "bye") /\ tab' = [tab EXCEPT ![u] = gone]
    BY <1>13 DEF OnBeforeUnload, SetTab, gone
  <2> QED BY <1>1, <1>12, <2>1, OnlyTalks
<1>14. CASE Crash(u)
  <2>1. tab' = [tab EXCEPT ![u] = gone] /\ UNCHANGED <<page, channel, posted, chan>>
    BY <1>14 DEF Crash, SetTab, netVars, gone
  <2> QED BY <1>12, <2>1, OnlyTalks
<1> QED BY <1>2, <1>3, <1>4, <1>5, <1>6, <1>7, <1>8, <1>9, <1>10, <1>13, <1>14 DEF Page, Callback

\* More messages behind those that were received change nothing for the page.
LEMMA TalkGrows ==
    ASSUME NEW p \in Tab, NEW served, NEW said, NEW heard \in Seq(Payload), NEW socket,
           p.seen <= Len(heard), TalkOK(p, served, said, heard, socket), NEW msgs \in Seq(Payload)
    PROVE  TalkOK(p, served, said, heard \o msgs, socket)
<1> DEFINE more == heard \o msgs
<1>1. p.seen \in Nat
  BY TabFields
<1>2. /\ Len(more) = Len(heard) + Len(msgs) /\ Len(heard) \in Nat /\ Len(msgs) \in Nat
      /\ DOMAIN more = 1 .. Len(more) /\ DOMAIN heard = 1 .. Len(heard)
      /\ \A i \in DOMAIN heard : i \in DOMAIN more /\ more[i] = heard[i]
  OBVIOUS
<1> HIDE DEF more
<1>3. {j \in DOMAIN more : j <= p.seen} = {j \in DOMAIN heard : j <= p.seen}
  BY <1>1, <1>2
<1>4. TypesHeard(p, more) = TypesHeard(p, heard)
  BY <1>2, <1>3 DEF TypesHeard
<1> QED BY <1>4 DEF TalkOK, more

LEMMA HandleKeepsTalks ==
    ASSUME CallsInv, TalksOK, NEW u \in Users, Handle(u), UNCHANGED <<browserVars, tab>>
    PROVE  TalksOK'
<1>0. IInv /\ UNCHANGED <<browserVars, posted, chan, tab>>
  BY DEF CallsInv, CallInv, browserVars
<1>1. \A v \in Users : Served(v) => Served(v)' /\ page'[v] = page[v]
  BY <1>0, HandleTakes, HandleServes DEF Served
<1> SUFFICES ASSUME TwoServed', NEW v \in Users
             PROVE  TalkOK(tab[v], page'[v], posted[v], channel'[v], chan[v])
  BY <1>0 DEF TalksOK
<1>2. TalkOK(tab[v], page[v], posted[v], channel[v], chan[v])
  BY <1>1 DEF TalksOK, TwoServed
<1>3. /\ tab[v] \in Tab /\ channel[v] \in Seq(Payload) /\ tab[v].seen <= Len(channel[v])
      /\ tab[v].status \in {"waiting", "left"} => Served(v)
  BY DEF CallsInv, CallInv, PagesOK, PageOK, IInv, TypeOK, NetTypeOK, CallsOK, CallOK, Served
<1>4. PICK msgs : msgs \in Seq(Payload) /\ channel'[v] = channel[v] \o msgs
  BY <1>0, HandleDelivers DEF Delivers
<1>5. CASE tab[v].status \in {"waiting", "left"}
  BY <1>1, <1>2, <1>3, <1>4, <1>5, TalkGrows
<1>6. CASE tab[v].status \notin {"waiting", "left"}
  BY <1>6 DEF TalkOK
<1> QED BY <1>5, <1>6

-----------------------------------------------------------------------------
(* What a handler places, whatever its type.                               *)

LEMMA SendPlaces ==
    ASSUME channel \in [Users -> Seq(Payload)], NEW to, NEW msgs \in Seq(Payload), Send(to, msgs),
           NEW x \in Users, NEW m \in Delivered(x)'
    PROVE  m \in Delivered(x) \/ (x = to /\ \E i \in DOMAIN msgs : m = msgs[i])
<1>1. CASE channel'[x] = channel[x]
  BY <1>1 DEF Delivered
<1>2. CASE channel'[x] # channel[x]
  <2>1. x = to /\ channel'[x] = channel[x] \o msgs
    BY <1>2 DEF Send
  <2>2. PICK s : s = channel[x]
    OBVIOUS
  <2>3. s \in Seq(Payload) /\ channel'[x] = s \o msgs
    BY <2>1, <2>2
  <2>4. \A i \in DOMAIN (s \o msgs) :
           \/ i \in DOMAIN s /\ (s \o msgs)[i] = s[i]
           \/ i - Len(s) \in DOMAIN msgs /\ (s \o msgs)[i] = msgs[i - Len(s)]
    BY <2>3
  <2>5. PICK i \in DOMAIN (s \o msgs) : m = (s \o msgs)[i]
    BY <2>3 DEF Delivered
  <2> QED BY <2>1, <2>2, <2>4, <2>5 DEF Delivered
<1> QED BY <1>1, <1>2

LEMMA OnMessagePlaces ==
    ASSUME channel \in [Users -> Seq(Payload)], NEW r, NEW to, NEW msg \in Payload, NEW before,
           before \subseteq saved, OnMessage(r, to, msg, before),
           NEW x \in Users, NEW m \in Placed(x)'
    PROVE  m \in Placed(x) \/ (x = to /\ m = msg)
<1>1. CASE Send(to, <<msg>>) /\ saved' = before
  <2>1. Kept(x)' \subseteq Kept(x)
    BY <1>1 DEF Kept, GetSavedMessages
  <2>2. <<msg>> \in Seq(Payload) /\ \A i \in DOMAIN <<msg>> : <<msg>>[i] = msg
    OBVIOUS
  <2> QED BY <1>1, <2>1, <2>2, SendPlaces DEF Placed
<1>2. CASE UNCHANGED channel /\ saved' = before \cup {[client_id |-> to, message |-> msg]}
  BY <1>2 DEF Placed, Kept, Delivered, GetSavedMessages
<1> QED BY <1>1, <1>2 DEF OnMessage

LEMMA ConnectPlaces ==
    ASSUME IInv, NEW u \in Users, ConnectPage(u), NEW x \in Users, NEW m \in Placed(x)'
    PROVE  m \in Placed(x)
<1>0. channel \in [Users -> Seq(Payload)]
  BY DEF IInv, TypeOK, NetTypeOK
<1>1. CASE ~(room # NoRoom /\ HasUser(room, u))
  BY <1>1 DEF ConnectPage, Placed, Kept, Delivered, GetSavedMessages
<1>2. CASE room # NoRoom /\ HasUser(room, u)
  <2>1. PICK order \in SetToSeqs(GetSavedMessages(u)) :
            Send(u, [i \in 1..Len(order) |-> order[i].message])
    BY <1>2 DEF ConnectPage
  <2>2. Kept(x)' \subseteq Kept(x)
    BY <1>2 DEF ConnectPage, Kept, GetSavedMessages
  <2>3. PICK msgs : msgs = [i \in 1..Len(order) |-> order[i].message]
    OBVIOUS
  <2>4. msgs \in Seq(Payload) /\ Send(u, msgs)
    BY <2>1, <2>3, SavedAsSequence
  <2> DEFINE D == 1..Cardinality(GetSavedMessages(u))
  <2>5. GetSavedMessages(u) \subseteq saved
    BY DEF GetSavedMessages
  <2>6. Cardinality(GetSavedMessages(u)) \in Nat
    BY <2>5, FS_Subset, FS_CardinalityType DEF IInv
  <2>7. order \in [D -> GetSavedMessages(u)]
    BY <2>1 DEF SetToSeqs
  <2>8. 1..Len(order) = D
    BY <2>6, <2>7
  <2> HIDE DEF D
  <2>9. \A i \in DOMAIN msgs : msgs[i] \in Kept(u)
    BY <2>3, <2>7, <2>8 DEF Kept
  <2> QED BY <1>0, <2>2, <2>4, <2>9, SendPlaces DEF Placed
<1> QED BY <1>1, <1>2

\* A message that is placed was there before, in the Message table or the channel, or
\* is the bye of a member who leaves, or what a member said to the other one.
Spoken(u, x, m) ==
    \E type \in posted[u] \ {"bye"} :
        room # NoRoom /\ u \in Members /\ x = OtherUser(room, u) /\ m = Forwarded(u, x, type)

Parted(u, x, m) ==
    /\ m = Bye(u) /\ u \in Leaving /\ x # u
    /\ room # NoRoom /\ u \in Members /\ x = OtherUser(room, u)

LEMMA HandlePlacesAny ==
    ASSUME IInv, NEW u \in Users, Handle(u), UNCHANGED browserVars, NEW x \in Users,
           NEW m \in Placed(x)'
    PROVE  m \in Placed(x) \/ Parted(u, x, m) \/ Spoken(u, x, m)
<1>0. channel \in [Users -> Seq(Payload)] /\ room \in RoomEntity \cup {NoRoom}
  BY DEF IInv, TypeOK, NetTypeOK
<1>1. PICK b : b = Bye(u)
  OBVIOUS
<1>2. b \in Payload
  BY <1>1 DEF Bye, Payload, MsgTypes, Slot
<1>3. CASE UNCHANGED channel /\ saved' \subseteq saved
  BY <1>3 DEF Placed, Kept, Delivered, GetSavedMessages
<1>4. CASE \E debug \in Debugs : MainPage(u, debug)
  BY <1>3, <1>4 DEF MainPage
<1>5. CASE ConnectPage(u)
  BY <1>5, ConnectPlaces
<1>6. CASE DisconnectPage(u)
  <2>1. saved' \subseteq saved /\ u \in Leaving
    BY <1>6, DisconnectPageStep DEF DisconnectPage, RemoveFromRoom
  <2>2. CASE UNCHANGED channel
    BY <1>3, <2>1, <2>2
  <2>3. CASE room # NoRoom /\ HasUser(room, u) /\ OtherUser(room, u) # u
             /\ Send(OtherUser(room, u), <<b>>)
    <3>1. PICK other : other = OtherUser(room, u)
      OBVIOUS
    <3>2. PICK msgs : msgs = <<b>>
      OBVIOUS
    <3>3. msgs \in Seq(Payload) /\ \A i \in DOMAIN msgs : msgs[i] = b
      BY <1>2, <3>2
    <3>4. Kept(x)' \subseteq Kept(x) /\ Send(other, msgs)
      BY <2>1, <2>3, <3>1, <3>2 DEF Kept, GetSavedMessages
    <3>5. m \in Kept(x)' \/ m \in Delivered(x)'
      BY DEF Placed
    <3>6. m \in Placed(x) \/ (x = other /\ m = b)
      BY <1>0, <3>3, <3>4, <3>5, SendPlaces DEF Placed
    <3>7. u \in Members
      BY <2>3 DEF HasUser, Members, MembersOf
    <3> QED BY <1>1, <2>1, <2>3, <3>1, <3>6, <3>7 DEF Parted
  <2> QED BY <1>1, <1>6, <2>2, <2>3 DEF DisconnectPage
<1>7. CASE ByePage(u)
  <2> DEFINE left == saved \ GetSavedMessages(u)
             r == RemoveUser(room, u)
             other == OtherUser(room, u)
  <2>1. left \subseteq saved
    OBVIOUS
  <2>2. u \in Leaving
    BY <1>7, ByePageStep
  <2>3. CASE UNCHANGED channel /\ (saved' = left \/ saved' = saved)
    BY <1>3, <2>3
  <2>4. CASE room # NoRoom /\ other # NoUser /\ HasUser(r, other) /\ OnMessage(r, other, b, left)
    <3>1. WellFormed(room) /\ room \in RoomEntity
      BY <1>0, <2>4 DEF IInv, RoomOK
    <3>2. MembersOf(r) = MembersOf(room) \ {u} /\ r \in RoomEntity
      BY <3>1, RemoveUserFacts
    <3>3. other \in MembersOf(r)
      <4>1. r # NoRoom
        BY <3>2, AbsentIsNoEntity
      <4> QED BY <2>4, <4>1 DEF MembersOf, HasUser
    <3>4. other # u
      BY <3>2, <3>3
    <3>5. u \in Members
      BY <2>4, BlankSlotIsNoUser DEF OtherUser, Members, MembersOf
    <3> HIDE DEF left, r, other
    <3>6. m \in Placed(x) \/ (x = other /\ m = b)
      BY <1>0, <1>2, <2>1, <2>4, OnMessagePlaces
    <3> QED BY <1>1, <2>2, <2>4, <3>4, <3>5, <3>6 DEF Parted, other
  <2> QED BY <1>1, <1>7, <2>3, <2>4 DEF ByePage
<1>8. CASE \E type \in PostTypes : MessagePage(u, type)
  <2>1. PICK type \in PostTypes : MessagePage(u, type)
    BY <1>8
  <2>2. CASE UNCHANGED <<saved, channel>>
    BY <1>3, <2>2
  <2> DEFINE other == OtherUser(room, u)
  <2>3. PICK msg : msg = Forwarded(u, other, type)
    OBVIOUS
  <2>4. CASE room # NoRoom /\ other # NoUser /\ OnMessage(room, other, msg, saved)
    <3>1. msg \in Payload
      BY <2>3, PostTypesAreTypes DEF Forwarded, Payload, MsgTypes, Slot
    <3>2. [kind |-> "message", user |-> u, arg |-> type] \in pending
      BY <2>1 DEF MessagePage, Take
    <3>3. type \in posted[u] \ {"bye"}
      BY <2>1, <3>2 DEF IInv, PendingOK, MessagePage
    <3>4. u \in Members
      BY <2>4, BlankSlotIsNoUser DEF OtherUser, Members, MembersOf
    <3> HIDE DEF other
    <3>5. m \in Placed(x) \/ (x = other /\ m = msg)
      BY <1>0, <2>4, <3>1, OnMessagePlaces
    <3> QED BY <2>3, <2>4, <3>3, <3>4, <3>5 DEF Spoken, other
  <2> QED BY <2>1, <2>2, <2>3, <2>4 DEF MessagePage
<1> QED BY <1>4, <1>5, <1>6, <1>7, <1>8 DEF Handle

\* Whom a member faces after a handler it faced before, or one of them has just come;
\* the other one was alone in the room then.
LEMMA HandlePairs ==
    ASSUME IInv, NEW w \in Users, Handle(w), UNCHANGED browserVars, room' # NoRoom,
           NEW u \in Members', NEW x, x = OtherUser(room', u), x # NoUser
    PROVE  \/ room # NoRoom /\ u \in Members /\ x = OtherUser(room, u)
           \/ ~Served(w) /\ u = w
           \/ /\ ~Served(w) /\ x = w /\ Served(w)' /\ room # NoRoom
              /\ u = room.user1 /\ room.user2 = NoUser
<1>0. /\ room # NoRoom => room \in RoomEntity /\ WellFormed(room)
      /\ u \in {room'.user1, room'.user2} /\ u # NoUser
  BY DEF IInv, TypeOK, NetTypeOK, RoomOK, Members, MembersOf
<1>1. room # NoRoom => /\ room.user1 \in Users /\ room.user2 \in Slot
  BY <1>0 DEF WellFormed, RoomEntity, Slot
<1>2. CASE room # NoRoom /\ room'.user1 = room.user1 /\ room'.user2 = room.user2
  BY <1>0, <1>2 DEF OtherUser, Members, MembersOf
<1>3. CASE UNCHANGED room
  BY <1>2, <1>3
<1>4. CASE \E debug \in Debugs : MainPage(w, debug)
  <2>1. PICK debug \in Debugs : MainPage(w, debug)
    BY <1>4
  <2>2. ~Served(w) /\ page \in [Users -> PageState]
    <3>1. [kind |-> "spy", user |-> w, arg |-> debug] \in pending
      BY <2>1 DEF MainPage, Take
    <3> QED BY <3>1 DEF IInv, PendingOK, Served, TypeOK, NetTypeOK
  <2>3. CASE Admits(room, debug) /\ room # NoRoom /\ room' = AddUser(room, w)
             /\ page' = [page EXCEPT ![w] = Role(room, debug)]
    <3>1. room.user2 = NoUser /\ room'.user1 = room.user1 /\ room'.user2 = w
      BY <1>0, <1>1, <2>3, BlankSlotIsNoUser DEF Admits, Occupancy, AddUser, RoomEntity
    <3>2. Served(w)'
      BY <2>2, <2>3 DEF Role, Served
    <3>3. u = w \/ (u = room.user1 /\ x = w)
      BY <1>0, <3>1 DEF OtherUser
    <3> QED BY <2>2, <2>3, <3>1, <3>2, <3>3
  <2>4. CASE room' = AddUser(NewRoom, w)
    <3>1. room'.user1 = w /\ room'.user2 = NoUser
      BY <2>4 DEF AddUser, NewRoom
    <3> QED BY <1>0, <2>2, <3>1
  <2>5. CASE room' = AddUser(AddUser(NewRoom, w), w)
    <3>1. room'.user1 = w /\ room'.user2 = w
      BY <2>5, BlankSlotIsNoUser DEF AddUser, NewRoom
    <3> QED BY <1>0, <2>2, <3>1
  <2> QED BY <1>3, <2>1, <2>3, <2>4, <2>5 DEF MainPage
<1>5. CASE room # NoRoom /\ room' = StoreOrDelete(RemoveUser(room, w))
  <2>1. PICK q : q = RemoveUser(room, w)
    OBVIOUS
  <2>2. room' = q
    BY <1>5, <2>1 DEF StoreOrDelete
  <2>3. CASE w \notin {room.user1, room.user2}
    <3>1. q = room
      BY <2>1, <2>3 DEF RemoveUser
    <3> QED BY <1>3, <2>2, <3>1
  <2>4. CASE w \in {room.user1, room.user2}
    <3>1. q.user2 = NoUser
      BY <1>0, <1>1, <1>5, <2>1, <2>4 DEF RemoveUser, RoomEntity
    <3> QED BY <1>0, <2>2, <3>1 DEF OtherUser
  <2> QED BY <2>3, <2>4
<1>6. CASE ConnectPage(w)
  <2>1. CASE room # NoRoom /\ room' = SetConnected(room, w)
    <3>1. room'.user1 = room.user1 /\ room'.user2 = room.user2
      BY <1>0, <2>1 DEF SetConnected, RoomEntity
    <3> QED BY <1>2, <2>1, <3>1
  <2> QED BY <1>3, <1>6, <2>1 DEF ConnectPage
<1>7. CASE DisconnectPage(w)
  BY <1>3, <1>5, <1>7 DEF DisconnectPage, RemoveFromRoom
<1>8. CASE ByePage(w)
  BY <1>3, <1>5, <1>8 DEF ByePage
<1>9. CASE \E type \in PostTypes : MessagePage(w, type)
  BY <1>3, <1>9 DEF MessagePage
<1> QED BY <1>4, <1>6, <1>7, <1>8, <1>9 DEF Handle

\* A bye is from somebody else, who left; who is in a loopback room got none.
ByesOK ==
    \A x \in Users : \A m \in Placed(x) : m.type = "bye" =>
        /\ \E v \in Users \ {x} : m = Bye(v) /\ v \in Leaving
        /\ Served(x)
        /\ room # NoRoom => ~(room.user1 = x /\ room.user2 = x)

LEMMA HandleKeepsByesOK ==
    ASSUME IInv, ByesOK, NEW u \in Users, Handle(u), UNCHANGED browserVars
    PROVE  ByesOK'
<1>0. Leaving' = Leaving /\ \A v \in Users : Served(v) => Served(v)'
  BY HandleTakes DEF browserVars, Leaving
<1> SUFFICES ASSUME NEW x \in Users, NEW m \in Placed(x)', m.type = "bye"
             PROVE  /\ \E v \in Users \ {x} : m = Bye(v) /\ v \in Leaving
                    /\ Served(x) /\ Served(x)'
                    /\ room' # NoRoom => ~(room'.user1 = x /\ room'.user2 = x)
  BY <1>0 DEF ByesOK
<1>1. ~Spoken(u, x, m)
  BY DEF Spoken, Forwarded
<1>2. Parted(u, x, m) => x \in Members
  BY BlankSlotIsNoUser DEF Parted, OtherUser, Members, MembersOf
<1>3. Served(x)
  BY <1>1, <1>2, HandlePlacesAny, HandleTakes DEF ByesOK
<1>4. \E v \in Users \ {x} : m = Bye(v) /\ v \in Leaving
  BY <1>1, HandlePlacesAny DEF ByesOK, Parted
<1>5. ASSUME room' # NoRoom, room'.user1 = x, room'.user2 = x PROVE FALSE
  <2>1. x \in Members' /\ x = OtherUser(room', x) /\ x # NoUser
    BY <1>5, BlankSlotIsNoUser DEF OtherUser, Members, MembersOf
  <2>2. room # NoRoom /\ x \in Members /\ x = OtherUser(room, x)
    BY <1>3, <1>5, <2>1, HandlePairs
  <2>3. room.user1 = x /\ room.user2 = x
    BY <2>1, <2>2 DEF OtherUser
  <2>4. m \notin Placed(x)
    BY <2>2, <2>3 DEF ByesOK
  <2>5. Parted(u, x, m)
    BY <1>1, <2>4, HandlePlacesAny
  <2> QED BY <2>1, <2>3, <2>5 DEF Parted, OtherUser
<1> QED BY <1>0, <1>3, <1>4, <1>5

LEMMA ByesOKStep ==
    ASSUME CallsInv, ByesOK, [CallNext]_callVars
    PROVE  ByesOK'
<1>0. CallInv /\ CallsOK /\ IInv
  BY DEF CallsInv, CallInv
<1>1. CASE UNCHANGED callVars
  BY <1>1 DEF callVars, netVars, ByesOK, Placed, Kept, Delivered, GetSavedMessages, Leaving, Served
<1>2. ASSUME NEW u \in Users, Page(u) PROVE ByesOK'
  <2>1. /\ UNCHANGED <<room, saved, channel>>
        /\ \A v \in Users : posted[v] \subseteq posted'[v] /\ (Served(v) => Served(v)')
    BY <1>0, <1>2, PagePosts
  <2>2. \A v \in Users : chan[v] = "closed" => chan'[v] = "closed"
    BY <1>0, <1>2, PageAddsRequests
  <2>3. Leaving \subseteq Leaving'
    BY <2>1, <2>2 DEF Leaving
  <2>4. \A x : Placed(x)' = Placed(x)
    BY <2>1 DEF Placed, Kept, Delivered, GetSavedMessages
  <2> QED BY <2>1, <2>3, <2>4 DEF ByesOK
<1>3. ASSUME NEW u \in Users, Handle(u), UNCHANGED <<browserVars, tab>> PROVE ByesOK'
  BY <1>0, <1>3, HandleKeepsByesOK
<1> QED BY <1>1, <1>2, <1>3 DEF CallNext

LEMMA ByesOKStart == CallInit => ByesOK
<1> SUFFICES ASSUME CallInit, NEW x \in Users PROVE Placed(x) = {}
  BY DEF ByesOK
<1>1. saved = {} /\ channel[x] = <<>>
  BY DEF CallInit, NetInit
<1>2. DOMAIN <<>> = {}
  OBVIOUS
<1> QED BY <1>1, <1>2 DEF Placed, Kept, Delivered, GetSavedMessages

MessageRequest(u, type) == [kind |-> "message", user |-> u, arg |-> type]

\* What a page posts is a request, and an answer is for an offer that was delivered.
LEMMA PagePostsMore ==
    ASSUME CallInv, NEW u \in Users, Page(u), NEW v \in Users, NEW type \in posted'[v] \ posted[v]
    PROVE  MessageRequest(v, type) \in pending' /\ (type = "answer" => HasOfferIn(channel[v]))
<1>0. posted \in [Users -> SUBSET MsgTypes]
  BY DEF CallInv, IInv, TypeOK, NetTypeOK
<1>1. posted' # posted
  OBVIOUS
<1>2. ASSUME NEW said, SendMessage(u, said)
      PROVE  v = u /\ type = said /\ MessageRequest(v, type) \in pending'
  <2>1. posted' = [posted EXCEPT ![u] = @ \cup {said}] /\ MessageRequest(u, said) \in pending'
    BY <1>2 DEF SendMessage, Post, MessageRequest
  <2>2. v = u /\ type = said
    BY <1>0, <2>1
  <2> QED BY <2>1, <2>2
<1>3. CASE \E said \in {"offer", "answer"} : SetLocalAndSendMessage(u, said)
  <2>1. PICK said \in {"offer", "answer"} : said \in tab[u].work /\ SendMessage(u, said)
    BY <1>3 DEF SetLocalAndSendMessage
  <2>2. said = "answer" => HasOfferIn(channel[u])
    BY <2>1 DEF CallInv, PagesOK, PageOK
  <2> QED BY <1>2, <2>1, <2>2
<1>4. CASE OnIceCandidate(u) \/ OnBeforeUnload(u)
  <2>1. SendMessage(u, "candidate") \/ SendMessage(u, "bye")
    BY <1>4 DEF OnIceCandidate, OnBeforeUnload
  <2> QED BY <1>2, <2>1
<1> QED BY <1>1, <1>3, <1>4
     DEF Page, Callback, OpenPage, Initialize, SocketOpens, OnChannelOpened, OnChannelMessage,
         OnUserMediaSuccess, OnHangup, Crash, ConnectionLost, OpenChannel, CloseChannel, netVars

\* Who answered got an offer.
Answered == \A u \in Users : "answer" \in posted[u] => HasOfferIn(channel[u])

LEMMA AnsweredStep ==
    ASSUME CallsInv, Answered, [CallNext]_callVars
    PROVE  Answered'
<1>0. CallInv /\ CallsOK /\ IInv
  BY DEF CallsInv, CallInv
<1>1. CASE UNCHANGED callVars
  BY <1>1 DEF callVars, netVars, Answered
<1>2. ASSUME NEW u \in Users, Page(u) PROVE Answered'
  <2>1. channel' = channel
    BY <1>0, <1>2, PagePosts
  <2> QED BY <1>0, <1>2, <2>1, PagePostsMore DEF Answered
<1>3. ASSUME NEW u \in Users, Handle(u), UNCHANGED <<browserVars, tab>> PROVE Answered'
  BY <1>0, <1>3, HandleGrows DEF Answered, browserVars
<1> QED BY <1>1, <1>2, <1>3 DEF CallNext

\* handle_message turns an offer to oneself into the answer, and passes the answers
\* of those who got an offer to those who made it.
LEMMA HandleKeepsAnswers ==
    ASSUME CallsInv, OffersToCallees, Answered, AnswersOK,
           NEW u \in Users, Handle(u), UNCHANGED browserVars
    PROVE  AnswersOK'
<1>0. IInv /\ posted' = posted
  BY DEF CallsInv, CallInv, browserVars
<1>1. \A v \in Users : Served(v) => Served(v)'
  BY <1>0, HandleTakes
<1> SUFFICES ASSUME TwoServed', NEW x \in Users, NEW m \in Placed(x)', m.type = "answer"
             PROVE  "offer" \in posted[x]
  BY <1>0 DEF AnswersOK
<1>2. TwoServed
  BY <1>1 DEF TwoServed
<1>3. CASE m \in Placed(x)
  BY <1>2, <1>3 DEF AnswersOK
<1>4. CASE Spoken(u, x, m)
  <2>1. PICK type \in posted[u] \ {"bye"} :
           room # NoRoom /\ u \in Members /\ x = OtherUser(room, u) /\ m = Forwarded(u, x, type)
    BY <1>4 DEF Spoken
  <2>2. CASE type = "offer" /\ u = x
    BY <2>1, <2>2
  <2>3. CASE type = "answer"
    <3>1. HasOfferIn(channel[u])
      BY <2>1, <2>3 DEF Answered
    <3>2. PICK i \in DOMAIN channel[u] : channel[u][i].type = "offer"
      BY <3>1 DEF HasOfferIn
    <3>3. channel[u][i] \in Placed(u)
      BY DEF Placed, Delivered
    <3>4. PICK v \in Users \ {u} : "offer" \in posted[v] /\ Served(v) /\ Served(u)
      BY <3>2, <3>3 DEF CallsInv, OffersOK
    <3>5. x \in {room.user1, room.user2} /\ x # NoUser
      BY <2>1, BlankSlotIsNoUser DEF OtherUser
    <3>6. Served(x)
      BY <1>0, <2>1, <3>5, HandleTakes DEF Members, MembersOf
    <3>7. CASE x # u
      BY <1>2, <3>4, <3>6, <3>7 DEF TwoServed
    <3>8. CASE x = u
      <4>1. room.user2 = u
        BY <2>1, <3>8, <3>5 DEF OtherUser
      <4>2. page[u] = "caller"
        BY <1>0, <2>1, <4>1, BlankSlotIsNoUser DEF IInv, FullRoomHasCaller
      <4>3. page[u] = "callee"
        BY <1>2, <3>2, <3>3 DEF OffersToCallees
      <4> QED BY <4>2, <4>3
    <3> QED BY <3>7, <3>8
  <2> QED BY <2>1, <2>2, <2>3 DEF Forwarded
<1>5. ~Parted(u, x, m)
  BY DEF Parted, Bye
<1> QED BY <1>0, <1>3, <1>4, <1>5, HandlePlacesAny

LEMMA AnswersOKStep ==
    ASSUME CallsInv, OffersToCallees, Answered, AnswersOK, [CallNext]_callVars
    PROVE  AnswersOK'
<1>0. CallInv /\ CallsOK
  BY DEF CallsInv
<1>1. CASE UNCHANGED callVars
  BY <1>1 DEF callVars, netVars, AnswersOK, TwoServed, Served,
              Placed, Kept, Delivered, GetSavedMessages
<1>2. ASSUME NEW u \in Users, Page(u) PROVE AnswersOK'
  <2>1. /\ UNCHANGED <<saved, channel>>
        /\ \A v \in Users : posted[v] \subseteq posted'[v] /\ (Served(v) => Served(v)')
    BY <1>0, <1>2, PagePosts
  <2>2. \A x : Placed(x)' = Placed(x)
    BY <2>1 DEF Placed, Kept, Delivered, GetSavedMessages
  <2>3. TwoServed' => TwoServed
    BY <2>1 DEF TwoServed
  <2> QED BY <2>1, <2>2, <2>3 DEF AnswersOK
<1>3. ASSUME NEW u \in Users, Handle(u), UNCHANGED <<browserVars, tab>> PROVE AnswersOK'
  BY <1>3, HandleKeepsAnswers
<1> QED BY <1>1, <1>2, <1>3 DEF CallNext

-----------------------------------------------------------------------------
(* What is said reaches the other one.                                     *)

\* Offers and answers of a member whose request was served are with the other one,
\* or with oneself in a loopback room.
Reach ==
    TwoServed /\ room # NoRoom =>
        \A u \in Members : \A type \in {"offer", "answer"} :
            LET x == OtherUser(room, u)
            IN  /\ x # NoUser /\ chan[x] # "closed"
                /\ type \in posted[u] /\ MessageRequest(u, type) \notin pending
                => Forwarded(u, x, type) \in Placed(x)

\* handle_message delivers or keeps what it takes up.
LEMMA MessageReaches ==
    ASSUME IInv, NEW u \in Users, NEW type \in PostTypes, MessagePage(u, type), room # NoRoom,
           UNCHANGED browserVars,
           NEW x \in Users, x = OtherUser(room, u), chan[x] # "closed"
    PROVE  Forwarded(u, x, type) \in Placed(x)'
<1>1. PICK msg : msg = Forwarded(u, x, type)
  OBVIOUS
<1>2. x # NoUser /\ HasUser(room, x)
  BY BlankSlotIsNoUser DEF OtherUser, HasUser
<1>3. OnMessage(room, x, msg, saved) /\ channel \in [Users -> Seq(Payload)]
  BY <1>1, <1>2 DEF MessagePage, IInv, TypeOK, NetTypeOK
<1>4. msg \in Payload
  BY <1>1, PostTypesAreTypes DEF Forwarded, Payload, MsgTypes, Slot
<1>5. CASE ~IsConnected(room, x) /\ saved' = saved \cup {[client_id |-> x, message |-> msg]}
  <2>1. PICK e : e = [client_id |-> x, message |-> msg]
    OBVIOUS
  <2>2. e \in saved' /\ e.client_id = x /\ e.message = msg
    BY <1>5, <2>1
  <2> QED BY <1>1, <2>2 DEF Placed, Kept, GetSavedMessages
<1>6. CASE IsConnected(room, x) /\ Send(x, <<msg>>)
  <2>1. x \in Connected
    BY <1>6 DEF Connected
  <2>2. chan[x] = "open"
    BY <2>1 DEF IInv, ConnectedWasOpened, TypeOK, NetTypeOK, ChanState
  <2>3. channel'[x] = channel[x] \o <<msg>> /\ channel[x] \in Seq(Payload)
    BY <1>3, <1>6, <2>2 DEF Send
  <2>4. /\ Len(channel[x]) + 1 \in DOMAIN (channel[x] \o <<msg>>)
        /\ (channel[x] \o <<msg>>)[Len(channel[x]) + 1] = msg
    BY <1>4, <2>3
  <2>5. msg \in Delivered(x)'
    BY <2>3, <2>4 DEF Delivered
  <2> QED BY <1>1, <2>5 DEF Placed
<1> QED BY <1>3, <1>5, <1>6 DEF OnMessage

\* The handler that takes up a message is handle_message.
LEMMA MessageTaken ==
    ASSUME NEW w \in Users, Handle(w), NEW u, NEW type, type # "bye",
           MessageRequest(u, type) \in pending, MessageRequest(u, type) \notin pending'
    PROVE  w = u /\ type \in PostTypes /\ MessagePage(u, type)
<1>1. \A r : Take(r) => r = MessageRequest(u, type)
  BY DEF Take
<1>2. CASE \E debug \in Debugs : MainPage(w, debug)
  BY <1>1, <1>2 DEF MainPage, MessageRequest
<1>3. CASE ConnectPage(w) \/ DisconnectPage(w) \/ ByePage(w)
  BY <1>1, <1>3 DEF ConnectPage, DisconnectPage, ByePage, MessageRequest
<1>4. CASE \E said \in PostTypes : MessagePage(w, said)
  <2>1. PICK said \in PostTypes : MessagePage(w, said)
    BY <1>4
  <2>2. MessageRequest(w, said) = MessageRequest(u, type)
    BY <1>1, <2>1 DEF MessagePage, MessageRequest
  <2>3. w = u /\ said = type
    BY <2>2 DEF MessageRequest
  <2> QED BY <2>1, <2>3
<1> QED BY <1>2, <1>3, <1>4 DEF Handle

LEMMA HandleReaches ==
    ASSUME CallsInv, Roles, Answered, Reach, NEW w \in Users, Handle(w), UNCHANGED browserVars
    PROVE  Reach'
<1>0. IInv /\ UNCHANGED <<chan, posted>> /\ \A v \in Users : Served(v) => Served(v)'
  BY HandleTakes DEF CallsInv, CallInv, browserVars
<1> SUFFICES ASSUME TwoServed', room' # NoRoom, NEW u \in Members',
                    NEW type \in {"offer", "answer"}, NEW x, x = OtherUser(room', u),
                    x # NoUser, chan[x] # "closed", type \in posted[u],
                    MessageRequest(u, type) \notin pending'
             PROVE  Forwarded(u, x, type) \in Placed(x)'
  BY <1>0 DEF Reach
<1>1. TwoServed
  BY <1>0 DEF TwoServed
<1>2. Members' \subseteq Users /\ x \in Members'
  <2>1. Members' \subseteq Users
    <3>1. Members \subseteq Users
      BY <1>0, MembersAreUsers DEF IInv
    <3> QED BY <1>0, <3>1, HandleMembers
  <2> QED BY <2>1 DEF OtherUser, Members, MembersOf
<1>3. CASE room # NoRoom /\ u \in Members /\ x = OtherUser(room, u)
  <2>1. CASE MessageRequest(u, type) \notin pending
    <3>1. Forwarded(u, x, type) \in Placed(x)
      BY <1>1, <1>3, <2>1 DEF Reach
    <3> QED BY <1>0, <1>2, <3>1, PlacedStays
  <2>2. CASE MessageRequest(u, type) \in pending
    BY <1>0, <1>2, <1>3, <2>2, MessageTaken, MessageReaches
  <2> QED BY <2>1, <2>2
<1>4. CASE ~Served(w) /\ u = w
  BY <1>0, <1>4 DEF IInv, BrowserOK
<1>5. CASE /\ ~Served(w) /\ x = w /\ Served(w)' /\ room # NoRoom
           /\ u = room.user1 /\ room.user2 = NoUser
  <2>1. Served(u)
    BY <1>0, <1>2 DEF IInv, BrowserOK
  <2>2. \E v \in Users \ {u} : Served(v)
    <3>1. CASE type = "offer"
      <4>1. page[u] = "caller"
        BY <1>2, <3>1 DEF CallsInv, CallsOK, CallOK
      <4> QED BY <1>1, <1>5, <4>1 DEF Roles
    <3>2. CASE type = "answer"
      <4>1. PICK i \in DOMAIN channel[u] : channel[u][i].type = "offer"
        BY <1>2, <3>2 DEF Answered, HasOfferIn
      <4>2. channel[u][i] \in Placed(u)
        BY DEF Placed, Delivered
      <4> QED BY <1>2, <4>1, <4>2 DEF CallsInv, OffersOK
    <3> QED BY <3>1, <3>2
  <2>3. PICK v \in Users \ {u} : Served(v)
    BY <2>2
  <2>4. v # w /\ u # w /\ Served(v)' /\ Served(u)'
    BY <1>0, <1>2, <1>5, <2>1, <2>3
  <2> QED BY <1>2, <1>5, <2>3, <2>4 DEF TwoServed
<1> QED BY <1>0, <1>3, <1>4, <1>5, HandlePairs

LEMMA ReachStep ==
    ASSUME CallsInv, Roles, Answered, Reach, [CallNext]_callVars
    PROVE  Reach'
<1>0. CallInv /\ CallsOK /\ IInv
  BY DEF CallsInv, CallInv
<1>1. CASE UNCHANGED callVars
  BY <1>1 DEF callVars, netVars, Reach, TwoServed, Served, Members,
              Placed, Kept, Delivered, GetSavedMessages
<1>2. ASSUME NEW u \in Users, Page(u) PROVE Reach'
  <2>1. /\ UNCHANGED <<room, saved, channel>> /\ \A v \in Users : Served(v) => Served(v)'
    BY <1>0, <1>2, PagePosts
  <2>2. pending \subseteq pending' /\ \A v \in Users : chan[v] = "closed" => chan'[v] = "closed"
    BY <1>0, <1>2, PageAddsRequests
  <2> SUFFICES ASSUME TwoServed', room # NoRoom, NEW v \in Members,
                      NEW type \in {"offer", "answer"}, NEW x, x = OtherUser(room, v),
                      x # NoUser, chan'[x] # "closed", type \in posted'[v],
                      MessageRequest(v, type) \notin pending'
               PROVE  Forwarded(v, x, type) \in Placed(x)
    BY <2>1 DEF Reach, Members, Placed, Kept, Delivered, GetSavedMessages
  <2>3. TwoServed
    BY <2>1 DEF TwoServed
  <2>4. Members \subseteq Users /\ x \in Members
    BY <1>0, MembersAreUsers DEF IInv, OtherUser, Members, MembersOf
  <2>5. type \in posted[v] /\ MessageRequest(v, type) \notin pending
    BY <1>0, <1>2, <2>2, <2>4, PagePostsMore
  <2>6. chan[x] # "closed"
    BY <2>2, <2>4
  <2> QED BY <2>3, <2>5, <2>6 DEF Reach
<1>3. ASSUME NEW u \in Users, Handle(u), UNCHANGED <<browserVars, tab>> PROVE Reach'
  BY <1>3, HandleReaches
<1> QED BY <1>1, <1>2, <1>3 DEF CallNext

LEMMA TalksOKStep ==
    ASSUME CallsInv, OffersToCallees, TalksOK, AnswersOK, [CallNext]_callVars
    PROVE  TalksOK'
<1>1. CASE UNCHANGED callVars
  BY <1>1 DEF callVars, netVars, TalksOK, TwoServed, Served
<1>2. ASSUME NEW u \in Users, Page(u) PROVE TalksOK'
  <2>1. \A v \in Users : Served(v) => Served(v)'
    BY <1>2, PagePosts DEF CallsInv
  <2>2. CASE TwoServed
    BY <1>2, <2>2, PageKeepsTalks
  <2>3. CASE ~TwoServed
    BY <2>1, <2>3 DEF TalksOK, TwoServed
  <2> QED BY <2>2, <2>3
<1>3. ASSUME NEW u \in Users, Handle(u), UNCHANGED <<browserVars, tab>> PROVE TalksOK'
  BY <1>3, HandleKeepsTalks
<1> QED BY <1>1, <1>2, <1>3 DEF CallNext

\* All that is needed of a call that two stay in.
TalkInv ==
    /\ Roles /\ OffersToCallees /\ ByesOK /\ Answered
    /\ AnswersOK /\ Reach /\ TalksOK

LEMMA TalkInvStart == CallInit => TalkInv
<1> SUFFICES ASSUME CallInit PROVE TalkInv
  OBVIOUS
<1>1. /\ room = NoRoom /\ tab = [u \in Users |-> NewTab]
      /\ \A x \in Users : saved = {} /\ channel[x] = <<>> /\ posted[x] = {}
  BY DEF CallInit, NetInit, TabInit
<1>2. DOMAIN <<>> = {}
  OBVIOUS
<1>3. \A x \in Users : Placed(x) = {}
  BY <1>1, <1>2 DEF Placed, Kept, Delivered, GetSavedMessages
<1>4. AnswersOK /\ Reach /\ Answered
  BY <1>1, <1>3 DEF AnswersOK, Reach, Answered
<1>5. TalksOK
  <2>1. NewTab.status = "blank"
    BY DEF NewTab
  <2> QED BY <1>1, <2>1 DEF TalksOK, TalkOK
<1> QED BY <1>4, <1>5, RolesStart, ByesOKStart DEF TalkInv

LEMMA TalkInvariance == ASSUME PostTypesCoverCall PROVE CallSpec => []TalkInv
<1>1. CallsInv /\ TalkInv /\ [CallNext]_callVars => TalkInv'
  BY RolesStep, ByesOKStep, AnsweredStep, AnswersOKStep, ReachStep, TalksOKStep DEF TalkInv
<1> QED BY <1>1, TalkInvStart, CallsInvariance, PTL DEF CallSpec

-----------------------------------------------------------------------------
(* Two who stay are in a call once there is nothing left to do.            *)

LEMMA SettledMember ==
    ASSUME CallsInv, TalkInv, TwoServed, Settled, NEW u \in Members,
           NEW p, p = tab[u], NEW got, got = TypesHeard(p, channel[u])
    PROVE  /\ u \in Users /\ Served(u) /\ p.media \in {"none", "granted"}
           /\ p.channelReady /\ p.work = {}
           /\ Talks(p, page[u], posted[u], got) /\ "bye" \notin got
           /\ \A m \in Placed(u) : m.type \in got
           /\ page[u] = "caller" => "offer" \notin got
<1>1. /\ room # NoRoom /\ room.user2 # NoUser /\ pending = {}
      /\ \A y \in Members : y \in Users /\ Alive(y) /\ chan[y] = "open"
      /\ p.media \in {"none", "granted"} /\ p.status # "left"
      /\ p.channelReady /\ p.work = {} /\ p.seen = Len(channel[u])
  BY MembersAreUsers DEF Settled, Staying, Quiet, Caught, CallsInv, CallInv, IInv
<1>2. IInv /\ \A y \in Members : Served(y) /\ y \notin Leaving
  <2>1. CallInv /\ IInv
    BY DEF CallsInv, CallInv
  <2> QED BY <1>1, <2>1, AliveIs DEF Leaving
<1>3. Talks(p, page[u], posted[u], got)
  BY <1>1, TalkIs DEF TalkInv
<1>4. \A m \in Placed(u) : \E i \in DOMAIN channel[u] : m = channel[u][i]
  <2>1. u \in Connected
    BY <1>1 DEF CallsInv, ConnectSoon
  <2>2. Kept(u) = {}
    BY <1>2, <2>1 DEF IInv, SavedOnlyForWaiting, Kept, GetSavedMessages
  <2> QED BY <2>2 DEF Placed, Delivered
<1>5. ASSUME NEW i \in DOMAIN channel[u] PROVE channel[u][i].type \in got
  <2>1. channel[u] \in Seq(Payload)
    BY <1>1, <1>2 DEF IInv, TypeOK, NetTypeOK
  <2>2. i <= p.seen
    BY <1>1, <2>1
  <2> QED BY <2>2 DEF TypesHeard
<1>6. \A type \in got : \E m \in Placed(u) : m.type = type
  BY DEF TypesHeard, Placed, Delivered
<1>7. ASSUME "bye" \in got PROVE FALSE
  <2>1. PICK m \in Placed(u) : m.type = "bye"
    BY <1>6, <1>7
  <2>2. PICK v \in Users \ {u} : v \in Leaving
    BY <1>1, <2>1 DEF TalkInv, ByesOK
  <2>3. ~(room.user1 = u /\ room.user2 = u)
    BY <1>1, <2>1 DEF TalkInv, ByesOK
  <2>4. room.user1 # NoUser
    BY <1>1, <1>2 DEF IInv, RoomOK, WellFormed
  <2>5. PICK y \in Members : y # u
    BY <1>1, <2>3, <2>4 DEF Members, MembersOf
  <2>6. Served(v)
    BY <1>2, <2>2 DEF IInv, BrowserOK, Leaving
  <2>7. v = y
    BY <1>1, <1>2, <2>2, <2>5, <2>6 DEF TwoServed
  <2> QED BY <1>2, <2>2, <2>7
<1>8. page[u] = "caller" => "offer" \notin got
  BY <1>1, <1>6 DEF TalkInv, OffersToCallees
<1> QED BY <1>1, <1>2, <1>3, <1>4, <1>5, <1>7, <1>8

LEMMA SettledThenEstablished ==
    ASSUME CallsInv, TalkInv, TwoServed, Settled
    PROVE  Established
<1> DEFINE k == room.user1
           c == room.user2
           got(u) == TypesHeard(tab[u], channel[u])
<1>1. /\ room # NoRoom /\ c # NoUser /\ pending = {} /\ IInv
      /\ \A u \in Members : chan[u] = "open"
  BY DEF Settled, Staying, Quiet, CallsInv, CallInv
<1>2. k # NoUser /\ Members = {k, c}
  BY <1>1 DEF IInv, RoomOK, WellFormed, Members, MembersOf
<1>3. page[c] = "caller"
  BY <1>1 DEF IInv, FullRoomHasCaller
<1>4. /\ tab[c].media \in {"none", "granted"} /\ tab[c].channelReady /\ tab[c].work = {}
      /\ Talks(tab[c], page[c], posted[c], got(c)) /\ "bye" \notin got(c)
      /\ \A m \in Placed(c) : m.type \in got(c)
      /\ "offer" \notin got(c)
  BY <1>2, <1>3, SettledMember
<1>5. ASSUME NEW u \in Members, NEW type \in {"offer", "answer"}, type \in posted[u]
      PROVE  Forwarded(u, OtherUser(room, u), type) \in Placed(OtherUser(room, u))
  <2>1. OtherUser(room, u) \in Members
    BY <1>2, <1>5 DEF OtherUser
  <2> QED BY <1>1, <1>2, <1>5, <2>1 DEF TalkInv, Reach, Members, MembersOf
<1>6. "offer" \in posted[c] /\ tab[c].pc = IF "answer" \in got(c) THEN "stable" ELSE "haveLocalOffer"
  <2> HIDE DEF got, c
  <2>1. CallerTalks(tab[c], posted[c], got(c)) /\ NothingMissed(tab[c])
    BY <1>3, <1>4 DEF Talks
  <2> QED BY <1>4, <2>1 DEF CallerTalks, NothingMissed
<1>7. Forwarded(c, OtherUser(room, c), "offer") \in Placed(OtherUser(room, c))
  BY <1>2, <1>5, <1>6
<1>8. CASE k = c
  <2>1. OtherUser(room, c) = c
    BY <1>8 DEF OtherUser
  <2>2. "answer" \in got(c)
    <3>1. Forwarded(c, c, "offer").type = "answer"
      BY DEF Forwarded
    <3> QED BY <1>4, <1>7, <2>1, <3>1
  <2> QED BY <1>2, <1>6, <1>8, <2>2 DEF Established
<1>9. CASE k # c
  <2>1. OtherUser(room, c) = k /\ OtherUser(room, k) = c
    BY <1>9 DEF OtherUser
  <2>2. page[k] = "callee"
    BY <1>1, <1>2, <1>9 DEF TalkInv, Roles
  <2>3. /\ tab[k].media \in {"none", "granted"} /\ tab[k].channelReady /\ tab[k].work = {}
        /\ Talks(tab[k], page[k], posted[k], got(k)) /\ "bye" \notin got(k)
        /\ \A m \in Placed(k) : m.type \in got(k)
    BY <1>2, SettledMember
  <2>4. "offer" \in got(k)
    <3>1. Forwarded(c, k, "offer").type = "offer"
      BY <1>9 DEF Forwarded
    <3> QED BY <1>7, <2>1, <2>3, <3>1
  <2>5. tab[k].pc = "stable" /\ "answer" \in posted[k]
    <3> HIDE DEF got, k
    <3>1. CalleeTalks(tab[k], posted[k], got(k)) /\ NothingMissed(tab[k])
      BY <2>2, <2>3 DEF Talks
    <3> QED BY <2>3, <2>4, <3>1 DEF CalleeTalks, NothingMissed
  <2>6. "answer" \in got(c)
    <3>1. Forwarded(k, c, "answer").type = "answer"
      BY DEF Forwarded
    <3>2. Forwarded(k, c, "answer") \in Placed(c)
      BY <1>2, <1>5, <2>1, <2>5
    <3> QED BY <1>4, <3>1, <3>2
  <2> QED BY <1>2, <1>6, <2>5, <2>6 DEF Established
<1> QED BY <1>8, <1>9

\* Nobody is told of a bye that was not said: a bye that is kept or delivered is from
\* somebody else, who unloaded the page or whose channel is closed.
THEOREM ByesAreTrue ==
    ASSUME PostTypesCoverCall
    PROVE  CallSpec => [](\A x \in Users : \A m \in Placed(x) :
               m.type = "bye" => \E v \in Users \ {x} : m = Bye(v) /\ v \in Leaving)
<1>1. TalkInv => \A x \in Users : \A m \in Placed(x) :
          m.type = "bye" => \E v \in Users \ {x} : m = Bye(v) /\ v \in Leaving
  BY DEF TalkInv, ByesOK
<1> QED BY <1>1, TalkInvariance, PTL

\* When every request was served, nothing is kept for somebody who opened the channel:
\* what SavedIsSettled says will happen has happened by then.
THEOREM NothingKeptInTheEnd ==
    ASSUME PostTypesCoverCall
    PROVE  CallSpec => [](pending = {} =>
               \A u \in Users : chan[u] # "none" => GetSavedMessages(u) = {})
<1>1. CallsInv => (pending = {} =>
          \A u \in Users : chan[u] # "none" => GetSavedMessages(u) = {})
  <2> SUFFICES ASSUME CallsInv, pending = {}, NEW u \in Users, chan[u] # "none",
                      NEW m \in GetSavedMessages(u)
               PROVE  FALSE
    OBVIOUS
  <2>1. u \in Members \ Connected
    BY DEF GetSavedMessages, CallsInv, CallInv, IInv, SavedOnlyForWaiting
  <2> QED BY <2>1 DEF CallsInv, ConnectSoon
<1> QED BY <1>1, CallsInvariance, PTL

\* As long as at most two pages were served, a state in which both stay and listen,
\* with nothing in flight and no message unread, is one in which both have the call:
\* the safety of CallEstablished.  No order of connecting, granting media, offering
\* and replaying lets the pages run dry before that.
THEOREM SettledIsEstablishedOfTwo ==
    ASSUME PostTypesCoverCall
    PROVE  CallSpec => [](TwoServed => SettledIsEstablished)
<1>1. CallsInv /\ TalkInv => (TwoServed => SettledIsEstablished)
  BY SettledThenEstablished DEF SettledIsEstablished
<1> QED BY <1>1, CallsInvariance, TalkInvariance, PTL
=============================================================================
