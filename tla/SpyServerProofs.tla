--------------------------- MODULE SpyServerProofs ---------------------------
(***************************************************************************)
(* Proofs about SpyServer: what holds of the stored room and of every copy  *)
(* a handler works on, however the handlers interleave, for any set of      *)
(* users and any number of threads.                                         *)
(***************************************************************************)
EXTENDS SpyServer, RoomProofs, FiniteSetTheorems

-----------------------------------------------------------------------------
(* Copies of the room.  A copy is as old as the handler that holds it, so    *)
(* what is said of it has to stay true whatever other handlers do: it speaks *)
(* of the users A that were let in, of those of them, C, that were told to   *)
(* call, and of those, O, whose channel was opened; the three sets grow.     *)

Sound(r, A, C, O) ==
    /\ r.user1 \in A \cup {NoUser}
    /\ r.user2 \in C \cup {NoUser}
    /\ r.conn1 => r.user1 \in O
    /\ r.conn2 => r.user2 \in O
    /\ r.user1 = r.user2 /\ r.user1 # NoUser => "loopback" \in Debugs

LEMMA SoundGrows ==
    ASSUME NEW r, NEW A, NEW C, NEW O, Sound(r, A, C, O),
           NEW A2, NEW C2, NEW O2, A \subseteq A2, C \subseteq C2, O \subseteq O2
    PROVE  Sound(r, A2, C2, O2)
  BY DEF Sound

LEMMA SoundNew ==
    ASSUME NEW A, NEW C, NEW O
    PROVE  NewRoom \in RoomEntity /\ Sound(NewRoom, A, C, O)
  BY DEF Sound, NewRoom, RoomEntity, Slot

\* Room.addUser on a new room and on a room with a first user.
LEMMA SoundAddFirst ==
    ASSUME NEW A, NEW C, NEW O, NEW u \in Users, u \in A
    PROVE  LET r == AddUser(NewRoom, u)
           IN  r \in RoomEntity /\ Sound(r, A, C, O) /\ r.user1 # NoUser
  BY BlankSlotIsNoUser DEF Sound, AddUser, NewRoom, RoomEntity, Slot

LEMMA SoundAddSecond ==
    ASSUME NEW A, NEW C, NEW O \in SUBSET Users, NEW r \in RoomEntity, Sound(r, A, C, O),
           r.user1 # NoUser, r.user2 = NoUser,
           NEW u \in Users, u \in C, u # r.user1 \/ "loopback" \in Debugs
    PROVE  LET q == AddUser(r, u)
           IN  q \in RoomEntity /\ Sound(q, A, C, O) /\ q.user1 # NoUser
<1> DEFINE q == AddUser(r, u)
<1>1. q = [r EXCEPT !.user2 = u]
  BY DEF AddUser
<1>2. /\ q \in RoomEntity
      /\ q.user1 = r.user1 /\ q.user2 = u /\ q.conn1 = r.conn1 /\ q.conn2 = r.conn2
  BY <1>1 DEF RoomEntity, Slot
<1>3. ~r.conn2
  BY BlankSlotIsNoUser DEF Sound
<1> QED BY <1>2, <1>3 DEF Sound

\* Room.setConnected
LEMMA SoundConnect ==
    ASSUME NEW A, NEW C, NEW O, NEW r \in RoomEntity, Sound(r, A, C, O), NEW u \in O
    PROVE  LET q == SetConnected(r, u)
           IN  q \in RoomEntity /\ Sound(q, A, C, O) /\ q.user1 = r.user1
<1> DEFINE q == SetConnected(r, u)
<1>1. /\ q \in RoomEntity /\ q.user1 = r.user1 /\ q.user2 = r.user2
      /\ q.conn1 = (r.conn1 \/ u = r.user1) /\ q.conn2 = (r.conn2 \/ u = r.user2)
  BY DEF SetConnected, RoomEntity, Slot
<1> QED BY <1>1 DEF Sound

\* Room.removeUser: the second user, who may move to the first slot, was let in.
LEMMA SoundRemove ==
    ASSUME NEW A, NEW C, NEW O, NEW r \in RoomEntity, Sound(r, A, C, O),
           r.user2 \in A \cup {NoUser}, NEW u \in Users, NEW q, q = RemoveUser(r, u)
    PROVE  /\ q \in RoomEntity /\ Sound(q, A, C, O)
           /\ r.user1 # NoUser /\ Occupancy(q) > 0 => q.user1 # NoUser
<1> DEFINE r2 == IF u = r.user2 THEN [r EXCEPT !.user2 = NoUser, !.conn2 = FALSE] ELSE r
<1>1. /\ r2 \in RoomEntity /\ Sound(r2, A, C, O)
      /\ r2.user1 = r.user1 /\ r2.user2 \in A \cup {NoUser}
  BY DEF RoomEntity, Slot, Sound
<1>2. q = IF u # r2.user1 THEN r2
          ELSE IF r2.user2 = NoUser THEN [r2 EXCEPT !.user1 = NoUser, !.conn1 = FALSE]
          ELSE [user1 |-> r2.user2, user2 |-> NoUser, conn1 |-> r2.conn2, conn2 |-> FALSE]
  BY DEF RemoveUser
<1> HIDE DEF r2
<1>3. CASE u # r2.user1
  BY <1>1, <1>2, <1>3
<1>4. CASE u = r2.user1 /\ r2.user2 = NoUser
  <2>1. /\ q \in RoomEntity /\ q.user1 = NoUser /\ q.user2 = NoUser
        /\ q.conn1 = FALSE /\ q.conn2 = r2.conn2
    BY <1>1, <1>2, <1>4 DEF RoomEntity, Slot
  <2>2. ~(Occupancy(q) > 0)
    BY <2>1 DEF Occupancy
  <2>3. Sound(q, A, C, O)
    BY <1>1, <1>4, <2>1 DEF Sound
  <2> QED BY <2>1, <2>2, <2>3
<1>5. CASE u = r2.user1 /\ r2.user2 # NoUser
  <2>1. q = [user1 |-> r2.user2, user2 |-> NoUser, conn1 |-> r2.conn2, conn2 |-> FALSE]
    BY <1>2, <1>5
  <2>2. q \in RoomEntity
    BY <1>1, <2>1 DEF RoomEntity, Slot
  <2> QED BY <1>1, <1>5, <2>1, <2>2 DEF Sound
<1> QED BY <1>3, <1>4, <1>5

-----------------------------------------------------------------------------
(* The inductive invariant                                                 *)

\* The tasks that serve a page load.
SpyPcs == {"save", "saveAgain", "serve"}

Loading == {u \in Users : page[u] = "loading"}
Opened == {u \in Users : chan[u] # "none"}

\* The users whose page load a thread serves, with the role it gives them.
Spied == {u \in Users : \E t \in Threads : thread[t].pc \in SpyPcs /\ thread[t].user = u}
SpiedCallers == {u \in Users : \E t \in Threads : /\ thread[t].pc \in SpyPcs
                                                  /\ thread[t].user = u
                                                  /\ thread[t].role = "caller"}

Admitted == {u \in Users : Served(u)} \cup Spied
Callers == {u \in Users : page[u] = "caller"} \cup SpiedCallers

\* A handler's local variables, given those four sets (loading pages in L).
TaskOK(k, A, C, O, L) ==
    /\ Sound(k.copy, A, C, O)
    /\ k.pc # "idle" => k.user \in Users
    /\ k.pc \in {"save", "saveAgain", "connect", "purge", "remove"} => k.copy.user1 # NoUser
    /\ k.pc \in SpyPcs =>
         /\ k.user \in L /\ k.role \in {"callee", "caller"}
         /\ k.arg = "loopback" => k.role = "caller" /\ "loopback" \in Debugs
    /\ k.pc \in {"purge", "remove"} =>
         k.other = NoUser \/ k.other # k.user \/ "loopback" \in Debugs
    /\ k.pc = "forward" =>
         k.other \in Users /\ (k.other # k.user \/ "loopback" \in Debugs) /\ k.arg \in MsgTypes
    /\ k.pc = "sendBye" => k.other \in Users /\ k.other # k.user

TasksOK == \A t \in Threads : TaskOK(thread[t], Admitted, Callers, Opened, Loading)

RoomOK == room # NoRoom => Sound(room, Admitted, Callers, Opened) /\ room.user1 # NoUser

\* What a request in flight says of the browser that posted it.
PendingOK ==
    \A r \in pending :
        /\ r.kind = "spy" => r.user \in Loading \ Spied /\ r.arg \in Debugs
        /\ r.kind = "connect" => r.user \in Opened

\* A page is asked for once, and served by one thread.
OneSpyEach ==
    /\ \A r, s \in pending : r.kind = "spy" /\ s.kind = "spy" /\ r.user = s.user => r = s
    /\ \A s, t \in Threads :
         thread[s].pc \in SpyPcs /\ thread[t].pc \in SpyPcs
           /\ thread[s].user = thread[t].user => s = t

IInv == TypeOK /\ RoomOK /\ TasksOK /\ PendingOK /\ OneSpyEach /\ NoEcho

LEMMA SetFacts ==
    /\ Callers \subseteq Admitted /\ Admitted \subseteq Users /\ Opened \subseteq Users
    /\ TasksOK => Spied \subseteq Loading
    /\ TasksOK => Admitted \cap {u \in Users : page[u] \in {"none", "full"}} = {}
<1>1. Callers \subseteq Admitted /\ Admitted \subseteq Users /\ Opened \subseteq Users
  BY DEF Callers, Admitted, Spied, SpiedCallers, Opened, Served
<1>2. TasksOK => Spied \subseteq Loading
  BY DEF TasksOK, TaskOK, Spied
<1> QED BY <1>1, <1>2 DEF Admitted, Loading, Served

LEMMA TaskGrows ==
    ASSUME NEW k, NEW A, NEW C, NEW O, NEW L, TaskOK(k, A, C, O, L),
           NEW A2, NEW C2, NEW O2, NEW L2,
           A \subseteq A2, C \subseteq C2, O \subseteq O2,
           k.pc \in SpyPcs => k.user \in L2
    PROVE  TaskOK(k, A2, C2, O2, L2)
<1>1. Sound(k.copy, A2, C2, O2)
  BY SoundGrows DEF TaskOK
<1> QED BY <1>1 DEF TaskOK

LEMMA InitInv == ASSUME Init PROVE IInv
<1>1. TypeOK
  BY DEF Init, NetInit, TypeOK, NetTypeOK, ChanState, PageState, Task, Idle, NewRoom, Slot,
     RoomEntity
<1>2. TasksOK
  <2> SUFFICES ASSUME NEW t \in Threads
               PROVE  TaskOK(thread[t], Admitted, Callers, Opened, Loading)
    BY DEF TasksOK
  <2>1. thread[t] = Idle
    BY DEF Init
  <2> QED BY <2>1, SoundNew DEF TaskOK, Idle, SpyPcs
<1>3. RoomOK /\ PendingOK /\ NoEcho
  BY DEF Init, NetInit, RoomOK, PendingOK, NoEcho
<1>4. OneSpyEach
  <2>1. pending = {} /\ \A t \in Threads : thread[t].pc \notin SpyPcs
    BY DEF Init, NetInit, Idle, SpyPcs
  <2> QED BY <2>1 DEF OneSpyEach
<1> QED BY <1>1, <1>2, <1>3, <1>4 DEF IInv

-----------------------------------------------------------------------------
(* The browsers                                                            *)

\* A step of a browser that leaves pages alone.
LEMMA BrowserKeeps ==
    ASSUME IInv, UNCHANGED <<room, saved, channel, page, thread>>,
           Opened \subseteq Opened', NEW q \in Request, pending' = pending \cup {q},
           q.kind # "spy", q.kind = "connect" => q.user \in Opened'
    PROVE  RoomOK' /\ TasksOK' /\ PendingOK' /\ OneSpyEach' /\ NoEcho'
<1>1. /\ Admitted' = Admitted /\ Callers' = Callers /\ Loading' = Loading /\ Spied' = Spied
  BY DEF Admitted, Callers, Loading, Spied, SpiedCallers, Served
<1>2. RoomOK'
  BY <1>1, SoundGrows DEF IInv, RoomOK
<1>3. TasksOK'
  <2> SUFFICES ASSUME NEW t \in Threads
               PROVE  TaskOK(thread[t], Admitted, Callers, Opened', Loading)
    BY <1>1 DEF TasksOK
  <2>1. TaskOK(thread[t], Admitted, Callers, Opened, Loading)
    BY DEF IInv, TasksOK
  <2> QED BY <2>1, TaskGrows DEF TaskOK
<1>4. PendingOK'
  BY <1>1 DEF IInv, PendingOK
<1>5. OneSpyEach' /\ NoEcho'
  BY DEF IInv, OneSpyEach, NoEcho
<1> QED BY <1>2, <1>3, <1>4, <1>5

LEMMA OpenPageInv ==
    ASSUME IInv, NEW u \in Users, NEW debug \in Debugs, OpenPage(u, debug), UNCHANGED thread
    PROVE  IInv'
<1> DEFINE req == [kind |-> "spy", user |-> u, arg |-> debug]
<1>1. /\ page[u] = "none" /\ page' = [page EXCEPT ![u] = "loading"]
      /\ pending' = pending \cup {req} /\ UNCHANGED <<room, saved, channel, chan, posted>>
  BY DEF OpenPage, Post
<1>2. req \in Request
  BY DebugsAreModes DEF Request
<1>3. TypeOK'
  BY <1>1, <1>2 DEF IInv, TypeOK, NetTypeOK, PageState
<1>4. /\ page'[u] = "loading" /\ \A v \in Users \ {u} : page'[v] = page[v]
  BY <1>1 DEF IInv, TypeOK, NetTypeOK
<1>5. /\ Admitted' = Admitted /\ Callers' = Callers /\ Spied' = Spied
      /\ Opened' = Opened /\ Loading' = Loading \cup {u}
  BY <1>1, <1>4 DEF Admitted, Callers, Loading, Opened, Spied, SpiedCallers, Served
<1>6. u \notin Spied
  BY <1>1, SetFacts DEF IInv, Loading
<1>7. RoomOK'
  BY <1>1, <1>5 DEF IInv, RoomOK
<1>8. TasksOK'
  <2> SUFFICES ASSUME NEW t \in Threads
               PROVE  TaskOK(thread[t], Admitted, Callers, Opened, Loading \cup {u})
    BY <1>5 DEF TasksOK
  <2>1. TaskOK(thread[t], Admitted, Callers, Opened, Loading)
    BY DEF IInv, TasksOK
  <2> QED BY <2>1, TaskGrows DEF TaskOK
<1>9. PendingOK'
  BY <1>1, <1>5, <1>6 DEF IInv, PendingOK
<1>10. OneSpyEach'
  <2>1. \A r \in pending : r.kind = "spy" => r.user # u
    BY <1>1 DEF IInv, PendingOK, Loading
  <2> QED BY <1>1, <2>1 DEF IInv, OneSpyEach
<1>11. NoEcho'
  BY <1>1 DEF IInv, NoEcho
<1> QED BY <1>3, <1>7, <1>8, <1>9, <1>10, <1>11 DEF IInv

LEMMA BrowserInv ==
    ASSUME IInv, NEW u \in Users, Browser(u), UNCHANGED thread
    PROVE  IInv'
<1>1. CASE \E debug \in Debugs : OpenPage(u, debug)
  BY <1>1, OpenPageInv
<1>2. CASE OpenChannel(u)
  <2> DEFINE req == [kind |-> "connect", user |-> u, arg |-> "none"]
  <2>1. /\ chan' = [chan EXCEPT ![u] = "open"] /\ pending' = pending \cup {req}
        /\ UNCHANGED <<room, saved, channel, page, posted>>
    BY <1>2 DEF OpenChannel, Post, serverVars
  <2>2. req \in Request
    BY DEF Request
  <2>3. TypeOK'
    BY <2>1, <2>2 DEF IInv, TypeOK, NetTypeOK, ChanState
  <2>4. Opened \subseteq Opened' /\ u \in Opened'
    BY <2>1 DEF IInv, TypeOK, NetTypeOK, Opened
  <2> QED BY <2>1, <2>2, <2>3, <2>4, BrowserKeeps DEF IInv
<1>3. CASE CloseChannel(u)
  <2> DEFINE req == [kind |-> "disconnect", user |-> u, arg |-> "none"]
  <2>1. /\ chan' = [chan EXCEPT ![u] = "closed"] /\ pending' = pending \cup {req}
        /\ UNCHANGED <<room, saved, channel, page, posted>>
    BY <1>3 DEF CloseChannel, Post, serverVars
  <2>2. req \in Request
    BY DEF Request
  <2>3. TypeOK'
    BY <2>1, <2>2 DEF IInv, TypeOK, NetTypeOK, ChanState
  <2>4. Opened \subseteq Opened'
    BY <2>1 DEF IInv, TypeOK, NetTypeOK, Opened
  <2> QED BY <2>1, <2>2, <2>3, <2>4, BrowserKeeps DEF IInv
<1>4. CASE \E type \in PostTypes : PostMessage(u, type)
  <2> PICK type \in PostTypes : PostMessage(u, type)
    BY <1>4
  <2> DEFINE req == [kind |-> "message", user |-> u, arg |-> type]
  <2>1. /\ posted' = [posted EXCEPT ![u] = @ \cup {type}] /\ pending' = pending \cup {req}
        /\ UNCHANGED <<room, saved, channel, page, chan>>
    BY DEF PostMessage, Post, serverVars
  <2>2. req \in Request /\ type \in MsgTypes
    BY PostTypesAreTypes DEF Request, MsgTypes
  <2>3. TypeOK'
    BY <2>1, <2>2 DEF IInv, TypeOK, NetTypeOK
  <2>4. Opened \subseteq Opened'
    BY <2>1 DEF Opened
  <2> QED BY <2>1, <2>2, <2>3, <2>4, BrowserKeeps DEF IInv
<1> QED BY <1>1, <1>2, <1>3, <1>4 DEF Browser

-----------------------------------------------------------------------------
(* What the handlers have in common                                        *)

\* A step of a handler that serves no page, or not yet, and leaves it at task k.
LEMMA HandlerStep ==
    ASSUME IInv, NEW t \in Threads, NEW k \in Task, thread' = [thread EXCEPT ![t] = k],
           UNCHANGED <<page, chan>>, pending' \subseteq pending,
           k.pc \in SpyPcs <=> thread[t].pc \in SpyPcs,
           k.pc \in SpyPcs => k.user = thread[t].user /\ k.role = thread[t].role,
           TaskOK(k, Admitted, Callers, Opened, Loading)
    PROVE  /\ Admitted' = Admitted /\ Callers' = Callers /\ Opened' = Opened
           /\ TasksOK' /\ PendingOK' /\ OneSpyEach' /\ thread' \in [Threads -> Task]
<1>1. /\ thread \in [Threads -> Task] /\ thread' \in [Threads -> Task]
      /\ thread'[t] = k /\ \A s \in Threads \ {t} : thread'[s] = thread[s]
  BY DEF IInv, TypeOK
<1>2. \A s \in Threads :
        /\ thread'[s].pc \in SpyPcs <=> thread[s].pc \in SpyPcs
        /\ thread'[s].pc \in SpyPcs =>
             thread'[s].user = thread[s].user /\ thread'[s].role = thread[s].role
  BY <1>1
<1>3. Spied' = Spied /\ SpiedCallers' = SpiedCallers
  BY <1>2 DEF Spied, SpiedCallers
<1>4. /\ Admitted' = Admitted /\ Callers' = Callers /\ Opened' = Opened /\ Loading' = Loading
  BY <1>3 DEF Admitted, Callers, Opened, Loading, Served
<1>5. TasksOK'
  BY <1>1, <1>4 DEF IInv, TasksOK
<1>6. PendingOK'
  BY <1>3, <1>4 DEF IInv, PendingOK
<1>7. OneSpyEach'
  BY <1>2 DEF IInv, OneSpyEach
<1> QED BY <1>1, <1>4, <1>5, <1>6, <1>7

\* A request that changes nothing.
LEMMA Ignored ==
    ASSUME IInv, UNCHANGED <<room, saved, channel, chan, page, posted, thread>>,
           pending' \subseteq pending
    PROVE  IInv'
<1>1. TypeOK' /\ RoomOK' /\ OneSpyEach' /\ NoEcho'
  BY DEF IInv, TypeOK, NetTypeOK, RoomOK, Admitted, Callers, Spied, SpiedCallers, Opened, Served,
     OneSpyEach, NoEcho
<1>2. PendingOK' /\ TasksOK'
  BY DEF IInv, PendingOK, TasksOK, Admitted, Callers, Spied, SpiedCallers, Opened, Loading, Served
<1> QED BY <1>1, <1>2 DEF IInv

LEMMA IdleOK ==
    ASSUME NEW A, NEW C, NEW O, NEW L
    PROVE  /\ Idle \in Task /\ TaskOK(Idle, A, C, O, L)
           /\ Idle.pc = "idle" /\ Idle.pc \notin SpyPcs
<1>1. Idle \in Task
  BY SoundNew DEF Idle, Task, Slot
<1> QED BY <1>1, SoundNew DEF Idle, TaskOK, SpyPcs

LEMMA NewTaskFacts ==
    ASSUME NEW pc \in {"connect", "purge", "forward"}, NEW u \in Users,
           NEW arg \in {"none"} \cup MsgTypes, NEW copy \in RoomEntity,
           NEW k, k = NewTask(pc, u, arg, copy)
    PROVE  /\ k \in Task /\ k.pc = pc /\ k.user = u /\ k.arg = arg /\ k.copy = copy
           /\ k.other = OtherUser(copy, u) /\ k.other \in Slot /\ k.role = "none"
<1>1. OtherUser(copy, u) \in Slot
  BY DEF OtherUser, RoomEntity, Slot
<1> QED BY <1>1 DEF NewTask, Idle, Task, Slot

\* Room.getOtherUser finds somebody else, but in a loopback room.
LEMMA OtherIsOther ==
    ASSUME NEW A, NEW C, NEW O, NEW r \in RoomEntity, Sound(r, A, C, O), NEW u \in Users
    PROVE  LET o == OtherUser(r, u)
           IN  o = NoUser \/ o # u \/ "loopback" \in Debugs
  BY BlankSlotIsNoUser DEF OtherUser, Sound

\* The Channel service delivers messages, in order, to one client.
LEMMA SendInv ==
    ASSUME channel \in [Users -> Seq(Payload)], NoEcho,
           NEW u \in Users, NEW msgs \in Seq(Payload), Send(u, msgs),
           \A i \in 1 .. Len(msgs) : msgs[i].from = u => "loopback" \in Debugs
    PROVE  channel' \in [Users -> Seq(Payload)] /\ NoEcho'
<1> DEFINE new == IF chan[u] = "open" THEN channel[u] \o msgs ELSE channel[u]
<1>1. channel' = [channel EXCEPT ![u] = new] /\ new \in Seq(Payload) /\ channel[u] \in Seq(Payload)
  BY DEF Send
<1>2. \A i \in DOMAIN new : new[i].from = u => "loopback" \in Debugs
  <2> SUFFICES ASSUME NEW i \in DOMAIN new, new[i].from = u
               PROVE  "loopback" \in Debugs
    OBVIOUS
  <2>1. CASE new = channel[u]
    BY <2>1 DEF NoEcho
  <2>2. CASE new = channel[u] \o msgs
    <3>1. i \in 1 .. Len(channel[u]) + Len(msgs)
      BY <1>1, <2>2
    <3>2. CASE i <= Len(channel[u])
      <4>1. new[i] = channel[u][i] /\ i \in DOMAIN channel[u]
        BY <1>1, <2>2, <3>1, <3>2
      <4> QED BY <4>1 DEF NoEcho
    <3>3. CASE i > Len(channel[u])
      <4>1. i - Len(channel[u]) \in 1 .. Len(msgs) /\ new[i] = msgs[i - Len(channel[u])]
        BY <1>1, <2>2, <3>1, <3>3
      <4> QED BY <4>1
    <3> QED BY <1>1, <3>1, <3>2, <3>3
  <2> QED BY <2>1, <2>2
<1> HIDE DEF new
<1>3. /\ channel' \in [Users -> Seq(Payload)] /\ channel'[u] = new
      /\ \A v \in Users \ {u} : channel'[v] = channel[v]
  BY <1>1
<1>4. NoEcho'
  <2> SUFFICES ASSUME NEW v \in Users, NEW i \in DOMAIN channel'[v], channel'[v][i].from = v
               PROVE  "loopback" \in Debugs
    BY DEF NoEcho
  <2> QED BY <1>2, <1>3 DEF NoEcho
<1> QED BY <1>3, <1>4

-----------------------------------------------------------------------------
(* ConnectServlet                                                          *)

\* The room and a task of thread t, as the invariant describes them.
LEMMA TaskFacts ==
    ASSUME IInv, NEW t \in Threads
    PROVE  /\ thread[t] \in Task /\ thread[t].copy \in RoomEntity
           /\ TaskOK(thread[t], Admitted, Callers, Opened, Loading)
           /\ thread[t].pc # "idle" => thread[t].user \in Users
  BY DEF IInv, TypeOK, TasksOK, TaskOK, Task

LEMMA RoomFacts ==
    ASSUME IInv, room # NoRoom
    PROVE  /\ room \in RoomEntity /\ Sound(room, Admitted, Callers, Opened)
           /\ room.user1 # NoUser
  BY DEF IInv, TypeOK, NetTypeOK, RoomOK

LEMMA ConnectFindInv ==
    ASSUME IInv, NEW t \in Threads, NEW u \in Users, ConnectFind(t, u), UNCHANGED browserVars
    PROVE  IInv'
<1> DEFINE k == NewTask("connect", u, "none", SetConnected(room, u))
<1>1. /\ UNCHANGED <<room, saved, channel, page, chan, posted>> /\ pending' \subseteq pending
      /\ thread[t].pc = "idle" /\ Req("connect", u, "none") \in pending
  BY DEF ConnectFind, Take, serverVars, browserVars
<1>2. CASE room # NoRoom /\ HasUser(room, u)
  <2>1. thread' = [thread EXCEPT ![t] = k]
    BY <1>2 DEF ConnectFind, Run
  <2>2. u \in Opened
    BY <1>1 DEF IInv, PendingOK, Req
  <2>3. /\ SetConnected(room, u) \in RoomEntity
        /\ Sound(SetConnected(room, u), Admitted, Callers, Opened)
        /\ SetConnected(room, u).user1 # NoUser
    BY <1>2, <2>2, RoomFacts, SoundConnect
  <2>4. /\ k \in Task /\ k.pc = "connect" /\ k.user = u /\ k.copy = SetConnected(room, u)
    BY <2>3, NewTaskFacts
  <2> HIDE DEF k
  <2>5. TaskOK(k, Admitted, Callers, Opened, Loading) /\ k.pc \notin SpyPcs
    BY <2>3, <2>4 DEF TaskOK, SpyPcs
  <2>6. thread[t].pc \notin SpyPcs
    BY <1>1 DEF SpyPcs
  <2>7. /\ Admitted' = Admitted /\ Callers' = Callers /\ Opened' = Opened
        /\ TasksOK' /\ PendingOK' /\ OneSpyEach' /\ thread' \in [Threads -> Task]
    BY <1>1, <2>1, <2>4, <2>5, <2>6, HandlerStep
  <2> QED BY <1>1, <2>7 DEF IInv, TypeOK, NetTypeOK, RoomOK, NoEcho
<1>3. CASE ~(room # NoRoom /\ HasUser(room, u))
  BY <1>1, <1>3, Ignored DEF ConnectFind
<1> QED BY <1>2, <1>3

\* A task that writes its copy back and goes on.
LEMMA ConnectSaveInv ==
    ASSUME IInv, NEW t \in Threads, ConnectSave(t), UNCHANGED browserVars
    PROVE  IInv'
<1> DEFINE k == [thread[t] EXCEPT !.pc = "replay"]
<1>1. /\ thread[t].pc = "connect" /\ room' = thread[t].copy /\ thread' = [thread EXCEPT ![t].pc = "replay"]
      /\ UNCHANGED <<saved, channel, page, pending, chan, posted>>
  BY DEF ConnectSave, Goto, browserVars
<1>2. /\ thread[t] \in Task /\ thread[t].copy \in RoomEntity
      /\ TaskOK(thread[t], Admitted, Callers, Opened, Loading)
  BY TaskFacts
<1>3. thread' = [thread EXCEPT ![t] = k]
  BY <1>1 DEF IInv, TypeOK
<1>4. /\ k \in Task /\ k.pc = "replay" /\ k.user = thread[t].user /\ k.copy = thread[t].copy
  BY <1>2 DEF Task
<1> HIDE DEF k
<1>5. /\ TaskOK(k, Admitted, Callers, Opened, Loading) /\ k.pc \notin SpyPcs
      /\ thread[t].pc \notin SpyPcs
      /\ Sound(room', Admitted, Callers, Opened) /\ room'.user1 # NoUser
  BY <1>1, <1>2, <1>4 DEF TaskOK, SpyPcs
<1>6. /\ Admitted' = Admitted /\ Callers' = Callers /\ Opened' = Opened
      /\ TasksOK' /\ PendingOK' /\ OneSpyEach' /\ thread' \in [Threads -> Task]
  BY <1>1, <1>3, <1>4, <1>5, HandlerStep
<1>7. RoomOK'
  BY <1>5, <1>6 DEF RoomOK
<1> QED BY <1>1, <1>2, <1>6, <1>7 DEF IInv, TypeOK, NetTypeOK, NoEcho

\* No message that is stored has the property the query asks for.
LEMMA NothingSaved ==
    ASSUME TypeOK, NEW u PROVE GetSavedMessages(u) = {}
<1> SUFFICES ASSUME NEW m \in saved, "clientId" \in DOMAIN m PROVE FALSE
  BY DEF GetSavedMessages
<1>1. m \in MessageEntity
  BY DEF TypeOK, NetTypeOK
<1>2. DOMAIN m = {"client_id", "message"}
  BY <1>1 DEF MessageEntity
<1> QED BY <1>2

LEMMA ConnectReplayInv ==
    ASSUME IInv, NEW t \in Threads, ConnectReplay(t), UNCHANGED browserVars
    PROVE  IInv'
<1> DEFINE u == thread[t].user
<1>1. /\ thread[t].pc = "replay" /\ thread' = [thread EXCEPT ![t] = Idle]
      /\ saved' = saved \ GetSavedMessages(u)
      /\ UNCHANGED <<room, page, pending, chan, posted>>
  BY DEF ConnectReplay, Done, browserVars
<1>2. PICK order \in SetToSeqs(GetSavedMessages(u)) :
         Send(u, [i \in 1..Len(order) |-> order[i].message])
  BY DEF ConnectReplay
<1>3. u \in Users
  BY <1>1, TaskFacts
<1> HIDE DEF u
<1>4. GetSavedMessages(u) = {} /\ saved' = saved
  BY <1>1, NothingSaved DEF IInv
<1>5. order \in [1 .. 0 -> {}]
  <2>1. Cardinality(GetSavedMessages(u)) = 0
    BY <1>4, FS_EmptySet
  <2> QED BY <1>2, <1>4, <2>1 DEF SetToSeqs
<1>6. order \in Seq(Payload) /\ Len(order) = 0
  <2>1. \A i \in 1 .. 0 : FALSE
    BY SMT
  <2> QED BY <1>5, <2>1
<1> DEFINE msgs == [i \in 1..Len(order) |-> order[i].message]
<1>7. msgs \in Seq(Payload) /\ Len(msgs) = 0
  <2>1. \A i \in 1 .. Len(order) : order[i].message \in Payload
    BY <1>6
  <2> QED BY <1>6, <2>1
<1>8. Send(u, msgs)
  BY <1>2
<1> HIDE DEF msgs
<1>9. channel' \in [Users -> Seq(Payload)] /\ NoEcho'
  <2>1. channel \in [Users -> Seq(Payload)] /\ NoEcho
    BY DEF IInv, TypeOK, NetTypeOK
  <2>2. \A i \in 1 .. Len(msgs) : msgs[i].from = u => "loopback" \in Debugs
    BY <1>7
  <2> QED BY <1>3, <1>7, <1>8, <2>1, <2>2, SendInv
<1>10. /\ Admitted' = Admitted /\ Callers' = Callers /\ Opened' = Opened
       /\ TasksOK' /\ PendingOK' /\ OneSpyEach' /\ thread' \in [Threads -> Task]
  <2>1. thread[t].pc \notin SpyPcs
    BY <1>1 DEF SpyPcs
  <2> QED BY <1>1, <2>1, HandlerStep, IdleOK
<1> QED BY <1>1, <1>4, <1>9, <1>10 DEF IInv, TypeOK, NetTypeOK, RoomOK

-----------------------------------------------------------------------------
(* Room.removeUser, DisconnectServlet                                      *)

LEMMA PurgeInv ==
    ASSUME IInv, NEW t \in Threads, Purge(t), UNCHANGED browserVars
    PROVE  IInv'
<1> DEFINE k == [thread[t] EXCEPT !.pc = "remove"]
<1>1. /\ thread[t].pc = "purge" /\ thread' = [thread EXCEPT ![t].pc = "remove"]
      /\ saved' \subseteq saved /\ UNCHANGED <<room, channel, page, pending, chan, posted>>
  BY DEF Purge, Goto, browserVars
<1>2. thread[t] \in Task /\ TaskOK(thread[t], Admitted, Callers, Opened, Loading)
  BY TaskFacts
<1>3. thread' = [thread EXCEPT ![t] = k]
  BY <1>1 DEF IInv, TypeOK
<1>4. /\ k \in Task /\ k.pc = "remove" /\ k.user = thread[t].user /\ k.copy = thread[t].copy
      /\ k.other = thread[t].other
  BY <1>2 DEF Task
<1> HIDE DEF k
<1>5. /\ TaskOK(k, Admitted, Callers, Opened, Loading) /\ k.pc \notin SpyPcs
      /\ thread[t].pc \notin SpyPcs
  BY <1>1, <1>2, <1>4 DEF TaskOK, SpyPcs
<1>6. /\ Admitted' = Admitted /\ Callers' = Callers /\ Opened' = Opened
      /\ TasksOK' /\ PendingOK' /\ OneSpyEach' /\ thread' \in [Threads -> Task]
  BY <1>1, <1>3, <1>4, <1>5, HandlerStep
<1> QED BY <1>1, <1>6 DEF IInv, TypeOK, NetTypeOK, RoomOK, NoEcho

LEMMA RemoveAndStoreInv ==
    ASSUME IInv, NEW t \in Threads, RemoveAndStore(t), UNCHANGED browserVars
    PROVE  IInv'
<1> DEFINE task == thread[t]
           copy == RemoveUser(task.copy, task.user)
           next == CASE task.arg = "bye" /\ task.other # NoUser
                                         /\ HasUser(copy, task.other) -> "forward"
                     [] task.arg = "none" /\ task.other \notin {NoUser, task.user} -> "sendBye"
                     [] OTHER -> "idle"
           k == IF next = "idle" THEN Idle ELSE [task EXCEPT !.pc = next, !.copy = copy]
<1>1. /\ task.pc = "remove" /\ room' = StoreOrDelete(copy) /\ thread' = [thread EXCEPT ![t] = k]
      /\ UNCHANGED <<saved, channel, page, pending, chan, posted>>
  BY DEF RemoveAndStore, Done, Run, browserVars
<1>2. /\ task \in Task /\ task.copy \in RoomEntity /\ task.user \in Users
      /\ TaskOK(task, Admitted, Callers, Opened, Loading)
  BY <1>1, TaskFacts
<1>3. /\ Sound(task.copy, Admitted, Callers, Opened) /\ task.copy.user1 # NoUser
      /\ task.other = NoUser \/ task.other # task.user \/ "loopback" \in Debugs
      /\ task.other \in Slot
  BY <1>1, <1>2 DEF TaskOK, Task
<1>4. /\ copy \in RoomEntity /\ Sound(copy, Admitted, Callers, Opened)
      /\ Occupancy(copy) > 0 => copy.user1 # NoUser
  <2>1. /\ task.copy.user2 \in Admitted \cup {NoUser}
        /\ copy = RemoveUser(task.copy, task.user)
    BY <1>3, SetFacts DEF Sound
  <2>2. /\ task.copy \in RoomEntity /\ task.user \in Users
        /\ Sound(task.copy, Admitted, Callers, Opened) /\ task.copy.user1 # NoUser
    BY <1>2, <1>3
  <2> HIDE DEF copy, task
  <2>3. /\ copy \in RoomEntity /\ Sound(copy, Admitted, Callers, Opened)
        /\ task.copy.user1 # NoUser /\ Occupancy(copy) > 0 => copy.user1 # NoUser
    BY <2>1, <2>2, SoundRemove
  <2> QED BY <2>2, <2>3
<1>5. /\ next \in {"forward", "sendBye", "idle"}
      /\ next = "forward" => task.arg = "bye" /\ task.other # NoUser
      /\ next = "sendBye" => task.other # NoUser /\ task.other # task.user
  OBVIOUS
<1> HIDE DEF copy, next
<1>6. k \in Task /\ TaskOK(k, Admitted, Callers, Opened, Loading) /\ k.pc \notin SpyPcs
  <2>1. CASE next = "idle"
    BY <2>1, IdleOK
  <2>2. CASE next # "idle"
    <3>1. /\ k = [task EXCEPT !.pc = next, !.copy = copy]
      BY <2>2
    <3>2. /\ k \in Task /\ k.pc = next /\ k.copy = copy /\ k.user = task.user
          /\ k.other = task.other /\ k.arg = task.arg
      BY <1>2, <1>4, <1>5, <3>1 DEF Task
    <3> HIDE DEF k, task
    <3> QED BY <1>2, <1>3, <1>4, <1>5, <2>2, <3>2 DEF TaskOK, SpyPcs, Slot, MsgTypes
  <2> QED BY <2>1, <2>2
<1> HIDE DEF k
<1>7. /\ Admitted' = Admitted /\ Callers' = Callers /\ Opened' = Opened
      /\ TasksOK' /\ PendingOK' /\ OneSpyEach' /\ thread' \in [Threads -> Task]
  <2>1. thread[t].pc \notin SpyPcs
    BY <1>1 DEF SpyPcs
  <2> QED BY <1>1, <1>6, <2>1, HandlerStep
<1>8. RoomOK' /\ room' \in RoomEntity \cup {NoRoom}
  BY <1>1, <1>4, <1>7 DEF RoomOK, StoreOrDelete
<1> QED BY <1>1, <1>7, <1>8 DEF IInv, TypeOK, NetTypeOK, NoEcho

\* A request that is taken up with the room as it was found.
LEMMA TakeInv ==
    ASSUME IInv, NEW t \in Threads, NEW k \in Task, thread' = [thread EXCEPT ![t] = k],
           UNCHANGED <<room, saved, channel, page, chan, posted>>, pending' \subseteq pending,
           thread[t].pc = "idle", k.pc \notin SpyPcs,
           TaskOK(k, Admitted, Callers, Opened, Loading)
    PROVE  IInv'
<1>1. thread[t].pc \notin SpyPcs
  BY DEF SpyPcs
<1>2. /\ Admitted' = Admitted /\ Callers' = Callers /\ Opened' = Opened
      /\ TasksOK' /\ PendingOK' /\ OneSpyEach' /\ thread' \in [Threads -> Task]
  BY <1>1, HandlerStep
<1> QED BY <1>2 DEF IInv, TypeOK, NetTypeOK, RoomOK, NoEcho

LEMMA DisconnectFindInv ==
    ASSUME IInv, NEW t \in Threads, NEW u \in Users, DisconnectFind(t, u), UNCHANGED browserVars
    PROVE  IInv'
<1> DEFINE k == NewTask("purge", u, "none", room)
<1>1. /\ UNCHANGED <<room, saved, channel, page, chan, posted>> /\ pending' \subseteq pending
      /\ thread[t].pc = "idle"
  BY DEF DisconnectFind, Take, serverVars, browserVars
<1>2. CASE room # NoRoom /\ HasUser(room, u)
  <2>1. thread' = [thread EXCEPT ![t] = k]
    BY <1>2 DEF DisconnectFind, Run
  <2>2. /\ room \in RoomEntity /\ Sound(room, Admitted, Callers, Opened)
        /\ room.user1 # NoUser
    BY <1>2, RoomFacts
  <2>3. /\ k \in Task /\ k.pc = "purge" /\ k.user = u /\ k.copy = room
        /\ k.other = OtherUser(room, u)
    BY <2>2, NewTaskFacts
  <2>4. k.other = NoUser \/ k.other # u \/ "loopback" \in Debugs
    BY <2>2, <2>3, OtherIsOther
  <2> HIDE DEF k
  <2>5. TaskOK(k, Admitted, Callers, Opened, Loading) /\ k.pc \notin SpyPcs
    BY <2>2, <2>3, <2>4 DEF TaskOK, SpyPcs
  <2> QED BY <1>1, <2>1, <2>3, <2>5, TakeInv
<1>3. CASE ~(room # NoRoom /\ HasUser(room, u))
  BY <1>1, <1>3, Ignored DEF DisconnectFind
<1> QED BY <1>2, <1>3

\* A message goes out and the handler is done.
LEMMA SendAndDone ==
    ASSUME IInv, NEW t \in Threads, thread[t].pc \notin SpyPcs,
           thread' = [thread EXCEPT ![t] = Idle],
           UNCHANGED <<room, page, pending, chan, posted>>,
           saved' \subseteq MessageEntity, channel' \in [Users -> Seq(Payload)], NoEcho'
    PROVE  IInv'
<1>1. /\ Admitted' = Admitted /\ Callers' = Callers /\ Opened' = Opened
      /\ TasksOK' /\ PendingOK' /\ OneSpyEach' /\ thread' \in [Threads -> Task]
  BY HandlerStep, IdleOK
<1> QED BY <1>1 DEF IInv, TypeOK, NetTypeOK, RoomOK

LEMMA DisconnectByeInv ==
    ASSUME IInv, NEW t \in Threads, DisconnectBye(t), UNCHANGED browserVars
    PROVE  IInv'
<1> DEFINE u == thread[t].user
           other == thread[t].other
<1>1. /\ thread[t].pc = "sendBye" /\ Send(other, <<Bye(u)>>) /\ thread' = [thread EXCEPT ![t] = Idle]
      /\ UNCHANGED <<room, saved, page, pending, chan, posted>>
  BY DEF DisconnectBye, Done, browserVars
<1>2. u \in Users /\ other \in Users /\ other # u /\ thread[t].pc \notin SpyPcs
  BY <1>1, TaskFacts DEF TaskOK, SpyPcs
<1> HIDE DEF u, other
<1> DEFINE msgs == <<Bye(u)>>
<1>3. msgs \in Seq(Payload) /\ \A i \in 1 .. Len(msgs) : msgs[i].from = u
  BY <1>2 DEF Bye, Payload, Slot, MsgTypes
<1> HIDE DEF msgs
<1>4. Send(other, msgs)
  BY <1>1 DEF msgs
<1>5. channel' \in [Users -> Seq(Payload)] /\ NoEcho'
  <2>1. channel \in [Users -> Seq(Payload)] /\ NoEcho
    BY DEF IInv, TypeOK, NetTypeOK
  <2>2. \A i \in 1 .. Len(msgs) : msgs[i].from = other => "loopback" \in Debugs
    BY <1>2, <1>3
  <2> QED BY <1>2, <1>3, <1>4, <2>1, <2>2, SendInv
<1>6. saved' \subseteq MessageEntity
  BY <1>1 DEF IInv, TypeOK, NetTypeOK
<1> QED BY <1>1, <1>2, <1>5, <1>6, SendAndDone

-----------------------------------------------------------------------------
(* MessageServlet                                                          *)

LEMMA MessageFindInv ==
    ASSUME IInv, NEW t \in Threads, NEW u \in Users, NEW type \in PostTypes,
           MessageFind(t, u, type), UNCHANGED browserVars
    PROVE  IInv'
<1> DEFINE other == OtherUser(room, u)
           pc == IF type = "bye" THEN "purge" ELSE "forward"
           k == NewTask(pc, u, type, room)
<1>1. /\ UNCHANGED <<room, saved, channel, page, chan, posted>> /\ pending' \subseteq pending
      /\ thread[t].pc = "idle"
  BY DEF MessageFind, Take, serverVars, browserVars
<1>2. CASE room # NoRoom /\ (type = "bye" \/ (other # NoUser /\ HasUser(room, other)))
  <2>1. thread' = [thread EXCEPT ![t] = k]
    BY <1>2 DEF MessageFind, Run
  <2>2. /\ room \in RoomEntity /\ Sound(room, Admitted, Callers, Opened)
        /\ room.user1 # NoUser
    BY <1>2, RoomFacts
  <2>3. type \in MsgTypes
    BY PostTypesAreTypes DEF MsgTypes
  <2>a. pc \in {"connect", "purge", "forward"} /\ type \in {"none"} \cup MsgTypes
    BY <2>3
  <2> HIDE DEF pc
  <2>4. /\ k \in Task /\ k.user = u /\ k.copy = room /\ k.arg = type /\ k.pc = pc
        /\ k.other = other /\ k.other \in Slot
    BY <2>2, <2>a, NewTaskFacts
  <2>5. k.other = NoUser \/ k.other # u \/ "loopback" \in Debugs
    BY <2>2, <2>4, OtherIsOther
  <2> HIDE DEF k, other
  <2>6. TaskOK(k, Admitted, Callers, Opened, Loading) /\ k.pc \notin SpyPcs
    BY <1>2, <2>2, <2>3, <2>4, <2>5 DEF TaskOK, SpyPcs, Slot, pc
  <2> QED BY <1>1, <2>1, <2>4, <2>6, TakeInv
<1>3. CASE ~(room # NoRoom /\ (type = "bye" \/ (other # NoUser /\ HasUser(room, other))))
  BY <1>1, <1>3, Ignored DEF MessageFind
<1> QED BY <1>2, <1>3

LEMMA MessageForwardInv ==
    ASSUME IInv, NEW t \in Threads, MessageForward(t), UNCHANGED browserVars
    PROVE  IInv'
<1> DEFINE task == thread[t]
           msg == Forwarded(task.user, task.other, task.arg)
           msgs == <<msg>>
<1>1. /\ task.pc = "forward" /\ thread' = [thread EXCEPT ![t] = Idle]
      /\ \/ Send(task.other, msgs) /\ UNCHANGED saved
         \/ saved' = saved \cup {[client_id |-> task.other, message |-> msg]} /\ UNCHANGED channel
      /\ UNCHANGED <<room, page, pending, chan, posted>>
  BY DEF MessageForward, Done, browserVars
<1>2. /\ task.user \in Users /\ task.other \in Users /\ task.arg \in MsgTypes
      /\ task.other # task.user \/ "loopback" \in Debugs
      /\ task.pc \notin SpyPcs
  BY <1>1, TaskFacts DEF TaskOK, SpyPcs
<1>3. msg \in Payload /\ msg.from = task.user
  BY <1>2 DEF Forwarded, Payload, Slot, MsgTypes
<1>4. /\ channel \in [Users -> Seq(Payload)] /\ NoEcho /\ saved \subseteq MessageEntity
  BY DEF IInv, TypeOK, NetTypeOK
<1> HIDE DEF task, msg
<1>5. /\ msgs \in Seq(Payload)
      /\ \A i \in 1 .. Len(msgs) : msgs[i].from = task.other => "loopback" \in Debugs
  BY <1>2, <1>3
<1> HIDE DEF msgs
<1>6. CASE Send(task.other, msgs) /\ UNCHANGED saved
  <2>1. channel' \in [Users -> Seq(Payload)] /\ NoEcho'
    BY <1>2, <1>4, <1>5, <1>6, SendInv
  <2> QED BY <1>1, <1>2, <1>4, <1>6, <2>1, SendAndDone DEF task
<1>7. CASE saved' = saved \cup {[client_id |-> task.other, message |-> msg]} /\ UNCHANGED channel
  <2>1. saved' \subseteq MessageEntity
    BY <1>2, <1>3, <1>4, <1>7 DEF MessageEntity
  <2>2. channel' \in [Users -> Seq(Payload)] /\ NoEcho'
    BY <1>4, <1>7 DEF NoEcho
  <2> QED BY <1>1, <1>2, <2>1, <2>2, SendAndDone DEF task
<1> QED BY <1>1, <1>6, <1>7

-----------------------------------------------------------------------------
(* SpyServlet                                                              *)

\* A page load is taken up: its user joins those who are let in.
LEMMA SpyFindInv ==
    ASSUME IInv, NEW t \in Threads, NEW u \in Users, NEW debug \in Debugs,
           SpyFind(t, u, debug), UNCHANGED browserVars
    PROVE  IInv'
<1> DEFINE found == IF room = NoRoom THEN NewRoom ELSE room
           role == Role(room, debug)
           k == [Idle EXCEPT !.pc = "save", !.user = u, !.arg = debug,
                             !.copy = AddUser(found, u), !.role = role]
           req == Req("spy", u, debug)
<1>1. /\ thread[t].pc = "idle" /\ req \in pending /\ pending' = pending \ {req}
      /\ UNCHANGED <<room, saved, channel, chan, posted>>
  BY DEF SpyFind, Take, browserVars
<1>2. /\ page[u] = "loading" /\ u \notin Spied /\ u \notin Admitted
      /\ \A s \in Threads : thread[s].pc \in SpyPcs => thread[s].user # u
  BY <1>1 DEF IInv, PendingOK, Loading, Admitted, Served, Spied, Req
<1>3. \A r \in pending' : r.kind = "spy" => r.user # u
  BY <1>1 DEF IInv, OneSpyEach, Req
<1>4. CASE Admits(room, debug) /\ thread' = [thread EXCEPT ![t] = k] /\ UNCHANGED page
  <2>1. role \in {"callee", "caller"} /\ (room # NoRoom \/ debug = "loopback" => role = "caller")
    BY DEF Role
  <2> HIDE DEF role
  <2> DEFINE A == Admitted \cup {u}
             C == IF role = "caller" THEN Callers \cup {u} ELSE Callers
  <2>2. /\ AddUser(found, u) \in RoomEntity /\ Sound(AddUser(found, u), A, C, Opened)
        /\ AddUser(found, u).user1 # NoUser
    <3>1. CASE room = NoRoom
      <4>1. u \in A /\ found = NewRoom
        BY <3>1
      <4> HIDE DEF A, C, found
      <4> QED BY <4>1, SoundAddFirst
    <3>2. CASE room # NoRoom
      <4>1. /\ room \in RoomEntity /\ Sound(room, Admitted, Callers, Opened)
            /\ room.user1 # NoUser /\ found = room
        BY <3>2, RoomFacts
      <4>2. Sound(room, A, C, Opened) /\ u \in C /\ Opened \in SUBSET Users
        <5>1. Admitted \subseteq A /\ Callers \subseteq C /\ u \in C
          BY <2>1, <3>2
        <5> HIDE DEF A, C
        <5> QED BY <4>1, <5>1, SoundGrows, SetFacts
      <4>3. room.user2 = NoUser
        BY <1>4, <3>2, <4>1 DEF Admits, Occupancy
      <4>4. u # room.user1
        BY <1>2, <4>1 DEF Sound
      <4> HIDE DEF A, C, found
      <4> QED BY <4>1, <4>2, <4>3, <4>4, SoundAddSecond
    <3> QED BY <3>1, <3>2
  <2> HIDE DEF found
  <2>3. /\ k \in Task /\ k.pc = "save" /\ k.user = u /\ k.arg = debug /\ k.role = role
        /\ k.copy = AddUser(found, u)
    BY <2>1, <2>2, DebugsAreModes DEF Idle, Task, Slot
  <2> HIDE DEF k
  <2>4. /\ thread' \in [Threads -> Task] /\ thread'[t] = k
        /\ \A s \in Threads \ {t} : thread'[s] = thread[s]
    BY <1>4, <2>3 DEF IInv, TypeOK
  <2>5. Spied' = Spied \cup {u}
    BY <1>1, <2>3, <2>4 DEF Spied, SpyPcs
  <2>6. SpiedCallers' = IF role = "caller" THEN SpiedCallers \cup {u} ELSE SpiedCallers
    BY <1>1, <2>3, <2>4 DEF SpiedCallers, SpyPcs
  <2>7. Admitted' = A /\ Callers' = C /\ Opened' = Opened /\ Loading' = Loading
    BY <1>1, <1>4, <2>5, <2>6 DEF Admitted, Callers, Opened, Loading, Served
  <2>8. Admitted \subseteq A /\ Callers \subseteq C
    OBVIOUS
  <2> HIDE DEF A, C
  <2>9. TaskOK(k, A, C, Opened, Loading)
    BY <1>2, <2>1, <2>2, <2>3 DEF TaskOK, SpyPcs, Loading
  <2>10. TasksOK'
    <3> SUFFICES ASSUME NEW s \in Threads
                 PROVE  TaskOK(thread'[s], A, C, Opened, Loading)
      BY <2>7 DEF TasksOK
    <3>1. TaskOK(thread[s], Admitted, Callers, Opened, Loading)
      BY DEF IInv, TasksOK
    <3>2. TaskOK(thread[s], A, C, Opened, Loading)
      BY <2>8, <3>1, TaskGrows DEF TaskOK
    <3> QED BY <2>4, <2>9, <3>2
  <2>11. RoomOK'
    BY <1>1, <2>7, <2>8, SoundGrows DEF IInv, RoomOK
  <2>12. PendingOK'
    BY <1>1, <1>3, <2>5, <2>7 DEF IInv, PendingOK
  <2>13. OneSpyEach'
    <3>1. \A r, s \in pending' : r.kind = "spy" /\ s.kind = "spy" /\ r.user = s.user => r = s
      BY <1>1 DEF IInv, OneSpyEach
    <3>2. ASSUME NEW r \in Threads, NEW s \in Threads,
                 thread'[r].pc \in SpyPcs, thread'[s].pc \in SpyPcs,
                 thread'[r].user = thread'[s].user
          PROVE  r = s
      <4>1. CASE r # t /\ s # t
        BY <2>4, <3>2, <4>1 DEF IInv, OneSpyEach
      <4>2. CASE r = t /\ s # t
        BY <1>2, <2>3, <2>4, <3>2, <4>2
      <4>3. CASE r # t /\ s = t
        BY <1>2, <2>3, <2>4, <3>2, <4>3
      <4> QED BY <4>1, <4>2, <4>3
    <3> QED BY <3>1, <3>2 DEF OneSpyEach
  <2> QED BY <1>1, <1>4, <2>4, <2>10, <2>11, <2>12, <2>13 DEF IInv, TypeOK, NetTypeOK, NoEcho
<1>5. CASE page' = [page EXCEPT ![u] = "full"] /\ UNCHANGED thread
  <2>1. /\ page' \in [Users -> PageState] /\ page'[u] = "full"
        /\ \A v \in Users \ {u} : page'[v] = page[v]
    BY <1>5 DEF IInv, TypeOK, NetTypeOK, PageState
  <2>2. /\ Admitted' = Admitted /\ Callers' = Callers /\ Opened' = Opened
        /\ Spied' = Spied /\ Loading' = Loading \ {u}
    BY <1>1, <1>2, <1>5, <2>1 DEF Admitted, Callers, Opened, Spied, SpiedCallers, Loading, Served
  <2>3. TasksOK'
    <3> SUFFICES ASSUME NEW s \in Threads
                 PROVE  TaskOK(thread[s], Admitted, Callers, Opened, Loading \ {u})
      BY <1>5, <2>2 DEF TasksOK
    <3>1. TaskOK(thread[s], Admitted, Callers, Opened, Loading)
      BY DEF IInv, TasksOK
    <3> QED BY <1>2, <3>1, TaskGrows DEF TaskOK
  <2>4. PendingOK'
    BY <1>1, <1>3, <2>2 DEF IInv, PendingOK
  <2>5. OneSpyEach' /\ RoomOK' /\ NoEcho'
    BY <1>1, <1>5, <2>2 DEF IInv, OneSpyEach, RoomOK, NoEcho
  <2> QED BY <1>1, <1>5, <2>1, <2>3, <2>4, <2>5 DEF IInv, TypeOK, NetTypeOK
<1> QED BY <1>4, <1>5 DEF SpyFind, Run

\* A page load that saved the room goes on with task k.
LEMMA SpyGoesOn ==
    ASSUME IInv, NEW t \in Threads, thread[t].pc \in SpyPcs, room' = thread[t].copy,
           thread[t].copy.user1 # NoUser,
           NEW k \in Task, thread' = [thread EXCEPT ![t] = k], k.pc \in SpyPcs,
           k.user = thread[t].user, k.role = thread[t].role, k.arg = thread[t].arg,
           k.copy.user1 # NoUser, Sound(k.copy, Admitted, Callers, Opened),
           UNCHANGED <<saved, channel, page, pending, chan, posted>>
    PROVE  IInv'
<1>1. /\ thread[t] \in Task /\ thread[t].copy \in RoomEntity
      /\ TaskOK(thread[t], Admitted, Callers, Opened, Loading)
  BY TaskFacts
<1>2. TaskOK(k, Admitted, Callers, Opened, Loading)
  BY <1>1 DEF TaskOK, SpyPcs
<1>3. /\ Admitted' = Admitted /\ Callers' = Callers /\ Opened' = Opened
      /\ TasksOK' /\ PendingOK' /\ OneSpyEach' /\ thread' \in [Threads -> Task]
  BY <1>2, HandlerStep
<1>4. RoomOK'
  BY <1>1, <1>3 DEF RoomOK, TaskOK
<1> QED BY <1>1, <1>3, <1>4 DEF IInv, TypeOK, NetTypeOK, NoEcho

LEMMA SpySaveInv ==
    ASSUME IInv, NEW t \in Threads, SpySave(t), UNCHANGED browserVars
    PROVE  IInv'
<1> DEFINE k == [thread[t] EXCEPT !.pc = "saveAgain"]
<1>1. /\ thread[t].pc = "save" /\ room' = thread[t].copy
      /\ thread' = [thread EXCEPT ![t].pc = "saveAgain"]
      /\ UNCHANGED <<saved, channel, page, pending, chan, posted>>
  BY DEF SpySave, Goto, browserVars
<1>2. thread[t] \in Task /\ TaskOK(thread[t], Admitted, Callers, Opened, Loading)
  BY TaskFacts
<1>3. thread' = [thread EXCEPT ![t] = k]
  BY <1>1 DEF IInv, TypeOK
<1>4. /\ k \in Task /\ k.pc = "saveAgain" /\ k.user = thread[t].user
      /\ k.role = thread[t].role /\ k.arg = thread[t].arg /\ k.copy = thread[t].copy
  BY <1>2 DEF Task
<1> HIDE DEF k
<1>5. /\ k.pc \in SpyPcs /\ thread[t].pc \in SpyPcs
      /\ thread[t].copy.user1 # NoUser /\ Sound(thread[t].copy, Admitted, Callers, Opened)
  BY <1>1, <1>2, <1>4 DEF TaskOK, SpyPcs
<1> QED BY <1>1, <1>3, <1>4, <1>5, SpyGoesOn

LEMMA SpySaveAgainInv ==
    ASSUME IInv, NEW t \in Threads, SpySaveAgain(t), UNCHANGED browserVars
    PROVE  IInv'
<1> DEFINE task == thread[t]
           u == task.user
           twice == task.arg = "loopback" /\ task.copy.user2 = NoUser
           q == AddUser(task.copy, u)
           k == IF twice THEN [task EXCEPT !.pc = "save", !.copy = q]
                ELSE [task EXCEPT !.pc = "serve"]
<1>1. /\ task.pc = "saveAgain" /\ room' = task.copy
      /\ UNCHANGED <<saved, channel, page, pending, chan, posted>>
  BY DEF SpySaveAgain, browserVars
<1>2. thread' = [thread EXCEPT ![t] = k]
  BY DEF SpySaveAgain, Run, Goto, IInv, TypeOK
<1>3. /\ task \in Task /\ task.copy \in RoomEntity /\ u \in Users
      /\ TaskOK(task, Admitted, Callers, Opened, Loading)
  BY <1>1, TaskFacts
<1>4. /\ task.pc \in SpyPcs
      /\ task.copy.user1 # NoUser /\ Sound(task.copy, Admitted, Callers, Opened)
      /\ task.arg = "loopback" => task.role = "caller" /\ "loopback" \in Debugs
  BY <1>1, <1>3 DEF TaskOK, SpyPcs
<1>5. task.role = "caller" => u \in Callers
  BY <1>3, <1>4 DEF Callers, SpiedCallers
<1>6. twice => q \in RoomEntity /\ Sound(q, Admitted, Callers, Opened) /\ q.user1 # NoUser
  <2> SUFFICES ASSUME twice
               PROVE  q \in RoomEntity /\ Sound(q, Admitted, Callers, Opened) /\ q.user1 # NoUser
    OBVIOUS
  <2>1. /\ Opened \in SUBSET Users /\ task.copy.user2 = NoUser /\ u \in Callers
        /\ u # task.copy.user1 \/ "loopback" \in Debugs
    BY <1>4, <1>5, SetFacts
  <2> HIDE DEF task, u
  <2> QED BY <1>3, <1>4, <2>1, SoundAddSecond
<1> HIDE DEF q
<1>7. /\ k \in Task /\ k.pc \in {"save", "serve"} /\ k.user = u /\ k.role = task.role
      /\ k.arg = task.arg /\ k.copy = IF twice THEN q ELSE task.copy
  BY <1>3, <1>6 DEF Task
<1> HIDE DEF k
<1>8. k.pc \in SpyPcs /\ k.copy.user1 # NoUser /\ Sound(k.copy, Admitted, Callers, Opened)
  BY <1>4, <1>6, <1>7 DEF SpyPcs
<1> QED BY <1>1, <1>2, <1>4, <1>7, <1>8, SpyGoesOn

\* The page is served: its user was let in by the thread, and is so by the page now.
LEMMA SpyServeInv ==
    ASSUME IInv, NEW t \in Threads, SpyServe(t), UNCHANGED browserVars
    PROVE  IInv'
<1> DEFINE u == thread[t].user
           role == thread[t].role
<1>1. /\ thread[t].pc = "serve" /\ page' = [page EXCEPT ![u] = role]
      /\ thread' = [thread EXCEPT ![t] = Idle]
      /\ UNCHANGED <<room, saved, channel, pending, chan, posted>>
  BY DEF SpyServe, Done, browserVars
<1>2. /\ u \in Loading /\ u \in Users /\ role \in {"callee", "caller"}
      /\ thread[t].pc \in SpyPcs
  BY <1>1, TaskFacts DEF TaskOK, SpyPcs
<1>3. /\ thread' \in [Threads -> Task] /\ thread'[t] = Idle
      /\ \A s \in Threads \ {t} : thread'[s] = thread[s]
  BY <1>1, IdleOK DEF IInv, TypeOK
<1>4. /\ page' \in [Users -> PageState] /\ page[u] = "loading" /\ page'[u] = role
      /\ \A v \in Users \ {u} : page'[v] = page[v]
  BY <1>1, <1>2 DEF IInv, TypeOK, NetTypeOK, PageState, Loading
<1>5. \A s \in Threads \ {t} : thread[s].pc \in SpyPcs => thread[s].user # u
  BY <1>2 DEF IInv, OneSpyEach
<1>6. /\ Spied' = Spied \ {u} /\ u \in Spied
      /\ SpiedCallers' = SpiedCallers \ {u} /\ (u \in SpiedCallers <=> role = "caller")
  BY <1>2, <1>3, <1>5, IdleOK DEF Spied, SpiedCallers
<1>7. /\ Admitted' = Admitted /\ Callers' = Callers /\ Opened' = Opened
      /\ Loading' = Loading \ {u}
  BY <1>1, <1>2, <1>4, <1>6 DEF Admitted, Callers, Opened, Loading, Served
<1>8. TasksOK'
  <2> SUFFICES ASSUME NEW s \in Threads
               PROVE  TaskOK(thread'[s], Admitted, Callers, Opened, Loading \ {u})
    BY <1>7 DEF TasksOK
  <2>1. CASE s = t
    BY <1>3, <2>1, IdleOK
  <2>2. CASE s # t
    <3>1. TaskOK(thread[s], Admitted, Callers, Opened, Loading)
      BY DEF IInv, TasksOK
    <3> HIDE DEF u
    <3> QED BY <1>3, <1>5, <2>2, <3>1, TaskGrows DEF TaskOK
  <2> QED BY <2>1, <2>2
<1>9. PendingOK'
  BY <1>1, <1>6, <1>7 DEF IInv, PendingOK
<1>10. OneSpyEach'
  <2>1. \A s \in Threads : thread'[s].pc \in SpyPcs => s # t /\ thread'[s] = thread[s]
    BY <1>3, IdleOK
  <2> QED BY <1>1, <2>1 DEF IInv, OneSpyEach
<1>11. RoomOK' /\ NoEcho'
  BY <1>1, <1>7 DEF IInv, RoomOK, NoEcho
<1> QED BY <1>1, <1>3, <1>4, <1>8, <1>9, <1>10, <1>11 DEF IInv, TypeOK, NetTypeOK

-----------------------------------------------------------------------------
(* Theorems                                                                *)

LEMMA NextInv == ASSUME IInv, [Next]_vars PROVE IInv'
<1>1. CASE UNCHANGED vars
  BY <1>1, Ignored DEF vars, netVars
<1>2. CASE \E u \in Users : Browser(u) /\ UNCHANGED thread
  BY <1>2, BrowserInv
<1>3. ASSUME NEW t \in Threads, Find(t), UNCHANGED browserVars PROVE IInv'
  BY <1>3, SpyFindInv, ConnectFindInv, DisconnectFindInv, MessageFindInv DEF Find
<1>4. ASSUME NEW t \in Threads, Step(t), UNCHANGED browserVars PROVE IInv'
  BY <1>4, SpySaveInv, SpySaveAgainInv, SpyServeInv, ConnectSaveInv, ConnectReplayInv,
     PurgeInv, RemoveAndStoreInv, DisconnectByeInv, MessageForwardInv DEF Step
<1> QED BY <1>1, <1>2, <1>3, <1>4 DEF Next, Server

\* What holds of the stored room, of every copy and of every channel, however
\* many handlers interleave (SpyServlet, ConnectServlet, DisconnectServlet,
\* MessageServlet).
THEOREM Invariance == Spec => []IInv
<1>1. Init => IInv
  BY InitInv
<1>2. IInv /\ [Next]_vars => IInv'
  BY NextInv
<1> QED BY <1>1, <1>2, PTL DEF Spec

\* The handlers keep the types of the entities they store and of their locals.
THEOREM TypeCorrect == Spec => []TypeOK
<1>1. IInv => TypeOK
  BY DEF IInv
<1> QED BY <1>1, Invariance, PTL

\* No interleaving stores a room that nobody can enter or leave: Room.removeUser
\* and addUser work on copies with a first user.
THEOREM NoEmptyRoomHolds == Spec => []NoEmptyRoom
<1>1. IInv => NoEmptyRoom
  BY DEF IInv, RoomOK, NoEmptyRoom
<1> QED BY <1>1, Invariance, PTL

\* The second user of a stored room was told to call (SpyServlet's initiator).
THEOREM FullRoomHasCallerHolds == Spec => []FullRoomHasCaller
<1>1. ASSUME IInv PROVE FullRoomHasCaller
  <2> SUFFICES ASSUME room # NoRoom, room.user2 # NoUser
               PROVE  room.user2 \in Callers
    BY DEF FullRoomHasCaller, Callers, SpiedCallers
  <2> QED BY <1>1, RoomFacts DEF Sound
<1> QED BY <1>1, Invariance, PTL

\* Nobody is believed connected whose channel was never opened: the flag that
\* ConnectServlet sets stays with its user in every copy.
THEOREM ConnectedWasOpenedHolds == Spec => []ConnectedWasOpened
<1>1. ASSUME IInv PROVE ConnectedWasOpened
  <2> SUFFICES ASSUME NEW u \in Users, room # NoRoom, IsConnected(room, u)
               PROVE  u \in Opened
    BY DEF ConnectedWasOpened, Connected, Opened
  <2> QED BY <1>1, RoomFacts DEF Sound, IsConnected
<1> QED BY <1>1, Invariance, PTL

\* Whoever was told that the room is full is in no slot, neither of the stored
\* room nor of a copy that a handler may still write (SpyServlet).
THEOREM FullPageHoldsNoSlotHolds == Spec => []FullPageHoldsNoSlot
<1>1. ASSUME IInv PROVE FullPageHoldsNoSlot
  <2> SUFFICES ASSUME NEW u \in Users, page[u] = "full"
               PROVE  /\ u \notin Members
                      /\ \A t \in Threads : u \notin MembersOf(thread[t].copy)
    BY DEF FullPageHoldsNoSlot
  <2>1. u \notin Admitted /\ u \notin Callers
    BY <1>1, SetFacts DEF IInv
  <2>2. ASSUME NEW r, Sound(r, Admitted, Callers, Opened) PROVE u \notin MembersOf(r)
    BY <2>1, <2>2, BlankSlotIsNoUser DEF Sound, MembersOf
  <2>3. u \notin Members
    BY <1>1, <2>2, RoomFacts DEF Members, MembersOf
  <2>4. ASSUME NEW t \in Threads PROVE u \notin MembersOf(thread[t].copy)
    BY <1>1, <2>2, TaskFacts DEF TaskOK
  <2> QED BY <2>3, <2>4
<1> QED BY <1>1, Invariance, PTL

\* Nobody's own message comes back to them outside a loopback room
\* (RTCUtils.onMessage, DisconnectServlet).
THEOREM NoEchoHolds == Spec => []NoEcho
<1>1. IInv => NoEcho
  BY DEF IInv
<1> QED BY <1>1, Invariance, PTL

-----------------------------------------------------------------------------
(* One handler at a time                                                   *)
(*                                                                         *)
(* With one thread a handler's copy is never stale.  What it is then worth *)
(* is said of a task k, the stored room r and the people L who are leaving. *)

OneThread == \A s, t \in Threads : s = t

ConnectedIn(r) == IF r = NoRoom THEN {} ELSE ConnectedOf(r)

LeavePcs == {"purge", "remove"}

Fresh(k, r, L) ==
    /\ k.pc = "save" =>
         /\ WellFormed(k.copy)
         /\ MembersOf(k.copy) = MembersOf(r) \cup {k.user}
         /\ ConnectedOf(k.copy) = ConnectedIn(r)
         /\ k.user \in MembersOf(r) \/ Cardinality(MembersOf(r)) < 2
    /\ k.pc = "saveAgain" => r = k.copy
    /\ k.pc \in {"saveAgain", "serve"} => k.user \in MembersOf(r)
    /\ k.pc = "connect" =>
         r # NoRoom /\ HasUser(r, k.user) /\ k.copy = SetConnected(r, k.user)
    /\ k.pc \in LeavePcs => r = k.copy /\ k.user \in L

TasksFresh == \A t \in Threads : Fresh(thread[t], room, Leaving)

\* Only a page that was served opens a channel and posts messages.
BrowserOK == \A u \in Users : chan[u] # "none" \/ posted[u] # {} => Served(u)

\* Nobody is put out who did not say goodbye.
GoneLeft == \A u \in Gone : u \in Leaving

\* What a goodbye in flight says of the browser that posted it.
PostedOK ==
    \A r \in pending :
        /\ r.kind = "disconnect" => chan[r.user] = "closed"
        /\ r.kind = "message" => r.arg \in posted[r.user]

\* Who is leaving and still in the room: the goodbye is on its way, or a handler
\* takes the user out.
Farewells(u) == {Req("disconnect", u, "none"), Req("message", u, "bye")}

LeaveOnItsWay ==
    \A u \in Leaving \cap Members :
        \/ Farewells(u) \cap pending # {}
        \/ \E t \in Threads : thread[t].pc \in LeavePcs /\ thread[t].user = u

SerialInv == TasksFresh /\ BrowserOK /\ GoneLeft /\ PostedOK /\ LeaveOnItsWay

LEMMA RoomWellFormed ==
    ASSUME IInv, room # NoRoom
    PROVE  room \in RoomEntity /\ WellFormed(room)
  BY RoomFacts, BlankSlotIsNoUser DEF Sound, WellFormed, Opened

LEMMA MembersFacts ==
    /\ Members = MembersOf(room) /\ Connected = ConnectedIn(room)
    /\ IInv => Members \subseteq Users /\ Connected \subseteq Members
<1>1. Members = MembersOf(room) /\ Connected = ConnectedIn(room)
  BY DEF Members, Connected, ConnectedIn, ConnectedOf
<1>2. IInv => Members \subseteq Users
  BY DEF IInv, TypeOK, NetTypeOK, RoomEntity, Slot, Members, MembersOf
<1>3. Connected \subseteq Members
  BY BlankSlotIsNoUser DEF Connected, IsConnected, Members, MembersOf
<1> QED BY <1>1, <1>2, <1>3

LEMMA SerialInit == ASSUME Init PROVE SerialInv
<1>1. room = NoRoom /\ pending = {} /\ \A t \in Threads : thread[t].pc = "idle"
  BY DEF Init, NetInit, Idle
<1>2. Members = {} /\ \A u \in Users : chan[u] = "none" /\ posted[u] = {} /\ page[u] = "none"
  BY <1>1 DEF Init, NetInit, Members, MembersOf
<1>3. TasksFresh
  BY <1>1 DEF TasksFresh, Fresh, LeavePcs
<1> QED BY <1>1, <1>2, <1>3
        DEF SerialInv, BrowserOK, GoneLeft, Gone, Served, PostedOK, LeaveOnItsWay

\* A browser step posts one request; if its user starts to leave by it, the
\* request is the goodbye.
LEMMA BrowserPosts ==
    ASSUME IInv, SerialInv, NEW u \in Users, Browser(u)
    PROVE  /\ UNCHANGED room /\ BrowserOK' /\ PostedOK' /\ pending \subseteq pending'
           /\ \A v \in Users : Served(v)' = Served(v)
           /\ \/ Leaving' = Leaving
              \/ /\ Leaving' = Leaving \cup {u}
                 /\ Served(u) /\ Farewells(u) \cap pending' # {}
<1> USE DEF IInv, TypeOK, NetTypeOK
<1>1. CASE \E debug \in Debugs : OpenPage(u, debug)
  <2> PICK debug \in Debugs : OpenPage(u, debug)
    BY <1>1
  <2> DEFINE req == [kind |-> "spy", user |-> u, arg |-> debug]
  <2>1. /\ page[u] = "none" /\ page' = [page EXCEPT ![u] = "loading"]
        /\ pending' = pending \cup {req} /\ UNCHANGED <<room, chan, posted>>
    BY DEF OpenPage, Post
  <2>2. \A v \in Users : Served(v)' = Served(v)
    BY <2>1 DEF Served
  <2>3. BrowserOK'
    BY <2>1, <2>2 DEF SerialInv, BrowserOK
  <2>4. PostedOK'
    BY <2>1 DEF SerialInv, PostedOK
  <2>5. Leaving' = Leaving
    BY <2>1 DEF Leaving
  <2> QED BY <2>1, <2>2, <2>3, <2>4, <2>5
<1>2. CASE OpenChannel(u)
  <2> DEFINE req == [kind |-> "connect", user |-> u, arg |-> "none"]
  <2>1. /\ Served(u) /\ chan[u] = "none" /\ chan' = [chan EXCEPT ![u] = "open"]
        /\ pending' = pending \cup {req} /\ UNCHANGED <<room, page, posted>>
    BY <1>2 DEF OpenChannel, Post, serverVars
  <2>2. \A v \in Users : Served(v)' = Served(v)
    BY <2>1 DEF Served
  <2>3. BrowserOK'
    BY <2>1, <2>2 DEF SerialInv, BrowserOK
  <2>4. PostedOK'
    <3>1. \A r \in pending : r \in Request /\ r.user \in Users
      BY DEF Request
    <3> QED BY <2>1, <3>1 DEF SerialInv, PostedOK
  <2>5. Leaving' = Leaving
    BY <2>1 DEF Leaving
  <2> QED BY <2>1, <2>2, <2>3, <2>4, <2>5
<1>3. CASE CloseChannel(u)
  <2> DEFINE req == [kind |-> "disconnect", user |-> u, arg |-> "none"]
  <2>1. /\ chan[u] = "open" /\ chan' = [chan EXCEPT ![u] = "closed"]
        /\ pending' = pending \cup {req} /\ UNCHANGED <<room, page, posted>>
    BY <1>3 DEF CloseChannel, Post, serverVars
  <2>2. Served(u) /\ \A v \in Users : Served(v)' = Served(v)
    BY <2>1 DEF SerialInv, BrowserOK, Served
  <2>3. BrowserOK'
    BY <2>1, <2>2 DEF SerialInv, BrowserOK
  <2>4. PostedOK'
    <3>1. \A r \in pending : r \in Request /\ r.user \in Users
      BY DEF Request
    <3> QED BY <2>1, <3>1 DEF SerialInv, PostedOK
  <2>5. Leaving' = Leaving \cup {u}
    BY <2>1 DEF Leaving
  <2>6. req \in Farewells(u) /\ req \in pending'
    BY <2>1 DEF Farewells, Req
  <2> QED BY <2>1, <2>2, <2>3, <2>4, <2>5, <2>6
<1>4. CASE \E type \in PostTypes : PostMessage(u, type)
  <2> PICK type \in PostTypes : PostMessage(u, type)
    BY <1>4
  <2> DEFINE req == [kind |-> "message", user |-> u, arg |-> type]
  <2>1. /\ Served(u) /\ posted' = [posted EXCEPT ![u] = @ \cup {type}]
        /\ pending' = pending \cup {req} /\ UNCHANGED <<room, page, chan>>
    BY DEF PostMessage, Post, serverVars
  <2>2. \A v \in Users : Served(v)' = Served(v)
    BY <2>1 DEF Served
  <2>3. BrowserOK'
    BY <2>1, <2>2 DEF SerialInv, BrowserOK
  <2>4. PostedOK'
    <3>1. \A r \in pending : r \in Request /\ r.user \in Users
      BY DEF Request
    <3> QED BY <2>1, <3>1 DEF SerialInv, PostedOK
  <2>5. CASE type = "bye"
    <3>1. Leaving' = Leaving \cup {u}
      BY <2>1, <2>5 DEF Leaving
    <3>2. req \in Farewells(u) /\ req \in pending'
      BY <2>1, <2>5 DEF Farewells, Req
    <3> QED BY <2>1, <2>2, <2>3, <2>4, <3>1, <3>2
  <2>6. CASE type # "bye"
    <3>1. Leaving' = Leaving
      BY <2>1, <2>6 DEF Leaving
    <3> QED BY <2>1, <2>2, <2>3, <2>4, <3>1
  <2> QED BY <2>5, <2>6
<1> QED BY <1>1, <1>2, <1>3, <1>4 DEF Browser

LEMMA SerialBrowser ==
    ASSUME IInv, SerialInv, NEW u \in Users, Browser(u), UNCHANGED thread
    PROVE  SerialInv' /\ [Protocol!Next]_(Protocol!vars)
<1>1. /\ UNCHANGED room /\ BrowserOK' /\ PostedOK' /\ pending \subseteq pending'
      /\ \A v \in Users : Served(v)' = Served(v)
      /\ \/ Leaving' = Leaving
         \/ /\ Leaving' = Leaving \cup {u}
            /\ Served(u) /\ Farewells(u) \cap pending' # {}
  BY BrowserPosts
<1>2. Members' = Members /\ Connected' = Connected
  BY <1>1 DEF Members, MembersOf, Connected, IsConnected
<1>3. Gone' = Gone
  BY <1>1, <1>2 DEF Gone
<1>4. TasksFresh'
  <2> SUFFICES ASSUME NEW t \in Threads PROVE Fresh(thread[t], room, Leaving')
    BY <1>1 DEF TasksFresh
  <2>1. Fresh(thread[t], room, Leaving) /\ Leaving \subseteq Leaving'
    BY <1>1 DEF SerialInv, TasksFresh
  <2> QED BY <2>1 DEF Fresh
<1>5. GoneLeft'
  BY <1>1, <1>3 DEF SerialInv, GoneLeft
<1>6. LeaveOnItsWay'
  BY <1>1, <1>2 DEF SerialInv, LeaveOnItsWay, Farewells
<1>7. [Protocol!Next]_(Protocol!vars)
  <2>1. CASE Leaving' = Leaving
    BY <1>2, <1>3, <2>1 DEF Protocol!vars
  <2>2. CASE Leaving' = Leaving \cup {u} /\ Served(u)
    <3>1. u \in Members \cup Gone
      BY <2>2 DEF Gone
    <3>2. Protocol!AskToLeave(u)
      BY <1>2, <1>3, <2>2, <3>1 DEF Protocol!AskToLeave
    <3> QED BY <3>2 DEF Protocol!Next
  <2> QED BY <1>1, <2>1, <2>2
<1> QED BY <1>1, <1>4, <1>5, <1>6, <1>7 DEF SerialInv

\* A step of the only thread to task k that stores nothing: the promise of the
\* room does not see it.
LEMMA SerialQuiet ==
    ASSUME OneThread, IInv, SerialInv, NEW t \in Threads, NEW k \in Task,
           thread' = [thread EXCEPT ![t] = k],
           UNCHANGED <<room, page, chan, posted>>, pending' \subseteq pending,
           Fresh(k, room, Leaving),
           \A u \in Leaving \cap Members :
               \/ Farewells(u) \cap pending' # {}
               \/ k.pc \in LeavePcs /\ k.user = u
    PROVE  SerialInv' /\ [Protocol!Next]_(Protocol!vars)
<1>1. /\ thread'[t] = k /\ \A s \in Threads : s = t
  BY DEF OneThread, IInv, TypeOK
<1>2. /\ Members' = Members /\ Connected' = Connected
      /\ Leaving' = Leaving /\ Gone' = Gone
  BY DEF Members, MembersOf, Connected, IsConnected, Leaving, Gone, Served
<1>3. TasksFresh'
  BY <1>1, <1>2 DEF TasksFresh
<1>4. BrowserOK' /\ GoneLeft'
  BY <1>2 DEF SerialInv, BrowserOK, GoneLeft, Served
<1>5. PostedOK'
  BY DEF SerialInv, PostedOK
<1>6. LeaveOnItsWay'
  BY <1>1, <1>2 DEF LeaveOnItsWay, Farewells
<1>7. UNCHANGED Protocol!vars
  BY <1>2 DEF Protocol!vars
<1> QED BY <1>3, <1>4, <1>5, <1>6, <1>7 DEF SerialInv

\* A request of somebody who is leaving is only taken up by a handler that takes
\* the user out, or when the user is out already.
LEMMA SerialTaken ==
    ASSUME OneThread, IInv, SerialInv, NEW t \in Threads, NEW k \in Task, NEW u \in Users,
           NEW req, pending' = pending \ {req}, req.user = u,
           thread[t].pc = "idle", thread' = [thread EXCEPT ![t] = k],
           UNCHANGED <<room, page, chan, posted>>,
           Fresh(k, room, Leaving),
           req \in Farewells(u) => u \notin Members \/ (k.pc \in LeavePcs /\ k.user = u)
    PROVE  SerialInv' /\ [Protocol!Next]_(Protocol!vars)
<1>1. ASSUME NEW v \in Leaving \cap Members
      PROVE  Farewells(v) \cap pending' # {} \/ (k.pc \in LeavePcs /\ k.user = v)
  <2>1. Farewells(v) \cap pending # {}
    BY DEF SerialInv, LeaveOnItsWay, OneThread, LeavePcs
  <2>2. CASE req \in Farewells(v)
    <3>1. u = v
      BY <2>2 DEF Farewells, Req
    <3> QED BY <2>2, <3>1
  <2>3. CASE req \notin Farewells(v)
    BY <2>1, <2>3
  <2> QED BY <2>2, <2>3
<1> QED BY <1>1, SerialQuiet

\* Nothing of the request is left to do.
LEMMA SerialIgnored ==
    ASSUME OneThread, IInv, SerialInv, NEW t \in Threads, NEW u \in Users,
           NEW req, pending' = pending \ {req}, req.user = u,
           thread[t].pc = "idle", UNCHANGED <<room, page, chan, posted, thread>>,
           req \in Farewells(u) => u \notin Members
    PROVE  SerialInv' /\ [Protocol!Next]_(Protocol!vars)
<1> DEFINE k == thread[t]
<1>1. k \in Task /\ thread' = [thread EXCEPT ![t] = k]
  BY DEF IInv, TypeOK
<1>2. Fresh(k, room, Leaving)
  BY DEF SerialInv, TasksFresh
<1>3. k.pc = "idle"
  OBVIOUS
<1> HIDE DEF k
<1> QED BY <1>1, <1>2, <1>3, SerialTaken

LEMMA IdleFresh == ASSUME NEW r, NEW L PROVE Fresh(Idle, r, L)
  BY DEF Fresh, Idle, LeavePcs

LEMMA SerialConnectFind ==
    ASSUME OneThread, IInv, SerialInv, NEW t \in Threads, NEW u \in Users,
           ConnectFind(t, u), UNCHANGED browserVars
    PROVE  SerialInv' /\ [Protocol!Next]_(Protocol!vars)
<1> DEFINE k == NewTask("connect", u, "none", SetConnected(room, u))
           req == Req("connect", u, "none")
<1>1. /\ UNCHANGED <<room, page, chan, posted>> /\ pending' = pending \ {req}
      /\ thread[t].pc = "idle" /\ req.user = u /\ req \notin Farewells(u)
  BY DEF ConnectFind, Take, serverVars, browserVars, Req, Farewells
<1>2. CASE room # NoRoom /\ HasUser(room, u)
  <2>1. thread' = [thread EXCEPT ![t] = k]
    BY <1>2 DEF ConnectFind, Run
  <2>2. SetConnected(room, u) \in RoomEntity
    BY <1>2, RoomWellFormed, SetConnectedFacts
  <2>3. k \in Task /\ k.pc = "connect" /\ k.user = u /\ k.copy = SetConnected(room, u)
    BY <2>2, NewTaskFacts
  <2> HIDE DEF k, req
  <2>4. Fresh(k, room, Leaving)
    BY <1>2, <2>3 DEF Fresh, LeavePcs
  <2> QED BY <1>1, <2>1, <2>3, <2>4, SerialTaken
<1>3. CASE ~(room # NoRoom /\ HasUser(room, u))
  <2>1. UNCHANGED thread
    BY <1>3 DEF ConnectFind
  <2> HIDE DEF req
  <2> QED BY <1>1, <2>1, SerialIgnored
<1> QED BY <1>2, <1>3

LEMMA SerialDisconnectFind ==
    ASSUME OneThread, IInv, SerialInv, NEW t \in Threads, NEW u \in Users,
           DisconnectFind(t, u), UNCHANGED browserVars
    PROVE  SerialInv' /\ [Protocol!Next]_(Protocol!vars)
<1> DEFINE k == NewTask("purge", u, "none", room)
           req == Req("disconnect", u, "none")
<1>1. /\ UNCHANGED <<room, page, chan, posted>> /\ pending' = pending \ {req}
      /\ thread[t].pc = "idle" /\ req.user = u /\ req \in pending /\ req.kind = "disconnect"
  BY DEF DisconnectFind, Take, serverVars, browserVars, Req
<1>2. u \in Leaving
  BY <1>1 DEF SerialInv, PostedOK, Leaving
<1> HIDE DEF req
<1>3. CASE room # NoRoom /\ HasUser(room, u)
  <2>1. thread' = [thread EXCEPT ![t] = k]
    BY <1>3 DEF DisconnectFind, Run
  <2>2. k \in Task /\ k.pc = "purge" /\ k.user = u /\ k.copy = room
    BY <1>3, RoomFacts, NewTaskFacts
  <2> HIDE DEF k
  <2>3. Fresh(k, room, Leaving) /\ k.pc \in LeavePcs
    BY <1>2, <2>2 DEF Fresh, LeavePcs
  <2> QED BY <1>1, <2>1, <2>2, <2>3, SerialTaken
<1>4. CASE ~(room # NoRoom /\ HasUser(room, u))
  <2>1. UNCHANGED thread
    BY <1>4 DEF DisconnectFind
  <2>2. u \notin Members
    BY <1>4, BlankSlotIsNoUser DEF HasUser, Members, MembersOf
  <2> QED BY <1>1, <2>1, <2>2, SerialIgnored
<1> QED BY <1>3, <1>4

LEMMA SerialMessageFind ==
    ASSUME OneThread, IInv, SerialInv, NEW t \in Threads, NEW u \in Users,
           NEW type \in PostTypes, MessageFind(t, u, type), UNCHANGED browserVars
    PROVE  SerialInv' /\ [Protocol!Next]_(Protocol!vars)
<1> DEFINE other == OtherUser(room, u)
           known == room # NoRoom /\ (type = "bye" \/ (other # NoUser /\ HasUser(room, other)))
           pc == IF type = "bye" THEN "purge" ELSE "forward"
           k == NewTask(pc, u, type, room)
           req == Req("message", u, type)
<1>1. /\ UNCHANGED <<room, page, chan, posted>> /\ pending' = pending \ {req}
      /\ thread[t].pc = "idle" /\ req.user = u /\ req \in pending
      /\ req.kind = "message" /\ req.arg = type
  BY DEF MessageFind, Take, serverVars, browserVars, Req
<1>2. type = "bye" => u \in Leaving
  BY <1>1 DEF SerialInv, PostedOK, Leaving
<1>3. req \in Farewells(u) => type = "bye"
  BY DEF Farewells, Req
<1>4. CASE known
  <2>1. thread' = [thread EXCEPT ![t] = k]
    BY <1>4 DEF MessageFind, Run
  <2>2. type \in {"none"} \cup MsgTypes /\ pc \in {"connect", "purge", "forward"}
    BY PostTypesAreTypes DEF MsgTypes
  <2>3. room \in RoomEntity
    BY <1>4, RoomFacts
  <2>4. pc = IF type = "bye" THEN "purge" ELSE "forward"
    OBVIOUS
  <2> HIDE DEF pc, req
  <2>5. k \in Task /\ k.pc = pc /\ k.user = u /\ k.copy = room
    BY <2>2, <2>3, NewTaskFacts
  <2> HIDE DEF k
  <2>6. Fresh(k, room, Leaving) /\ (type = "bye" => k.pc \in LeavePcs)
    BY <1>2, <2>4, <2>5 DEF Fresh, LeavePcs
  <2> QED BY <1>1, <1>3, <2>1, <2>5, <2>6, SerialTaken
<1>5. CASE ~known
  <2>1. UNCHANGED thread
    BY <1>5 DEF MessageFind
  <2>2. type = "bye" => u \notin Members
    BY <1>5 DEF Members, MembersOf
  <2> HIDE DEF req
  <2> QED BY <1>1, <1>3, <2>1, <2>2, SerialIgnored
<1> QED BY <1>4, <1>5

\* A page load is taken up: the user joins when the copy is saved, as the only
\* one or as the second.
LEMMA SerialSpyFind ==
    ASSUME OneThread, IInv, SerialInv, NEW t \in Threads, NEW u \in Users,
           NEW debug \in Debugs, SpyFind(t, u, debug), UNCHANGED browserVars
    PROVE  SerialInv' /\ [Protocol!Next]_(Protocol!vars)
<1> DEFINE found == IF room = NoRoom THEN NewRoom ELSE room
           q == AddUser(found, u)
           k == [Idle EXCEPT !.pc = "save", !.user = u, !.arg = debug,
                             !.copy = q, !.role = Role(room, debug)]
           req == Req("spy", u, debug)
<1>1. /\ thread[t].pc = "idle" /\ req \in pending /\ pending' = pending \ {req}
      /\ UNCHANGED <<room, chan, posted>> /\ req.user = u /\ req.kind = "spy"
      /\ req \notin Farewells(u)
  BY DEF SpyFind, Take, browserVars, Req, Farewells
<1>2. page[u] = "loading" /\ u \notin Admitted
  BY <1>1 DEF IInv, PendingOK, Loading, Admitted, Served, Spied
<1> HIDE DEF req
<1>3. CASE Admits(room, debug) /\ thread' = [thread EXCEPT ![t] = k] /\ UNCHANGED page
  <2>1. /\ q \in RoomEntity /\ WellFormed(q) /\ MembersOf(q) = MembersOf(room) \cup {u}
        /\ ConnectedOf(q) = ConnectedIn(room) /\ Cardinality(MembersOf(room)) < 2
    <3>1. CASE room = NoRoom
      <4>1. q = AddUser(NewRoom, u) /\ MembersOf(room) = {} /\ ConnectedIn(room) = {}
        BY <3>1 DEF MembersOf, ConnectedIn
      <4> HIDE DEF q
      <4>2. Cardinality(MembersOf(room)) = 0
        BY <4>1, FS_EmptySet
      <4> QED BY <4>1, <4>2, NewRoomFacts
    <3>2. CASE room # NoRoom
      <4>1. /\ room \in RoomEntity /\ WellFormed(room) /\ Occupancy(room) = 1
            /\ Sound(room, Admitted, Callers, Opened)
        BY <1>3, <3>2, RoomWellFormed, RoomFacts DEF Admits
      <4>2. MembersOf(room) = {room.user1} /\ room.user1 \in Users
        BY <4>1, <3>2 DEF MembersOf, Occupancy, WellFormed, RoomEntity, Slot
      <4>3. u \notin MembersOf(room)
        BY <1>2, <4>1, <4>2 DEF Sound, WellFormed
      <4>4. Cardinality(MembersOf(room)) = 1
        BY <4>2, FS_Singleton
      <4>5. q = AddUser(room, u) /\ ConnectedIn(room) = ConnectedOf(room)
        BY <3>2 DEF ConnectedIn
      <4> HIDE DEF q
      <4> QED BY <4>1, <4>3, <4>4, <4>5, AddSecondFacts
    <3> QED BY <3>1, <3>2
  <2> HIDE DEF q
  <2>2. k \in Task /\ k.pc = "save" /\ k.user = u /\ k.copy = q
    BY <2>1, DebugsAreModes DEF Role, Idle, Task, Slot
  <2> HIDE DEF k
  <2>3. Fresh(k, room, Leaving)
    BY <2>1, <2>2 DEF Fresh, LeavePcs
  <2> QED BY <1>1, <1>3, <2>2, <2>3, SerialTaken
<1>4. CASE page' = [page EXCEPT ![u] = "full"] /\ UNCHANGED thread
  <2>1. \A v \in Users : Served(v)' = Served(v)
    BY <1>2, <1>4 DEF Served, IInv, TypeOK, NetTypeOK
  <2>2. /\ Members' = Members /\ Connected' = Connected
        /\ Leaving' = Leaving /\ Gone' = Gone
    BY <1>1, <2>1 DEF Members, MembersOf, Connected, IsConnected, Leaving, Gone
  <2>3. TasksFresh' /\ BrowserOK' /\ GoneLeft' /\ PostedOK'
    BY <1>1, <1>4, <2>1, <2>2
       DEF SerialInv, TasksFresh, BrowserOK, GoneLeft, PostedOK
  <2>4. LeaveOnItsWay'
    <3> SUFFICES ASSUME NEW v \in Leaving \cap Members
                 PROVE  \/ Farewells(v) \cap pending' # {}
                        \/ \E s \in Threads : thread[s].pc \in LeavePcs /\ thread[s].user = v
      BY <1>4, <2>2 DEF LeaveOnItsWay, Farewells
    <3>1. req \notin Farewells(v)
      BY <1>1 DEF Farewells, Req
    <3> QED BY <1>1, <3>1 DEF SerialInv, LeaveOnItsWay
  <2>5. UNCHANGED Protocol!vars
    BY <2>2 DEF Protocol!vars
  <2> QED BY <2>3, <2>4, <2>5 DEF SerialInv
<1> QED BY <1>3, <1>4 DEF SpyFind, Run

\* A handler that takes nobody out goes on, or ends, without a store.
LEMMA SerialGoesOn ==
    ASSUME OneThread, IInv, SerialInv, NEW t \in Threads, NEW k \in Task,
           thread[t].pc \notin LeavePcs, thread' = [thread EXCEPT ![t] = k],
           UNCHANGED <<room, page, chan, posted, pending>>, Fresh(k, room, Leaving)
    PROVE  SerialInv' /\ [Protocol!Next]_(Protocol!vars)
<1>1. \A u \in Leaving \cap Members : Farewells(u) \cap pending' # {}
  BY DEF SerialInv, LeaveOnItsWay, OneThread
<1> QED BY <1>1, SerialQuiet

LEMMA SerialPurge ==
    ASSUME OneThread, IInv, SerialInv, NEW t \in Threads, Purge(t), UNCHANGED browserVars
    PROVE  SerialInv' /\ [Protocol!Next]_(Protocol!vars)
<1> DEFINE k == [thread[t] EXCEPT !.pc = "remove"]
<1>1. /\ thread[t].pc = "purge" /\ thread' = [thread EXCEPT ![t].pc = "remove"]
      /\ UNCHANGED <<room, page, pending, chan, posted>>
  BY DEF Purge, Goto, browserVars
<1>2. thread[t] \in Task /\ Fresh(thread[t], room, Leaving)
  BY TaskFacts DEF SerialInv, TasksFresh
<1>3. thread' = [thread EXCEPT ![t] = k]
  BY <1>1 DEF IInv, TypeOK
<1>4. /\ k \in Task /\ k.pc = "remove" /\ k.user = thread[t].user /\ k.copy = thread[t].copy
  BY <1>2 DEF Task
<1> HIDE DEF k
<1>5. Fresh(k, room, Leaving)
  BY <1>1, <1>2, <1>4 DEF Fresh, LeavePcs
<1>6. \A u \in Leaving \cap Members :
          Farewells(u) \cap pending' # {} \/ (k.pc \in LeavePcs /\ k.user = u)
  BY <1>1, <1>4 DEF SerialInv, LeaveOnItsWay, OneThread, LeavePcs
<1> QED BY <1>1, <1>3, <1>4, <1>5, <1>6, SerialQuiet

\* The handlers that only send messages.
LEMMA SerialSends ==
    ASSUME OneThread, IInv, SerialInv, NEW t \in Threads, UNCHANGED browserVars,
           ConnectReplay(t) \/ DisconnectBye(t) \/ MessageForward(t)
    PROVE  SerialInv' /\ [Protocol!Next]_(Protocol!vars)
<1>1. /\ thread[t].pc \in {"replay", "sendBye", "forward"}
      /\ thread' = [thread EXCEPT ![t] = Idle]
      /\ UNCHANGED <<room, page, pending, chan, posted>>
  BY DEF ConnectReplay, DisconnectBye, MessageForward, Done, browserVars
<1>2. Idle \in Task /\ Fresh(Idle, room, Leaving) /\ thread[t].pc \notin LeavePcs
  BY <1>1, IdleOK, IdleFresh DEF LeavePcs
<1> QED BY <1>1, <1>2, SerialGoesOn

\* The second save stores what the first one stored; a new loopback room goes on
\* to have its user added again.
LEMMA SerialSpySaveAgain ==
    ASSUME OneThread, IInv, SerialInv, NEW t \in Threads, SpySaveAgain(t),
           UNCHANGED browserVars
    PROVE  SerialInv' /\ [Protocol!Next]_(Protocol!vars)
<1> DEFINE task == thread[t]
           u == task.user
           twice == task.arg = "loopback" /\ task.copy.user2 = NoUser
           q == AddUser(task.copy, u)
           k == IF twice THEN [task EXCEPT !.pc = "save", !.copy = q]
                ELSE [task EXCEPT !.pc = "serve"]
<1>1. /\ task.pc = "saveAgain" /\ room' = task.copy
      /\ UNCHANGED <<page, pending, chan, posted>>
  BY DEF SpySaveAgain, browserVars
<1>2. thread' = [thread EXCEPT ![t] = k]
  BY DEF SpySaveAgain, Run, Goto, IInv, TypeOK
<1>3. /\ task \in Task /\ task.copy \in RoomEntity /\ u \in Users
      /\ room = task.copy /\ u \in MembersOf(room)
  BY <1>1, TaskFacts DEF SerialInv, TasksFresh, Fresh
<1>4. room # NoRoom /\ WellFormed(room)
  BY <1>3, AbsentIsNoEntity, RoomWellFormed
<1>5. twice => /\ q \in RoomEntity /\ WellFormed(q)
               /\ MembersOf(q) = MembersOf(room) \cup {u}
               /\ ConnectedOf(q) = ConnectedIn(room)
  <2> SUFFICES ASSUME twice
               PROVE  /\ q \in RoomEntity /\ WellFormed(q)
                      /\ MembersOf(q) = MembersOf(room) \cup {u}
                      /\ ConnectedOf(q) = ConnectedIn(room)
    OBVIOUS
  <2>1. room.user2 = NoUser /\ room.user1 = u /\ ~room.conn2 /\ q = [room EXCEPT !.user2 = u]
    BY <1>3, <1>4 DEF MembersOf, WellFormed, AddUser
  <2>2. room \in RoomEntity
    BY <1>3
  <2> HIDE DEF q
  <2>3. /\ q \in RoomEntity /\ q.user1 = u /\ q.user2 = u
        /\ q.conn1 = room.conn1 /\ q.conn2 = room.conn2
    BY <1>3, <2>1, <2>2 DEF RoomEntity, Slot
  <2>4. WellFormed(q) /\ MembersOf(q) = {u} /\ MembersOf(room) = {u}
    BY <1>3, <1>4, <2>1, <2>3, BlankSlotIsNoUser, AbsentIsNoEntity DEF WellFormed, MembersOf
  <2>5. ConnectedOf(q) = ConnectedOf(room) /\ ConnectedIn(room) = ConnectedOf(room)
    BY <1>3, <1>4, <2>1, <2>3, BlankSlotIsNoUser DEF ConnectedOf, IsConnected, ConnectedIn
  <2> QED BY <2>3, <2>4, <2>5
<1> HIDE DEF q
<1>6. /\ k \in Task /\ k.pc \in {"save", "serve"} /\ k.user = u
      /\ k.pc = "save" => twice /\ k.copy = q
  BY <1>3, <1>5 DEF Task
<1> HIDE DEF k
<1>7. Fresh(k, room, Leaving)
  BY <1>3, <1>5, <1>6 DEF Fresh, LeavePcs
<1>8. thread[t].pc \notin LeavePcs /\ UNCHANGED room
  BY <1>1, <1>3 DEF LeavePcs
<1> QED BY <1>1, <1>2, <1>6, <1>7, <1>8, SerialGoesOn

\* The first save lets the user in (or, in a loopback room, finds the user in).
LEMMA SerialSpySave ==
    ASSUME OneThread, IInv, SerialInv, NEW t \in Threads, SpySave(t), UNCHANGED browserVars
    PROVE  SerialInv' /\ [Protocol!Next]_(Protocol!vars)
<1> DEFINE task == thread[t]
           u == task.user
           k == [task EXCEPT !.pc = "saveAgain"]
<1>1. /\ task.pc = "save" /\ room' = task.copy
      /\ thread' = [thread EXCEPT ![t].pc = "saveAgain"]
      /\ UNCHANGED <<page, pending, chan, posted>>
  BY DEF SpySave, Goto, browserVars
<1>2. /\ task \in Task /\ task.copy \in RoomEntity /\ u \in Users
      /\ Fresh(task, room, Leaving) /\ TaskOK(task, Admitted, Callers, Opened, Loading)
  BY <1>1, TaskFacts DEF SerialInv, TasksFresh
<1>3. /\ WellFormed(task.copy) /\ MembersOf(task.copy) = MembersOf(room) \cup {u}
      /\ ConnectedOf(task.copy) = ConnectedIn(room)
      /\ u \in MembersOf(room) \/ Cardinality(MembersOf(room)) < 2
  BY <1>1, <1>2 DEF Fresh
<1>4. page[u] = "loading" /\ ~Served(u)
  BY <1>1, <1>2 DEF TaskOK, SpyPcs, Loading, Served
<1>5. u \notin Leaving
  BY <1>2, <1>4 DEF SerialInv, BrowserOK, Leaving
<1>6. thread' = [thread EXCEPT ![t] = k]
  BY <1>1 DEF IInv, TypeOK
<1>7. k \in Task /\ k.pc = "saveAgain" /\ k.user = u /\ k.copy = task.copy
  BY <1>2 DEF Task
<1> HIDE DEF k
<1>8. thread'[t] = k /\ \A s \in Threads : s = t
  BY <1>6 DEF OneThread, IInv, TypeOK
<1>9. Members' = Members \cup {u} /\ Connected' = Connected
  <2>1. Members' = MembersOf(task.copy) /\ Members = MembersOf(room)
    BY <1>1 DEF Members
  <2>2. task.copy # NoRoom
    BY <1>2, AbsentIsNoEntity
  <2>3. Connected' = ConnectedOf(task.copy) /\ Connected = ConnectedIn(room)
    BY <1>1, <2>2, MembersFacts DEF Connected, ConnectedOf
  <2> QED BY <1>3, <2>1, <2>3
<1>10. Leaving' = Leaving /\ Gone' = Gone
  BY <1>1, <1>4, <1>9 DEF Leaving, Gone, Served
<1>11. TasksFresh'
  <2>1. Fresh(k, room', Leaving)
    BY <1>1, <1>3, <1>7 DEF Fresh, LeavePcs
  <2> QED BY <1>8, <1>10, <2>1 DEF TasksFresh
<1>12. BrowserOK' /\ GoneLeft' /\ PostedOK'
  BY <1>1, <1>10 DEF SerialInv, BrowserOK, GoneLeft, PostedOK, Served
<1>13. LeaveOnItsWay'
  BY <1>1, <1>5, <1>8, <1>9, <1>10 DEF SerialInv, LeaveOnItsWay, Farewells, LeavePcs
<1>14. [Protocol!Next]_(Protocol!vars)
  <2>1. CASE u \in Members
    BY <1>9, <1>10, <2>1 DEF Protocol!vars
  <2>2. CASE u \notin Members
    <3>1. Cardinality(Members) < 2 /\ u \notin Gone
      BY <1>3, <1>4, <2>2 DEF Members, Gone
    <3>2. Protocol!Join(u)
      BY <1>9, <1>10, <2>2, <3>1 DEF Protocol!Join, Protocol!Cardinality, Cardinality
    <3> QED BY <1>2, <3>2 DEF Protocol!Next
  <2> QED BY <2>1, <2>2
<1> QED BY <1>11, <1>12, <1>13, <1>14 DEF SerialInv

\* The page is served to somebody who is in the room.
LEMMA SerialSpyServe ==
    ASSUME OneThread, IInv, SerialInv, NEW t \in Threads, SpyServe(t), UNCHANGED browserVars
    PROVE  SerialInv' /\ [Protocol!Next]_(Protocol!vars)
<1> DEFINE u == thread[t].user
           role == thread[t].role
<1>1. /\ thread[t].pc = "serve" /\ page' = [page EXCEPT ![u] = role]
      /\ thread' = [thread EXCEPT ![t] = Idle]
      /\ UNCHANGED <<room, pending, chan, posted>>
  BY DEF SpyServe, Done, browserVars
<1>2. u \in Users /\ role \in {"callee", "caller"} /\ u \in Members
  BY <1>1, TaskFacts DEF TaskOK, SpyPcs, SerialInv, TasksFresh, Fresh, Members
<1>3. /\ thread'[t] = Idle /\ \A s \in Threads : s = t
      /\ page'[u] = role /\ \A v \in Users \ {u} : page'[v] = page[v]
  BY <1>1, <1>2 DEF OneThread, IInv, TypeOK, NetTypeOK
<1>4. \A v \in Users : Served(v)' <=> (v = u \/ Served(v))
  BY <1>2, <1>3 DEF Served
<1>5. Members' = Members /\ Connected' = Connected /\ Leaving' = Leaving
  BY <1>1 DEF Members, MembersOf, Connected, IsConnected, Leaving
<1>6. Gone' = Gone
  BY <1>2, <1>4, <1>5 DEF Gone
<1>7. TasksFresh'
  BY <1>3, IdleFresh DEF TasksFresh
<1>8. BrowserOK'
  BY <1>1, <1>4 DEF SerialInv, BrowserOK
<1>9. GoneLeft' /\ PostedOK'
  BY <1>1, <1>5, <1>6 DEF SerialInv, GoneLeft, PostedOK
<1>10. LeaveOnItsWay'
  BY <1>1, <1>3, <1>5 DEF SerialInv, LeaveOnItsWay, Farewells, LeavePcs
<1>11. UNCHANGED Protocol!vars
  BY <1>5, <1>6 DEF Protocol!vars
<1> QED BY <1>7, <1>8, <1>9, <1>10, <1>11 DEF SerialInv

LEMMA SerialConnectSave ==
    ASSUME OneThread, IInv, SerialInv, NEW t \in Threads, ConnectSave(t),
           UNCHANGED browserVars
    PROVE  SerialInv' /\ [Protocol!Next]_(Protocol!vars)
<1> DEFINE task == thread[t]
           u == task.user
           k == [task EXCEPT !.pc = "replay"]
<1>1. /\ task.pc = "connect" /\ room' = task.copy
      /\ thread' = [thread EXCEPT ![t].pc = "replay"]
      /\ UNCHANGED <<page, pending, chan, posted>>
  BY DEF ConnectSave, Goto, browserVars
<1>2. /\ task \in Task /\ u \in Users /\ room # NoRoom /\ HasUser(room, u)
      /\ task.copy = SetConnected(room, u) /\ task.copy \in RoomEntity
  BY <1>1, TaskFacts DEF SerialInv, TasksFresh, Fresh
<1>3. /\ MembersOf(task.copy) = MembersOf(room)
      /\ ConnectedOf(task.copy) = ConnectedOf(room) \cup {u}
  BY <1>2, RoomWellFormed, SetConnectedFacts
<1>4. thread' = [thread EXCEPT ![t] = k]
  BY <1>1 DEF IInv, TypeOK
<1>5. k.pc = "replay"
  BY <1>2 DEF Task
<1> HIDE DEF k
<1>6. thread'[t] = k /\ \A s \in Threads : s = t
  BY <1>4 DEF OneThread, IInv, TypeOK
<1>7. /\ Members' = Members /\ Connected' = Connected \cup {u} /\ u \in Members
  <2>1. task.copy # NoRoom
    BY <1>2, AbsentIsNoEntity
  <2>2. Connected' = ConnectedOf(task.copy) /\ Connected = ConnectedOf(room)
    BY <1>1, <1>2, <2>1 DEF Connected, ConnectedOf
  <2>3. Members' = MembersOf(task.copy) /\ Members = MembersOf(room)
    BY <1>1 DEF Members
  <2>4. u \in Members
    BY <1>2 DEF HasUser, Members, MembersOf
  <2> QED BY <1>3, <2>2, <2>3, <2>4
<1>8. Leaving' = Leaving /\ Gone' = Gone
  BY <1>1, <1>7 DEF Leaving, Gone, Served
<1>9. TasksFresh'
  BY <1>5, <1>6 DEF TasksFresh, Fresh, LeavePcs
<1>10. BrowserOK' /\ GoneLeft' /\ PostedOK'
  BY <1>1, <1>8 DEF SerialInv, BrowserOK, GoneLeft, PostedOK, Served
<1>11. LeaveOnItsWay'
  BY <1>1, <1>6, <1>7, <1>8 DEF SerialInv, LeaveOnItsWay, Farewells, LeavePcs
<1>12. Protocol!Connect(u)
  BY <1>7, <1>8 DEF Protocol!Connect
<1>13. [Protocol!Next]_(Protocol!vars)
  BY <1>2, <1>12 DEF Protocol!Next
<1> QED BY <1>9, <1>10, <1>11, <1>13 DEF SerialInv

\* Room.removeUser on a copy that is not stale takes out exactly the user who is
\* leaving.
LEMMA SerialRemove ==
    ASSUME OneThread, IInv, SerialInv, NEW t \in Threads, RemoveAndStore(t),
           UNCHANGED browserVars
    PROVE  SerialInv' /\ [Protocol!Next]_(Protocol!vars)
<1> DEFINE task == thread[t]
           u == task.user
           q == RemoveUser(task.copy, u)
           next == CASE task.arg = "bye" /\ task.other # NoUser
                                         /\ HasUser(q, task.other) -> "forward"
                     [] task.arg = "none" /\ task.other \notin {NoUser, u} -> "sendBye"
                     [] OTHER -> "idle"
           k == IF next = "idle" THEN Idle ELSE [task EXCEPT !.pc = next, !.copy = q]
<1>1. /\ task.pc = "remove" /\ room' = StoreOrDelete(q) /\ thread' = [thread EXCEPT ![t] = k]
      /\ UNCHANGED <<page, pending, chan, posted>>
  BY DEF RemoveAndStore, Done, Run, browserVars
<1>2. /\ task \in Task /\ task.copy \in RoomEntity /\ u \in Users
      /\ room = task.copy /\ u \in Leaving
  BY <1>1, TaskFacts DEF SerialInv, TasksFresh, Fresh, LeavePcs
<1>3. room \in RoomEntity /\ room # NoRoom /\ WellFormed(room) /\ q = RemoveUser(room, u)
  BY <1>2, AbsentIsNoEntity, RoomWellFormed
<1>4. next \in {"forward", "sendBye", "idle"}
  OBVIOUS
<1> HIDE DEF next, q
<1>5. k.pc \in {"forward", "sendBye", "idle"}
  BY <1>2, <1>4 DEF Idle, Task
<1> HIDE DEF k
<1>6. thread'[t] = k /\ \A s \in Threads : s = t
  BY <1>1 DEF OneThread, IInv, TypeOK
<1>7. Members' = Members \ {u} /\ Connected' = Connected \ {u}
  <2>1. /\ q \in RoomEntity
        /\ MembersOf(q) = MembersOf(room) \ {u} /\ ConnectedOf(q) = ConnectedOf(room) \ {u}
        /\ Occupancy(q) > 0 <=> MembersOf(q) # {}
    BY <1>2, <1>3, RemoveUserFacts
  <2>2. room' = IF Occupancy(q) > 0 THEN q ELSE NoRoom
    BY <1>1 DEF StoreOrDelete
  <2>3. MembersOf(NoRoom) = {} /\ ConnectedOf(q) \subseteq MembersOf(q) /\ q # NoRoom
    BY <2>1, BlankSlotIsNoUser, AbsentIsNoEntity DEF MembersOf, ConnectedOf, IsConnected
  <2>4. Members' = MembersOf(room') /\ Members = MembersOf(room)
    BY DEF Members
  <2>5. Connected = ConnectedOf(room) /\ Connected' = ConnectedIn(room')
    BY <1>3 DEF Connected, ConnectedOf, ConnectedIn
  <2> QED BY <2>1, <2>2, <2>3, <2>4, <2>5 DEF ConnectedIn
<1>8. Leaving' = Leaving /\ \A v \in Users : Served(v)' = Served(v)
  BY <1>1 DEF Leaving, Served
<1>9. Gone' = IF u \in Members THEN Gone \cup {u} ELSE Gone
  <2>1. u \in Members => Served(u)
    BY <1>2 DEF SerialInv, BrowserOK, Leaving
  <2> QED BY <1>2, <1>7, <1>8, <2>1 DEF Gone
<1>10. TasksFresh'
  BY <1>5, <1>6 DEF TasksFresh, Fresh, LeavePcs
<1>11. BrowserOK' /\ GoneLeft' /\ PostedOK'
  BY <1>1, <1>2, <1>8, <1>9 DEF SerialInv, BrowserOK, GoneLeft, PostedOK
<1>12. LeaveOnItsWay'
  BY <1>1, <1>6, <1>7, <1>8 DEF SerialInv, LeaveOnItsWay, Farewells
<1>13. [Protocol!Next]_(Protocol!vars)
  <2>1. CASE u \in Members
    <3>1. Protocol!Leave(u)
      BY <1>2, <1>7, <1>8, <1>9, <2>1 DEF Protocol!Leave
    <3> QED BY <1>2, <3>1 DEF Protocol!Next
  <2>2. CASE u \notin Members
    <3>1. u \notin Connected
      BY <2>2, MembersFacts
    <3> QED BY <1>7, <1>8, <1>9, <2>2, <3>1 DEF Protocol!vars
  <2> QED BY <2>1, <2>2
<1> QED BY <1>10, <1>11, <1>12, <1>13 DEF SerialInv

LEMMA SerialNext ==
    ASSUME OneThread, IInv, SerialInv, [Next]_vars
    PROVE  SerialInv' /\ [Protocol!Next]_(Protocol!vars)
<1>1. CASE UNCHANGED vars
  <2>1. /\ Members' = Members /\ Connected' = Connected
        /\ Leaving' = Leaving /\ Gone' = Gone
    BY <1>1 DEF vars, netVars, Members, MembersOf, Connected, IsConnected, Leaving, Gone, Served
  <2>2. TasksFresh' /\ BrowserOK' /\ GoneLeft' /\ PostedOK' /\ LeaveOnItsWay'
    BY <1>1, <2>1 DEF vars, netVars, SerialInv, TasksFresh, BrowserOK, Served, GoneLeft,
       PostedOK, LeaveOnItsWay, Farewells
  <2>3. UNCHANGED Protocol!vars
    BY <2>1 DEF Protocol!vars
  <2> QED BY <2>2, <2>3 DEF SerialInv
<1>2. CASE \E u \in Users : Browser(u) /\ UNCHANGED thread
  BY <1>2, SerialBrowser
<1>3. ASSUME NEW t \in Threads, Find(t), UNCHANGED browserVars
      PROVE  SerialInv' /\ [Protocol!Next]_(Protocol!vars)
  BY <1>3, SerialSpyFind, SerialConnectFind, SerialDisconnectFind, SerialMessageFind DEF Find
<1>4. ASSUME NEW t \in Threads, Step(t), UNCHANGED browserVars
      PROVE  SerialInv' /\ [Protocol!Next]_(Protocol!vars)
  BY <1>4, SerialSpySave, SerialSpySaveAgain, SerialSpyServe, SerialConnectSave, SerialSends,
     SerialPurge, SerialRemove DEF Step
<1> QED BY <1>1, <1>2, <1>3, <1>4 DEF Next, Server

\* The inductive invariant for one thread: the room a request has read is the one in
\* the datastore, and a user who left is out of it or has its removal on the way.
THEOREM SerialInvariance == ASSUME OneThread PROVE Spec => [](IInv /\ SerialInv)
<1>1. Init => IInv /\ SerialInv
  BY InitInv, SerialInit
<1>2. IInv /\ SerialInv /\ [Next]_vars => IInv' /\ SerialInv'
  BY OneThread, NextInv, SerialNext
<1> QED BY <1>1, <1>2, PTL DEF Spec

\* With one request at a time, the servlets do to a room what RoomProtocol
\* allows: a stale copy is all that stands between them and the promise (its
\* liveness part is left to TLC).
THEOREM SerialRefinement == ASSUME OneThread PROVE Spec => Protocol!SafeSpec
<1>1. Init => Protocol!Init
  <2> SUFFICES ASSUME Init PROVE Protocol!Init
    OBVIOUS
  <2>1. /\ room = NoRoom
        /\ \A u \in Users : chan[u] = "none" /\ posted[u] = {} /\ page[u] = "none"
    BY DEF Init, NetInit
  <2> QED BY <2>1 DEF Protocol!Init, Members, MembersOf, Connected, Leaving, Gone, Served
<1>2. IInv /\ SerialInv /\ [Next]_vars => [Protocol!Next]_(Protocol!vars)
  BY OneThread, SerialNext
<1> QED BY <1>1, <1>2, SerialInvariance, PTL DEF Spec, Protocol!SafeSpec

\* With one request at a time, three people never hold a page of one room (the
\* third branch of SpyServlet.doGet).
THEOREM AtMostTwoAdmittedHolds == ASSUME OneThread PROVE Spec => []AtMostTwoAdmitted
<1>1. ASSUME IInv, SerialInv PROVE AtMostTwoAdmitted
  <2> DEFINE S == {u \in Users : Served(u)} \ Leaving
  <2>1. S \subseteq Members
    BY <1>1 DEF SerialInv, GoneLeft, Gone
  <2>2. IsFiniteSet(Members) /\ Cardinality(Members) <= 2
    <3>1. \/ Members = {}
          \/ \E a, b : Members \subseteq {a, b}
      BY DEF Members, MembersOf
    <3>2. ASSUME NEW a, NEW b, Members \subseteq {a, b}
          PROVE  IsFiniteSet(Members) /\ Cardinality(Members) <= 2
      <4>1. IsFiniteSet({a}) /\ Cardinality({a}) = 1
        BY FS_Singleton
      <4>2. {a, b} = {a} \cup {b}
        OBVIOUS
      <4>3. IsFiniteSet({a, b}) /\ Cardinality({a, b}) <= 2
        BY <4>1, <4>2, FS_AddElement
      <4>4. IsFiniteSet(Members) /\ Cardinality(Members) <= Cardinality({a, b})
        BY <3>2, <4>3, FS_Subset
      <4>5. Cardinality(Members) \in Nat /\ Cardinality({a, b}) \in Nat
        BY <4>3, <4>4, FS_CardinalityType
      <4> QED BY <4>3, <4>4, <4>5
    <3>3. CASE Members = {}
      BY <3>2, <3>3
    <3> QED BY <3>1, <3>2, <3>3
  <2>3. IsFiniteSet(S) /\ Cardinality(S) <= Cardinality(Members)
    BY <2>1, <2>2, FS_Subset
  <2>4. Cardinality(S) \in Nat /\ Cardinality(Members) \in Nat
    BY <2>2, <2>3, FS_CardinalityType
  <2>5. Cardinality(S) <= 2
    BY <2>2, <2>3, <2>4
  <2> QED BY <2>5 DEF AtMostTwoAdmitted
<1> QED BY <1>1, SerialInvariance, PTL

\* With one request at a time, whoever left is out of the room once everything
\* posted was served (spy.js posts its bye "to ensure the room is cleaned").
THEOREM LeftIsOutHolds == ASSUME OneThread PROVE Spec => []LeftIsOut
<1>1. SerialInv => LeftIsOut
  BY DEF SerialInv, LeaveOnItsWay, LeavePcs, LeftIsOut, Quiescent
<1> QED BY <1>1, SerialInvariance, PTL

\* With one request at a time, nobody is put out of the room by a handler of
\* somebody else's request.
THEOREM AdmittedIsInHolds == ASSUME OneThread PROVE Spec => []AdmittedIsIn
<1>1. SerialInv => AdmittedIsIn
  BY DEF SerialInv, GoneLeft, Gone, AdmittedIsIn
<1> QED BY <1>1, SerialInvariance, PTL
=============================================================================
