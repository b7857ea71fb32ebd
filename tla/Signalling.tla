----------------------------- MODULE Signalling -----------------------------
(***************************************************************************)
(* What the two signalling servers of myMobKitWeb share: the datastore     *)
(* (one room and the messages saved for its users), the App Engine Channel *)
(* service, the requests in flight, and the browsers that post them.       *)
(*                                                                         *)
(* Rooms do not interact: entities are keyed by the room and every request *)
(* names one, so one room is modelled.  A user id is handed out once (eight *)
(* random digits per page load), so a page that is refreshed is another    *)
(* user.  A message is its type and the user who wrote it; two messages of *)
(* one type by one user would only repeat the same handler.                *)
(*                                                                         *)
(* The browser is taken from spy.js for the requests it posts and from the *)
(* Channel API it uses; its call state machine is module SpyClient.        *)
(***************************************************************************)
EXTENDS Room, Sequences, FiniteSets

CONSTANTS PostTypes,  \* the message types the pages post
          Debugs,     \* the values of SpyServlet's "debug" parameter
          MaxPosts    \* bound: the requests the browsers post in all

ASSUME PostTypesAreTypes == PostTypes \subseteq {"offer", "answer", "candidate", "bye"}
ASSUME MaxPostsIsNat == MaxPosts \in Nat
ASSUME DebugsAreModes == Debugs \subseteq {"none", "loopback", "full"}

VARIABLES room,     \* the stored room entity, or NoRoom
          saved,    \* the stored Message entities
          channel,  \* per user, what the Channel service delivers, in order
          chan,     \* per user, the state of the browser's channel socket
          page,     \* per user, what the page load was answered with
          pending,  \* requests posted and not yet taken up by the server
          posted    \* per user, the message types the page has posted

serverVars == <<room, saved, channel, page>>
browserVars == <<chan, posted>>
netVars == <<room, saved, channel, chan, page, pending, posted>>

MsgTypes == {"offer", "answer", "candidate", "bye"}

Payload == [type : MsgTypes, from : Slot]

\* The properties of a Message entity: Message.setEntityValues.
MessageEntity == [client_id : Users, message : Payload]

Request ==
    [kind : {"spy"}, user : Users, arg : {"none", "loopback", "full"}]
      \cup [kind : {"connect", "disconnect"}, user : Users, arg : {"none"}]
      \cup [kind : {"message"}, user : Users, arg : MsgTypes]

\* "callee" and "caller" are initiator 0 and 1 of the page that was served.
PageState == {"none", "loading", "callee", "caller", "full"}

ChanState == {"none", "open", "closed"}

NetTypeOK ==
    /\ room \in RoomEntity \cup {NoRoom}
    /\ saved \subseteq MessageEntity
    /\ channel \in [Users -> Seq(Payload)]
    /\ chan \in [Users -> ChanState]
    /\ page \in [Users -> PageState]
    /\ pending \subseteq Request
    /\ posted \in [Users -> SUBSET MsgTypes]

NetInit ==
    /\ room = NoRoom
    /\ saved = {}
    /\ channel = [u \in Users |-> <<>>]
    /\ chan = [u \in Users |-> "none"]
    /\ page = [u \in Users |-> "none"]
    /\ pending = {}
    /\ posted = [u \in Users |-> {}]

-----------------------------------------------------------------------------
(* The Channel service and the admission rule both servers share.          *)

\* channelService.sendMessage: a message for a client whose socket is not
\* open reaches nobody (which is what the Message table is there for).
Send(u, msgs) ==
    channel' = [channel EXCEPT ![u] = IF chan[u] = "open" THEN @ \o msgs ELSE @]

Bye(u) == [type |-> "bye", from |-> u]

\* An admission that does not count the occupants.
AdmitsAnybody(r, debug) == debug # "full"

\* A page is served for a new room and for the second user of a room.
Admits(r, debug) == debug # "full" /\ (r # NoRoom => Occupancy(r) = 1)

\* An initiator attribute that only the loopback page sets.
RoleOnlyLoopback(r, debug) == IF debug = "loopback" THEN "caller" ELSE "callee"

\* The initiator attribute of the page: 0 for a new room, 1 otherwise.
Role(r, debug) == IF r = NoRoom /\ debug # "loopback" THEN "callee" ELSE "caller"

\* handleMessage's special case: in a loopback room the offer comes back as
\* an answer.
Forwarded(u, other, type) ==
    [type |-> IF type = "offer" /\ u = other THEN "answer" ELSE type, from |-> u]

-----------------------------------------------------------------------------
(* The browsers.                                                           *)

Served(u) == page[u] \in {"callee", "caller"}

\* The requests posted so far, read off the state of the browsers.
Posts ==
    Cardinality({u \in Users : page[u] # "none"})
      + Cardinality({u \in Users : chan[u] # "none"})
      + Cardinality({u \in Users : chan[u] = "closed"})
      + Cardinality({p \in Users \X MsgTypes : p[2] \in posted[p[1]]})

\* A request leaves the browser.
Post(r) ==
    /\ Posts < MaxPosts
    /\ pending' = pending \cup {r}

\* The user asks for the page.
OpenPage(u, debug) ==
    /\ page[u] = "none"
    /\ page' = [page EXCEPT ![u] = "loading"]
    /\ Post([kind |-> "spy", user |-> u, arg |-> debug])
    /\ UNCHANGED <<room, saved, channel, chan, posted>>

\* spy.js openChannel; the Channel service posts /_ah/channel/connected/.
OpenChannel(u) ==
    /\ Served(u)
    /\ chan[u] = "none"
    /\ "bye" \notin posted[u]
    /\ chan' = [chan EXCEPT ![u] = "open"]
    /\ Post([kind |-> "connect", user |-> u, arg |-> "none"])
    /\ UNCHANGED <<serverVars, posted>>

\* onHangup's socket.close(), a page unload or a lost connection; the Channel
\* service posts /_ah/channel/disconnected/.
CloseChannel(u) ==
    /\ chan[u] = "open"
    /\ chan' = [chan EXCEPT ![u] = "closed"]
    /\ Post([kind |-> "disconnect", user |-> u, arg |-> "none"])
    /\ UNCHANGED <<serverVars, posted>>

HasOffer(u) == \E i \in DOMAIN channel[u] : channel[u][i].type = "offer"

\* Only an initiator calls doCall; only a page that got an offer answers it;
\* a page has candidates once it has a session description of its own.
MayPost(u, type) ==
    CASE type = "offer" -> page[u] = "caller"
      [] type = "answer" -> HasOffer(u)
      [] type = "candidate" -> posted[u] \cap {"offer", "answer"} # {}
      [] OTHER -> TRUE

\* spy.js sendMessage; "bye" is posted when the page unloads and is its last.
PostMessage(u, type) ==
    /\ Served(u)
    /\ MayPost(u, type)
    /\ {type, "bye"} \cap posted[u] = {}
    /\ posted' = [posted EXCEPT ![u] = @ \cup {type}]
    /\ Post([kind |-> "message", user |-> u, arg |-> type])
    /\ UNCHANGED <<serverVars, chan>>

Browser(u) ==
    \/ \E debug \in Debugs : OpenPage(u, debug)
    \/ OpenChannel(u)
    \/ CloseChannel(u)
    \/ \E type \in PostTypes : PostMessage(u, type)

-----------------------------------------------------------------------------
(* Notions the properties of both servers are stated with.                 *)

Members == MembersOf(room)

Connected == {u \in Users : room # NoRoom /\ IsConnected(room, u)}

\* Users whose bye or whose channel's closing has been posted.
Leaving == {u \in Users : "bye" \in posted[u] \/ chan[u] = "closed"}

\* Users that were let in and are no longer in the room.
Gone == {u \in Users : Served(u)} \ Members
=============================================================================
