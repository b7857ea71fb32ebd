------------------------------ MODULE VideoCall ------------------------------
(***************************************************************************)
(* Two people in a call: the pages of SpyClient over the signalling server *)
(* of ApprtcServer.  Requests are taken up in any order, what the Channel  *)
(* service delivers to one page keeps its order.                           *)
(***************************************************************************)
EXTENDS SpyClient, ApprtcServer

callVars == <<netVars, tab>>

CallInit == NetInit /\ TabInit

CallNext ==
    \E u \in Users :
        \/ Page(u)
        \/ Handle(u) /\ UNCHANGED <<browserVars, tab>>

\* App Engine takes up each request; a browser runs the callbacks that are due
\* and opens the socket it was asked for.  What the user does is up to the
\* user, candidates and the remote video's first frame are up to the media.
CallFairness ==
    \A u \in Users :
        /\ WF_callVars(Handle(u) /\ UNCHANGED <<browserVars, tab>>)
        /\ WF_callVars(Callback(u))

CallSpec == CallInit /\ [][CallNext]_callVars /\ CallFairness

-----------------------------------------------------------------------------
CallTypeOK == NetTypeOK /\ tab \in [Users -> Tab]

\* A page that listens and has heard everything that was sent to it.
Caught(u) ==
    tab[u].channelReady /\ tab[u].work = {} /\ tab[u].seen = Len(channel[u])

\* Every request was served, and every page with a socket has caught up.
Quiet ==
    /\ pending = {}
    /\ \A u \in Users : Alive(u) /\ chan[u] = "open" => Caught(u)

\* A page that waits to be called, is listening, and is alone in the room.
Deserted(u) ==
    /\ Members = {u} /\ room.user2 = NoUser
    /\ Alive(u) /\ chan[u] = "open"
    /\ ~tab[u].initiator

\* The queue is for a page that waits to be called: it is empty once the page
\* has a connection or calls itself, and a candidate or a bye never stands
\* before the offer it follows ("we can't handle early candidates before offer
\* at present").
QueueOrder ==
    \A u \in Users :
        LET q == tab[u].msgQueue
        IN  q # <<>> =>
              /\ ~tab[u].started
              /\ ~tab[u].initiator
              /\ \A i \in DOMAIN q : q[i].type = "offer" => q[1].type = "offer"

\* Nobody is left behind in a call with somebody who said bye: however the
\* offer, the candidates and the bye were saved, replayed and queued, a page
\* that waits to be called and is alone again has no call open.  This is about a
\* bye that a page posted.  If the channel of another page was closed, the bye of
\* DisconnectPage may be lost (LeftBehindHears), and a page that still calls drops
\* a bye that comes before its media; both are left out.
AloneIsIdle ==
    Quiet => \A u \in Users :
        /\ Deserted(u)
        /\ \A v \in Users : chan[v] = "closed" => v = u
        => tab[u].pc \in {"null", "new"}

\* A page posts only what Signalling lets a browser post, so what is shown of
\* the servers under Signalling's browsers holds with the real page.
ImplementsSignalling == NetInit /\ [][Next]_netVars

\* Both people in the room stay, listen, and have their media or want none.
Staying ==
    /\ room # NoRoom
    /\ room.user2 # NoUser
    /\ \A u \in Members : /\ Alive(u)
                          /\ tab[u].status # "left"
                          /\ tab[u].media \in {"none", "granted"}
                          /\ chan[u] # "closed"

Established == \A u \in Members : tab[u].pc = "stable"

\* If both stay, the call is established in the end.
CallEstablished == <>[]Staying => <>[]Established

\* Both stay and listen, every request was served, every page has caught up.
Settled == Staying /\ Quiet /\ \A u \in Members : chan[u] = "open"

\* Two pages that stay do not run dry before they have the call: in whatever order
\* they connected, got their media, offered, answered, and had their messages saved
\* and replayed, when nothing is left to do both have the call.
SettledIsEstablished == Settled => Established

(* What the comments of the server and the texts of the page promise.      *)

\* The Message table stores the messages for a receiver that "is not ready to
\* receive the messages": a goodbye reaches who is left behind, also when it is
\* the closing of the channel that says it.
LeftBehindHears ==
    Quiet => \A u \in Users : Deserted(u) => tab[u].pc \in {"null", "new"}

\* "You have left the call": who hung up is out of the room ("will trigger BYE
\* from server").
HungUpIsOut ==
    Quiet => \A u \in Users : tab[u].status = "left" => u \notin Members
=============================================================================
