------------------------------ MODULE SpyClient ------------------------------
(***************************************************************************)
(* The call page, war/js/spy.js: its global variables, one action for each *)
(* callback the browser runs, and the requests the callbacks post.         *)
(*                                                                         *)
(* A callback runs to its end before the next one starts, so the functions *)
(* it calls are operators that map a page to a page.  The peer connection  *)
(* is external: it is its signalling state, and an operation that the      *)
(* state does not allow fails and leaves it.  What createOffer and         *)
(* createAnswer call back is pending in work, and dropped with a closed    *)
(* connection.  turnDone is true from initialize on and is left out.       *)
(***************************************************************************)
EXTENDS Signalling, SequencesExt

CONSTANT AsksMedia  \* whether mediaConstraints ask for a camera or microphone

ASSUME AsksMediaIsChoice == AsksMedia \subseteq BOOLEAN

VARIABLE tab  \* per user, the page's variables

\* status is what the page says of the call; video says that a remote stream was
\* added, so waitForRemoteVideo was started and the "Hang up" button is shown or a
\* timer away; seen counts
\* the messages of the channel the page has received.
Tab == [status         : {"blank", "waiting", "left", "unloaded"},
        initiator      : BOOLEAN,
        channelReady   : BOOLEAN,
        signalingReady : BOOLEAN,
        started        : BOOLEAN,
        media          : {"none", "asked", "granted"},
        pc             : {"null", "new", "haveLocalOffer", "haveRemoteOffer", "stable"},
        work           : SUBSET {"offer", "answer"},
        video          : BOOLEAN,
        msgQueue       : Seq(Payload),
        seen           : Nat]

NewTab == [status |-> "blank", initiator |-> FALSE, channelReady |-> FALSE,
           signalingReady |-> FALSE, started |-> FALSE, media |-> "none",
           pc |-> "null", work |-> {}, video |-> FALSE, msgQueue |-> <<>>,
           seen |-> 0]

TabInit == tab = [u \in Users |-> NewTab]

-----------------------------------------------------------------------------
(* The functions of spy.js, on the page's variables.                       *)

\* setLocalDescription
SetLocal(pc, type) ==
    CASE type = "offer" /\ pc = "new"              -> "haveLocalOffer"
      [] type = "answer" /\ pc = "haveRemoteOffer" -> "stable"
      [] OTHER                                     -> pc

\* stop, with a peer connection to close.
Stop(p) ==
    [p EXCEPT !.started = FALSE, !.signalingReady = FALSE,
              !.pc = "null", !.work = {}, !.msgQueue = <<>>]

\* A remote hangup that leaves the connection open.
OnRemoteHangupOpen(p) == [p EXCEPT !.initiator = FALSE, !.status = "waiting"]

\* onRemoteHangup
OnRemoteHangup(p) ==
    [Stop(p) EXCEPT !.initiator = FALSE, !.status = "waiting"]

\* The description brings a stream, so that onRemoteStreamAdded is called: its page
\* asked for media, and then has them before it makes a connection.
BringsStream(msg) == tab[msg.from].media = "granted"

\* setRemote and doAnswer: an offer while the page's own offer is open fails,
\* and then there is nothing to answer.
OnOffer(p, msg) ==
    IF p.pc = "haveLocalOffer" THEN p
    ELSE [p EXCEPT !.pc = "haveRemoteOffer", !.work = @ \cup {"answer"},
                   !.video = @ \/ BringsStream(msg)]

\* setRemote with an answer
OnAnswer(p, msg) ==
    IF p.pc = "haveLocalOffer"
    THEN [p EXCEPT !.pc = "stable", !.video = @ \/ BringsStream(msg)]
    ELSE p

\* processSignalingMessage.  A candidate changes nothing that is modelled:
\* it is added or, before a remote description, refused.
Process(p, msg) ==
    IF ~p.started THEN p
    ELSE CASE msg.type = "offer"  -> OnOffer(p, msg)
           [] msg.type = "answer" -> OnAnswer(p, msg)
           [] msg.type = "bye"    -> OnRemoteHangup(p)
           [] OTHER               -> p

\* calleeStart: the queue is processed from its head; a bye empties it.
CalleeStart(p) ==
    LET queue == p.msgQueue
        done[n \in 0 .. Len(queue)] ==
            IF n = 0 THEN [p EXCEPT !.msgQueue = <<>>] ELSE Process(done[n - 1], queue[n])
    IN  done[Len(queue)]

\* createPeerConnection, started, and doCall or calleeStart.
StartCall(p) ==
    LET q == [p EXCEPT !.pc = "new", !.started = TRUE]
    IN  IF p.initiator THEN [q EXCEPT !.work = @ \cup {"offer"}] ELSE CalleeStart(q)

\* maybeStart
MaybeStart(p) ==
    IF ~p.started /\ p.signalingReady /\ p.media = "granted" /\ p.channelReady
    THEN StartCall([p EXCEPT !.status = "waiting"])
    ELSE p

\* The queue without the rule for offers.
EnqueueAtEnd(p, msg) ==
    IF msg.type = "offer"
    THEN MaybeStart([p EXCEPT !.msgQueue = Append(@, msg), !.signalingReady = TRUE])
    ELSE [p EXCEPT !.msgQueue = Append(@, msg)]

\* The queue of a callee that has no peer connection yet: an offer goes first.
Enqueue(p, msg) ==
    IF msg.type = "offer"
    THEN MaybeStart([p EXCEPT !.msgQueue = <<msg>> \o @, !.signalingReady = TRUE])
    ELSE [p EXCEPT !.msgQueue = Append(@, msg)]

\* A page that does not keep what comes before it has a connection.
ReceiveUnqueued(p, msg) == Process(p, msg)

\* onChannelMessage
Receive(p, msg) ==
    IF ~p.initiator /\ ~p.started THEN Enqueue(p, msg) ELSE Process(p, msg)

-----------------------------------------------------------------------------
(* The callbacks.                                                          *)

Alive(u) == tab[u].status \notin {"blank", "unloaded"}

SetTab(u, p) == tab' = [tab EXCEPT ![u] = p]

\* sendMessage.  A request equal to one that is still on its way waits for it
\* (two answers of one page would otherwise be told apart by their text only).
SendMessage(u, type) ==
    /\ [kind |-> "message", user |-> u, arg |-> type] \notin pending
    /\ posted' = [posted EXCEPT ![u] = @ \cup {type}]
    /\ Post([kind |-> "message", user |-> u, arg |-> type])
    /\ UNCHANGED <<serverVars, chan>>

\* initialize: the socket opens later, the media are asked for or, if the page
\* wants none, the call is started at once.
Initialize(u) ==
    LET init == [NewTab EXCEPT !.status = "waiting",
                               !.initiator = page[u] = "caller"]
        ready(p) == [p EXCEPT !.signalingReady = p.initiator]
    IN  /\ Served(u)
        /\ tab[u].status = "blank"
        /\ \/ TRUE \in AsksMedia /\ SetTab(u, ready([init EXCEPT !.media = "asked"]))
           \/ FALSE \in AsksMedia /\ SetTab(u, ready(StartCall(init)))
        /\ UNCHANGED netVars

\* The Channel service opens the socket that initialize asked for.
SocketOpens(u) == Alive(u) /\ OpenChannel(u) /\ UNCHANGED tab

\* A channel that opens without another try to start.
OnChannelOpenedUntried(u) ==
    /\ Alive(u)
    /\ chan[u] = "open"
    /\ ~tab[u].channelReady
    /\ SetTab(u, [tab[u] EXCEPT !.channelReady = TRUE])
    /\ UNCHANGED netVars

OnChannelOpened(u) ==
    /\ Alive(u)
    /\ chan[u] = "open"
    /\ ~tab[u].channelReady
    /\ SetTab(u, MaybeStart([tab[u] EXCEPT !.channelReady = TRUE]))
    /\ UNCHANGED netVars

OnChannelMessage(u) ==
    LET n == tab[u].seen + 1
    IN  /\ Alive(u)
        /\ chan[u] = "open"
        /\ tab[u].channelReady
        /\ n \in DOMAIN channel[u]
        /\ SetTab(u, Receive([tab[u] EXCEPT !.seen = n], channel[u][n]))
        /\ UNCHANGED netVars

\* onUserMediaSuccess.  A user who refuses the camera gets an alert and stays
\* where a user is who does not answer the question.
OnUserMediaSuccess(u) ==
    /\ Alive(u)
    /\ tab[u].media = "asked"
    /\ SetTab(u, MaybeStart([tab[u] EXCEPT !.media = "granted"]))
    /\ UNCHANGED netVars

\* setLocalAndSendMessage: the description is sent whether or not it could be
\* set.
SetLocalAndSendMessage(u, type) ==
    /\ Alive(u)
    /\ type \in tab[u].work
    /\ SetTab(u, [tab[u] EXCEPT !.work = @ \ {type}, !.pc = SetLocal(@, type)])
    /\ SendMessage(u, type)

\* Candidates that are sent as soon as there is a connection.
OnIceCandidateEarly(u) ==
    /\ Alive(u)
    /\ "candidate" \in PostTypes \ posted[u]
    /\ tab[u].pc # "null"
    /\ SendMessage(u, "candidate")
    /\ UNCHANGED tab

\* onIceCandidate: the browser gathers once a local description is set.  One
\* candidate of each page is modelled.
OnIceCandidate(u) ==
    /\ Alive(u)
    /\ "candidate" \in PostTypes \ posted[u]
    /\ tab[u].pc \in {"haveLocalOffer", "stable"}
    /\ SendMessage(u, "candidate")
    /\ UNCHANGED tab

\* onHangup.  Without a stream localStream.stop() throws; without a peer
\* connection (the timer of waitForRemoteVideo may show the button after the
\* other side hung up) pc.close() does; both before the socket is closed.
OnHangup(u) ==
    LET left == [tab[u] EXCEPT !.status = "left", !.video = FALSE]
    IN  /\ Alive(u)
        /\ tab[u].video
        /\ CASE tab[u].media # "granted" -> SetTab(u, left) /\ UNCHANGED netVars
             [] tab[u].media = "granted" /\ tab[u].pc = "null"
                  -> SetTab(u, [left EXCEPT !.started = FALSE, !.signalingReady = FALSE])
                     /\ UNCHANGED netVars
             [] OTHER -> /\ SetTab(u, Stop(left))
                         /\ \/ CloseChannel(u)
                            \/ chan[u] = "closed" /\ UNCHANGED netVars

\* A page that is gone.  What it sent may still be on its way, so its media stay.
Unloaded(p) == [NewTab EXCEPT !.status = "unloaded", !.media = p.media]

\* onbeforeunload: the bye.  The rest of the page is gone.
OnBeforeUnload(u) ==
    /\ Alive(u)
    /\ SetTab(u, Unloaded(tab[u]))
    /\ SendMessage(u, "bye")

\* The page dies without a word: a crash of the browser.
Crash(u) ==
    /\ Alive(u)
    /\ SetTab(u, Unloaded(tab[u]))
    /\ UNCHANGED netVars

\* The socket of a page that was closed, or whose connection is lost.
ConnectionLost(u) == CloseChannel(u) /\ UNCHANGED tab

\* What the browser and the network do on their own.
Callback(u) ==
    \/ Initialize(u)
    \/ SocketOpens(u)
    \/ OnChannelOpened(u)
    \/ OnChannelMessage(u)
    \/ \E type \in {"offer", "answer"} : SetLocalAndSendMessage(u, type)

Page(u) ==
    \/ \E debug \in Debugs : OpenPage(u, debug) /\ UNCHANGED tab
    \/ Callback(u)
    \/ OnUserMediaSuccess(u)
    \/ OnIceCandidate(u)
    \/ OnHangup(u)
    \/ OnBeforeUnload(u)
    \/ Crash(u)
    \/ ConnectionLost(u)
=============================================================================
