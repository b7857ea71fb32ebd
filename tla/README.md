# make-money-apps: verification project

TLA+ models of the parts of this repository where several actors meet, the TLC
runs that check them, and the theorems about them that TLAPS proves.

The repository holds four Android applications and one web application. The
program with the richest protocol is **myMobKit**: an Android phone that is a
surveillance camera (`src/myMobKit/MyMobKit`), and a web application on Google
App Engine that lets two browsers meet in a room and hold a WebRTC call
(`src/myMobKit/myMobKitWeb`). The signalling server of the web application comes
twice, in Java and as the Python program it was ported from. Server and page are
modelled first, then **SimpleBlocker**, which blocks calls on a phone, and then
the native code the camera rests on: the MP3 encoder that makes its live sound,
the threads that send that sound to the clients, and the NAT-PMP client that makes
the phone reachable.

## 1. Inventory

Paths are relative to `src/`.

### Web application (`myMobKit/myMobKitWeb`)

| part | state | operations | interacts with |
|---|---|---|---|
| **Room** (`model/Room.java`) | one datastore entity: two user slots, a "connected" flag for each | `addUser`, `removeUser`, `setConnected`, `getOtherUser`, `hasUser`, `getOccupancy`, `isConnected` | `ModelBase.save/delete` |
| **Message table** (`model/Message.java`, `RTCUtils.getSavedMessages`) | entities: receiver, text | saved for a receiver who is not connected, replayed by the receiver's connect, deleted with the receiver | Channel service |
| **Java server** (`SpyServlet`, `ConnectServlet`, `DisconnectServlet`, `MessageServlet`, `RTCUtils`) | the copy of the room each running request holds | page load, connected, disconnected, message | datastore without transactions; several threads (`<threadsafe>`) |
| **Python server** (`war/apprtc.py`) | none beyond the datastore | the same four handlers, each under one process-wide `LOCK` | datastore, Channel service |
| **Call page** (`war/js/spy.js`) | `started`, `turnDone`, `channelReady`, `signalingReady`, `msgQueue`, `pc`, the socket | open channel, get media, create the peer connection, call, answer, hang up, process a message | posts requests, receives channel messages |
| `MyWorkspaceServlet` | - | an unfinished copy of `SpyServlet` | not used |

*Hard here.* Requests are handled in any order and, in Java, interleaved: each
handler reads the room once and writes its copy back. A user's disconnect may be
served before its connect. A message for somebody who is not connected must
wait, and must not outlive a receiver who leaves. The roles (who calls, who
waits) are handed out by order of arrival while the second user moves into the
first slot when the first one leaves. Channel messages reach the page while it
still waits for the user to grant the camera.

*Correct means.* At most two people in a room; nobody is put out who did not
leave and nobody who left comes back; a room nobody is in does not exist; the
connected flag belongs to who is in the slot; a full room has somebody who calls;
saved messages are delivered or dropped with their receiver.

### Android application (`myMobKit/MyMobKit`)

| part | state | operations | hard |
|---|---|---|---|
| **Audio and video broadcast** (`VideoStreamingActivity`, `DataStream`, `StreamingServer`) | two lists of open streams, `isStreamingAudio`, encoder threads, the camera's frame buffers | a request adds a stream; an encoder thread writes a frame to each; release | lists shared by server threads, encoder thread and UI thread |
| **Microphone pipeline** (`MicrophoneReader`, `Pool`; nothing creates one) | queue of filled chunks, pool of free chunks, ready flag, sequence number | read, queue, send, give back, terminate | two threads, bounded queue, reuse of buffers |
| **AudioRecorder** (nothing creates one) | state INITIALIZING/READY/RECORDING/ERROR/STOPPED, the file, the update listener | `setOutputFile`, `prepare`, `start`, `stop`, `reset`, `release` | legal call sequences, I/O errors |
| **Control panel service** (`HttpdService`, `PhoneBootReceiver`, `ControlPanelFragment`) | the HTTP server, its scheduler, the surveillance activity's address | start, stop, start at boot, surveillance on/off, messaging | start failures, polling with a limit, restarts by the system |
| HTTP servers (`NanoHttpd`, `HttpServer`, `MyMobKitServer`, `ControlPanelService`) | - | a URI to a file or a processor | - |
| Motion detection and image processing | - | numeric | - |
| **MP3 encoder** (`jni/libmp3lame`, `jni/mp3encoder.cpp`) | `mfbuf` with the samples that do not fill a frame, the bit reservoir, the bit stream with a ring of 256 frame headers, the seek table | `lame_encode_buffer`, `lame_encode_flush`, `lame_encode_flush_nogap`, `lame_init_bitstream` | a frame's data lies in earlier frames, its header is written later; counters in bits, bytes, samples and frames that must agree; calls of any size |
| **NAT-PMP client** (`jni/libnatpmp`, `jni/natpmpclient.cpp`) | the pending request, the number of tries, the time of the next one | send a request, compute the time to wait, read or retry | lost and late answers, retries with doubled delays, answers that do not say what they answer |
| Speex, JPEG code (`jni`) | - | not in the build (`jni/Android.mk`) | - |

### Other applications

| part | state | operations | hard |
|---|---|---|---|
| **SimpleBlocker** | phone state flag, listeners, ringer mode, airplane mode, call log | a call rings, hang up or silence, restore, log | one thread for each call over one phone: overlapping calls, a process that may be killed |
| **SMSSpeaker** | list of texts, speech engine, shake listener | a text or a call arrives, history is loaded | a history load that replaces the list |
| **MyLotto** | results database, synchronisation status, statistics | download, query, predict | start of a synchronisation that runs already |

`PROJECT.json` lists every component with its status, and every hazard with the
line where it bites and the properties that watch it.

## 2. What is modelled

### Modules

| module | what it is |
|---|---|
| `Room` | `Room.java`'s methods as operators on the copy of the entity. Constants `Users`, `NoUser` (blank slot), `NoRoom` (no entity) |
| `Signalling` | what both servers share: the stored room, the Message table, the Channel service, the requests in flight, the browsers that post them, the admission rule |
| `ApprtcServer` | `apprtc.py`: one action per handler, because a handler holds `LOCK` from first read to last write |
| `SpyServer` | the servlets: one action per datastore or Channel operation, `thread[t]` holding the local variables of the handler that thread `t` runs |
| `RoomProtocol` | the abstract specification: a set of members, a set of connected members, who said that they leave, who is gone |
| `SpyClient` | the callbacks of `spy.js` over one page's variables |
| `VideoCall` | the pages of a room (two in the runs) and `ApprtcServer` composed: the requests are those the pages really post, the pages take what the Channel service delivers |
| `CallBlocker` | SimpleBlocker: the phone, the main thread with its listeners, one thread for each call |
| `BitReservoir` | `reservoir.c`, `bitstream.c` and the choice of a frame's bit rate in `quantize.c`: one frame after another through the reservoir into the stream |
| `LameEncoder` | the encoding interface of `lame.c` and the seek table of `VbrTag.c`, around the steps of `BitReservoir` |
| `NatPmp` | the NAT-PMP client with its two callers, a gateway and a network |
| `AudioBroadcast` | server threads, encoder threads and the screen's thread over the lists of streams, the flag, the recorder and the one encoder handle |
| `MCApprtcServer`, `MCSpyServer`, `MCVideoCall`, `MCCallBlocker`, `MCLameEncoder` | the modules TLC is run on; `NatPmp` and `AudioBroadcast` need none |
| `RoomProofs` | lemmas about `Room`'s operators |
| `VideoCallProofs` | `ApprtcServer`: inductive invariant, invariants and the refinement of `RoomProtocol`; `VideoCall`: inductive invariants of the pages, that the server keeps all of this under them, and what becomes of a call of two |
| `SpyServerProofs` | inductive invariant of `SpyServer` for any number of users and threads, and its invariants; with one thread, the refinement of `RoomProtocol` |
| `CallBlockerProofs` | inductive invariant of `CallBlocker` and its invariants |
| `NatPmpProofs` | what the app shows is mapped, and nobody gives up early, for every number of tries and every loss |
| `RoomProtocolProofs` | at most two people in a room, of the abstract specification |
| `LameEncoderProofs` | `BitReservoir`: inductive invariant and properties; `LameEncoder`: that it keeps that invariant, and invariants of its own for samples, padding and the seek table |
| `NaturalLemmas` | what the proofs need of the naturals: induction over a set, powers of two |

### State and actions against the code

* `room` is the stored entity. In `SpyServer` `thread[t].copy` is the Java object
  a handler works on, and `pc` names the next datastore or Channel operation.
  `SpyFind`, `SpySave`, `SpySaveAgain`, `SpyServe` are `SpyServlet.doGet` with
  both saves of `addUser` (a loopback room saves four times); `ConnectFind`,
  `ConnectSave`, `ConnectReplay` are `ConnectServlet.doPost`; `DisconnectFind`,
  `Purge`, `RemoveAndStore`, `DisconnectBye` are `DisconnectServlet.doPost` with
  `Room.removeUser`; `MessageFind`, `Purge`, `RemoveAndStore`, `MessageForward`
  are `MessageServlet.doPost` with `RTCUtils.handleMessage`.
* `saved` holds the Message entities as they are stored, with the property names
  of the code. `Message.java` writes `client_id` and `RTCUtils` queries
  `clientId`; the model keeps both names, so in `SpyServer` no query for saved
  messages finds any (what is said of saved messages below is said of
  `ApprtcServer`).
* `channel[u]` is what the Channel service delivers to user `u`. A message sent
  to a client whose socket is not open is lost. `chan[u]` is the socket.
* `pending` is the set of requests posted and not taken up. A request is taken up
  once and in any order: a connect after the disconnect of the same user is one
  of the orders.
* `page[u]` is what the page load was answered with: initiator 0 (`callee`),
  initiator 1 (`caller`) or the "full" page. `posted[u]` is the browser's side.

* `SpyClient` keeps, for each page, the globals of `spy.js` (`started`,
  `signalingReady`, `msgQueue`, `initiator`, ...) and the signalling state of its
  peer connection. An action is a callback and runs to its end, as JavaScript
  does: `OnChannelOpened`, `OnChannelMessage`, `OnUserMediaSuccess`,
  `SetLocalAndSendMessage`, `OnIceCandidate`, `OnHangup`, `OnBeforeUnload`.
  `Crash` and `ConnectionLost` are the browser's and the network's. `video`, the
  remote stream that brings the "Hang up" button, comes with an offer or an answer
  of a page that has media; a page that was closed keeps its `media` because its
  messages may still be on their way.
* `VideoCall` takes the handlers of `ApprtcServer` as they are and replaces the
  permissive browser of `Signalling` by `SpyClient`. That two real pages are
  browsers as `Signalling` allows them is checked and proved (`ImplementsSignalling`). With
  more than two page loads a page may answer a second caller after the first one
  has left, a message `Signalling` lets it post once only; that the server keeps
  its invariants then too is proved (`CallKeepsServer`, `CallKeepsPromise`).
* In `CallBlocker`, `looper` is the main thread's queue of callbacks, `listeners`
  counts the listeners `PhoneStateReceiver` has registered (it never unregisters
  one), `processingRingingCall` is the static flag of `AppConfig`, and
  `worker[c].pc` is the next call of `muteOrSilenceAction` that thread `c` makes;
  each read or write of a device setting is a step of its own.

* `BitReservoir` counts in bits where the code does. `header` holds the used slots
  of the ring, oldest first, each with its `write_timing` and its
  `main_data_begin`; `nextTiming` is the timing of slot `h_ptr`, which the code
  stores in the slot itself. `VbrFrame` is `VBR_new_iteration_loop` (what the app
  selects: `vbr_default`), `CbrFrame` and `Granule` are `CBR_iteration_loop` with
  `ResvAdjust`; both end in `ResvFrameEnd`. How many bits the data of a frame or
  granule takes is an input, within the bound the loops respect. `putbits2` is a
  loop whose iterations stop at a header that is due: `PutHeader` and `PutBits`
  are its two kinds of steps, `todo` what is left of the loop. `pc` runs through
  `format_bitstream`: drain of the frame before (`pre`), side information
  (`EncodeSideInfo`), data (`main`), own drain (`post`), `FinishFrame`, and
  `copy` for `copy_buffer`.
* `LameEncoder` adds the samples: `mfSize` and `mfToEncode` are counted as the code
  counts them, with the real delays of `encoder.h`. `call` is the running call of
  the caller and the buffer it passed; a buffer that is too small makes the call
  fail where `copy_buffer` does, and the caller then stops. `audio` is a history:
  it remembers how many samples came in since the last flush and where the last
  one lies.
* In `NatPmp` a tick of the clock is 250 ms, the first delay. `untilRetry` is
  `retry_time` minus now. `at` is where the caller is in its sequence of send,
  `select` and read; `network` is a bag of datagrams, `inbox` what the socket
  holds. The app calls `select` once for each request, `natpmpc.c` in a loop.
* In `AudioBroadcast` each access to shared data is a step: `TestFlag`, `SetFlag`,
  `AddAll`, `Clear`, `EncodePCM`, `CloseEncoder`. `Prepare` may fail, and then its
  stream has no sender or the request ends. The handle is the static variable
  `lame` of `mp3encoder.cpp`: the encoder that opens last overwrites it.

### Assumptions

* *One room.* Entities are keyed by the room and each request names one.
* *A user id is used once.* The code draws eight random digits for every page
  load; collisions are not modelled. A reload is another user.
* *A message is its type and sender.* A second candidate of the same user runs
  through the same code as the first.
* *`LOCK` covers the server.* It is a lock of one Python process. With several
  App Engine instances the Python server would interleave like the Java one.
* *A handler is not interrupted half way.* No exception of the datastore and no
  request deadline is modelled; a message to nobody is dropped, as in the code.
* The browser in `Signalling` posts what `spy.js` may post: an offer only as a
  caller, an answer only after an offer arrived, a candidate only after a
  description of its own, a bye as the last message. It may be slower than
  `spy.js`, and it may never open its channel.
* *`VideoCall`*: two page loads; a page has one candidate; callbacks of a closed
  peer connection do not come; two equal requests of a page are one. The loopback
  mode is checked with `apprtc` and `spy_serial` only. A third person who takes the place of one
  who left is not covered by the run with real pages, but by what is proved of
  them: the theorems are about any number of page loads.
* *`CallBlocker`*: the platform's contract is modelled as its documentation and
  the comments of `MyPhoneStateListener` give it: one call rings at a time, and a
  listener is told the current state when it is registered. Each call comes in
  once, and the preferences do not change while calls come in. `endCall` ends
  the call that rings, does nothing or throws.
* *`BitReservoir`* (`BitAssumption`): frame lengths grow with the index and are
  longer than their side information; the limits are whole bytes, as
  `lame_init_params` computes them; a ring of `HeaderBuf` headers is longer than
  a frame of the constant bit rate. Free format and the 16-bit checksum are left
  out.
* *`RingAssumption`*: the largest reservoir is shorter than `HeaderBuf - 1` of the
  smallest frames without their side information. It is what "we need to buffer
  up to 255 headers" in `util.h` counts on, and the properties of the stream rest
  on it. At 44.1 kHz, as the app encodes, the smallest frame has 104 bytes and 36
  of side information: 255 * 8 * 68 bits, far above the 4088 of `ResvLimit`.
  At 24 kHz, 8 kbit/s, with checksums, side information takes 23 of 24 bytes and
  255 * 8 equals the limit: there the ring does fill up, after 255 silent frames
  and a loud one, and `encodeSideInfo2` prints "MAX_HEADER_BUF too small".
  The model contains that branch.
* *`LameEncoder`* (`LameAssumption`): one caller at a time; samples need no
  resampling; a caller whose call failed makes no other one. The seek table has
  an even size.
* *`NatPmp`*: datagrams are lost, delayed and reordered, not duplicated; an answer
  of the gateway is one of the kind it was asked for, or an error, or an ICMP
  message. The other error returns (wrong source, version, opcode) take the branch
  of an error.
* *`AudioBroadcast`*: the lists are sets, since no step asks for their order; an
  exception of Java's list iterators is not modelled.

## 3. Runs

| run | question | bounds |
|---|---|---|
| `apprtc` | does the locked server keep its invariants and implement `RoomProtocol`, liveness included? | three page loads, ordinary and loopback; offers, answers, byes; 8 requests |
| `spy_concurrent` | what survives when two handlers interleave? | three page loads, two threads, offers and byes, 7 requests, symmetry |
| `spy_serial` | with one handler at a time, do the servlets implement `RoomProtocol`? | three page loads, all `debug` modes, 7 requests |
| `spy_crowd` | finding 1 | three page loads, two threads, 4 requests |
| `call` | do two real pages and the locked server establish a call, with requests and messages in any order? | two page loads; each page one offer or answer, one candidate, one bye |
| `call_hangup` | finding 2 | two page loads, pages with and without media |
| `call_left` | finding 3 | two page loads, closing channels |
| `blocker` | does every call get exactly one thread, and does every thread end? | two calls, two listeners, both behaviours, one death of the process |
| `blocker_ringer` | finding 4 | two calls, one listener, silencing, no death |
| `lame` | do reservoir, headers, stream, samples and seek table agree after any calls, and does every call return? | five calls; 1 or 1500 samples; frames of 3 and 5 bytes, 8 headers, a seek table of 2 entries |
| `natpmp` | is the verdict right whatever is lost or late, and does it come? | three tries instead of nine; a client late by a tick |
| `audio` | finding 5 | two clients |

*Why the bounds are enough to say something.* A room has two slots, so the third
page load is the one that is refused, or that takes a slot again after somebody
left; a fourth would repeat it. `MaxPosts` bounds all requests of all browsers
together. Eight allow two people to load, connect, exchange an offer, leave, and
a third to come in their place. With two threads one handler is interrupted by
one other at any of its operations; a stale copy needs no more. Symmetry is used
only where every property is an invariant. In `VideoCall` the pages bound
themselves: a page loads once and each of its messages is sent once. Two calls
let one ring while the thread of the other is at work, and two listeners tell
the same call twice; more of either repeats that.

`lame` shrinks the numbers of the stream and keeps those of the samples. With frames
of 3 and 5 bytes, 2 of side information and a reservoir of 40 bits, a frame's data
reaches back over several frames (up to five small ones), several headers wait
in the ring, and the bit counter, reset after 64 bits instead of 10^9, is reset
while headers wait. 0 and 21 bits are a frame that fills the reservoir and one
that drains it by a number of bits that is not whole bytes. A call with one sample
leaves `mfbuf` as it is, one with 1500 crosses a frame; five calls allow to encode,
flush, start a new file, encode and flush again, with a buffer that is large
enough, unchecked or too small. Two entries are the smallest seek table that is
thinned. In `natpmp` the schedule is the same with three retries as with nine, and
one tick is enough to be late, so that `select` is given a negative time.

Deadlock is not checked: when every page was closed and every request served,
when all calls are over, when the caller of the encoder makes no further call or
the NAT-PMP client is done, the system has nothing left to do.

*Fairness.* `WF` on the handlers of each user (`ApprtcServer`) or on each thread
(`SpyServer`): App Engine takes up each request that was posted, and a handler
that was started ends. Browsers have no fairness there: a page may stop for ever. `VideoCall` adds
`WF` on the callbacks of a page that is open: a browser runs the callbacks it
has queued, and the user answers the request for the camera. Closing, hanging up
and crashing are never forced, and `CallEstablished` speaks of pages that stay.
`CallBlocker` has `WF` on each thread and on the main thread, because Android
schedules them, and on the end of a ringing: networks do not let a phone ring
for ever. Calls are never forced to come in or to end.
`LameEncoder` has `WF` on the steps inside a call, which is sequential code in the
caller's thread; no call is forced. `NatPmp` has `WF` on the client and on the
clock; nothing is assumed of the gateway and the network, not even that a
message ever arrives. `AudioBroadcast` states safety only.

### What the runs show

With `LOCK` (`apprtc`): the room is exactly the people who were let in and have
not left; the second user was told to call; only users whose channel was opened are believed connected; messages are kept
only for members who are not connected; whoever opens a channel gets what was
saved or leaves; and everything `RoomProtocol` promises.

Interleaved (`spy_concurrent`): no empty room, a caller in a full room, the flag that
goes with the user, no slot for somebody who was told "full", and no echo outside
a loopback room hold in every interleaving of two handlers. With one thread
(`spy_serial`) the servlets also implement `RoomProtocol`, so that a user who
left stays out and one who was let in stays in. With two threads neither holds:
a handler that writes back the copy it read can bring a user back whose bye was
served meanwhile, and what holds with one thread says nothing of that. Nothing in the repository promises the contrary for the
servlets, so it is not listed as a finding of its own.

With real pages (`call`): in a callee's queue an offer is in front of what it
belongs to; a page whose partner said bye is out of the call, unless the bye
arrived before its camera was granted (`spy.js` drops it then, and
`AloneIsIdle` leaves pages that are still initiators out) or a channel closed (a
bye of a closed channel may be lost, see finding 3 and `LeftBehindHears`; the
states in which another page's channel is closed are left out); and if both people
stay, the offer and the answer are exchanged, whatever the order in which
channel, camera and messages come: nothing is left to do only when both have the
call (`SettledIsEstablished`), and that is reached (`CallEstablished`).

`blocker`: however many listeners have piled up and however late they are told, a
call has one thread; a call that waits behind another one is not missed; no
thread waits for ever.

`lame`: what `compute_flushbits` finds missing in the stream is the reservoir that
`reservoir.c` keeps in another variable (`FlushIsReservoir`); `main_data_begin` in
every header points to where the data of that frame was put
(`DecoderFindsData`); no data is written over the place of a header, and after a
flush no header and no bit is missing (`HeadersInTime`); the reservoir never leaves
what `main_data_begin` and the decoder's buffer can hold and is never overdrawn
(`ReservoirBounded`). `mfbuf` does not overflow and the count of frames in the
flush is right (`SamplesFit`); delay, samples and padding add up to the frames
written, and the last sample is in one of them (`PaddingCounts`); the seek table is
cumulative after it was thinned (`SeekTableCumulative`); and the loop of
`lame_encode_flush`, which counts frames that its inner calls complete, ends
(`CallReturns`).

`natpmp`: the app never shows an address or port from the wrong kind of answer,
although nobody compares the kind with the request, because it waits once and
gives up (`UrlIsMapped` is false of a caller that waits on, see its mutant); "no
gateway" is said only after the whole schedule, also by a client that was late
(`NoEarlyGiveUp`); every caller is answered (`CallerReturns`).

### Findings

1. `SpyServlet` reads the occupancy and saves the room in separate operations
   without a transaction: three people can hold a page of the same room
   (`AtMostTwoAdmitted`).
2. `onHangup` of `spy.js` stops `localStream` first, which a page without media
   does not have: in a call with a page that has media, whose stream brings the
   "Hang up" button, it shows "You have left the call." and throws before the
   connection and the socket are closed (`HungUpIsOut`).
3. The bye of a closing channel is not saved for a receiver who has not connected
   yet, while the offer is: the receiver answers somebody who left, and is not
   told (`LeftBehindHears`).
4. Two silenced calls that overlap leave the phone silent: the second thread
   saves the silent mode of the first as the original one (`RingerRestored`).
5. Two clients that ask for the live sound at once start two encoder threads over
   one static encoder handle; when the screen is left, both close it, or one
   encodes with what the other has closed (`CloseIsFinal`).

## 4. Proofs

Proved for every value of the constants, from the assumptions the modules name:
`NoUser` is not a user, `NoRoom` is not an entity, the sets of message types and
`debug` modes are those of the code; `BitAssumption`, `RingAssumption` and
`LameAssumption` for the encoder. `Users` need not be finite where finiteness is
not used; the set of saved messages is shown to be finite.

* `RoomProofs`: what `addUser`, `removeUser`, `setConnected` do to the members
  and to the flags. The shape `WellFormed` (an entity is stored only with its
  first slot in use) is preserved by the operations as the handlers use them.
* `VideoCallProofs`, first part, about `ApprtcServer`: `Invariance` proves `Spec => []IInv`. The checked
  invariants are not inductive alone. `IInv` adds what a handler relies on:
  - a page load in `pending` belongs to a user whose page is still loading, and a
    connect, disconnect or message to one who was served and did that (`PendingOK`);
  - a user posts one page load (`OneSpyEach`), else the page load would be
    handled for somebody who is already a member;
  - what a browser did is consistent with its page (`BrowserOK`);
  - the stored room is well formed and its members were served (`RoomOK`);
  - `saved` is finite, so that `SetToSeqs` of the replay is not empty and the
    connect handler always has a step.
  From it: `TypeCorrect`, `NoEmptyRoomHolds`, `RoomIsAdmittedHolds`,
  `FullRoomHasCallerHolds`, `ConnectedWasOpenedHolds`, `SavedOnlyForWaitingHolds`.
* `Refinement`: `Spec => Protocol!SafeSpec`. Each handler maps to a `Join`,
  `Connect` or `Leave` or to a stutter; a bye or a closed channel maps to
  `AskToLeave`.
* `VideoCallProofs`, second part: the pages, for any number of page loads and any
  `PostTypes` that contain offer, answer and bye (`PostTypesCoverCall`).
  `CallInvariance` proves `CallInv`: the server's `IInv`, and for each page `PageOK`,
  which relates its variables to three things it does not see together, how the
  server answered it, what it has posted, and what its channel has delivered. Work
  that waits for a callback (an offer or answer to be set locally) has the message
  that entitles the page to it; a page with a connection has no queue, and a queue
  has its offer in front. `calleeStart` processes the whole queue in one callback:
  `CalleeStartIn` shows, by induction over the length of the queue, that what every
  message preserves the queue preserves. From it:
  `CallTypeOKHolds`, `QueueOrderHolds`; `CallPostsAsSignalling`, that a page posts
  what a browser of `Signalling` posts or repeats an answer (`PostAgain`); hence
  `CallKeepsServer`, the invariants of the server, and `CallKeepsPromise`, the
  refinement of `RoomProtocol`, for the composed system.
* `VideoCallProofs`, third part: where the messages of a call go. What was posted to
  a user is `Placed` once the server took it up: saved in the datastore, or delivered
  on the channel. `CallsInv` says of each page that its connection, queue and
  flags fit together, that it offers at most once, and that it answers at most once
  if it was made one offer (`CallsOK`); that an
  offer that is placed is of somebody else who was told to call, and in one place
  only (`OffersOK`); that a member with a channel is connected or has its connect
  request on the way (`ConnectSoon`); and that the bye of who offered and is out of
  the room is placed with the same page as the offer, unless a channel was closed
  (`ByeFollows`). From it: `OneOfferEach`, `ByeFollowsOffer`, `NothingKeptInTheEnd`, and
  `AloneIsIdleOnceOffered`: who is alone again and was made one offer at most has no
  call open, although the replay has no order and the queue puts offers in front.
* The hypothesis `TwoServed`: at most two pages were let in since the start. It is
  what the texts about *a call* suppose, and the runs with two page loads satisfy
  it. `Roles` and `OffersToCallees` show that one of the two calls and the other is
  called. From it: `AloneIsIdleOfTwo`; and `CallOfTwoIsSignalling`, since who is made
  one offer answers once. It cannot be dropped from `AloneIsIdleOfTwo`: with two
  callers that both come, offer and leave before the callee's channel opens, the
  replay of the saved messages, in whatever order the query returns them, may bring
  both byes before the second offer, and the callee then answers somebody who left.
* `VideoCallProofs`, fourth part: two who stay get their call. `TalkInv` says what has
  been done and what has been said. `Talks`: a page that calls and one that is called
  are each in one of a few stages, which what they have posted and heard
  determines, and `maybeStart` was not missed at any of them. `Reach`: what a page
  has said to somebody who is still there is in a request, saved, or with the other
  one. `AnswersOK`, `Answered`: an answer is to an offer; `ByesOK`: a bye is of
  somebody who left. From it: `ByesAreTrue`, and `SettledIsEstablishedOfTwo`, the
  safety of `CallEstablished`: no order of channels, cameras, offers and replays
  leaves both waiting for each other. That the pages come to rest is liveness, and
  checked.
* `RoomProtocolProofs`: `TwoAtMostHolds`, the capacity of the abstract room.

* `SpyServerProofs`: the servlets without a lock, for any set of users and of
  threads. What a thread has read may be out of date when it writes it back, so
  no step can argue from the stored room. The invariant says instead that every
  copy, whatever its age, is `Sound` with respect to three sets that only grow:
  who was admitted, who was told to call, whose channel was opened. A copy that
  was sound stays sound, and so does the room when it is written back (`RoomOK`,
  `TasksOK`). One page load for a user and one thread that serves it
  (`OneSpyEach`, `PendingOK`) give `FullPageHoldsNoSlot`. From it: `TypeCorrect`,
  `NoEmptyRoomHolds`, `FullRoomHasCallerHolds`, `ConnectedWasOpenedHolds`,
  `FullPageHoldsNoSlotHolds`, `NoEchoHolds`. What does not follow is what fails:
  a sound copy may be an old one, which is how members are lost (finding 1).
* `SpyServerProofs` with one thread (`OneThread`, the hypothesis of these theorems):
  then a copy is never old. `SerialInv` says so (`TasksFresh`: what a handler has
  read is the stored room, until it writes it), and follows a user who leaves
  through the requests: as long as it is in the room, its bye or disconnect is in
  flight or in a thread (`LeaveOnItsWay`); once it is gone, it left (`GoneLeft`).
  From it: `SerialRefinement`, each datastore operation is a step of `RoomProtocol`
  or none, and `AtMostTwoAdmittedHolds`, `LeftIsOutHolds`, `AdmittedIsInHolds`. That
  the hypothesis is needed is finding 1.
* `LameEncoderProofs`, first part, about `BitReservoir`: `IInv` relates counters that the code keeps in different
  files. `Start`: before the first frame nothing is in the stream but a tag.
  `Chain`: the headers that wait are ahead of the bit counter and at least the
  smallest frame apart. `Room`: the bits main data may still take before the next
  header are the reservoir and what is left to write of the frame. `Reservoir`
  ties `ResvSize` to the `main_data_begin` of the next frame; `LastSlot` is what
  `compute_flushbits` finds in the last slot of the ring; `Flushing`, `NoPadding`.
  From it: `FlushCountsReservoir`, `DataIsFound`, `HeadersAreInTime`,
  `ReservoirIsBounded`, and `RingNeverFull`, all under `RingAssumption`.
* `LameEncoderProofs`, second part: `StreamIsSound` shows that every call of the interface
  keeps that `IInv`; `PcmInv` relates the samples in `mfbuf`, the samples still
  to encode and the frames done (`Resting`, `Fill`, `Feeding`, `PaddingLoop`,
  `Padded`). From it: `LameTypeCorrect`, `SamplesAlwaysFit`, `PaddingAddsUp`.
  `SeekTableAddsUp` is about `addVbr`: `AddVbrCovers` shows that a table that stands
  for a sequence of rates (`Covers`) stands for one rate more afterwards, in each
  of its three branches; that halving the bag and doubling `want` agree needs the
  even size of the bag. The sums are a recursive function, whose existence and
  unfolding (`SumsExist`, `SumsAgree`, `SumToNext`) are proved by induction.
* `CallBlockerProofs`: the main thread's queue against the phone and the flag, for
  any set of calls, any number of listeners and of process deaths. Neither property
  is inductive, because the queue runs behind the phone. `IInv` says how far: the
  callbacks of one call are next to each other, with one that is not about a call
  between those of two (`InOrder`); the queue ends with the state the phone is in
  (`UpToDate`); a call to come is in no callback (`Fresh`); a call that may still
  be reported although it has its thread finds the flag set (`Guarded`), and the
  flag is set only for the call reported next (`FlagIsFor`). `TogglesOK` is for the
  types of the threads. From it: `TypeCorrect`, `OneThreadPerCallHolds`,
  `NoCallSlipsHolds`.
* `NatPmpProofs`: `UrlIsMappedHolds`. Answers are taken for whatever was asked, so
  the argument is about the network: as long as the app has not returned, nothing
  is on its way, or one message that belongs to its present request is
  (`OneInFlight`), because `nativeQueryInternet` gives up with its first retry.
  `TimerInvariance`: the time waited and the time until the next retry add up to
  the delays of the sends so far, `2 ^ n - 1` of the first one after `n` sends
  (`Schedule`), because the code adds each delay to the time the last retry was
  due and not to the present. From it: `TypeOKHolds` and the action property
  `NoEarlyGiveUpHolds`, for any `MaxTry` and any lateness.
* `NaturalLemmas`: `SetInduction` is induction over the naturals stated for a set,
  since a theorem with a predicate as parameter cannot be instantiated. It rests
  on the well-foundedness of strict inclusion between finite sets from the
  library. `PowerDoubles`, `PowerMonotone`: a power of two as the number of subsets.

The proof of `CalleeStartIn` needs every message handled by one branch of
`processSignalingMessage`: `Process` states the test of `started` before the others.

The proofs have one lemma for each handler or step, and under it one step for
each part of the invariant it can disturb. The invariants were checked with TLC
before they were proved.

*Only model-checked*: the liveness part of `RoomProtocol` and of `Signalling`,
`SavedIsSettled`, `CallEstablished`, `ThreadsEnd`, `CallReturns` and
`CallerReturns`, because liveness is beyond the prover; of the first, `SavedIsSettled`
and `CallEstablished` the safety is proved (`Refinement`, `NothingKeptInTheEnd`,
`SettledIsEstablishedOfTwo`). `AudioBroadcast`, whose one property is violated. Every
invariant that a passing run checks is stated by a theorem; `AloneIsIdle` and
`SettledIsEstablished`, and the safety of `ImplementsSignalling`, with the hypothesis
`TwoServed`.

## 5. Not modelled

* *Pages and screens*: the media and ICE parameters of a page, the text of
  messages, layout; in `spy.js` the session descriptions are their type, and mute
  buttons, video layout and codec preferences are left out.
* *libmp3lame*, by far the largest part of the repository's C: psychoacoustics,
  quantization, Huffman coding, scale factors and the filter banks compute with
  floating point how many bits a frame needs. The model takes any number a frame
  can have. Average bit rate, the old variable mode, resampling, ID3 tags, the
  decoder and the setters of `set_get.c` are left out. So the modelled lines of C
  are few against the whole, and cannot be many: what is left is numeric code
  with no state to interleave or order.
* *Code that is not built*: `jni/Android.mk` does not list speex or the JPEG
  handler. `MyWorkspaceServlet` does not compile against `Room`.
* *Vendored or generated*: OpenCV, the HTTP servers (`NanoHttpd` and its kin),
  `gen/`.
* *I/O on system files*: `getgateway.c`. *Image processing*: motion detection.
* `HttpdService`, the statistics and downloads of MyLotto, SMSSpeaker; the video
  frames of `VideoStreamingActivity`, which go the way of the sound; how
  SimpleBlocker matches numbers, and its screens.

## 6. Plan

Done:

1. `Room`, `Signalling`, `ApprtcServer`, `SpyServer`, `RoomProtocol`; the proofs
   of `ApprtcServer`.
2. `SpyClient` and `VideoCall`.
3. `CallBlocker`.
4. `BitReservoir` and `LameEncoder`, with their proofs.
5. `NatPmp`, `AudioBroadcast`.
6. Proofs of `SpyServer`, `CallBlocker` and of the app's part of `NatPmp`.
7. Proofs of `SpyServer` with one thread, `VideoCall`, the seek table of
   `LameEncoder` and the schedule of `NatPmp`.
8. Proofs across the pages of `VideoCall`: where offers and byes go, that nobody is
   left in a call with who said bye, that two who stay get their call.

Next, in this order:

9. `VideoCall` with a third person as a run: two offers at one callee, and the
   callee that becomes the first user of the room.
10. `HttpdService`: start, failure, stop, start at boot, and the polling of a
    request that switches the surveillance on.
11. The synchronisation status of MyLotto.
12. `MicPipeline` and `AudioRecorder`: classes with hard call sequences that no
    code of the repository creates, and therefore last.
13. Proofs: one client of `AudioBroadcast` cannot misuse the handle; a repeated
    answer in `Signalling`, so that `ImplementsSignalling` holds of any number of
    page loads (`CallPostsAsSignalling` says what it is to allow).
