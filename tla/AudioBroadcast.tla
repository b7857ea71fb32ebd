--------------------------- MODULE AudioBroadcast ---------------------------
(***************************************************************************)
(* The live sound of myMobKit: VideoStreamingActivity's broadcastProcessor, *)
(* which runs in a thread of the HTTP server for each client, its encoder   *)
(* thread AudioEncoder, release() in the thread of the screen, and the one  *)
(* encoder handle of mp3encoder.cpp.  No lock is held anywhere: a step is   *)
(* one access to what the threads share.                                    *)
(***************************************************************************)
EXTENDS Integers, FiniteSets

CONSTANTS
    Clients,          \* requests for the stream; each may start an encoder
    NoHandle          \* the static handle before the first nativeOpenEncoder, no client

VARIABLES
    request,          \* request[c]: where broadcastProcessor is for client c
    encoder,          \* encoder[c]: where the encoder thread is that c started
    screen,           \* where release() is
    isStreamingAudio,
    newAudioStreams, audioStreams,
    stream,           \* stream[c]: "none", "open", "broken" (nothing can be written), "released"
    recorder,         \* the AudioRecord: "ready", "recording", "released"
    handle,           \* the variable lame of mp3encoder.cpp: who opened it
    closed,           \* handles lame_close has freed
    misuse            \* history: a freed handle was encoded with or closed

threads == <<request, encoder, screen>>
lists == <<newAudioStreams, audioStreams, stream>>
lame == <<handle, closed, misuse>>
audioVars == <<threads, isStreamingAudio, lists, recorder, lame>>

Init ==
    /\ request = [c \in Clients |-> "none"]
    /\ encoder = [c \in Clients |-> "none"]
    /\ screen = "running"
    /\ isStreamingAudio = FALSE
    /\ newAudioStreams = {} /\ audioStreams = {}
    /\ stream = [c \in Clients |-> "none"]
    /\ recorder = "ready"
    /\ handle = NoHandle /\ closed = {} /\ misuse = FALSE

RequestAt(c, from, to) == request[c] = from /\ request' = [request EXCEPT ![c] = to]
EncoderAt(e, from, to) == encoder[e] = from /\ encoder' = [encoder EXCEPT ![e] = to]

-----------------------------------------------------------------------------
(* broadcastProcessor, in the server thread of client c                    *)

\* The server accepts no connection once release() has stopped it.  When prepare
\* fails, nobody looks at its result and the stream, which has no sender, is served
\* all the same; when getInputStream throws, the stream is released and the request ends.
Prepare(c) ==
    /\ screen \in {"running", "flag"}
    /\ \/ /\ RequestAt(c, "none", "add")
          /\ \E prepared \in {"open", "broken"} : stream' = [stream EXCEPT ![c] = prepared]
       \/ /\ RequestAt(c, "none", "done")
          /\ stream' = [stream EXCEPT ![c] = "released"]
    /\ UNCHANGED <<encoder, screen, isStreamingAudio, newAudioStreams, audioStreams,
                   recorder, lame>>

AddStream(c) ==
    /\ RequestAt(c, "add", "record")
    /\ newAudioStreams' = newAudioStreams \cup {c}
    /\ UNCHANGED <<encoder, screen, isStreamingAudio, audioStreams, stream, recorder, lame>>

\* A released recorder throws, and the request ends.
StartRecording(c) ==
    /\ IF recorder = "released"
       THEN RequestAt(c, "record", "done") /\ UNCHANGED recorder
       ELSE RequestAt(c, "record", "check") /\ recorder' = "recording"
    /\ UNCHANGED <<encoder, screen, isStreamingAudio, lists, lame>>

StartEncoder(c) ==
    /\ RequestAt(c, "check", "done")
    /\ encoder' = IF isStreamingAudio THEN encoder ELSE [encoder EXCEPT ![c] = "start"]
    /\ UNCHANGED <<screen, isStreamingAudio, lists, recorder, lame>>

\* The client goes away; what is written to it next fails.
Hangup(c) ==
    /\ stream[c] = "open" /\ request[c] = "done"
    /\ stream' = [stream EXCEPT ![c] = "broken"]
    /\ UNCHANGED <<threads, isStreamingAudio, newAudioStreams, audioStreams, recorder, lame>>

-----------------------------------------------------------------------------
(* AudioEncoder.run                                                        *)

TestFlag(e) ==
    /\ IF isStreamingAudio THEN EncoderAt(e, "start", "done")
       ELSE EncoderAt(e, "start", "claim")
    /\ UNCHANGED <<request, screen, isStreamingAudio, lists, recorder, lame>>

SetFlag(e) ==
    /\ EncoderAt(e, "claim", "open")
    /\ isStreamingAudio' = TRUE
    /\ UNCHANGED <<request, screen, lists, recorder, lame>>

OpenEncoder(e) ==
    /\ EncoderAt(e, "open", "loop")
    /\ handle' = e
    /\ UNCHANGED <<request, screen, isStreamingAudio, lists, recorder, closed, misuse>>

\* The test of the loop, and AudioRecord.read: of a released recorder, an error.
ReadAudio(e) ==
    /\ IF isStreamingAudio /\ recorder # "released"
       THEN EncoderAt(e, "loop", "encode")
       ELSE EncoderAt(e, "loop", "close")
    /\ UNCHANGED <<request, screen, isStreamingAudio, lists, recorder, lame>>

EncodePCM(e) ==
    /\ EncoderAt(e, "encode", "write")
    /\ misuse' = (misuse \/ handle \in closed)
    /\ UNCHANGED <<request, screen, isStreamingAudio, lists, recorder, handle, closed>>

\* The frame goes to each stream; the first one that fails ends the round, is
\* released and removed.  (A stream whose sender is gone fails as well.)
WriteStreams(e) ==
    /\ EncoderAt(e, "write", "addAll")
    /\ LET failing == {c \in audioStreams : stream[c] # "open"}
       IN IF failing = {} THEN UNCHANGED <<audioStreams, stream>>
          ELSE \E c \in failing :
                 /\ audioStreams' = audioStreams \ {c}
                 /\ stream' = [stream EXCEPT ![c] = "released"]
    /\ UNCHANGED <<request, screen, isStreamingAudio, newAudioStreams, recorder, lame>>

AddAll(e) ==
    /\ IF newAudioStreams = {} THEN EncoderAt(e, "addAll", "loop")
       ELSE EncoderAt(e, "addAll", "clear")
    /\ audioStreams' = audioStreams \cup newAudioStreams
    /\ UNCHANGED <<request, screen, isStreamingAudio, newAudioStreams, stream, recorder, lame>>

Clear(e) ==
    /\ EncoderAt(e, "clear", "loop")
    /\ newAudioStreams' = {}
    /\ UNCHANGED <<request, screen, isStreamingAudio, audioStreams, stream, recorder, lame>>

CloseEncoder(e) ==
    /\ EncoderAt(e, "close", "stop")
    /\ misuse' = (misuse \/ handle \in closed)
    /\ closed' = closed \cup {handle}
    /\ UNCHANGED <<request, screen, isStreamingAudio, lists, recorder, handle>>

ResetFlag(e) ==
    /\ EncoderAt(e, "stop", "done")
    /\ isStreamingAudio' = FALSE
    /\ UNCHANGED <<request, screen, lists, recorder, lame>>

-----------------------------------------------------------------------------
(* release(), in the thread of the screen                                  *)

ReleaseFlag ==
    /\ screen = "running" /\ screen' = "flag"
    /\ isStreamingAudio' = FALSE
    /\ UNCHANGED <<request, encoder, lists, recorder, lame>>

StopServer ==
    /\ screen = "flag" /\ screen' = "streams"
    /\ UNCHANGED <<request, encoder, isStreamingAudio, lists, recorder, lame>>

ReleaseStreams ==
    /\ screen = "streams" /\ screen' = "recorder"
    /\ stream' = [c \in Clients |-> IF c \in audioStreams THEN "released" ELSE stream[c]]
    /\ UNCHANGED <<request, encoder, isStreamingAudio, newAudioStreams, audioStreams,
                   recorder, lame>>

ReleaseRecorder ==
    /\ screen = "recorder" /\ screen' = "finished"
    /\ recorder' = "released"
    /\ UNCHANGED <<request, encoder, isStreamingAudio, lists, lame>>

Serve(c) == Prepare(c) \/ AddStream(c) \/ StartRecording(c) \/ StartEncoder(c) \/ Hangup(c)

Encode(e) ==
    \/ TestFlag(e) \/ SetFlag(e) \/ OpenEncoder(e) \/ ReadAudio(e) \/ EncodePCM(e)
    \/ WriteStreams(e) \/ AddAll(e) \/ Clear(e) \/ CloseEncoder(e) \/ ResetFlag(e)

Release == ReleaseFlag \/ StopServer \/ ReleaseStreams \/ ReleaseRecorder

Next == (\E c \in Clients : Serve(c) \/ Encode(c)) \/ Release

Spec == Init /\ [][Next]_audioVars

-----------------------------------------------------------------------------
(* Properties                                                              *)

\* lame_close is the last call on a handle ("final call to free all remaining
\* buffers", lame.h): no encoder thread encodes with, or closes, a handle that
\* is freed.  isStreamingAudio is meant to keep the encoders to one.
CloseIsFinal == ~misuse
=============================================================================
