---------------------------- MODULE LameEncoder ----------------------------
(***************************************************************************)
(* The encoding interface of the MP3 encoder (jni/libmp3lame): lame.c takes *)
(* samples in calls of any size, keeps those that do not fill a frame in    *)
(* mfbuf, encodes a frame whenever there are enough of them, and pads and   *)
(* flushes what is left; VbrTag.c collects the seek table.  The frames go   *)
(* through the bit reservoir, whose steps are those of BitReservoir.        *)
(*                                                                         *)
(* One caller.  A call is a sequence of steps: lame_encode_flush calls      *)
(* lame_encode_buffer for each chunk of padding ("inner call").             *)
(***************************************************************************)
EXTENDS BitReservoir

CONSTANTS
    InputSizes,        \* numbers of samples a caller passes
    BagSize,           \* VBR_seek_table.size, 400
    MaxCalls           \* bound: calls by the caller

VARIABLES
    mfSize,            \* sv_enc.mf_size
    mfToEncode,        \* sv_enc.mf_samples_to_encode
    frameNumber,       \* ov_enc.frame_number
    encoderPadding,    \* ov_enc.encoder_padding
    call,              \* the running call, see Calls
    left,              \* nsamples of the running lame_encode_buffer
    framesLeft,        \* frames_left of the running lame_encode_flush
    seek,              \* VBR_seek_table
    calls,             \* calls made so far
    audio              \* history: samples and frames since the last
                       \* lame_encode_flush, the end in mfbuf of the last sample
                       \* of the caller's, the rates since lame_init_bitstream

callVars == <<call, left, framesLeft, calls>>
pcmVars == <<mfSize, mfToEncode, frameNumber, encoderPadding>>
encoderVars == <<callVars, pcmVars, seek, audio>>
lameVars == <<bitVars, encoderVars>>

ASSUME LameAssumption ==
    /\ InputSizes \subseteq Nat \ {0}
    /\ BagSize \in Nat \ {0} /\ BagSize % 2 = 0
    /\ MaxCalls \in Nat

-----------------------------------------------------------------------------
(* encoder.h and util.h                                                    *)

ENCDELAY == 576
POSTDELAY == 1152
MDCTDELAY == 48
FFTOFFSET == 224 + MDCTDELAY
BLKSIZE == 1024
MFSIZE == 3 * 1152 + ENCDELAY - MDCTDELAY

FrameSize == 576 * Granules

\* calcNeeded: the larger of what the FFT and what the filter bank needs.
Needed == IF BLKSIZE - FFTOFFSET > 512 - 32 THEN BLKSIZE + FrameSize - FFTOFFSET
          ELSE 512 + FrameSize - 32

\* Padding to whole frames and no more.
PaddingForWholeFrames(samples) == FrameSize - (samples % FrameSize)

\* The padding of lame_encode_flush: to whole frames, and no less than 576.
PaddingFor(samples) ==
    LET pad == FrameSize - (samples % FrameSize)
    IN IF pad < 576 THEN pad + FrameSize ELSE pad

\* The space of a buffer after o bytes; 0 stands for "do not check".
Remaining(s, o) == IF s = 0 THEN 0 ELSE s - o

\* op: the function the caller called.  size, count: its buffer size and the
\* bytes that finished inner calls wrote to it.  inSize, inOut, atFrame: buffer
\* size, bytes written and frame number at the start of the inner call.
NoCall == [op |-> "none", size |-> 0, count |-> 0,
           inSize |-> 0, inOut |-> 0, atFrame |-> 0]

\* What the caller got: a call failed and the caller stops (lame.h: a negative
\* return value is an error), or there is none running.
Failed == call.op = "failed"
FrameDue == mfSize >= Needed

-----------------------------------------------------------------------------
(* VbrTag.c                                                                *)

EmptySeek == [sum |-> 0, seen |-> 0, want |-> 1, bag |-> <<>>]

\* A full bag that keeps the first of every two entries.
AddVbrKeepsFirst(v, rate) ==
    LET sum == v.sum + rate
    IN IF v.seen + 1 < v.want
       THEN [v EXCEPT !.sum = sum, !.seen = @ + 1]
       ELSE LET bag == Append(v.bag, sum)
            IN IF Len(bag) < BagSize
               THEN [v EXCEPT !.sum = sum, !.seen = 0, !.bag = bag]
               ELSE [sum |-> sum, seen |-> 0, want |-> 2 * v.want,
                     bag |-> [k \in 1 .. BagSize \div 2 |-> bag[2 * k - 1]]]

\* addVbr: every want frames the sum goes into the bag; a full bag keeps every
\* second entry.
AddVbr(v, rate) ==
    LET sum == v.sum + rate
    IN IF v.seen + 1 < v.want
       THEN [v EXCEPT !.sum = sum, !.seen = @ + 1]
       ELSE LET bag == Append(v.bag, sum)
            IN IF Len(bag) < BagSize
               THEN [v EXCEPT !.sum = sum, !.seen = 0, !.bag = bag]
               ELSE [sum |-> sum, seen |-> 0, want |-> 2 * v.want,
                     bag |-> [k \in 1 .. BagSize \div 2 |-> bag[2 * k]]]

Rate(i) == FrameBytes[i]

-----------------------------------------------------------------------------
LameInit ==
    /\ Init
    /\ mfSize = ENCDELAY - MDCTDELAY
    /\ mfToEncode = ENCDELAY + POSTDELAY
    /\ frameNumber = 0
    /\ encoderPadding = 0
    /\ call = NoCall /\ left = 0 /\ framesLeft = 0 /\ calls = 0
    /\ seek = EmptySeek
    /\ audio = [input |-> 0, frames |-> 0, end |-> 0, rates |-> <<>>]

CanCall == call.op = "none" /\ calls < MaxCalls /\ calls' = calls + 1

\* The start of lame_encode_buffer: tags that wait in the bit buffer go first.
BeginBuffer(n, c) ==
    /\ CopyBuffer(c.inSize)
    /\ IF TooSmall(c.inSize)
       THEN call' = [NoCall EXCEPT !.op = "failed"] /\ left' = 0
       ELSE call' = [c EXCEPT !.inOut = buffered \div 8] /\ left' = n

EncodeBuffer(n, size) ==
    /\ CanCall
    /\ BeginBuffer(n, [NoCall EXCEPT !.op = "buffer", !.inSize = size])
    /\ UNCHANGED <<pcmVars, seek, audio, framesLeft>>

\* fill_buffer: at most a frame of the input into mfbuf.
FillBuffer ==
    /\ pc = "idle" /\ left > 0 /\ ~FrameDue
    /\ LET n == Lower(FrameSize, left)
           mine == call.op = "buffer"
       IN /\ left' = left - n
          /\ mfSize' = mfSize + n
          /\ mfToEncode' =
               (IF mfToEncode < 1 THEN ENCDELAY + POSTDELAY ELSE mfToEncode) + n
          /\ audio' = IF mine
                      THEN [audio EXCEPT !.input = @ + n, !.end = mfSize']
                      ELSE audio
    /\ UNCHANGED <<bitVars, call, framesLeft, calls, frameNumber, encoderPadding, seek>>

\* lame_encode_mp3_frame: choose the bits, format the frame ...
EncodeFrame ==
    /\ FrameDue /\ ~Failed
    /\ EncodeStep
    /\ UNCHANGED encoderVars

\* (the steps of format_bitstream and flush_bitstream)
Format ==
    /\ FormatStep
    /\ UNCHANGED encoderVars

\* ... and copy it out.  A frame that does not fit the caller's buffer is
\* counted all the same, but its samples are not shifted out.
CopyFrame ==
    /\ pc = "copy" /\ FrameDue
    /\ LET size == Remaining(call.inSize, call.inOut)
       IN /\ CopyBuffer(size)
          /\ IF TooSmall(size)
             THEN /\ call' = [NoCall EXCEPT !.op = "failed"] /\ left' = 0
                  /\ mfToEncode' = IF call.op = "flush" THEN 0 ELSE mfToEncode
                  /\ UNCHANGED mfSize
             ELSE /\ call' = [call EXCEPT !.inOut = @ + buffered \div 8]
                  /\ mfSize' = mfSize - FrameSize
                  /\ mfToEncode' = mfToEncode - FrameSize
                  /\ UNCHANGED left
    /\ seek' = IF TagBytes = 0 THEN seek ELSE AddVbr(seek, Rate(bitrateIndex))
    /\ frameNumber' = frameNumber + 1
    /\ audio' = [audio EXCEPT !.frames = @ + 1, !.end = @ - FrameSize,
                              !.rates = Append(@, Rate(bitrateIndex))]
    /\ UNCHANGED <<encoderPadding, framesLeft, calls>>

\* A return as soon as the input is used up.
ReturnFromBufferEarly ==
    /\ call.op = "buffer" /\ pc = "idle" /\ left = 0
    /\ call' = NoCall
    /\ UNCHANGED <<bitVars, left, framesLeft, calls, pcmVars, seek, audio>>

\* lame_encode_buffer returns to its caller.
ReturnFromBuffer ==
    /\ call.op = "buffer" /\ pc = "idle" /\ left = 0 /\ ~FrameDue
    /\ call' = NoCall
    /\ UNCHANGED <<bitVars, left, framesLeft, calls, pcmVars, seek, audio>>

\* lame_encode_flush up to its loop; a second call in a row returns at once.
EncodeFlush(size) ==
    /\ CanCall
    /\ pc = "idle" /\ mfToEncode >= 1
    /\ encoderPadding' = PaddingFor(mfToEncode - POSTDELAY)
    /\ framesLeft' = (mfToEncode - POSTDELAY + encoderPadding') \div FrameSize
    /\ call' = [NoCall EXCEPT !.op = "flush", !.size = size, !.atFrame = frameNumber]
    /\ UNCHANGED <<bitVars, left, mfSize, mfToEncode, frameNumber, seek, audio>>

\* An iteration is over, or the first one begins.
ChunkDone == call.op = "flush" /\ pc = "idle" /\ left = 0 /\ ~FrameDue
LeftAfterChunk == framesLeft - (IF frameNumber # call.atFrame THEN 1 ELSE 0)

\* A chunk that fills up a frame, not what is needed to encode one.
ChunkSizeOfFrame == AtLeast0(Lower(FrameSize - mfSize, 1152))

\* A chunk of zeros, no more than what is missing for a frame.
ChunkSize ==
    LET missing == Lower(Needed - mfSize, 1152)
    IN IF missing < 1 THEN 1 ELSE missing

\* The next iteration.
FlushChunk ==
    /\ ChunkDone /\ LeftAfterChunk > 0
    /\ framesLeft' = LeftAfterChunk
    /\ LET count == call.count + call.inOut
           size == Remaining(call.size, count)
       IN /\ BeginBuffer(ChunkSize, [call EXCEPT !.count = count, !.inSize = size,
                                                 !.atFrame = frameNumber])
          /\ mfToEncode' = IF TooSmall(size) THEN 0 ELSE mfToEncode
    /\ UNCHANGED <<calls, mfSize, frameNumber, encoderPadding, seek, audio>>

\* After the loop: the bit reservoir is flushed too.
FlushBitsOut ==
    /\ ChunkDone /\ LeftAfterChunk <= 0
    /\ framesLeft' = 0
    /\ mfToEncode' = 0
    /\ call' = [call EXCEPT !.op = "flushing", !.count = @ + call.inOut]
    /\ Flush
    /\ UNCHANGED <<left, calls, mfSize, frameNumber, encoderPadding, seek, audio>>

\* lame_encode_flush_nogap: the reservoir only.
FlushNogap(size) ==
    /\ CanCall
    /\ call' = [NoCall EXCEPT !.op = "nogap", !.size = size]
    /\ Flush
    /\ UNCHANGED <<left, framesLeft, pcmVars, seek, audio>>

\* The last copy of either flush.
CopyFlushed ==
    /\ pc = "copy" /\ call.op \in {"flushing", "nogap"}
    /\ LET size == Remaining(call.size, call.count)
       IN /\ CopyBuffer(size)
          /\ call' = IF TooSmall(size) THEN [NoCall EXCEPT !.op = "failed"] ELSE NoCall
    /\ audio' = IF call.op = "flushing"
                THEN [audio EXCEPT !.input = 0, !.frames = 0]
                ELSE audio
    /\ UNCHANGED <<left, framesLeft, calls, pcmVars, seek>>

\* lame_init_bitstream, "called ... after flush_nogap if you want to write new
\* id3v2 and Xing VBR tags".
StartFile ==
    /\ CanCall
    /\ InitBitstream
    /\ frameNumber' = 0
    /\ seek' = EmptySeek
    /\ audio' = [audio EXCEPT !.rates = <<>>]
    /\ UNCHANGED <<call, left, framesLeft, mfSize, mfToEncode, encoderPadding>>

Inside ==
    \/ FillBuffer \/ EncodeFrame \/ Format \/ CopyFrame \/ ReturnFromBuffer
    \/ FlushChunk \/ FlushBitsOut \/ CopyFlushed

LameNext ==
    \/ \E n \in InputSizes, size \in BufferSizes : EncodeBuffer(n, size)
    \/ \E size \in BufferSizes : EncodeFlush(size) \/ FlushNogap(size)
    \/ StartFile
    \/ Inside

\* A call runs to its end: the library is sequential code in the caller's thread.
LameSpec == LameInit /\ [][LameNext]_lameVars /\ WF_lameVars(Inside)

-----------------------------------------------------------------------------
(* Properties                                                              *)

Calls == [op : {"none", "failed", "buffer", "flush", "flushing", "nogap"},
          size : Nat, count : Nat, inSize : Int, inOut : Nat, atFrame : Nat]

LameTypeOK ==
    /\ TypeOK
    /\ mfSize \in Nat /\ mfToEncode \in Nat
    /\ frameNumber \in Nat /\ encoderPadding \in 0 .. FrameSize + 575
    /\ call \in Calls
    /\ left \in Nat /\ framesLeft \in Nat /\ calls \in 0 .. MaxCalls
    /\ seek \in [sum : Nat, seen : Nat, want : Nat \ {0}, bag : Seq(Nat)]
    /\ audio \in [input : Nat, frames : Nat, end : Int, rates : Seq(Nat)]

\* mfbuf never overflows (assert in lame_encode_buffer_sample_t), no complete
\* frame is left in it between calls, and a chunk of padding completes at most
\* one frame, as lame_encode_flush counts them.
SamplesFit ==
    /\ mfSize <= MFSIZE
    /\ call.op = "none" => ~FrameDue
    /\ call.op = "flush" => frameNumber - call.atFrame \in {0, 1}

\* The length a player computes from the LAME tag is the caller's: the frames up
\* to the flush are the delay, the samples passed in and the padding written to
\* the tag, however the samples were cut into calls.  And the padding suffices:
\* the last sample passed in has left mfbuf, and so has the overlap its granule
\* needs ("we always add POSTDELAY=288 padding to make sure granule with real
\* data can be complety decoded", lame_encode_flush), also for samples that
\* follow an earlier flush.
PaddingCounts ==
    call.op = "flushing" =>
        /\ FrameSize * audio.frames = ENCDELAY + audio.input + encoderPadding
        /\ audio.input > 0 => audio.end + MDCTDELAY + 288 <= 0

SumTo(s, n) ==
    LET sum[k \in 0 .. n] == IF k = 0 THEN 0 ELSE sum[k - 1] + s[k]
    IN sum[n]

\* Every entry of the seek table is the sum of the rates up to the frame it
\* stands for, also after the table was thinned out, and no frame is missed.
SeekTableCumulative ==
    TagBytes > 0 =>
        /\ seek.seen < seek.want /\ Len(seek.bag) < BagSize
        /\ Len(audio.rates) = Len(seek.bag) * seek.want + seek.seen
        /\ \A k \in 1 .. Len(seek.bag) : seek.bag[k] = SumTo(audio.rates, k * seek.want)
        /\ seek.sum = SumTo(audio.rates, Len(audio.rates))

\* Every call returns: the loop of lame_encode_flush ends, although it counts
\* frames that only lame_encode_buffer completes.
CallReturns == [](call.op # "none" => <>(call.op \in {"none", "failed"}))
=============================================================================
