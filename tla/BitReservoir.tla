---------------------------- MODULE BitReservoir ----------------------------
(***************************************************************************)
(* The bit reservoir of the MP3 encoder (jni/libmp3lame): reservoir.c, the *)
(* choice of a frame's bit rate in quantize.c, and bitstream.c, which      *)
(* writes main data into one stream and puts the frame headers into it at  *)
(* the positions they are due.                                             *)
(*                                                                         *)
(* A frame's main data may begin in earlier frames: the header says how    *)
(* many bytes before it (main_data_begin).  Headers of frames whose place  *)
(* in the stream is not reached wait in a ring of HeaderBuf slots.         *)
(***************************************************************************)
EXTENDS Integers, Sequences

CONSTANTS
    Modes,             \* subset of {"vbr_mtrh", "vbr_off"}: cfg->vbr
    FrameBytes,        \* bytes of a frame without padding, for each bit rate index
    MinIndex,          \* cfg->vbr_min_bitrate_index
    CbrIndex,          \* the index of cfg->avg_bitrate, the constant bit rate
    EnforceMin,        \* cfg->enforce_min_bitrate
    SideInfoLen,       \* cfg->sideinfo_len: header and side information, in bytes
    Granules,          \* cfg->mode_gr
    ResvLimit,         \* 8*256*mode_gr - 8: what main_data_begin can express, in bits
    BufferConstraint,  \* cfg->buffer_constraint, in bits
    DisableReservoir,  \* cfg->disable_reservoir
    HeaderBuf,         \* MAX_HEADER_BUF
    TotbitLimit,       \* 1000000000
    SampleRate,        \* cfg->samplerate_out
    FracSpF,           \* gfc->frac_SpF of the constant bit rate
    TagBytes,          \* size of the tag frame lame_init_bitstream writes, 0 if none
    BitCounts,         \* the bits a frame or granule may need (bound for TLC)
    BufferSizes,       \* sizes of the caller's buffer, 0 for "do not check"
    BufferSize         \* BUFFER_SIZE of the internal buffer, in bytes

VARIABLES
    vbr,               \* the mode, chosen once
    slotLag,           \* sv_enc.slot_lag
    padding,           \* ov_enc.padding, 0 or 1
    bitrateIndex,      \* ov_enc.bitrate_index, 0 before the first frame
    ResvSize, ResvMax, \* sv_enc.ResvSize, sv_enc.ResvMax
    mainDataBegin,     \* l3_side.main_data_begin, in bytes
    frame,             \* what the running frame writes: drain before, data, drain after
    header,            \* the used slots of sv_enc.header, from w_ptr to h_ptr - 1
    lastTiming,        \* write_timing of the slot before h_ptr
    nextTiming,        \* write_timing of the slot h_ptr
    totbit,            \* bs.totbit
    buffered,          \* bits in bs.buf: 8 * (buf_byte_idx + 1)
    pc,                \* where the encoder is
    gr,                \* granule (constant bit rate)
    todo,              \* bits left to write in the running putbits2 loop
    flushed            \* nothing was encoded since initialisation or flush

\* What the session's configuration guarantees of the tables and limits.
ASSUME BitAssumption ==
    /\ Modes \subseteq {"vbr_mtrh", "vbr_off"}
    /\ FrameBytes \in Seq(Nat) /\ Len(FrameBytes) > 0
    /\ \A i, k \in 1 .. Len(FrameBytes) : i < k => FrameBytes[i] < FrameBytes[k]
    /\ MinIndex \in 1 .. Len(FrameBytes) /\ CbrIndex \in 1 .. Len(FrameBytes)
    /\ EnforceMin \in BOOLEAN /\ DisableReservoir \in BOOLEAN
    /\ SideInfoLen \in Nat \ {0} /\ SideInfoLen < FrameBytes[1]
    /\ Granules \in {1, 2}
    /\ ResvLimit \in Nat /\ ResvLimit % 8 = 0
    /\ BufferConstraint \in Nat /\ BufferConstraint % 8 = 0
    /\ HeaderBuf \in Nat /\ HeaderBuf > 1
    /\ FrameBytes[CbrIndex] + 1 < HeaderBuf * SideInfoLen
    /\ TotbitLimit \in Nat /\ TagBytes \in Nat /\ BufferSize \in Nat
    /\ SampleRate \in Nat \ {0} /\ FracSpF \in 0 .. SampleRate - 1
    /\ BitCounts \subseteq Nat /\ BufferSizes \subseteq Nat

rateVars == <<vbr, slotLag, padding, bitrateIndex>>
resvVars == <<ResvSize, ResvMax, mainDataBegin, frame>>
streamVars == <<header, lastTiming, nextTiming, totbit, buffered>>
bitVars == <<rateVars, resvVars, streamVars, pc, gr, todo, flushed>>

MaxIndex == Len(FrameBytes)
Lower(a, b) == IF a < b THEN a ELSE b
AtLeast0(a) == IF a < 0 THEN 0 ELSE a
SideBits == 8 * SideInfoLen

-----------------------------------------------------------------------------
(* reservoir.c                                                             *)

\* getframebits: before the first frame the average bit rate is taken.
FrameLength(i, pad) == 8 * (FrameBytes[IF i = 0 THEN CbrIndex ELSE i] + pad)

\* meanBits * mode_gr: the bits a frame of this length has for main data.
Capacity(i, pad) == FrameLength(i, pad) - SideBits

\* ResvFrameBegin sets ResvMax to this ...
ResvMaxOf(i, pad) ==
    IF DisableReservoir THEN 0
    ELSE AtLeast0(Lower(BufferConstraint - FrameLength(i, pad), ResvLimit))

\* ... and returns this.
FullFrameBits(i, pad) ==
    Lower(Capacity(i, pad) + Lower(ResvSize, ResvMaxOf(i, pad)), BufferConstraint)

\* ResvMaxBits and the cap of on_pe: the bits a granule may use, given the
\* reservoir and the mean bits of a granule.
GranuleBits(resv, mean) ==
    LET full == (ResvMax * 9) \div 10
        most == (ResvMax * 6) \div 10
        add == IF resv * 10 > ResvMax * 9 THEN resv - full ELSE 0
        targ == IF resv * 10 > ResvMax * 9 THEN mean + add
                ELSE IF DisableReservoir THEN mean ELSE (mean * 9) \div 10
    IN targ + AtLeast0(Lower(resv, most) - add)

\* A drain into the frame before that does not stop at its main data.
ResvFrameEndDeepDrain(resv, max, used) ==
    LET stuffing == (resv % 8) + AtLeast0(resv - (resv % 8) - max)
        mdbBytes == stuffing \div 8
    IN /\ ResvSize' = resv - stuffing
       /\ mainDataBegin' = mainDataBegin - mdbBytes
       /\ frame' = [pre |-> 8 * mdbBytes, main |-> used, post |-> stuffing - 8 * mdbBytes]
       /\ todo' = 8 * mdbBytes
       /\ pc' = "pre"

\* Stuffing to a byte, but not down to the limit.
ResvFrameEndUnlimited(resv, max, used) ==
    LET stuffing == resv % 8
        mdbBytes == Lower(8 * mainDataBegin, stuffing) \div 8
    IN /\ ResvSize' = resv - stuffing
       /\ mainDataBegin' = mainDataBegin - mdbBytes
       /\ frame' = [pre |-> 8 * mdbBytes, main |-> used, post |-> stuffing - 8 * mdbBytes]
       /\ todo' = 8 * mdbBytes
       /\ pc' = "pre"

\* ResvFrameEnd, with resv the reservoir after the frame's bits were taken from
\* it and its mean bits added: stuffing to a byte and down to ResvMax, as much
\* of it as possible into the frame before.
ResvFrameEnd(resv, max, used) ==
    LET stuffing == (resv % 8) + AtLeast0(resv - (resv % 8) - max)
        mdbBytes == Lower(8 * mainDataBegin, stuffing) \div 8
    IN /\ ResvSize' = resv - stuffing
       /\ mainDataBegin' = mainDataBegin - mdbBytes
       /\ frame' = [pre |-> 8 * mdbBytes, main |-> used, post |-> stuffing - 8 * mdbBytes]
       /\ todo' = 8 * mdbBytes
       /\ pc' = "pre"

-----------------------------------------------------------------------------
(* bitstream.c: compute_flushbits.  With no slot in use the first and last  *)
(* slot it looks at are neighbours in the ring, which it takes for a ring   *)
(* of HeaderBuf headers as long as the last one is not yet written.         *)

WaitingHeaders == IF header = <<>> THEN HeaderBuf ELSE Len(header)

\* A last header that is due right now taken for one that is written.
FlushBitsDueIsWritten ==
    lastTiming - totbit + FrameLength(bitrateIndex, padding)
        - IF lastTiming > totbit THEN WaitingHeaders * SideBits ELSE 0

FlushBits ==
    lastTiming - totbit + FrameLength(bitrateIndex, padding)
        - IF lastTiming >= totbit THEN WaitingHeaders * SideBits ELSE 0

-----------------------------------------------------------------------------
Init ==
    /\ vbr \in Modes
    /\ slotLag = IF vbr = "vbr_off" THEN FracSpF ELSE 0
    /\ padding = 0
    /\ bitrateIndex = 0
    /\ ResvSize = 0 /\ ResvMax = 0 /\ mainDataBegin = 0
    /\ frame = [pre |-> 0, main |-> 0, post |-> 0]
    /\ header = <<>>
    /\ lastTiming = 8 * TagBytes /\ nextTiming = 8 * TagBytes
    /\ totbit = 8 * TagBytes /\ buffered = 8 * TagBytes
    /\ pc = "idle"
    /\ gr = 0
    /\ todo = 0
    /\ flushed = TRUE

\* lame_init_bitstream, which may be called again after lame_encode_flush_nogap:
\* add_dummy_byte writes the tag and moves every header's timing along.
InitBitstream ==
    /\ pc = "idle" /\ flushed /\ bitrateIndex # 0 /\ buffered = 0
    /\ totbit <= TotbitLimit  \* bound: a frame is encoded between tags
    /\ totbit' = totbit + 8 * TagBytes
    /\ buffered' = buffered + 8 * TagBytes
    /\ nextTiming' = nextTiming + 8 * TagBytes
    /\ lastTiming' = lastTiming + 8 * TagBytes
    /\ header' = [k \in 1 .. Len(header) |->
                    [header[k] EXCEPT !.timing = @ + 8 * TagBytes]]
    /\ UNCHANGED <<rateVars, resvVars, pc, gr, todo, flushed>>

-----------------------------------------------------------------------------
(* quantize.c                                                              *)

\* The lowest index from the start on that holds the bits, or the highest.
LowestFit(i, start, used) ==
    /\ i \in start .. MaxIndex
    /\ i = MaxIndex \/ used <= FullFrameBits(i, 0)
    /\ \A k \in start .. i - 1 : used > FullFrameBits(k, 0)

\* The highest index above the lowest that leaves no more than pad bits unused.
PaddedFit(j, i, pad, used) ==
    IF pad > 0
    THEN /\ j \in i .. MaxIndex
         /\ j = i \/ FullFrameBits(j, 0) - used <= pad
         /\ \A k \in j + 1 .. MaxIndex : FullFrameBits(k, 0) - used > pad
    ELSE j = i

\* VBR_new_iteration_loop: VBR_encode_frame used this many bits, at most what
\* the highest bit rate allows.  A silent frame starts from the lowest bit rate
\* and leaves no pad.
VbrFrame(used, silence) ==
    /\ pc = "idle" /\ vbr = "vbr_mtrh"
    /\ used <= FullFrameBits(MaxIndex, 0)
    /\ \E i, j \in 1 .. MaxIndex :
         /\ LowestFit(i, IF silence /\ ~EnforceMin THEN 1 ELSE MinIndex, used)
         /\ PaddedFit(j, i, IF silence THEN 0 ELSE ResvMaxOf(MaxIndex, 0), used)
         /\ bitrateIndex' = j
         /\ ResvMax' = ResvMaxOf(j, 0)
         /\ IF used <= FullFrameBits(j, 0)
            THEN ResvFrameEnd(ResvSize - used + Capacity(j, 0), ResvMaxOf(j, 0), used)
            ELSE pc' = "exit" /\ UNCHANGED <<ResvSize, mainDataBegin, frame, todo>>
    /\ flushed' = FALSE
    /\ UNCHANGED <<vbr, slotLag, padding, streamVars, gr>>

\* CBR_iteration_loop up to its granules: padding by the lag of the slots.
CbrFrame ==
    /\ pc = "idle" /\ vbr = "vbr_off"
    /\ LET lag == slotLag - FracSpF
       IN /\ slotLag' = IF lag < 0 THEN lag + SampleRate ELSE lag
          /\ padding' = IF lag < 0 THEN 1 ELSE 0
    /\ bitrateIndex' = CbrIndex
    /\ ResvMax' = ResvMaxOf(CbrIndex, padding')
    /\ frame' = [pre |-> 0, main |-> 0, post |-> 0]
    /\ gr' = 0
    /\ pc' = "granule"
    /\ flushed' = FALSE
    /\ UNCHANGED <<vbr, ResvSize, mainDataBegin, streamVars, todo>>

\* One granule: its bits are taken from the reservoir (ResvAdjust); from the
\* second granule on the mean bits of the first are still to come.
Granule(used) ==
    /\ pc = "granule"
    /\ LET mean == Capacity(bitrateIndex, padding) \div Granules
           total == frame.main + used
       IN /\ used <= GranuleBits(ResvSize + gr * mean, mean)
          /\ IF gr + 1 < Granules
             THEN /\ ResvSize' = ResvSize - used
                  /\ frame' = [frame EXCEPT !.main = total]
                  /\ UNCHANGED <<mainDataBegin, pc, todo>>
             ELSE ResvFrameEnd(ResvSize - used + mean * Granules, ResvMax, total)
    /\ gr' = gr + 1
    /\ UNCHANGED <<rateVars, ResvMax, streamVars, flushed>>

-----------------------------------------------------------------------------
(* bitstream.c: format_bitstream writes the drain of the frame before, the  *)
(* side information, the data and the frame's own drain.                    *)

Writing == pc \in {"pre", "main", "post", "flush"}

\* putbits2: a header that is due goes out before the next bit.
HeaderDue == header # <<>> /\ header[1].timing = totbit

PutHeader ==
    /\ Writing /\ todo > 0 /\ HeaderDue
    /\ header' = Tail(header)
    /\ totbit' = totbit + SideBits
    /\ buffered' = buffered + SideBits
    /\ UNCHANGED <<rateVars, resvVars, lastTiming, nextTiming, pc, gr, todo, flushed>>

\* Bits that are written in one go, with a look at the header before the first.
PutBitsInOneGo ==
    /\ Writing /\ todo > 0 /\ ~HeaderDue
    /\ totbit' = totbit + todo
    /\ buffered' = buffered + todo
    /\ todo' = 0
    /\ UNCHANGED <<rateVars, resvVars, header, lastTiming, nextTiming, pc, gr, flushed>>

\* putbits2, the bits up to the next header or all that is left.
PutBits ==
    /\ Writing /\ todo > 0 /\ ~HeaderDue
    /\ LET n == IF header # <<>> /\ header[1].timing > totbit
                THEN Lower(todo, header[1].timing - totbit) ELSE todo
       IN /\ totbit' = totbit + n
          /\ buffered' = buffered + n
          /\ todo' = todo - n
    /\ UNCHANGED <<rateVars, resvVars, header, lastTiming, nextTiming, pc, gr, flushed>>

\* encodeSideInfo2, once the drain is written: the frame's header is queued at
\* the timing of slot h_ptr.  If the ring has no slot left h_ptr meets w_ptr: an
\* error is printed, and the ring is empty by its pointers.
EncodeSideInfo ==
    /\ pc = "pre" /\ todo = 0
    /\ header' = IF Len(header) + 1 = HeaderBuf THEN <<>>
                 ELSE Append(header, [timing |-> nextTiming, mdb |-> mainDataBegin])
    /\ lastTiming' = nextTiming
    /\ nextTiming' = nextTiming + FrameLength(bitrateIndex, padding)
    /\ todo' = frame.main
    /\ pc' = "main"
    /\ UNCHANGED <<rateVars, resvVars, totbit, buffered, gr, flushed>>

\* writeMainData is done: the drain after it.
DrainPost ==
    /\ pc = "main" /\ todo = 0
    /\ todo' = frame.post
    /\ pc' = "post"
    /\ UNCHANGED <<rateVars, resvVars, streamVars, gr, flushed>>

\* The drain after the data forgotten in main_data_begin.
FinishFrameKeepsDrain ==
    /\ pc = "post" /\ todo = 0
    /\ mainDataBegin' =
         mainDataBegin + (Capacity(bitrateIndex, padding) - frame.main) \div 8
    /\ ResvSize' = 8 * mainDataBegin'
    /\ UNCHANGED <<totbit, nextTiming, lastTiming, header>>
    /\ pc' = "copy"
    /\ UNCHANGED <<rateVars, ResvMax, frame, buffered, gr, todo, flushed>>

\* The end of format_bitstream: main_data_begin of the next frame, which
\* overrules a reservoir that differs, and the reset of the bit counter.
FinishFrame ==
    /\ pc = "post" /\ todo = 0
    /\ mainDataBegin' =
         mainDataBegin + (Capacity(bitrateIndex, padding) - frame.main - frame.post) \div 8
    /\ ResvSize' = 8 * mainDataBegin'
    /\ IF totbit > TotbitLimit
       THEN /\ totbit' = 0
            /\ nextTiming' = nextTiming - totbit
            /\ lastTiming' = lastTiming - totbit
            /\ header' = [k \in 1 .. Len(header) |->
                            [header[k] EXCEPT !.timing = @ - totbit]]
       ELSE UNCHANGED <<totbit, nextTiming, lastTiming, header>>
    /\ pc' = "copy"
    /\ UNCHANGED <<rateVars, ResvMax, frame, buffered, gr, todo, flushed>>

\* flush_bitstream: pad the last frames with ancillary data.
Flush ==
    /\ pc = "idle"
    /\ IF FlushBits < 0
       THEN pc' = "copy" /\ UNCHANGED <<todo, flushed>>
       ELSE pc' = "flush" /\ todo' = FlushBits /\ flushed' = TRUE
    /\ UNCHANGED <<rateVars, resvVars, streamVars, gr>>

FlushDone ==
    /\ pc = "flush" /\ todo = 0
    /\ ResvSize' = 0
    /\ mainDataBegin' = 0
    /\ pc' = "copy"
    /\ UNCHANGED <<rateVars, ResvMax, frame, streamVars, gr, todo, flushed>>

\* copy_buffer, after a frame or a flush, and for the tags at the start of a
\* call: does the caller's buffer hold what bs.buf holds?
TooSmall(size) == size # 0 /\ buffered > 8 * size

CopyBuffer(size) ==
    /\ pc \in {"copy", "idle"}
    /\ IF TooSmall(size)
       THEN /\ buffered < 8 * BufferSize  \* bound: the caller does not go on for ever
            /\ UNCHANGED buffered
       ELSE buffered' = 0
    /\ pc' = "idle"
    /\ UNCHANGED <<rateVars, resvVars, header, lastTiming, nextTiming, totbit,
                   gr, todo, flushed>>

\* The frame's steps that do not depend on the caller.
FormatStep ==
    \/ PutHeader \/ PutBits \/ EncodeSideInfo \/ DrainPost \/ FinishFrame \/ FlushDone

EncodeStep ==
    \/ \E used \in BitCounts, silence \in BOOLEAN : VbrFrame(used, silence)
    \/ CbrFrame
    \/ \E used \in BitCounts : Granule(used)

Next ==
    \/ InitBitstream
    \/ EncodeStep
    \/ FormatStep
    \/ Flush
    \/ \E size \in BufferSizes : CopyBuffer(size)

Spec == Init /\ [][Next]_bitVars

-----------------------------------------------------------------------------
(* Properties                                                              *)

Headers == [timing : Int, mdb : Int]

TypeOK ==
    /\ vbr \in Modes
    /\ slotLag \in 0 .. SampleRate - 1
    /\ padding \in {0, 1}
    /\ bitrateIndex \in 0 .. MaxIndex
    /\ ResvSize \in Int /\ ResvMax \in Nat /\ mainDataBegin \in Nat
    /\ frame \in [pre : Nat, main : Nat, post : Nat]
    /\ header \in Seq(Headers)
    /\ lastTiming \in Int /\ nextTiming \in Int
    /\ totbit \in Nat /\ buffered \in Nat
    /\ pc \in {"idle", "granule", "pre", "main", "post", "flush", "copy", "exit"}
    /\ gr \in 0 .. Granules
    /\ todo \in Nat
    /\ flushed \in BOOLEAN

\* Between frames the bits that flushing would write, counted from the headers
\* and their timings, are the reservoir that reservoir.c keeps, and main data of
\* the next frame begins there ("This should be the same as the reservoir size",
\* compute_flushbits; the two comparisons in format_bitstream).
FlushIsReservoir ==
    pc = "idle" /\ bitrateIndex # 0 =>
        FlushBits = ResvSize /\ ResvSize = 8 * mainDataBegin

\* Where a frame's data starts to be written is where its header tells the
\* decoder to look: main_data_begin bytes before the header, not counting the
\* headers in between.
DecoderFindsData ==
    pc = "main" /\ todo = frame.main =>
        LET last == Len(header)
        IN last > 0 /\ header[last].timing = lastTiming =>
             lastTiming - totbit - (last - 1) * SideBits = 8 * header[last].mdb

\* No header is overtaken by data: the position of a waiting header is never
\* behind the stream (the assertion in putbits2), and data never runs into the
\* place of a header that is not queued yet.  After a flush every header is out
\* and the last frame is complete (the assertion in flush_bitstream).
HeadersInTime ==
    /\ \A k \in 1 .. Len(header) : header[k].timing >= totbit
    /\ totbit <= nextTiming
    /\ flushed /\ pc \in {"copy", "idle"} /\ bitrateIndex # 0 =>
         /\ header = <<>>
         /\ totbit = lastTiming + FrameLength(bitrateIndex, padding)
         /\ totbit = nextTiming

\* main_data_begin fits its field, and the reservoir the decoder's buffer: the
\* stuffing gives up what a frame of another bit rate may no longer borrow.  Nor
\* is it overdrawn: a frame of any bit rate that may be chosen holds its bits, and
\* the branch that "SHOULD NOT HAPPEN" (VBR_new_iteration_loop) and ends the
\* process is not taken.
ReservoirBounded ==
    /\ pc = "idle" /\ ~flushed =>
         /\ ResvSize \in 0 .. ResvMax
         /\ 8 * mainDataBegin <= ResvLimit
    /\ pc = "pre" => ResvSize >= 0
    /\ pc # "exit"

\* The ring is longer than the reservoir of the smallest frames: what the comment
\* on MAX_HEADER_BUF counts (util.h), and what the properties rest on.
RingAssumption ==
    ResvLimit < (HeaderBuf - 1) * (8 * (FrameBytes[1] - SideInfoLen))

\* The ring has room for the header of every frame that waits (util.h: "we need
\* to buffer up to 255 headers", with MAX_HEADER_BUF 256).
RingNotFull == pc = "pre" /\ todo = 0 => Len(header) + 1 < HeaderBuf
=============================================================================
