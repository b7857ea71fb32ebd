------------------------- MODULE LameEncoderProofs -------------------------
(***************************************************************************)
(* Proofs about the MP3 encoder.  First BitReservoir: its inductive         *)
(* invariant, for every table of bit rates, every limit and every number of *)
(* bits a frame needs, as long as the ring of headers is longer than the    *)
(* reservoir (RingAssumption).  Then LameEncoder: however the caller cuts   *)
(* its samples into calls, the bit stream keeps that invariant, mfbuf does  *)
(* not overflow, the padding of lame_encode_flush covers every sample, and  *)
(* the seek table adds up.                                                 *)
(***************************************************************************)
EXTENDS LameEncoder, NaturalLemmas, TLAPS

MinFrame == 8 * FrameBytes[1]

\* The bits main data has until it runs into the next frame's header.
Free == nextTiming - totbit - Len(header) * SideBits

ThisFrame == FrameLength(bitrateIndex, padding)
ThisCapacity == Capacity(bitrateIndex, padding)

-----------------------------------------------------------------------------
(* Arithmetic                                                              *)

LEMMA OneMore == ASSUME NEW n \in Int, NEW s \in Int PROVE (n + 1) * s = n * s + s
BY SMT

LEMMA OneLess == ASSUME NEW n \in Int, NEW s \in Int PROVE (n - 1) * s = n * s - s
BY SMT

LEMMA Scale == ASSUME NEW n \in Nat, NEW s \in Int, NEW t \in Int, s <= t
               PROVE n * s <= n * t
BY SMT

LEMMA ScaleUp == ASSUME NEW n \in Int, NEW k \in Int, NEW s \in Nat, k <= n
                 PROVE k * s <= n * s
BY SMT

-----------------------------------------------------------------------------
(* Frames and the reservoir                                                *)

\* The assumptions on the table of frame lengths, one by one.
LEMMA Table ==
    /\ MaxIndex \in Nat /\ MaxIndex > 0 /\ MaxIndex = Len(FrameBytes)
    /\ \A i \in 1 .. MaxIndex : FrameBytes[i] \in Nat
    /\ \A i, k \in 1 .. MaxIndex : i <= k => FrameBytes[i] <= FrameBytes[k]
    /\ MinIndex \in 1 .. MaxIndex /\ CbrIndex \in 1 .. MaxIndex
    /\ SideInfoLen \in Nat /\ SideInfoLen > 0 /\ SideInfoLen < FrameBytes[1]
    /\ SideBits \in Nat
<1>1. FrameBytes \in Seq(Nat) /\ Len(FrameBytes) > 0
  BY BitAssumption
<1>2. /\ MaxIndex \in Nat /\ MaxIndex > 0 /\ MaxIndex = Len(FrameBytes)
      /\ \A i \in 1 .. MaxIndex : FrameBytes[i] \in Nat
  BY <1>1 DEF MaxIndex
<1>3. \A i, k \in 1 .. MaxIndex : i < k => FrameBytes[i] < FrameBytes[k]
  BY BitAssumption DEF MaxIndex
<1>4. ASSUME NEW i \in 1 .. MaxIndex, NEW k \in 1 .. MaxIndex, i <= k
      PROVE  FrameBytes[i] <= FrameBytes[k]
  <2>1. CASE i = k BY <2>1, <1>2
  <2>2. CASE i < k BY <2>2, <1>2, <1>3
  <2> QED BY <2>1, <2>2, <1>2, <1>4
<1>5. MinIndex \in 1 .. MaxIndex /\ CbrIndex \in 1 .. MaxIndex
  BY BitAssumption DEF MaxIndex
<1>6. SideInfoLen \in Nat /\ SideInfoLen > 0 /\ SideInfoLen < FrameBytes[1]
  BY BitAssumption
<1>7. SideBits \in Nat
  BY <1>6 DEF SideBits
<1> QED BY <1>2, <1>4, <1>5, <1>6, <1>7

\* A frame is at least as long as the smallest one, and its data is whole bytes.
LEMMA FrameFacts ==
    ASSUME NEW i \in 0 .. MaxIndex, NEW pad \in {0, 1}
    PROVE  /\ FrameLength(i, pad) \in Nat /\ FrameLength(i, pad) % 8 = 0
           /\ FrameLength(i, pad) >= MinFrame
           /\ Capacity(i, pad) \in Nat /\ Capacity(i, pad) % 8 = 0
           /\ Capacity(i, pad) = FrameLength(i, pad) - SideBits
           /\ MinFrame \in Nat /\ SideBits \in Nat /\ SideBits > 0 /\ SideBits < MinFrame
<1> DEFINE k == IF i = 0 THEN CbrIndex ELSE i
<1>1. k \in 1 .. MaxIndex
  BY Table
<1>2. /\ FrameBytes[k] \in Nat /\ FrameBytes[1] \in Nat
      /\ FrameBytes[1] <= FrameBytes[k]
  BY <1>1, Table
<1>3. FrameLength(i, pad) = 8 * (FrameBytes[k] + pad)
  BY DEF FrameLength
<1>4. pad \in Nat /\ SideInfoLen \in Nat /\ SideInfoLen > 0 /\ SideInfoLen < FrameBytes[1]
  BY Table
<1> HIDE DEF k
<1> QED BY <1>2, <1>3, <1>4 DEF Capacity, SideBits, MinFrame

LEMMA ResvMaxFacts ==
    ASSUME NEW i \in 0 .. MaxIndex, NEW pad \in {0, 1}
    PROVE  ResvMaxOf(i, pad) \in 0 .. ResvLimit /\ ResvMaxOf(i, pad) % 8 = 0
<1>1. FrameLength(i, pad) \in Nat /\ FrameLength(i, pad) % 8 = 0 BY FrameFacts
<1>2. /\ ResvLimit \in Nat /\ ResvLimit % 8 = 0
      /\ BufferConstraint \in Nat /\ BufferConstraint % 8 = 0
  BY BitAssumption
<1> QED BY <1>1, <1>2 DEF ResvMaxOf, AtLeast0, Lower

\* A frame gives at most what it holds and what is in the reservoir.
LEMMA FullBitsBound ==
    ASSUME NEW i \in 1 .. MaxIndex, ResvSize \in Nat
    PROVE  /\ FullFrameBits(i, 0) \in Int
           /\ FullFrameBits(i, 0) <= Capacity(i, 0) + ResvSize
<1>1. i \in 0 .. MaxIndex /\ 0 \in {0, 1}
  BY Table
<1>2. Capacity(i, 0) \in Nat BY <1>1, FrameFacts
<1>3. ResvLimit \in Nat /\ BufferConstraint \in Nat BY BitAssumption
<1>4. ResvMaxOf(i, 0) \in 0 .. ResvLimit BY <1>1, ResvMaxFacts
<1>5. ResvMaxOf(i, 0) \in Int BY <1>3, <1>4
<1>6. ResvSize \in Int OBVIOUS
<1> QED BY <1>2, <1>3, <1>5, <1>6 DEF FullFrameBits, Lower

\* A higher bit rate gives no fewer bits, although it may borrow less.
LEMMA FullBitsMonotone ==
    ASSUME NEW i \in 1 .. MaxIndex, NEW k \in 1 .. MaxIndex, i <= k, ResvSize \in Nat
    PROVE  FullFrameBits(i, 0) <= FullFrameBits(k, 0)
<1>1. /\ MaxIndex \in Nat /\ FrameBytes[i] \in Nat /\ FrameBytes[k] \in Nat
      /\ SideBits \in Nat /\ FrameBytes[i] <= FrameBytes[k]
  BY Table
<1>3. /\ FrameLength(i, 0) = 8 * FrameBytes[i] /\ FrameLength(k, 0) = 8 * FrameBytes[k]
  BY <1>1 DEF FrameLength
<1>4. /\ ResvLimit \in Nat /\ BufferConstraint \in Nat /\ DisableReservoir \in BOOLEAN
  BY BitAssumption
<1> HIDE DEF SideBits, MaxIndex
<1> QED
  BY <1>1, <1>3, <1>4
     DEF FullFrameBits, Capacity, ResvMaxOf, AtLeast0, Lower

\* A granule is never promised more than its mean bits and the reservoir.
LEMMA GranuleBound ==
    ASSUME NEW resv \in Nat, NEW mean \in Nat, ResvMax \in Nat
    PROVE  GranuleBits(resv, mean) \in Int /\ GranuleBits(resv, mean) <= resv + mean
<1> DEFINE full == (ResvMax * 9) \div 10
           most == (ResvMax * 6) \div 10
<1>1. full \in Nat /\ most \in Nat BY SMT
<1>2. (mean * 9) \div 10 \in Nat /\ (mean * 9) \div 10 <= mean BY SMT
<1>3. CASE resv * 10 > ResvMax * 9
  <2>1. GranuleBits(resv, mean) =
          mean + (resv - full) + AtLeast0(Lower(resv, most) - (resv - full))
    BY <1>3 DEF GranuleBits
  <2> HIDE DEF full, most
  <2> QED BY <2>1, <1>1, <1>3 DEF AtLeast0, Lower
<1>4. CASE ~(resv * 10 > ResvMax * 9)
  <2>1. GranuleBits(resv, mean) =
          (IF DisableReservoir THEN mean ELSE (mean * 9) \div 10)
            + AtLeast0(Lower(resv, most) - 0)
    BY <1>4 DEF GranuleBits
  <2> HIDE DEF full, most
  <2> QED BY <2>1, <1>1, <1>2, BitAssumption DEF AtLeast0, Lower
<1> QED BY <1>3, <1>4

\* What ResvFrameEnd does with a reservoir that is not overdrawn.
LEMMA FrameEnd ==
    ASSUME NEW resv \in Nat, NEW max \in Nat, max % 8 = 0, NEW used \in Nat,
           mainDataBegin \in Nat, ResvFrameEnd(resv, max, used)
    PROVE  /\ ResvSize' \in 0 .. max /\ ResvSize' % 8 = 0
           /\ mainDataBegin' \in Nat /\ mainDataBegin' <= mainDataBegin
           /\ frame' \in [pre : Nat, main : Nat, post : Nat]
           /\ frame'.main = used
           /\ todo' = frame'.pre /\ todo' = 8 * (mainDataBegin - mainDataBegin')
           /\ ResvSize' = resv - frame'.pre - frame'.post
           /\ pc' = "pre"
<1> DEFINE stuffing == (resv % 8) + AtLeast0(resv - (resv % 8) - max)
           mdbBytes == Lower(8 * mainDataBegin, stuffing) \div 8
<1>1. /\ ResvSize' = resv - stuffing
      /\ mainDataBegin' = mainDataBegin - mdbBytes
      /\ frame' = [pre |-> 8 * mdbBytes, main |-> used, post |-> stuffing - 8 * mdbBytes]
      /\ todo' = 8 * mdbBytes
      /\ pc' = "pre"
  BY DEF ResvFrameEnd
<1>2. /\ stuffing \in Nat /\ resv - stuffing \in 0 .. max /\ (resv - stuffing) % 8 = 0
  BY DEF AtLeast0
<1> HIDE DEF stuffing
<1>3. mdbBytes \in Nat /\ mdbBytes <= mainDataBegin /\ 8 * mdbBytes <= stuffing
  BY <1>2 DEF Lower
<1> HIDE DEF mdbBytes
<1> QED BY <1>1, <1>2, <1>3

-----------------------------------------------------------------------------
(* The inductive invariant                                                 *)

Rest == pc \in {"idle", "copy"}

\* Before the first frame nothing is in the stream but a tag.
Start ==
    bitrateIndex = 0 =>
        /\ Rest /\ flushed
        /\ header = <<>> /\ nextTiming = totbit /\ lastTiming = totbit
        /\ ResvSize = 0 /\ mainDataBegin = 0

\* The waiting headers are ahead of the stream, and frames apart.
Chain ==
    /\ \A k \in 1 .. Len(header) :
         /\ header[k].timing >= totbit
         /\ header[k].timing + (Len(header) - k + 1) * MinFrame <= nextTiming
    /\ \A k, r \in 1 .. Len(header) : k < r => header[k].timing + MinFrame <= header[r].timing

\* The room for main data up to the next header is what the reservoir, and what
\* is left to write of the frame, take up.
Room ==
    /\ Rest \/ pc = "granule" => Free = 8 * mainDataBegin
    /\ pc = "pre" => Free = 8 * mainDataBegin + todo
    /\ pc = "main" => Free = 8 * mainDataBegin + ThisCapacity - frame.main + todo
    /\ pc = "post" =>
         Free = 8 * mainDataBegin + ThisCapacity - frame.main - frame.post + todo
    /\ pc = "flush" => Free = todo

\* The reservoir of reservoir.c is what main_data_begin of the next frame will be.
Reservoir ==
    /\ ResvMax <= ResvLimit /\ ResvMax % 8 = 0
    /\ 8 * mainDataBegin <= ResvLimit
    /\ Rest => ResvSize = 8 * mainDataBegin /\ (flushed \/ ResvSize <= ResvMax)
    /\ pc = "granule" =>
         /\ ResvSize = 8 * mainDataBegin - frame.main
         /\ gr < Granules /\ (gr = 0 => frame.main = 0)
         /\ ResvSize + gr * (ThisCapacity \div Granules) >= 0
    /\ pc \in {"pre", "main", "post"} =>
         /\ ResvSize = 8 * mainDataBegin + ThisCapacity - frame.main - frame.post
         /\ ResvSize >= 0 /\ ResvSize <= ResvMax /\ ResvSize % 8 = 0

\* The slots before and at h_ptr are a frame apart once its header is queued.
LastSlot ==
    /\ bitrateIndex # 0 /\ (Rest \/ pc \in {"main", "post", "flush"}) =>
         /\ nextTiming = lastTiming + ThisFrame
         /\ IF header = <<>> THEN lastTiming < totbit
            ELSE header[Len(header)].timing = lastTiming
    /\ pc = "main" /\ header # <<>> => header[Len(header)].mdb = mainDataBegin

\* A flush leaves nothing behind.
Flushing ==
    /\ flushed => Rest \/ pc = "flush"
    /\ pc = "flush" => flushed
    /\ flushed /\ Rest => header = <<>> /\ totbit = nextTiming /\ mainDataBegin = 0

NoPadding == vbr = "vbr_mtrh" => padding = 0

IInv ==
    /\ TypeOK /\ pc # "exit"
    /\ Start /\ Chain /\ Room /\ Reservoir /\ LastSlot /\ Flushing /\ NoPadding

-----------------------------------------------------------------------------
(* What the invariant says of one state                                    *)

LEMMA Facts ==
    ASSUME TypeOK
    PROVE  /\ ThisFrame \in Nat /\ ThisFrame >= MinFrame
           /\ ThisCapacity \in Nat /\ ThisCapacity % 8 = 0
           /\ ThisCapacity = ThisFrame - SideBits
           /\ MinFrame \in Nat /\ SideBits \in Nat /\ SideBits > 0 /\ SideBits < MinFrame
           /\ Len(header) \in Nat
           /\ lastTiming \in Int /\ nextTiming \in Int /\ totbit \in Nat
           /\ todo \in Nat /\ mainDataBegin \in Nat /\ ResvSize \in Int
           /\ frame.pre \in Nat /\ frame.main \in Nat /\ frame.post \in Nat
           /\ ResvMax \in Nat /\ ResvLimit \in Nat
<1>1. bitrateIndex \in 0 .. MaxIndex /\ padding \in {0, 1} BY DEF TypeOK
<1>2. /\ ThisFrame \in Nat /\ ThisFrame >= MinFrame
      /\ ThisCapacity \in Nat /\ ThisCapacity % 8 = 0
      /\ ThisCapacity = ThisFrame - SideBits
      /\ MinFrame \in Nat /\ SideBits \in Nat /\ SideBits > 0 /\ SideBits < MinFrame
  BY <1>1, FrameFacts DEF ThisFrame, ThisCapacity
<1>3. header \in Seq(Headers) /\ Len(header) \in Nat
  BY DEF TypeOK
<1>4. ResvLimit \in Nat BY BitAssumption
<1> QED BY <1>2, <1>3, <1>4 DEF TypeOK

LEMMA HeaderFacts ==
    ASSUME NEW h \in Seq(Headers)
    PROVE  \A k \in 1 .. Len(h) : h[k] \in Headers /\ h[k].timing \in Int /\ h[k].mdb \in Int
<1> TAKE k \in 1 .. Len(h)
<1>1. h[k] \in Headers OBVIOUS
<1> QED BY <1>1 DEF Headers

\* The headers that wait take as many frames of the stream.
LEMMA RoomForHeaders ==
    ASSUME IInv
    PROVE  /\ Len(header) * (MinFrame - SideBits) <= Free
           /\ header # <<>> => totbit <= header[1].timing
           /\ totbit <= nextTiming
<1>1. TypeOK BY DEF IInv
<1>2. CASE header = <<>>
  <2>1. Len(header) = 0 BY <1>2
  <2>2. Free = nextTiming - totbit
    BY <2>1, <1>1, Facts DEF Free
  <2>3. Free >= 0
    <3>1. pc \in {"idle", "granule", "pre", "main", "post", "flush", "copy"}
      BY DEF IInv, TypeOK
    <3>2. Room BY DEF IInv
    <3>3. /\ ThisCapacity \in Int /\ todo \in Nat /\ mainDataBegin \in Nat
          /\ ResvSize \in Int
          /\ frame.pre \in Nat /\ frame.main \in Nat /\ frame.post \in Nat
      BY <1>1, Facts
    <3>4. pc \in {"pre", "main", "post"} =>
            /\ ResvSize = 8 * mainDataBegin + ThisCapacity - frame.main - frame.post
            /\ ResvSize >= 0
      BY DEF IInv, Reservoir
    <3> QED BY <3>1, <3>2, <3>3, <3>4 DEF Room, Rest
  <2>4. 0 * (MinFrame - SideBits) = 0
    BY <1>1, Facts
  <2>5. totbit \in Int /\ nextTiming \in Int BY <1>1, Facts
  <2> QED BY <2>1, <2>2, <2>3, <2>4, <2>5, <1>2
<1>3. CASE header # <<>>
  <2>1. Len(header) >= 1 /\ 1 \in 1 .. Len(header)
    BY <1>1, <1>3 DEF TypeOK
  <2>2. /\ header[1].timing >= totbit
        /\ header[1].timing + (Len(header) - 1 + 1) * MinFrame <= nextTiming
    BY <2>1 DEF IInv, Chain
  <2>3. Len(header) - 1 + 1 = Len(header) BY <2>1, <1>1, Facts
  <2>4. Len(header) \in Nat /\ MinFrame \in Nat /\ SideBits \in Nat
    BY <1>1, Facts
  <2>5. /\ Len(header) * MinFrame \in Nat /\ Len(header) * SideBits \in Nat
        /\ Len(header) * (MinFrame - SideBits)
             = Len(header) * MinFrame - Len(header) * SideBits
    BY <2>4
  <2>6. header[1].timing \in Int /\ nextTiming \in Int /\ totbit \in Int
    <3>1. header \in Seq(Headers) BY <1>1 DEF TypeOK
    <3>2. header[1].timing \in Int BY <3>1, <2>1, HeaderFacts
    <3>3. nextTiming \in Int /\ totbit \in Int BY <1>1, Facts
    <3> QED BY <3>2, <3>3
  <2>7. header[1].timing + Len(header) * MinFrame <= nextTiming
    BY <2>2, <2>3
  <2> DEFINE m == Len(header) * MinFrame
             b == Len(header) * SideBits
             d == Len(header) * (MinFrame - SideBits)
  <2>8. Free = nextTiming - totbit - b BY DEF Free
  <2> HIDE DEF m, b, d
  <2>9. m \in Nat /\ b \in Nat /\ d = m - b BY <2>5 DEF m, b, d
  <2>10. header[1].timing + m <= nextTiming BY <2>7 DEF m
  <2>11. d <= Free /\ totbit <= header[1].timing /\ totbit <= nextTiming
    BY <2>2, <2>6, <2>8, <2>9, <2>10
  <2> QED BY <2>11 DEF d
<1> QED BY <1>2, <1>3

\* The ring has a slot for the header of the frame that is written.
LEMMA RingHasRoom ==
    ASSUME IInv, RingAssumption
    PROVE  RingNotFull
<1> SUFFICES ASSUME pc = "pre", todo = 0
             PROVE  Len(header) + 1 < HeaderBuf
  BY DEF RingNotFull
<1>1. TypeOK BY DEF IInv
<1>2. Free <= ResvLimit
  BY <1>1, Facts DEF IInv, Room, Reservoir
<1> DEFINE gap == MinFrame - SideBits
<1>3. gap = 8 * (FrameBytes[1] - SideInfoLen)
  BY Table DEF MinFrame, SideBits
<1>4. ResvLimit < (HeaderBuf - 1) * gap
  BY <1>3 DEF RingAssumption
<1>5. Len(header) * gap <= Free
  BY RoomForHeaders
<1>6. gap \in Nat /\ Len(header) \in Nat /\ HeaderBuf - 1 \in Int
  <2>1. HeaderBuf \in Nat BY BitAssumption
  <2>2. /\ MinFrame \in Nat /\ SideBits \in Nat /\ SideBits < MinFrame
        /\ Len(header) \in Nat
    BY <1>1, Facts
  <2> QED BY <2>1, <2>2
<1>7. Free \in Int /\ ResvLimit \in Int
  <2>1. Len(header) * SideBits \in Int BY <1>1, Facts
  <2>2. nextTiming \in Int /\ totbit \in Int /\ ResvLimit \in Int BY <1>1, Facts
  <2> QED BY <2>1, <2>2 DEF Free
<1> HIDE DEF gap
<1>8. ASSUME HeaderBuf - 1 <= Len(header) PROVE FALSE
  <2>1. (HeaderBuf - 1) * gap <= Len(header) * gap
    BY <1>6, <1>8, ScaleUp
  <2>2. (HeaderBuf - 1) * gap \in Int /\ Len(header) * gap \in Int
    BY <1>6
  <2> QED BY <2>1, <2>2, <1>2, <1>4, <1>5, <1>7
<1>9. HeaderBuf \in Nat BY BitAssumption
<1> QED BY <1>6, <1>8, <1>9

\* At rest flushing writes the reservoir.
LEMMA FlushAtRest ==
    ASSUME IInv, Rest, bitrateIndex # 0
    PROVE  FlushBits = 8 * mainDataBegin
<1>1. TypeOK BY DEF IInv
<1>2. /\ nextTiming = lastTiming + ThisFrame
      /\ Free = 8 * mainDataBegin
  BY DEF IInv, LastSlot, Room
<1>3. CASE header = <<>>
  <2>1. lastTiming < totbit BY <1>3 DEF IInv, LastSlot
  <2>2. Len(header) = 0 BY <1>3
  <2>3. FlushBits = lastTiming - totbit + ThisFrame - 0
    BY <2>1, <1>1, Facts DEF FlushBits, ThisFrame
  <2>4. Free = nextTiming - totbit
    BY <2>2, <1>1, Facts DEF Free
  <2>5. /\ lastTiming \in Int /\ nextTiming \in Int /\ totbit \in Int
        /\ ThisFrame \in Int /\ mainDataBegin \in Nat
    BY <1>1, Facts
  <2> QED BY <2>3, <2>4, <2>5, <1>2
<1>4. CASE header # <<>>
  <2>1. header[Len(header)].timing = lastTiming BY <1>4 DEF IInv, LastSlot
  <2>2. Len(header) \in 1 .. Len(header) BY <1>4, <1>1 DEF TypeOK
  <2>3. lastTiming >= totbit
    BY <2>1, <2>2 DEF IInv, Chain
  <2>4. FlushBits = lastTiming - totbit + ThisFrame - Len(header) * SideBits
    BY <2>3, <1>4 DEF FlushBits, ThisFrame, WaitingHeaders
  <2>5. Len(header) * SideBits \in Int BY <1>1, Facts
  <2>6. /\ lastTiming \in Int /\ nextTiming \in Int /\ totbit \in Int
        /\ ThisFrame \in Int /\ mainDataBegin \in Nat
    BY <1>1, Facts
  <2>7. Free = nextTiming - totbit - Len(header) * SideBits BY DEF Free
  <2> DEFINE b == Len(header) * SideBits
  <2> HIDE DEF b
  <2>8. /\ b \in Int /\ Free = nextTiming - totbit - b
        /\ FlushBits = lastTiming - totbit + ThisFrame - b
    BY <2>4, <2>5, <2>7 DEF b
  <2> QED BY <2>6, <2>8, <1>2
<1> QED BY <1>3, <1>4

\* Before the first frame there is nothing to flush.
LEMMA FlushAtStart ==
    ASSUME IInv, bitrateIndex = 0
    PROVE  FlushBits < 0
<1>1. TypeOK BY DEF IInv
<1>2. header = <<>> /\ lastTiming = totbit BY DEF IInv, Start
<1>3. FrameLength(0, padding) = 8 * (FrameBytes[CbrIndex] + padding)
  BY DEF FrameLength
<1>4. FrameBytes[CbrIndex] \in Nat /\ padding \in {0, 1}
  BY <1>1, Table DEF TypeOK
<1>5. FrameBytes[CbrIndex] + 1 < HeaderBuf * SideInfoLen
  BY BitAssumption
<1>6. HeaderBuf \in Nat /\ SideInfoLen \in Nat
  BY BitAssumption
<1>7. HeaderBuf * SideBits = 8 * (HeaderBuf * SideInfoLen) /\ HeaderBuf * SideInfoLen \in Nat
  BY <1>6 DEF SideBits
<1>8. FlushBits = totbit - totbit + FrameLength(0, padding) - HeaderBuf * SideBits
  <2>1. lastTiming >= totbit /\ WaitingHeaders = HeaderBuf
    BY <1>1, <1>2, Facts DEF WaitingHeaders
  <2> QED BY <2>1, <1>2 DEF FlushBits
<1>9. totbit \in Int BY <1>1, Facts
<1> DEFINE h == HeaderBuf * SideInfoLen
<1> HIDE DEF h
<1>10. /\ h \in Nat /\ FrameBytes[CbrIndex] + 1 < h
       /\ FlushBits = totbit - totbit + FrameLength(0, padding) - 8 * h
  BY <1>5, <1>7, <1>8 DEF h
<1> QED BY <1>3, <1>4, <1>9, <1>10

-----------------------------------------------------------------------------
(* The invariant holds initially and is kept by every step                 *)

\* The parts of the invariant that speak of the stream alone.
LEMMA SameStream ==
    ASSUME UNCHANGED streamVars
    PROVE  Free' = Free /\ (Chain => Chain')
<1>1. /\ header' = header /\ nextTiming' = nextTiming /\ totbit' = totbit
  BY DEF streamVars
<1> QED BY <1>1 DEF Free, Chain

\* Moving the origin of the timings changes none of them either.
LEMMA Shift ==
    ASSUME TypeOK, NEW d \in Int,
           header' \in Seq(Headers), Len(header') = Len(header),
           \A k \in 1 .. Len(header) : header'[k].timing = header[k].timing + d,
           totbit' = totbit + d, nextTiming' = nextTiming + d
    PROVE  /\ Free' = Free
           /\ Chain => Chain'
           /\ header' = <<>> <=> header = <<>>
<1>1. /\ nextTiming \in Int /\ totbit \in Int /\ Len(header) \in Nat
      /\ SideBits \in Nat /\ MinFrame \in Nat
  BY Facts
<1>2. \A k \in 1 .. Len(header) : header[k].timing \in Int
  BY HeaderFacts DEF TypeOK
<1>3. Free' = Free
  <2>1. Len(header) * SideBits \in Int BY <1>1
  <2>2. /\ Free = nextTiming - totbit - Len(header) * SideBits
        /\ Free' = nextTiming' - totbit' - Len(header) * SideBits
    BY DEF Free, SideBits
  <2> DEFINE b == Len(header) * SideBits
  <2> HIDE DEF b
  <2>3. b \in Int /\ Free = nextTiming - totbit - b /\ Free' = nextTiming' - totbit' - b
    BY <2>1, <2>2 DEF b
  <2> QED BY <2>3, <1>1
<1>4. ASSUME Chain PROVE Chain'
  <2>1. ASSUME NEW k \in 1 .. Len(header)
        PROVE  /\ header'[k].timing >= totbit'
               /\ header'[k].timing + (Len(header) - k + 1) * MinFrame <= nextTiming'
    <3>1. /\ header[k].timing >= totbit
          /\ header[k].timing + (Len(header) - k + 1) * MinFrame <= nextTiming
      BY <1>4 DEF Chain
    <3>2. (Len(header) - k + 1) * MinFrame \in Int BY <1>1
    <3> DEFINE m == (Len(header) - k + 1) * MinFrame
    <3> HIDE DEF m
    <3>3. m \in Int /\ header[k].timing + m <= nextTiming BY <3>1, <3>2 DEF m
    <3>4. /\ header'[k].timing >= totbit' /\ header'[k].timing + m <= nextTiming'
      BY <3>1, <3>3, <1>1, <1>2
    <3> QED BY <3>4 DEF m
  <2>2. ASSUME NEW k \in 1 .. Len(header), NEW r \in 1 .. Len(header), k < r
        PROVE  header'[k].timing + MinFrame <= header'[r].timing
    <3>1. header[k].timing + MinFrame <= header[r].timing
      BY <1>4, <2>2 DEF Chain
    <3>2. /\ header'[k].timing = header[k].timing + d
          /\ header'[r].timing = header[r].timing + d
          /\ header[k].timing \in Int /\ header[r].timing \in Int /\ MinFrame \in Int
      BY <1>1, <1>2
    <3> QED BY <3>1, <3>2
  <2>3. MinFrame' = MinFrame BY DEF MinFrame
  <2> QED BY <2>1, <2>2, <2>3 DEF Chain
<1>5. header' = <<>> <=> header = <<>>
  BY DEF TypeOK
<1> QED BY <1>3, <1>4, <1>5

LEMMA InitInv == ASSUME Init PROVE IInv
<1>1. /\ SampleRate \in Nat \ {0} /\ FracSpF \in 0 .. SampleRate - 1
      /\ TagBytes \in Nat /\ ResvLimit \in Nat /\ Granules \in {1, 2}
  BY BitAssumption
<1>2. Len(header) = 0 /\ header \in Seq(Headers)
  BY DEF Init
<1>3. 0 * SideBits = 0 /\ SideBits \in Nat
  BY Table
<1>4. TypeOK
  BY <1>1, <1>2, Table DEF Init, TypeOK
<1>5. Free = 0
  BY <1>1, <1>2, <1>3 DEF Init, Free
<1>6. Chain
  BY <1>2 DEF Chain
<1> QED
  BY <1>1, <1>2, <1>4, <1>5, <1>6
     DEF Init, IInv, Start, Room, Reservoir, LastSlot, Flushing, NoPadding, Rest

LEMMA InitBitstreamInv == ASSUME IInv, InitBitstream PROVE IInv'
<1> DEFINE d == 8 * TagBytes
<1>1. TypeOK /\ Rest /\ flushed /\ bitrateIndex # 0
  BY DEF IInv, InitBitstream, Rest
<1>2. d \in Nat
  BY BitAssumption
<1>3. /\ totbit' = totbit + d /\ nextTiming' = nextTiming + d /\ lastTiming' = lastTiming + d
      /\ buffered' = buffered + d
      /\ header' = [k \in 1 .. Len(header) |-> [header[k] EXCEPT !.timing = @ + d]]
      /\ UNCHANGED <<rateVars, resvVars, pc, gr, todo, flushed>>
  BY DEF InitBitstream
<1> HIDE DEF d
<1>4. header = <<>> /\ totbit = nextTiming /\ mainDataBegin = 0
  BY <1>1 DEF IInv, Flushing
<1>5. header' = <<>> /\ Len(header) = 0 /\ Len(header') = 0
  BY <1>3, <1>4
<1>6. TypeOK'
  <2>1. header' \in Seq(Headers) BY <1>5
  <2>2. totbit' \in Nat /\ nextTiming' \in Int /\ lastTiming' \in Int /\ buffered' \in Nat
    <3>1. totbit \in Nat /\ nextTiming \in Int /\ lastTiming \in Int /\ buffered \in Nat
      BY <1>1 DEF TypeOK
    <3>2. /\ totbit' = totbit + d /\ nextTiming' = nextTiming + d
          /\ lastTiming' = lastTiming + d /\ buffered' = buffered + d
      BY <1>3
    <3> QED BY <3>1, <3>2, <1>2
  <2>3. UNCHANGED <<rateVars, resvVars, pc, gr, todo, flushed>> BY <1>3
  <2> QED BY <1>1, <2>1, <2>2, <2>3 DEF TypeOK, rateVars, resvVars
<1>7. Free' = Free /\ Chain'
  <2>1. header' \in Seq(Headers) /\ d \in Int BY <1>2, <1>5
  <2>2. \A k \in 1 .. Len(header) : header'[k].timing = header[k].timing + d
    BY <1>5
  <2>3. Chain BY DEF IInv
  <2> QED BY <1>1, <1>3, <1>5, <2>1, <2>2, <2>3, Shift
<1>8. ThisFrame' = ThisFrame /\ ThisCapacity' = ThisCapacity
  BY <1>3 DEF ThisFrame, ThisCapacity, rateVars
<1>9. nextTiming' = lastTiming' + ThisFrame /\ lastTiming' < totbit'
  <2>1. nextTiming = lastTiming + ThisFrame /\ lastTiming < totbit
    BY <1>1, <1>4 DEF IInv, LastSlot
  <2>2. lastTiming \in Int /\ totbit \in Int /\ ThisFrame \in Int BY <1>1, Facts
  <2> QED BY <2>1, <2>2, <1>2, <1>3
<1>10. totbit' = nextTiming'
  BY <1>3, <1>4
<1> QED
  BY <1>1, <1>3, <1>4, <1>5, <1>6, <1>7, <1>8, <1>9, <1>10
     DEF IInv, Start, Room, Reservoir, LastSlot, Flushing, NoPadding, Rest, rateVars, resvVars

\* A frame of the variable bit rate is always one that holds its bits.
LEMMA VbrFits ==
    ASSUME ResvSize \in Nat, NEW used \in Nat, NEW start \in 1 .. MaxIndex,
           used <= FullFrameBits(MaxIndex, 0),
           NEW i \in 1 .. MaxIndex, NEW j \in 1 .. MaxIndex, NEW pad \in Nat,
           LowestFit(i, start, used), PaddedFit(j, i, pad, used)
    PROVE  used <= FullFrameBits(j, 0)
<1>1. MaxIndex \in Nat /\ MaxIndex \in 1 .. MaxIndex
  BY Table
<1>2. used <= FullFrameBits(i, 0)
  BY DEF LowestFit
<1>3. i <= j
  BY <1>1 DEF PaddedFit
<1>4. FullFrameBits(i, 0) <= FullFrameBits(j, 0)
  BY <1>3, FullBitsMonotone
<1>5. FullFrameBits(i, 0) \in Int /\ FullFrameBits(j, 0) \in Int
  BY FullBitsBound
<1> QED BY <1>2, <1>4, <1>5

\* What ResvFrameEnd drains before the frame is what main_data_begin gives up.
LEMMA DrainBefore ==
    ASSUME NEW old \in Nat, NEW new \in Nat, NEW pre \in Nat, NEW post \in Nat,
           NEW cap \in Int, NEW used \in Nat, NEW limit \in Nat,
           new <= old, pre = 8 * (old - new), 8 * old <= limit
    PROVE  /\ 8 * new <= limit
           /\ 8 * old = 8 * new + pre
           /\ 8 * old - used + cap - pre - post = 8 * new + cap - used - post
OBVIOUS

\* ResvFrameEnd leaves the invariant's parts on the reservoir in place.
LEMMA FrameBegun ==
    ASSUME TypeOK, Free = 8 * mainDataBegin, 8 * mainDataBegin <= ResvLimit,
           NEW resv \in Nat, NEW used \in Nat, NEW max \in Nat, NEW cap \in Nat,
           resv = 8 * mainDataBegin - used + cap, ThisCapacity' = cap,
           ResvMax' = max, max <= ResvLimit, max % 8 = 0,
           ResvFrameEnd(resv, max, used), Free' = Free
    PROVE  /\ Room' /\ Reservoir'
           /\ ResvSize' \in Int /\ mainDataBegin' \in Nat /\ todo' \in Nat
           /\ frame' \in [pre : Nat, main : Nat, post : Nat]
           /\ pc' = "pre"
<1>1. /\ ResvSize' \in 0 .. max /\ ResvSize' % 8 = 0
      /\ mainDataBegin' \in Nat /\ mainDataBegin' <= mainDataBegin
      /\ frame' \in [pre : Nat, main : Nat, post : Nat]
      /\ frame'.main = used
      /\ todo' = frame'.pre /\ todo' = 8 * (mainDataBegin - mainDataBegin')
      /\ ResvSize' = resv - frame'.pre - frame'.post
      /\ pc' = "pre"
  BY FrameEnd DEF TypeOK
<1>2. frame'.pre \in Nat /\ frame'.post \in Nat
  BY <1>1
<1>3. PICK new \in Nat, pre \in Nat, post \in Nat, size \in 0 .. max, old \in Nat, limit \in Nat :
        /\ mainDataBegin' = new /\ frame'.pre = pre /\ frame'.post = post
        /\ ResvSize' = size /\ mainDataBegin = old /\ ResvLimit = limit
  BY <1>1, <1>2, BitAssumption DEF TypeOK
<1>4. /\ new <= old /\ pre = 8 * (old - new) /\ 8 * old <= limit
      /\ size = resv - pre - post /\ resv = 8 * old - used + cap
      /\ size % 8 = 0
  BY <1>1, <1>3
<1>5. /\ 8 * new <= limit
      /\ 8 * old = 8 * new + pre
      /\ 8 * old - used + cap - pre - post = 8 * new + cap - used - post
  BY <1>4, DrainBefore
<1>6. Free' = 8 * new + pre /\ size = 8 * new + cap - used - post
  BY <1>3, <1>4, <1>5
<1>7. size \in Nat /\ size <= max
  OBVIOUS
<1>8. Room' BY <1>1, <1>3, <1>6 DEF Room, Rest
<1>9. Reservoir' BY <1>1, <1>3, <1>4, <1>5, <1>6, <1>7 DEF Reservoir, Rest
<1>10. ResvSize' \in Int /\ mainDataBegin' \in Nat /\ todo' \in Nat
  BY <1>1, <1>3, <1>7
<1> QED BY <1>1, <1>8, <1>9, <1>10

LEMMA VbrFrameInv ==
    ASSUME IInv, NEW used \in BitCounts, NEW silence \in BOOLEAN, VbrFrame(used, silence)
    PROVE  IInv'
<1>1. /\ TypeOK /\ pc = "idle" /\ vbr = "vbr_mtrh" /\ padding = 0 /\ Chain
      /\ Free = 8 * mainDataBegin /\ 8 * mainDataBegin <= ResvLimit
      /\ ResvSize = 8 * mainDataBegin
  BY DEF IInv, VbrFrame, NoPadding, Room, Reservoir, Rest
<1>2. used \in Nat /\ MinIndex \in 1 .. MaxIndex /\ 1 \in 1 .. MaxIndex
  BY BitAssumption, Table
<1>3. ResvSize \in Nat /\ mainDataBegin \in Nat
  BY <1>1 DEF TypeOK
<1>4. /\ used <= FullFrameBits(MaxIndex, 0)
      /\ flushed' = FALSE
      /\ UNCHANGED <<vbr, slotLag, padding, streamVars, gr>>
  BY DEF VbrFrame
<1> DEFINE start == IF silence /\ ~EnforceMin THEN 1 ELSE MinIndex
           pad == IF silence THEN 0 ELSE ResvMaxOf(MaxIndex, 0)
<1>5. PICK i \in 1 .. MaxIndex, j \in 1 .. MaxIndex :
        /\ LowestFit(i, start, used)
        /\ PaddedFit(j, i, pad, used)
        /\ bitrateIndex' = j
        /\ ResvMax' = ResvMaxOf(j, 0)
        /\ IF used <= FullFrameBits(j, 0)
           THEN ResvFrameEnd(ResvSize - used + Capacity(j, 0), ResvMaxOf(j, 0), used)
           ELSE pc' = "exit" /\ UNCHANGED <<ResvSize, mainDataBegin, frame, todo>>
  BY DEF VbrFrame
<1>6. start \in 1 .. MaxIndex /\ pad \in Nat
  <2>1. MaxIndex \in 0 .. MaxIndex /\ ResvLimit \in Nat BY Table, BitAssumption
  <2>2. ResvMaxOf(MaxIndex, 0) \in 0 .. ResvLimit BY <2>1, ResvMaxFacts
  <2> QED BY <1>2, <2>1, <2>2
<1> HIDE DEF start, pad
<1>7. used <= FullFrameBits(j, 0)
  BY <1>2, <1>3, <1>4, <1>5, <1>6, VbrFits
<1>8. ResvFrameEnd(ResvSize - used + Capacity(j, 0), ResvMax', used)
  BY <1>5, <1>7
<1>9. ResvMax' \in 0 .. ResvLimit /\ ResvMax' % 8 = 0 /\ ResvLimit \in Nat
  <2>1. j \in 0 .. MaxIndex BY Table
  <2> QED BY <2>1, <1>5, ResvMaxFacts, BitAssumption
<1>10. Capacity(j, 0) \in Nat /\ ThisCapacity' = Capacity(j, 0)
  <2>1. j \in 0 .. MaxIndex BY Table
  <2>2. padding' = 0 BY <1>1, <1>4
  <2> QED BY <2>1, <2>2, <1>5, FrameFacts DEF ThisCapacity
<1>11. ResvSize - used + Capacity(j, 0) \in Nat
  <2>1. FullFrameBits(j, 0) \in Int /\ FullFrameBits(j, 0) <= Capacity(j, 0) + ResvSize
    BY <1>3, FullBitsBound
  <2> QED BY <2>1, <1>2, <1>3, <1>7, <1>10
<1>12. Free' = Free /\ Chain'
  BY <1>1, <1>4, SameStream
<1>13. /\ Room' /\ Reservoir'
       /\ ResvSize' \in Int /\ mainDataBegin' \in Nat /\ todo' \in Nat
       /\ frame' \in [pre : Nat, main : Nat, post : Nat]
       /\ pc' = "pre"
  <2>7. PICK resv \in Nat : resv = ResvSize - used + Capacity(j, 0)
    BY <1>11
  <2>6. PICK cap \in Nat : cap = Capacity(j, 0) /\ ThisCapacity' = cap
    BY <1>10
  <2>1. resv = 8 * mainDataBegin - used + cap
    BY <2>7, <2>6, <1>1
  <2>2. PICK max \in Nat : ResvMax' = max
    BY <1>9
  <2>3. /\ max <= ResvLimit /\ max % 8 = 0
        /\ ResvFrameEnd(resv, max, used)
    BY <1>8, <1>9, <1>10, <2>7, <2>2
  <2>4. TypeOK /\ Free = 8 * mainDataBegin /\ 8 * mainDataBegin <= ResvLimit
    BY <1>1
  <2>5. used \in Nat /\ Free' = Free BY <1>2, <1>12
  <2> QED BY <2>6, <2>1, <2>2, <2>3, <2>4, <2>5, FrameBegun
<1>14. TypeOK'
  <2>1. bitrateIndex' \in 0 .. MaxIndex /\ bitrateIndex' # 0 BY <1>5, Table
  <2>2. ResvMax' \in Nat BY <1>9
  <2> QED BY <2>1, <2>2, <1>1, <1>4, <1>13 DEF TypeOK, streamVars
<1> QED
  <2>1. bitrateIndex' # 0 BY <1>5, Table
  <2>2. padding' = 0 BY <1>1, <1>4
  <2> QED
    BY <2>1, <2>2, <1>4, <1>12, <1>13, <1>14
       DEF IInv, Start, LastSlot, Flushing, NoPadding, Rest

\* The mean bits of the granules are the bits of the frame.
LEMMA Halves ==
    ASSUME NEW cap \in Nat, cap % 8 = 0, NEW g \in {1, 2}
    PROVE  cap \div g \in Nat /\ (cap \div g) * g = cap
<1>1. CASE g = 1 BY <1>1
<1>2. CASE g = 2 BY <1>2
<1> QED BY <1>1, <1>2

LEMMA CbrFrameInv == ASSUME IInv, CbrFrame PROVE IInv'
<1>1. /\ TypeOK /\ pc = "idle" /\ vbr = "vbr_off" /\ Chain
      /\ Free = 8 * mainDataBegin /\ 8 * mainDataBegin <= ResvLimit
      /\ ResvSize = 8 * mainDataBegin
  BY DEF IInv, CbrFrame, Room, Reservoir, Rest
<1>2. /\ bitrateIndex' = CbrIndex
      /\ ResvMax' = ResvMaxOf(CbrIndex, padding')
      /\ frame' = [pre |-> 0, main |-> 0, post |-> 0]
      /\ gr' = 0 /\ pc' = "granule" /\ flushed' = FALSE
      /\ UNCHANGED <<vbr, ResvSize, mainDataBegin, streamVars, todo>>
  BY DEF CbrFrame
<1>3. slotLag' \in 0 .. SampleRate - 1 /\ padding' \in {0, 1}
  <2>1. SampleRate \in Nat \ {0} /\ FracSpF \in 0 .. SampleRate - 1
    BY BitAssumption
  <2>2. slotLag \in 0 .. SampleRate - 1 BY <1>1 DEF TypeOK
  <2>3. PICK lag \in Int : lag = slotLag - FracSpF BY <2>1, <2>2
  <2>4. /\ slotLag' = IF lag < 0 THEN lag + SampleRate ELSE lag
        /\ padding' = IF lag < 0 THEN 1 ELSE 0
    BY <2>3 DEF CbrFrame
  <2> QED BY <2>1, <2>2, <2>3, <2>4
<1>4. CbrIndex \in 1 .. MaxIndex /\ CbrIndex # 0 /\ CbrIndex \in 0 .. MaxIndex
  BY Table
<1>5. PICK max \in 0 .. ResvLimit : ResvMax' = max /\ max % 8 = 0
  BY <1>2, <1>3, <1>4, ResvMaxFacts
<1>6. max \in Nat /\ max <= ResvLimit
  BY <1>5, BitAssumption
<1>7. Free' = Free /\ Chain'
  BY <1>1, <1>2, SameStream
<1>8. TypeOK'
  <2>1. gr' \in 0 .. Granules /\ frame' \in [pre : Nat, main : Nat, post : Nat]
    BY <1>2, BitAssumption
  <2> QED BY <2>1, <1>1, <1>2, <1>3, <1>4, <1>5, <1>6 DEF TypeOK, streamVars
<1>9. Room'
  BY <1>1, <1>2, <1>7 DEF Room, Rest
<1>10. Reservoir'
  <2>1. PICK old \in Nat : mainDataBegin = old /\ mainDataBegin' = old
    BY <1>1, <1>2 DEF TypeOK
  <2>2. ResvSize' = 8 * old /\ 8 * old <= ResvLimit
    BY <2>1, <1>1, <1>2
  <2>3. PICK mean \in Nat : mean = ThisCapacity' \div Granules
    <3>1. PICK cap \in Nat : cap = ThisCapacity' /\ cap % 8 = 0
      BY <1>2, <1>3, <1>4, FrameFacts DEF ThisCapacity
    <3>2. Granules \in {1, 2} BY BitAssumption
    <3>3. cap \div Granules \in Nat BY <3>1, <3>2, Halves
    <3> QED BY <3>1, <3>3
  <2>4. gr' * (ThisCapacity' \div Granules) = 0
    BY <2>3, <1>2
  <2>5. gr' < Granules BY <1>2, BitAssumption
  <2>6. frame'.main = 0 BY <1>2
  <2>7. 8 * old - 0 = 8 * old /\ 8 * old + 0 >= 0 BY <2>1
  <2> QED
    BY <2>1, <2>2, <2>4, <2>5, <2>6, <2>7, <1>2, <1>5, <1>6 DEF Reservoir, Rest
<1> QED
  BY <1>1, <1>2, <1>4, <1>7, <1>8, <1>9, <1>10
     DEF IInv, Start, LastSlot, Flushing, NoPadding, Rest

LEMMA GranuleInv ==
    ASSUME IInv, NEW used \in BitCounts, Granule(used)
    PROVE  IInv'
<1>1. /\ TypeOK /\ pc = "granule" /\ Chain /\ ~flushed /\ bitrateIndex # 0
      /\ Free = 8 * mainDataBegin /\ 8 * mainDataBegin <= ResvLimit
      /\ ResvSize = 8 * mainDataBegin - frame.main
      /\ gr < Granules /\ (gr = 0 => frame.main = 0)
      /\ ResvSize + gr * (ThisCapacity \div Granules) >= 0
      /\ ResvMax <= ResvLimit /\ ResvMax % 8 = 0
      /\ NoPadding
  BY DEF IInv, Granule, Room, Reservoir, Rest, Start, Flushing
<1>2. used \in Nat
  BY BitAssumption
<1>3. PICK mean \in Nat : mean = ThisCapacity \div Granules /\ mean * Granules = ThisCapacity
  <2>1. ThisCapacity \in Nat /\ ThisCapacity % 8 = 0 BY <1>1, Facts
  <2>2. Granules \in {1, 2} BY BitAssumption
  <2> QED BY <2>1, <2>2, Halves
<1>4. PICK total \in Nat : total = frame.main + used
  <2>1. frame.main \in Nat BY <1>1, Facts
  <2> QED BY <2>1, <1>2
<1>5. /\ used <= GranuleBits(ResvSize + gr * mean, mean)
      /\ IF gr + 1 < Granules
         THEN /\ ResvSize' = ResvSize - used
              /\ frame' = [frame EXCEPT !.main = total]
              /\ UNCHANGED <<mainDataBegin, pc, todo>>
         ELSE ResvFrameEnd(ResvSize - used + mean * Granules, ResvMax, total)
      /\ gr' = gr + 1
      /\ UNCHANGED <<rateVars, ResvMax, streamVars, flushed>>
  BY <1>3, <1>4 DEF Granule, ThisCapacity
<1>6. PICK resv \in Nat : resv = ResvSize + gr * mean
  BY <1>1, <1>3 DEF TypeOK
<1>7. used <= resv + mean
  <2>1. ResvMax \in Nat BY <1>1 DEF TypeOK
  <2>2. GranuleBits(resv, mean) \in Int /\ GranuleBits(resv, mean) <= resv + mean
    BY <2>1, GranuleBound
  <2>3. used <= GranuleBits(resv, mean) BY <1>5, <1>6
  <2> QED BY <2>2, <2>3, <1>2
<1>8. Free' = Free /\ Chain'
  BY <1>1, <1>5, SameStream
<1>9. ThisCapacity' = ThisCapacity
  BY <1>5 DEF ThisCapacity, rateVars
<1>10. gr' \in 0 .. Granules /\ gr \in Nat /\ Granules \in {1, 2}
  <2>1. Granules \in {1, 2} BY BitAssumption
  <2>2. gr \in 0 .. Granules BY <1>1 DEF TypeOK
  <2>3. gr < Granules /\ gr' = gr + 1 BY <1>1, <1>5
  <2> QED BY <2>1, <2>2, <2>3
<1>11. ResvSize \in Int /\ mainDataBegin \in Nat /\ frame \in [pre : Nat, main : Nat, post : Nat]
  BY <1>1 DEF TypeOK
<1>12. CASE gr + 1 < Granules
  <2>1. gr = 0 /\ Granules = 2 /\ gr' = 1
    BY <1>5, <1>10, <1>12
  <2>2. /\ ResvSize' = ResvSize - used
        /\ frame' = [frame EXCEPT !.main = total]
        /\ UNCHANGED <<mainDataBegin, pc, todo>>
    BY <1>5, <1>12
  <2>3. frame'.main = total /\ frame' \in [pre : Nat, main : Nat, post : Nat]
    BY <2>2, <1>11
  <2>4. ResvSize' \in Int
    BY <2>2, <1>2, <1>11
  <2>5. TypeOK'
    BY <2>2, <2>3, <2>4, <1>1, <1>5, <1>10 DEF TypeOK, rateVars, streamVars
  <2>6. Room'
    BY <2>2, <1>1, <1>8 DEF Room, Rest
  <2>7. Reservoir'
    <3>1. PICK old \in Nat, size \in Int, data \in Nat :
            old = mainDataBegin /\ size = ResvSize /\ data = frame.main
      BY <1>11
    <3>2. size = 8 * old - data /\ total = data + used /\ used <= resv + mean
          /\ resv = size + 0 * mean
      BY <3>1, <2>1, <1>1, <1>4, <1>6, <1>7
    <3>3. size - used = 8 * old - total /\ size - used + mean >= 0
      BY <3>2, <1>2
    <3>4. ResvSize' = size - used /\ mainDataBegin' = old /\ frame'.main = total
      BY <3>1, <2>2, <2>3
    <3>5. gr' * (ThisCapacity' \div Granules) = mean
      BY <2>1, <1>3, <1>9
    <3>6. ResvMax' <= ResvLimit /\ ResvMax' % 8 = 0 /\ 8 * mainDataBegin' <= ResvLimit
      BY <2>2, <1>1, <1>5
    <3> QED
      BY <3>3, <3>4, <3>5, <3>6, <2>1, <2>2, <1>1 DEF Reservoir, Rest
  <2> QED
    BY <2>2, <2>5, <2>6, <2>7, <1>1, <1>5, <1>8
       DEF IInv, Start, LastSlot, Flushing, NoPadding, Rest, rateVars
<1>13. CASE ~(gr + 1 < Granules)
  <2>1. PICK old \in Nat, size \in Int, data \in Nat, cap \in Nat, max \in Nat :
          /\ old = mainDataBegin /\ size = ResvSize /\ data = frame.main
          /\ cap = ThisCapacity /\ max = ResvMax
    <3>1. ThisCapacity \in Nat BY <1>1, Facts
    <3>2. ResvMax \in Nat BY <1>1 DEF TypeOK
    <3> QED BY <3>1, <3>2, <1>11
  <2>2. gr + 1 = Granules
    BY <1>1, <1>10, <1>13
  <2>3. gr * mean + mean = mean * Granules
    BY <2>2, <1>10
  <2>4. PICK rest \in Nat : rest = size - used + cap
    <3> DEFINE g == gr * mean
    <3>1. g \in Int BY <1>10
    <3>2. resv = size + g BY <2>1, <1>6
    <3>3. g + mean = cap BY <2>1, <2>3, <1>3
    <3> HIDE DEF g
    <3>4. size - used + cap \in Nat BY <3>1, <3>2, <3>3, <1>2, <1>7
    <3> QED BY <3>4
  <2>5. rest = 8 * old - total + cap
    BY <2>1, <2>4, <1>1, <1>2, <1>4
  <2>6. ResvFrameEnd(rest, max, total)
    BY <2>1, <2>4, <1>3, <1>5, <1>13
  <2>7. /\ rest = 8 * mainDataBegin - total + cap /\ ThisCapacity' = cap
        /\ ResvMax' = max /\ max <= ResvLimit /\ max % 8 = 0
    BY <2>1, <2>5, <1>1, <1>5, <1>9
  <2>8. /\ Room' /\ Reservoir'
        /\ ResvSize' \in Int /\ mainDataBegin' \in Nat /\ todo' \in Nat
        /\ frame' \in [pre : Nat, main : Nat, post : Nat]
        /\ pc' = "pre"
    BY <2>6, <2>7, <1>1, <1>8, FrameBegun
  <2>9. TypeOK'
    BY <2>8, <1>1, <1>5, <1>10 DEF TypeOK, rateVars, streamVars
  <2> QED
    BY <2>8, <2>9, <1>1, <1>5, <1>8
       DEF IInv, Start, LastSlot, Flushing, NoPadding, Rest, rateVars
<1> QED BY <1>12, <1>13

\* The parts of the invariant that a step of putbits2 leaves alone.
LEMMA WritingFacts ==
    ASSUME IInv, Writing
    PROVE  /\ TypeOK /\ bitrateIndex # 0 /\ ~Rest /\ pc # "granule" /\ pc # "exit"
           /\ Reservoir /\ Chain /\ Room /\ NoPadding /\ (pc = "flush" <=> flushed)
BY DEF IInv, Writing, Start, Flushing, Rest

LEMMA PutHeaderInv == ASSUME IInv, PutHeader PROVE IInv'
<1>1. /\ header # <<>> /\ header[1].timing = totbit /\ Writing
      /\ header' = Tail(header)
      /\ totbit' = totbit + SideBits
      /\ buffered' = buffered + SideBits
      /\ UNCHANGED <<rateVars, resvVars, lastTiming, nextTiming, pc, gr, todo, flushed>>
  BY DEF PutHeader, HeaderDue
<1>2. /\ TypeOK /\ bitrateIndex # 0 /\ ~Rest /\ pc # "granule" /\ pc # "exit"
      /\ Reservoir /\ Chain /\ Room /\ NoPadding /\ (pc = "flush" <=> flushed)
  BY <1>1, WritingFacts
<1>3. PICK n \in Nat : n = Len(header) /\ n >= 1
  BY <1>1, <1>2 DEF TypeOK
<1>4. /\ header \in Seq(Headers) /\ header' \in Seq(Headers)
      /\ Len(header') = n - 1
      /\ \A k \in 1 .. n - 1 : header'[k] = header[k + 1]
  BY <1>1, <1>2, <1>3 DEF TypeOK
<1>5. /\ totbit \in Nat /\ SideBits \in Nat /\ SideBits < MinFrame /\ MinFrame \in Nat
      /\ nextTiming \in Int /\ SideBits > 0 /\ lastTiming \in Int
  BY <1>2, Facts
<1>6. TypeOK'
  <2>1. totbit' \in Nat /\ buffered' \in Nat
    <3>1. buffered \in Nat BY <1>2 DEF TypeOK
    <3> QED BY <3>1, <1>1, <1>5
  <2> QED BY <2>1, <1>1, <1>2, <1>4 DEF TypeOK, rateVars, resvVars
<1>7. Chain'
  <2>1. ASSUME NEW k \in 1 .. n - 1
        PROVE  /\ header[k + 1].timing >= totbit + SideBits
               /\ header[k + 1].timing + ((n - 1) - k + 1) * MinFrame <= nextTiming
    <3>1. 1 \in 1 .. n /\ k + 1 \in 1 .. n /\ 1 < k + 1
      BY <1>3
    <3>2. header[1].timing + MinFrame <= header[k + 1].timing
      BY <3>1, <1>2, <1>3 DEF Chain
    <3>3. header[k + 1].timing \in Int
      BY <3>1, <1>3, <1>4, HeaderFacts
    <3>4. header[k + 1].timing >= totbit + SideBits
      BY <3>2, <3>3, <1>1, <1>5
    <3>5. header[k + 1].timing + (n - (k + 1) + 1) * MinFrame <= nextTiming
      BY <3>1, <1>2, <1>3 DEF Chain
    <3>6. n - (k + 1) + 1 = (n - 1) - k + 1
      BY <1>3
    <3> QED BY <3>4, <3>5, <3>6
  <2>2. ASSUME NEW k \in 1 .. n - 1, NEW r \in 1 .. n - 1, k < r
        PROVE  header[k + 1].timing + MinFrame <= header[r + 1].timing
    <3>1. k + 1 \in 1 .. n /\ r + 1 \in 1 .. n /\ k + 1 < r + 1
      BY <1>3, <2>2
    <3> QED BY <3>1, <1>2, <1>3 DEF Chain
  <2>3. MinFrame' = MinFrame /\ nextTiming' = nextTiming /\ totbit' = totbit + SideBits
    BY <1>1 DEF MinFrame
  <2> QED BY <2>1, <2>2, <2>3, <1>4 DEF Chain
<1>8. Free' = Free
  <2>1. (n - 1) * SideBits = n * SideBits - SideBits
    BY <1>5, OneLess
  <2>2. PICK b \in Int : b = n * SideBits
    BY <1>5
  <2>3. /\ Free = nextTiming - totbit - b
        /\ Free' = nextTiming - (totbit + SideBits) - (b - SideBits)
    <3>1. SideBits' = SideBits BY DEF SideBits
    <3> QED BY <3>1, <2>1, <2>2, <1>1, <1>3, <1>4 DEF Free
  <2> QED BY <2>3, <1>5
<1>9. Room' /\ Reservoir' /\ NoPadding'
  <2>1. ThisCapacity' = ThisCapacity BY <1>1 DEF ThisCapacity, rateVars
  <2>2. Room' BY <2>1, <1>1, <1>2, <1>8 DEF Room, Rest, resvVars
  <2>3. Reservoir' BY <2>1, <1>1, <1>2 DEF Reservoir, Rest, resvVars
  <2>4. NoPadding' BY <1>1, <1>2 DEF NoPadding, rateVars
  <2> QED BY <2>2, <2>3, <2>4
<1>10. LastSlot'
  <2>1. ThisFrame' = ThisFrame BY <1>1 DEF ThisFrame, rateVars
  <2>2. CASE header' = <<>>
    <3>1. n = 1
      <4>1. Len(header') = 0 BY <2>2
      <4>2. n - 1 = 0 BY <4>1, <1>4
      <4> QED BY <4>2, <1>3
    <3>2. pc \in {"main", "post", "flush"} =>
            nextTiming = lastTiming + ThisFrame /\ header[1].timing = lastTiming
      BY <3>1, <1>1, <1>2, <1>3 DEF IInv, LastSlot
    <3>3. header[1].timing = lastTiming => lastTiming' < totbit'
      BY <1>1, <1>5
    <3>4. ~Rest' BY <1>1, <1>2 DEF Rest
    <3> QED BY <2>1, <2>2, <3>2, <3>3, <3>4, <1>1 DEF LastSlot
  <2>3. CASE header' # <<>>
    <3>1. n - 1 \in 1 .. n - 1 /\ (n - 1) + 1 = n
      BY <2>3, <1>3, <1>4
    <3>2. header'[Len(header')] = header[Len(header)]
      BY <3>1, <1>3, <1>4
    <3>3. LastSlot /\ ~Rest' /\ ~Rest BY <1>1, <1>2 DEF IInv, Rest
    <3> QED BY <2>1, <2>3, <3>2, <3>3, <1>1 DEF LastSlot, rateVars, resvVars
  <2> QED BY <2>2, <2>3
<1> QED
  BY <1>1, <1>2, <1>6, <1>7, <1>8, <1>9, <1>10 DEF IInv, Start, Flushing, Rest, rateVars

LEMMA PutBitsInv == ASSUME IInv, PutBits PROVE IInv'
<1>1. /\ Writing /\ todo > 0 /\ (header = <<>> \/ header[1].timing # totbit)
      /\ UNCHANGED <<rateVars, resvVars, header, lastTiming, nextTiming, pc, gr, flushed>>
  BY DEF PutBits, HeaderDue
<1>2. /\ TypeOK /\ bitrateIndex # 0 /\ ~Rest /\ pc # "granule" /\ pc # "exit"
      /\ Reservoir /\ Chain /\ Room /\ NoPadding /\ (pc = "flush" <=> flushed)
  BY <1>1, WritingFacts
<1>3. header \in Seq(Headers) /\ (header # <<>> => 1 \in 1 .. Len(header))
  BY <1>2 DEF TypeOK
<1>4. header # <<>> => header[1].timing > totbit /\ header[1].timing \in Int
  <2> SUFFICES ASSUME header # <<>> PROVE header[1].timing > totbit /\ header[1].timing \in Int
    OBVIOUS
  <2>1. header[1].timing \in Int BY <1>3, HeaderFacts
  <2>2. header[1].timing >= totbit BY <1>2, <1>3 DEF Chain
  <2>3. totbit \in Int /\ header[1].timing # totbit BY <1>1, <1>2, Facts
  <2> QED BY <2>1, <2>2, <2>3
<1>5. PICK n \in Nat :
        /\ n <= todo
        /\ header # <<>> => totbit + n <= header[1].timing
        /\ totbit' = totbit + n /\ buffered' = buffered + n /\ todo' = todo - n
  <2> DEFINE m == IF header # <<>> /\ header[1].timing > totbit
                  THEN Lower(todo, header[1].timing - totbit) ELSE todo
  <2>1. totbit \in Nat /\ todo \in Nat BY <1>2, Facts
  <2>2. totbit' = totbit + m /\ buffered' = buffered + m /\ todo' = todo - m
    BY DEF PutBits
  <2>3. m \in Nat /\ m <= todo /\ (header # <<>> => totbit + m <= header[1].timing)
    BY <2>1, <1>4 DEF Lower
  <2> QED BY <2>2, <2>3
<1>6. /\ totbit \in Nat /\ todo \in Nat /\ buffered \in Nat /\ nextTiming \in Int
      /\ MinFrame \in Nat /\ Len(header) \in Nat /\ lastTiming \in Int /\ SideBits \in Nat
  BY <1>2, Facts DEF TypeOK
<1>7. TypeOK'
  <2>1. totbit' \in Nat /\ buffered' \in Nat /\ todo' \in Nat
    BY <1>5, <1>6
  <2> QED BY <2>1, <1>1, <1>2 DEF TypeOK, rateVars, resvVars
<1>8. Chain'
  <2>1. ASSUME NEW k \in 1 .. Len(header) PROVE header[k].timing >= totbit + n
    <3>1. header # <<>> /\ 1 \in 1 .. Len(header) BY <1>3
    <3>2. header[1].timing \in Int /\ header[k].timing \in Int BY <3>1, <1>3, HeaderFacts
    <3>3. CASE k = 1 BY <3>1, <3>2, <3>3, <1>5
    <3>4. CASE k # 1
      <4>1. 1 < k BY <3>4, <1>6
      <4>2. header[1].timing + MinFrame <= header[k].timing
        BY <4>1, <3>1, <1>2 DEF Chain
      <4> QED BY <4>2, <3>1, <3>2, <1>5, <1>6
    <3> QED BY <3>3, <3>4
  <2>2. MinFrame' = MinFrame BY DEF MinFrame
  <2> QED BY <2>1, <2>2, <1>1, <1>2, <1>5 DEF Chain
<1>9. Free' = Free - n /\ Free \in Int
  <2>1. PICK b \in Int : b = Len(header) * SideBits
    BY <1>6
  <2>2. Free = nextTiming - totbit - b /\ Free' = nextTiming - (totbit + n) - b
    <3>1. SideBits' = SideBits BY DEF SideBits
    <3> QED BY <3>1, <2>1, <1>1, <1>5 DEF Free
  <2> QED BY <2>2, <1>6
<1>10. ThisCapacity' = ThisCapacity /\ ThisFrame' = ThisFrame
  BY <1>1 DEF ThisCapacity, ThisFrame, rateVars
<1>11. Room'
  <2>1. PICK f \in Int, old \in Nat, size \in Nat, cap \in Nat, data \in Nat, post \in Nat :
          /\ f = Free /\ old = mainDataBegin /\ size = todo /\ cap = ThisCapacity
          /\ data = frame.main /\ post = frame.post
    BY <1>2, <1>9, Facts
  <2>2. /\ Free' = f - n /\ todo' = size - n /\ mainDataBegin' = old /\ pc' = pc
        /\ ThisCapacity' = cap /\ frame'.main = data /\ frame'.post = post
    BY <2>1, <1>1, <1>5, <1>9, <1>10 DEF resvVars
  <2>3. /\ pc = "pre" => f = 8 * old + size
        /\ pc = "main" => f = 8 * old + cap - data + size
        /\ pc = "post" => f = 8 * old + cap - data - post + size
        /\ pc = "flush" => f = size
    BY <2>1, <1>2 DEF Room
  <2>4. /\ pc = "pre" => f - n = 8 * old + (size - n)
        /\ pc = "main" => f - n = 8 * old + cap - data + (size - n)
        /\ pc = "post" => f - n = 8 * old + cap - data - post + (size - n)
        /\ pc = "flush" => f - n = size - n
    BY <2>3
  <2>5. ~Rest' /\ pc' # "granule" BY <1>1, <1>2 DEF Rest
  <2> QED BY <2>2, <2>4, <2>5 DEF Room
<1>12. Reservoir' /\ NoPadding'
  BY <1>1, <1>2, <1>10 DEF Reservoir, NoPadding, Rest, resvVars, rateVars
<1>13. LastSlot'
  <2>1. lastTiming < totbit => lastTiming' < totbit'
    BY <1>1, <1>5, <1>6
  <2>2. LastSlot BY DEF IInv
  <2> QED BY <2>1, <2>2, <1>1, <1>10 DEF LastSlot, Rest, rateVars, resvVars
<1> QED
  BY <1>1, <1>2, <1>7, <1>8, <1>11, <1>12, <1>13 DEF IInv, Start, Flushing, Rest, rateVars

LEMMA EncodeSideInfoInv ==
    ASSUME IInv, RingAssumption, EncodeSideInfo
    PROVE  IInv'
<1>1. /\ pc = "pre" /\ todo = 0
      /\ lastTiming' = nextTiming
      /\ nextTiming' = nextTiming + ThisFrame
      /\ todo' = frame.main /\ pc' = "main"
      /\ UNCHANGED <<rateVars, resvVars, totbit, buffered, gr, flushed>>
  BY DEF EncodeSideInfo, ThisFrame
<1>2. /\ TypeOK /\ bitrateIndex # 0 /\ Reservoir /\ Chain /\ Room /\ NoPadding /\ ~flushed
  BY <1>1, WritingFacts DEF Writing
<1> DEFINE h == [timing |-> nextTiming, mdb |-> mainDataBegin]
<1>3. PICK n \in Nat : n = Len(header)
  BY <1>2, Facts
<1>4. header' = Append(header, h)
  <2>1. RingNotFull BY RingHasRoom
  <2>2. Len(header) + 1 # HeaderBuf
    <3>1. Len(header) + 1 < HeaderBuf /\ HeaderBuf \in Nat
      BY <2>1, <1>1, BitAssumption DEF RingNotFull
    <3> QED BY <3>1, <1>3
  <2> QED BY <2>2 DEF EncodeSideInfo
<1>5. /\ totbit \in Nat /\ nextTiming \in Int /\ mainDataBegin \in Nat /\ frame.main \in Nat
      /\ ThisFrame \in Nat /\ ThisFrame >= MinFrame /\ MinFrame \in Nat /\ SideBits \in Nat
      /\ ThisCapacity = ThisFrame - SideBits /\ ThisCapacity \in Nat
  BY <1>2, Facts
<1>6. header \in Seq(Headers) /\ h \in Headers
  BY <1>2, <1>5 DEF TypeOK, Headers
<1> HIDE DEF h
<1>7. /\ header' \in Seq(Headers) /\ Len(header') = n + 1 /\ header' # <<>>
      /\ \A k \in 1 .. n : header'[k] = header[k]
      /\ header'[n + 1] = h
  BY <1>3, <1>4, <1>6
<1>8. h.timing = nextTiming /\ h.mdb = mainDataBegin
  BY DEF h
<1>9. TypeOK'
  <2>1. lastTiming' \in Int /\ nextTiming' \in Int /\ todo' \in Nat
    BY <1>1, <1>5
  <2> QED BY <2>1, <1>1, <1>2, <1>7 DEF TypeOK, rateVars, resvVars
<1>10. Chain'
  <2>1. totbit <= nextTiming
    BY RoomForHeaders
  <2>2. ASSUME NEW k \in 1 .. n
        PROVE  /\ header[k].timing >= totbit
               /\ header[k].timing + ((n + 1) - k + 1) * MinFrame <= nextTiming + ThisFrame
               /\ header[k].timing + MinFrame <= nextTiming
    <3>1. PICK t \in Int : t = header[k].timing
      BY <1>3, <1>6, HeaderFacts
    <3>2. PICK c \in Nat : c = n - k
      <4>1. n \in Nat /\ k \in Nat /\ k <= n OBVIOUS
      <4>2. n - k \in Nat BY <4>1
      <4> QED BY <4>2
    <3>3. t >= totbit /\ t + (n - k + 1) * MinFrame <= nextTiming
      BY <3>1, <1>2, <1>3 DEF Chain
    <3>4. PICK m \in Nat : m = c * MinFrame
      BY <3>2, <1>5
    <3>5. (c + 1) * MinFrame = m + MinFrame /\ (c + 2) * MinFrame = m + MinFrame + MinFrame
      <4>1. (c + 1) * MinFrame = m + MinFrame BY <3>4, <1>5, OneMore
      <4>2. ((c + 1) + 1) * MinFrame = (c + 1) * MinFrame + MinFrame BY <1>5, OneMore
      <4>3. (c + 1) + 1 = c + 2 OBVIOUS
      <4> QED BY <4>1, <4>2, <4>3
    <3>6. n - k + 1 = c + 1 /\ (n + 1) - k + 1 = c + 2
      BY <3>2, <1>3
    <3>7. t + m + MinFrame <= nextTiming
      BY <3>3, <3>5, <3>6, <1>5
    <3>8. /\ t + (m + MinFrame + MinFrame) <= nextTiming + ThisFrame
          /\ t + MinFrame <= nextTiming
      BY <3>7, <1>5
    <3> QED BY <3>1, <3>3, <3>5, <3>6, <3>8
  <2>3. nextTiming + ((n + 1) - (n + 1) + 1) * MinFrame <= nextTiming + ThisFrame
    <3>1. (n + 1) - (n + 1) + 1 = 1 /\ 1 * MinFrame = MinFrame
      BY <1>5
    <3> QED BY <3>1, <1>5
  <2>4. ASSUME NEW k \in 1 .. n + 1
        PROVE  /\ header'[k].timing >= totbit
               /\ header'[k].timing + ((n + 1) - k + 1) * MinFrame <= nextTiming + ThisFrame
    <3>1. CASE k = n + 1 BY <3>1, <2>1, <2>3, <1>5, <1>7, <1>8
    <3>2. CASE k # n + 1
      <4>1. k \in 1 .. n BY <3>2, <1>3
      <4> QED BY <4>1, <2>2, <1>7
    <3> QED BY <3>1, <3>2
  <2>5. ASSUME NEW k \in 1 .. n + 1, NEW r \in 1 .. n + 1, k < r
        PROVE  header'[k].timing + MinFrame <= header'[r].timing
    <3>1. k \in 1 .. n BY <2>5
    <3>2. CASE r = n + 1 BY <3>1, <3>2, <2>2, <1>7, <1>8
    <3>3. CASE r # n + 1
      <4>1. r \in 1 .. n BY <3>3
      <4>2. header[k].timing + MinFrame <= header[r].timing
        BY <3>1, <4>1, <2>5, <1>2, <1>3 DEF Chain
      <4> QED BY <4>1, <4>2, <3>1, <1>7
    <3> QED BY <3>2, <3>3
  <2>6. MinFrame' = MinFrame /\ totbit' = totbit /\ nextTiming' = nextTiming + ThisFrame
    BY <1>1 DEF MinFrame
  <2> QED BY <2>4, <2>5, <2>6, <1>7 DEF Chain
<1>11. ThisFrame' = ThisFrame /\ ThisCapacity' = ThisCapacity
  BY <1>1 DEF ThisFrame, ThisCapacity, rateVars
<1>12. Room'
  <2>1. Free = 8 * mainDataBegin + 0
    BY <1>1, <1>2 DEF Room
  <2>2. PICK b \in Int : b = n * SideBits
    BY <1>5
  <2>3. (n + 1) * SideBits = b + SideBits
    BY <2>2, <1>5, OneMore
  <2>4. Free = nextTiming - totbit - b
    BY <2>2, <1>3 DEF Free
  <2>5. Free' = (nextTiming + ThisFrame) - totbit - (b + SideBits)
    <3>1. SideBits' = SideBits BY DEF SideBits
    <3> QED BY <3>1, <2>3, <1>1, <1>7 DEF Free
  <2>6. PICK old \in Nat, data \in Nat, cap \in Nat, next \in Int, bits \in Nat, len \in Nat, side \in Nat :
          /\ old = mainDataBegin /\ data = frame.main /\ cap = ThisCapacity
          /\ next = nextTiming /\ bits = totbit /\ len = ThisFrame /\ side = SideBits
    BY <1>5
  <2>7. Free' = 8 * old + cap - data + data
    <3>1. next - bits - b = 8 * old + 0 /\ cap = len - side
      BY <2>1, <2>4, <2>6, <1>5
    <3>2. (next + len) - bits - (b + side) = 8 * old + cap - data + data
      BY <3>1
    <3> QED BY <3>2, <2>5, <2>6
  <2>8. mainDataBegin' = old /\ frame'.main = data /\ todo' = data /\ ThisCapacity' = cap
    BY <2>6, <1>1, <1>11 DEF resvVars
  <2> QED BY <2>7, <2>8, <1>1 DEF Room, Rest
<1>13. Reservoir' /\ NoPadding'
  BY <1>1, <1>2, <1>11 DEF Reservoir, NoPadding, Rest, resvVars, rateVars
<1>14. LastSlot'
  <2>1. header'[Len(header')].timing = lastTiming' /\ header'[Len(header')].mdb = mainDataBegin
    BY <1>1, <1>7, <1>8
  <2> QED BY <2>1, <1>1, <1>7, <1>11 DEF LastSlot, resvVars
<1> QED
  BY <1>1, <1>2, <1>9, <1>10, <1>12, <1>13, <1>14 DEF IInv, Start, Flushing, Rest, rateVars

LEMMA DrainPostInv == ASSUME IInv, DrainPost PROVE IInv'
<1>1. /\ pc = "main" /\ todo = 0 /\ todo' = frame.post /\ pc' = "post"
      /\ UNCHANGED <<rateVars, resvVars, streamVars, gr, flushed>>
  BY DEF DrainPost
<1>2. /\ TypeOK /\ bitrateIndex # 0 /\ Reservoir /\ Chain /\ Room /\ NoPadding /\ ~flushed
  BY <1>1, WritingFacts DEF Writing
<1>3. Free' = Free /\ Chain' /\ ThisCapacity' = ThisCapacity /\ ThisFrame' = ThisFrame
  BY <1>1, <1>2, SameStream DEF ThisCapacity, ThisFrame, rateVars
<1>4. TypeOK'
  <2>1. todo' \in Nat BY <1>1, <1>2, Facts
  <2> QED BY <2>1, <1>1, <1>2 DEF TypeOK, rateVars, resvVars, streamVars
<1>5. Room'
  <2>1. PICK old \in Nat, data \in Nat, cap \in Nat, post \in Nat :
          /\ old = mainDataBegin /\ data = frame.main /\ cap = ThisCapacity
          /\ post = frame.post
    BY <1>2, Facts
  <2>2. Free = 8 * old + cap - data + 0
    BY <2>1, <1>1, <1>2 DEF Room
  <2>3. Free' = 8 * old + cap - data - post + post
    BY <2>2, <1>3
  <2>4. /\ mainDataBegin' = old /\ frame'.main = data /\ frame'.post = post
        /\ todo' = post /\ ThisCapacity' = cap
    BY <2>1, <1>1, <1>3 DEF resvVars
  <2> QED BY <2>3, <2>4, <1>1 DEF Room, Rest
<1>6. Reservoir' /\ NoPadding'
  BY <1>1, <1>2, <1>3 DEF Reservoir, NoPadding, Rest, resvVars, rateVars
<1>7. LastSlot'
  <2>1. LastSlot BY DEF IInv
  <2> QED BY <2>1, <1>1, <1>3 DEF LastSlot, Rest, rateVars, streamVars
<1> QED
  BY <1>1, <1>2, <1>3, <1>4, <1>5, <1>6, <1>7 DEF IInv, Start, Flushing, Rest, rateVars

LEMMA FinishFrameInv == ASSUME IInv, FinishFrame PROVE IInv'
<1>1. /\ pc = "post" /\ todo = 0 /\ pc' = "copy"
      /\ mainDataBegin' =
           mainDataBegin + (ThisCapacity - frame.main - frame.post) \div 8
      /\ ResvSize' = 8 * mainDataBegin'
      /\ UNCHANGED <<rateVars, ResvMax, frame, buffered, gr, todo, flushed>>
  BY DEF FinishFrame, ThisCapacity
<1>2. /\ TypeOK /\ bitrateIndex # 0 /\ Reservoir /\ Chain /\ Room /\ NoPadding /\ ~flushed
      /\ LastSlot
  BY <1>1, WritingFacts DEF Writing, IInv
<1>3. ThisCapacity' = ThisCapacity /\ ThisFrame' = ThisFrame
  BY <1>1 DEF ThisCapacity, ThisFrame, rateVars
<1>4. PICK old \in Nat, size \in Nat, max \in Nat, limit \in Nat, data \in Nat, cap \in Nat,
           post \in Nat :
        /\ old = mainDataBegin /\ size = ResvSize /\ max = ResvMax /\ limit = ResvLimit
        /\ data = frame.main /\ cap = ThisCapacity /\ post = frame.post
  <2>1. ResvSize \in Nat BY <1>1, <1>2, Facts DEF Reservoir
  <2> QED BY <2>1, <1>2, Facts
<1>5. size = 8 * old + cap - data - post /\ size <= max /\ max <= limit /\ size % 8 = 0
  BY <1>1, <1>2, <1>4 DEF Reservoir
<1>6. PICK new \in Nat : mainDataBegin' = new /\ 8 * new = size
  <2>1. cap - data - post = size - 8 * old
    BY <1>5
  <2>2. 8 * (old + (size - 8 * old) \div 8) = size /\ old + (size - 8 * old) \div 8 \in Nat
    BY <1>5
  <2>3. mainDataBegin' = old + (size - 8 * old) \div 8
    BY <2>1, <1>1, <1>4
  <2> QED BY <2>2, <2>3
<1>7. PICK d \in Int :
        /\ header' \in Seq(Headers) /\ Len(header') = Len(header)
        /\ \A k \in 1 .. Len(header) : header'[k].timing = header[k].timing + d
        /\ totbit' = totbit + d /\ nextTiming' = nextTiming + d /\ lastTiming' = lastTiming + d
        /\ totbit' \in Nat
  <2>1. /\ totbit \in Nat /\ nextTiming \in Int /\ lastTiming \in Int
        /\ header \in Seq(Headers)
    BY <1>2 DEF TypeOK
  <2>2. \A k \in 1 .. Len(header) :
          header[k] \in Headers /\ header[k].timing \in Int
    BY <2>1, HeaderFacts
  <2>3. CASE totbit > TotbitLimit
    <3>1. /\ totbit' = 0
          /\ nextTiming' = nextTiming - totbit /\ lastTiming' = lastTiming - totbit
          /\ header' = [k \in 1 .. Len(header) |-> [header[k] EXCEPT !.timing = @ - totbit]]
      BY <2>3 DEF FinishFrame
    <3>2. ASSUME NEW k \in 1 .. Len(header)
          PROVE  /\ header'[k] \in Headers
                 /\ header'[k].timing = header[k].timing + (0 - totbit)
      <4>1. header'[k] = [header[k] EXCEPT !.timing = @ - totbit] BY <3>1
      <4>2. PICK t \in Int, m \in Int : header[k] = [timing |-> t, mdb |-> m]
        BY <2>2 DEF Headers
      <4>3. header'[k] = [timing |-> t - totbit, mdb |-> m]
        BY <4>1, <4>2
      <4> QED BY <4>2, <4>3, <2>1 DEF Headers
    <3>3. header' \in Seq(Headers) /\ Len(header') = Len(header)
      <4>1. Len(header) \in Nat BY <2>1
      <4>2. header' \in [1 .. Len(header) -> Headers]
        BY <3>1, <3>2
      <4> QED BY <4>1, <4>2
    <3>4. /\ totbit' = totbit + (0 - totbit) /\ totbit' \in Nat
          /\ nextTiming' = nextTiming + (0 - totbit) /\ lastTiming' = lastTiming + (0 - totbit)
      BY <3>1, <2>1
    <3>5. 0 - totbit \in Int BY <2>1
    <3> QED BY <3>2, <3>3, <3>4, <3>5
  <2>4. CASE ~(totbit > TotbitLimit)
    <3>1. UNCHANGED <<totbit, nextTiming, lastTiming, header>>
      BY <2>4 DEF FinishFrame
    <3>2. /\ \A k \in 1 .. Len(header) : header[k].timing = header[k].timing + 0
          /\ totbit = totbit + 0 /\ nextTiming = nextTiming + 0 /\ lastTiming = lastTiming + 0
      BY <2>1, <2>2
    <3> QED BY <3>1, <3>2, <2>1
  <2> QED BY <2>3, <2>4
<1>8. Free' = Free /\ Chain' /\ (header' = <<>> <=> header = <<>>)
  BY <1>2, <1>7, Shift
<1>9. TypeOK'
  <2>1. /\ nextTiming' \in Int /\ lastTiming' \in Int
        /\ mainDataBegin' \in Nat /\ ResvSize' \in Int
    <3>1. nextTiming \in Int /\ lastTiming \in Int BY <1>2, Facts
    <3>2. ResvSize' = size BY <1>1, <1>6
    <3> QED BY <3>1, <3>2, <1>6, <1>7
  <2> QED BY <2>1, <1>1, <1>2, <1>7 DEF TypeOK, rateVars
<1>10. Room'
  <2>1. Free = 8 * old + cap - data - post + 0
    BY <1>1, <1>2, <1>4 DEF Room
  <2>2. Free' = 8 * new
    BY <2>1, <1>5, <1>6, <1>8
  <2> QED BY <2>2, <1>1, <1>6 DEF Room, Rest
<1>11. Reservoir'
  <2>1. 8 * new <= max /\ 8 * new <= limit BY <1>5, <1>6
  <2> QED BY <2>1, <1>1, <1>2, <1>4, <1>6 DEF Reservoir, Rest
<1>12. LastSlot'
  <2>1. /\ nextTiming = lastTiming + ThisFrame
        /\ IF header = <<>> THEN lastTiming < totbit
           ELSE header[Len(header)].timing = lastTiming
    BY <1>1, <1>2 DEF LastSlot
  <2>2. /\ nextTiming \in Int /\ lastTiming \in Int /\ totbit \in Int /\ ThisFrame \in Int
    BY <1>2, Facts
  <2>3. nextTiming' = lastTiming' + ThisFrame
    BY <2>1, <2>2, <1>7
  <2>4. CASE header = <<>>
    <3>1. lastTiming' < totbit' BY <2>1, <2>2, <2>4, <1>7
    <3> QED BY <3>1, <2>3, <2>4, <1>1, <1>3, <1>8 DEF LastSlot
  <2>5. CASE header # <<>>
    <3>1. Len(header) \in 1 .. Len(header) BY <2>5, <1>2 DEF TypeOK
    <3>2. header'[Len(header)].timing = header[Len(header)].timing + d BY <3>1, <1>7
    <3>3. header'[Len(header')].timing = lastTiming' BY <3>2, <2>1, <2>5, <1>7
    <3> QED BY <3>3, <2>3, <2>5, <1>1, <1>3, <1>8 DEF LastSlot
  <2> QED BY <2>4, <2>5
<1> QED
  BY <1>1, <1>2, <1>8, <1>9, <1>10, <1>11, <1>12
     DEF IInv, Start, Flushing, NoPadding, Rest, rateVars

LEMMA FlushInv == ASSUME IInv, Flush PROVE IInv'
<1>1. /\ pc = "idle" /\ Rest
      /\ IF FlushBits < 0
         THEN pc' = "copy" /\ UNCHANGED <<todo, flushed>>
         ELSE pc' = "flush" /\ todo' = FlushBits /\ flushed' = TRUE
      /\ UNCHANGED <<rateVars, resvVars, streamVars, gr>>
  BY DEF Flush, Rest
<1>2. TypeOK /\ Chain /\ Room /\ Reservoir /\ LastSlot /\ NoPadding
  BY DEF IInv
<1>3. Free' = Free /\ Chain' /\ ThisCapacity' = ThisCapacity /\ ThisFrame' = ThisFrame
  BY <1>1, <1>2, SameStream DEF ThisCapacity, ThisFrame, rateVars
<1>4. CASE bitrateIndex = 0
  <2>1. pc' = "copy" /\ UNCHANGED <<todo, flushed>>
    BY <1>1, <1>4, FlushAtStart
  <2>2. TypeOK' BY <2>1, <1>1, <1>2 DEF TypeOK, rateVars, resvVars, streamVars
  <2>3. Start' /\ Flushing'
    BY <2>1, <1>1, <1>4 DEF IInv, Start, Flushing, Rest, rateVars, resvVars, streamVars
  <2>4. Room' BY <2>1, <1>1, <1>2, <1>3 DEF Room, Rest, resvVars
  <2>5. Reservoir' BY <2>1, <1>1, <1>2, <1>3 DEF Reservoir, Rest, resvVars
  <2>6. LastSlot'
    BY <2>1, <1>1, <1>2, <1>3 DEF LastSlot, Rest, rateVars, streamVars
  <2> QED
    BY <2>1, <2>2, <2>3, <2>4, <2>5, <2>6, <1>1, <1>2, <1>3 DEF IInv, NoPadding, rateVars
<1>5. CASE bitrateIndex # 0
  <2>1. FlushBits = 8 * mainDataBegin
    BY <1>1, <1>5, FlushAtRest
  <2>2. PICK old \in Nat : old = mainDataBegin
    BY <1>2 DEF TypeOK
  <2>3. PICK bits \in Nat : bits = FlushBits /\ bits = 8 * old
    BY <2>1, <2>2
  <2>4. pc' = "flush" /\ todo' = bits /\ flushed' = TRUE
    BY <2>3, <1>1
  <2>5. TypeOK'
    BY <2>4, <1>1, <1>2 DEF TypeOK, rateVars, resvVars, streamVars
  <2>6. Room'
    <3>1. Free' = bits BY <2>2, <2>3, <1>1, <1>2, <1>3 DEF Room
    <3> QED BY <3>1, <2>4 DEF Room, Rest
  <2>7. Reservoir'
    BY <2>4, <1>1, <1>2 DEF Reservoir, Rest, resvVars
  <2>8. LastSlot'
    BY <2>4, <1>1, <1>2, <1>3 DEF LastSlot, Rest, rateVars, streamVars
  <2> QED
    BY <2>4, <2>5, <2>6, <2>7, <2>8, <1>1, <1>2, <1>3, <1>5
       DEF IInv, Start, Flushing, NoPadding, Rest, rateVars
<1> QED BY <1>4, <1>5

LEMMA FlushDoneInv == ASSUME IInv, FlushDone PROVE IInv'
<1>1. /\ pc = "flush" /\ todo = 0 /\ ResvSize' = 0 /\ mainDataBegin' = 0 /\ pc' = "copy"
      /\ UNCHANGED <<rateVars, ResvMax, frame, streamVars, gr, todo, flushed>>
  BY DEF FlushDone
<1>2. /\ TypeOK /\ bitrateIndex # 0 /\ Reservoir /\ Chain /\ Room /\ NoPadding /\ flushed
      /\ LastSlot
  BY <1>1, WritingFacts DEF Writing, IInv
<1>3. Free' = Free /\ Chain' /\ ThisCapacity' = ThisCapacity /\ ThisFrame' = ThisFrame
  BY <1>1, <1>2, SameStream DEF ThisCapacity, ThisFrame, rateVars
<1>4. Free = 0
  BY <1>1, <1>2 DEF Room
<1>5. header = <<>> /\ totbit = nextTiming
  <2>1. PICK n \in Nat, gap \in Nat : n = Len(header) /\ gap = MinFrame - SideBits /\ gap > 0
    <3>1. /\ Len(header) \in Nat
          /\ MinFrame \in Nat /\ SideBits \in Nat /\ SideBits < MinFrame
      BY <1>2, Facts
    <3>2. MinFrame - SideBits \in Nat /\ MinFrame - SideBits > 0 BY <3>1
    <3> QED BY <3>1, <3>2
  <2>2. n * gap <= 0
    <3>1. Len(header) * (MinFrame - SideBits) <= Free BY RoomForHeaders
    <3> QED BY <3>1, <2>1, <1>4
  <2>3. n = 0
    <3>1. n >= 1 => 1 * gap <= n * gap BY <2>1, ScaleUp
    <3> QED BY <3>1, <2>1, <2>2
  <2>4. header = <<>>
    <3>1. header \in Seq(Headers) /\ Len(header) = 0
      BY <2>1, <2>3, <1>2 DEF TypeOK
    <3> QED BY <3>1
  <2>5. 0 * SideBits = 0 BY <1>2, Facts
  <2>6. nextTiming - totbit - 0 = 0
    BY <2>1, <2>3, <2>5, <1>4 DEF Free
  <2>7. nextTiming \in Int /\ totbit \in Int BY <1>2, Facts
  <2> QED BY <2>4, <2>6, <2>7
<1>6. TypeOK'
  BY <1>1, <1>2 DEF TypeOK, rateVars, streamVars
<1>7. Room' BY <1>1, <1>3, <1>4 DEF Room, Rest
<1>8. Reservoir'
  <2>1. ResvLimit \in Nat BY BitAssumption
  <2> QED BY <2>1, <1>1, <1>2 DEF Reservoir, Rest
<1>9. LastSlot'
  BY <1>1, <1>2, <1>3 DEF LastSlot, Rest, rateVars, streamVars
<1> QED
  BY <1>1, <1>2, <1>3, <1>5, <1>6, <1>7, <1>8, <1>9
     DEF IInv, Start, Flushing, NoPadding, Rest, rateVars, streamVars

LEMMA CopyBufferInv ==
    ASSUME IInv, NEW size, CopyBuffer(size)
    PROVE  IInv'
<1>1. /\ Rest /\ pc' = "idle" /\ (buffered' = buffered \/ buffered' = 0)
      /\ UNCHANGED <<rateVars, resvVars, header, lastTiming, nextTiming, totbit, gr, todo, flushed>>
  BY DEF CopyBuffer, Rest
<1>2. TypeOK /\ Chain /\ Room /\ Reservoir /\ LastSlot /\ NoPadding /\ Start /\ Flushing
  BY DEF IInv
<1>3. /\ Free' = Free /\ Chain' /\ ThisCapacity' = ThisCapacity /\ ThisFrame' = ThisFrame
  <2>1. MinFrame' = MinFrame /\ SideBits' = SideBits BY DEF MinFrame, SideBits
  <2> QED BY <2>1, <1>1, <1>2 DEF Free, Chain, ThisCapacity, ThisFrame, rateVars
<1>4. TypeOK' BY <1>1, <1>2 DEF TypeOK, rateVars, resvVars
<1>5. Start' BY <1>1, <1>2 DEF Start, Rest, rateVars, resvVars
<1>6. Flushing' BY <1>1, <1>2 DEF Flushing, Rest, resvVars
<1>7. Room' BY <1>1, <1>2, <1>3 DEF Room, Rest, resvVars
<1>8. Reservoir' BY <1>1, <1>2, <1>3 DEF Reservoir, Rest, resvVars
<1>9. LastSlot' BY <1>1, <1>2, <1>3 DEF LastSlot, Rest, rateVars
<1> QED
  BY <1>1, <1>2, <1>3, <1>4, <1>5, <1>6, <1>7, <1>8, <1>9 DEF IInv, NoPadding, rateVars

-----------------------------------------------------------------------------
(* The invariant and what follows from it                                  *)

LEMMA StutterInv == ASSUME IInv, UNCHANGED bitVars PROVE IInv'
<1>1. UNCHANGED <<rateVars, resvVars, streamVars, pc, gr, todo, flushed>>
  BY DEF bitVars
<1>2. Free' = Free /\ Chain' = Chain /\ ThisCapacity' = ThisCapacity /\ ThisFrame' = ThisFrame
  BY <1>1 DEF Free, Chain, ThisCapacity, ThisFrame, rateVars, streamVars
<1>3. TypeOK' BY <1>1 DEF IInv, TypeOK, rateVars, resvVars, streamVars
<1>4. Start' BY <1>1 DEF IInv, Start, Rest, rateVars, resvVars, streamVars
<1>5. Room' BY <1>1, <1>2 DEF IInv, Room, Rest, resvVars
<1>6. Reservoir' BY <1>1, <1>2 DEF IInv, Reservoir, Rest, resvVars
<1>7. LastSlot' BY <1>1, <1>2 DEF IInv, LastSlot, Rest, rateVars, resvVars, streamVars
<1>8. Flushing' BY <1>1 DEF IInv, Flushing, Rest, resvVars, streamVars
<1> QED
  BY <1>1, <1>2, <1>3, <1>4, <1>5, <1>6, <1>7, <1>8 DEF IInv, NoPadding, rateVars

LEMMA NextInv ==
    ASSUME IInv, RingAssumption, [Next]_bitVars
    PROVE  IInv'
<1>1. CASE InitBitstream BY <1>1, InitBitstreamInv
<1>2. CASE EncodeStep
  BY <1>2, VbrFrameInv, CbrFrameInv, GranuleInv DEF EncodeStep
<1>3. CASE FormatStep
  BY <1>3, PutHeaderInv, PutBitsInv, EncodeSideInfoInv, DrainPostInv, FinishFrameInv,
     FlushDoneInv DEF FormatStep
<1>4. CASE Flush BY <1>4, FlushInv
<1>5. CASE \E size \in BufferSizes : CopyBuffer(size) BY <1>5, CopyBufferInv
<1>6. CASE UNCHANGED bitVars BY <1>6, StutterInv
<1> QED
  BY <1>1, <1>2, <1>3, <1>4, <1>5, <1>6 DEF Next

\* The inductive invariant of the bit reservoir, of which the promises below are
\* consequences.
THEOREM Invariance == RingAssumption => (Spec => []IInv)
<1>1. Init => IInv BY InitInv
<1>2. RingAssumption /\ IInv /\ [Next]_bitVars => IInv' BY NextInv
<1>3. SUFFICES ASSUME RingAssumption PROVE Spec => []IInv
  OBVIOUS
<1>4. IInv /\ [Next]_bitVars => IInv' BY <1>2, <1>3
<1> QED BY <1>1, <1>4, PTL DEF Spec

\* What the invariant says of the states the properties are about.
LEMMA Consequences ==
    ASSUME IInv, RingAssumption
    PROVE  /\ TypeOK /\ FlushIsReservoir /\ DecoderFindsData /\ HeadersInTime
           /\ ReservoirBounded /\ RingNotFull
<1>1. TypeOK BY DEF IInv
<1>2. FlushIsReservoir
  <2> SUFFICES ASSUME pc = "idle", bitrateIndex # 0
               PROVE  FlushBits = ResvSize /\ ResvSize = 8 * mainDataBegin
    BY DEF FlushIsReservoir
  <2>1. Rest BY DEF Rest
  <2>2. ResvSize = 8 * mainDataBegin BY <2>1 DEF IInv, Reservoir
  <2> QED BY <2>1, <2>2, FlushAtRest
<1>3. DecoderFindsData
  <2> SUFFICES ASSUME pc = "main", todo = frame.main, header # <<>>
               PROVE  lastTiming - totbit - (Len(header) - 1) * SideBits
                        = 8 * header[Len(header)].mdb
    BY <1>1 DEF DecoderFindsData, TypeOK
  <2>1. PICK n \in Nat, side \in Nat, cap \in Nat, data \in Nat, old \in Nat, bits \in Nat,
             last \in Int, next \in Int :
          /\ n = Len(header) /\ side = SideBits /\ cap = ThisCapacity
          /\ data = frame.main /\ old = mainDataBegin /\ bits = totbit
          /\ last = lastTiming /\ next = nextTiming
    BY <1>1, Facts
  <2>2. PICK b \in Int : b = n * side /\ (n - 1) * side = b - side
    BY <2>1, OneLess
  <2>3. next - bits - b = 8 * old + cap - data + data
    BY <2>1, <2>2 DEF IInv, Room, Free
  <2>4. bitrateIndex # 0 BY DEF IInv, Start, Rest
  <2>5. next = last + (cap + side)
    <3>1. ThisFrame \in Nat /\ ThisCapacity = ThisFrame - SideBits BY <1>1, Facts
    <3>2. nextTiming = lastTiming + ThisFrame BY <2>4 DEF IInv, LastSlot
    <3>3. ThisFrame = cap + side BY <2>1, <3>1
    <3> QED BY <2>1, <3>2, <3>3
  <2>6. header[Len(header)].mdb = mainDataBegin
    BY DEF IInv, LastSlot
  <2>7. last - bits - (b - side) = 8 * old
    BY <2>3, <2>5
  <2> QED BY <2>1, <2>2, <2>6, <2>7
<1>4. HeadersInTime
  <2>1. \A k \in 1 .. Len(header) : header[k].timing >= totbit
    BY DEF IInv, Chain
  <2>2. ASSUME flushed, Rest, bitrateIndex # 0
        PROVE  /\ header = <<>>
               /\ totbit = lastTiming + ThisFrame
               /\ totbit = nextTiming
    <3>1. header = <<>> /\ totbit = nextTiming BY <2>2 DEF IInv, Flushing
    <3>2. nextTiming = lastTiming + ThisFrame BY <2>2 DEF IInv, LastSlot
    <3> QED BY <3>1, <3>2
  <2> QED BY <2>1, <2>2, RoomForHeaders DEF HeadersInTime, Rest, ThisFrame
<1>5. ASSUME pc = "idle", ~flushed
      PROVE  ResvSize \in 0 .. ResvMax /\ 8 * mainDataBegin <= ResvLimit
  <2>1. /\ ResvSize = 8 * mainDataBegin /\ ResvSize <= ResvMax
        /\ 8 * mainDataBegin <= ResvLimit
    BY <1>5 DEF IInv, Reservoir, Rest
  <2>2. mainDataBegin \in Nat /\ ResvSize \in Int /\ ResvMax \in Nat BY <1>1, Facts
  <2>3. 8 * mainDataBegin >= 0 BY <2>2
  <2> QED BY <2>1, <2>2, <2>3
<1>6. ReservoirBounded
  <2>1. pc = "pre" => ResvSize >= 0 BY DEF IInv, Reservoir
  <2> QED BY <1>5, <2>1 DEF IInv, ReservoirBounded
<1> QED BY <1>1, <1>2, <1>3, <1>4, <1>6, RingHasRoom

\* Every variable has its type, as long as the ring is longer than the reservoir.
THEOREM TypeCorrect == RingAssumption => (Spec => []TypeOK)
<1> SUFFICES ASSUME RingAssumption PROVE Spec => []TypeOK
  OBVIOUS
<1>1. IInv => TypeOK BY Consequences
<1>2. Spec => []IInv BY Invariance
<1> QED BY <1>1, <1>2, PTL

\* compute_flushbits counts, from the ring of headers, the reservoir that
\* reservoir.c keeps, at the end of every frame.
THEOREM FlushCountsReservoir == RingAssumption => (Spec => []FlushIsReservoir)
<1> SUFFICES ASSUME RingAssumption PROVE Spec => []FlushIsReservoir
  OBVIOUS
<1>1. IInv => FlushIsReservoir BY Consequences
<1>2. Spec => []IInv BY Invariance
<1> QED BY <1>1, <1>2, PTL

\* main_data_begin of every header points to where its data was written.
THEOREM DataIsFound == RingAssumption => (Spec => []DecoderFindsData)
<1> SUFFICES ASSUME RingAssumption PROVE Spec => []DecoderFindsData
  OBVIOUS
<1>1. IInv => DecoderFindsData BY Consequences
<1>2. Spec => []IInv BY Invariance
<1> QED BY <1>1, <1>2, PTL

\* No data overtakes a header, and after a flush no header and no bit is missing.
THEOREM HeadersAreInTime == RingAssumption => (Spec => []HeadersInTime)
<1> SUFFICES ASSUME RingAssumption PROVE Spec => []HeadersInTime
  OBVIOUS
<1>1. IInv => HeadersInTime BY Consequences
<1>2. Spec => []IInv BY Invariance
<1> QED BY <1>1, <1>2, PTL

\* The reservoir never exceeds what main_data_begin and the decoder's buffer allow,
\* and the encoder never ends the process for a frame that does not hold its bits.
THEOREM ReservoirIsBounded == RingAssumption => (Spec => []ReservoirBounded)
<1> SUFFICES ASSUME RingAssumption PROVE Spec => []ReservoirBounded
  OBVIOUS
<1>1. IInv => ReservoirBounded BY Consequences
<1>2. Spec => []IInv BY Invariance
<1> QED BY <1>1, <1>2, PTL

\* The ring of headers never fills up when it is longer than the reservoir: the
\* condition that MAX_HEADER_BUF does not meet at the lowest bit rate.
THEOREM RingNeverFull == RingAssumption => (Spec => []RingNotFull)
<1> SUFFICES ASSUME RingAssumption PROVE Spec => []RingNotFull
  OBVIOUS
<1>1. IInv => RingNotFull BY Consequences
<1>2. Spec => []IInv BY Invariance
<1> QED BY <1>1, <1>2, PTL

-----------------------------------------------------------------------------
(* The bit stream                                                          *)

\* A step of the interface is a step of the bit reservoir, or leaves it alone;
\* what copy_buffer is told of the caller's buffer does not matter to it.
LEMMA LameNextInv ==
    ASSUME IInv, RingAssumption, [LameNext]_lameVars
    PROVE  IInv'
<1>1. ASSUME InitBitstream \/ EncodeStep \/ FormatStep \/ Flush PROVE IInv'
  BY <1>1, NextInv DEF Next
<1>2. ASSUME NEW n, NEW c, BeginBuffer(n, c) PROVE IInv'
  BY <1>2, CopyBufferInv DEF BeginBuffer
<1>3. CASE \E n \in InputSizes, size \in BufferSizes : EncodeBuffer(n, size)
  BY <1>2, <1>3 DEF EncodeBuffer
<1>4. CASE \E size \in BufferSizes : EncodeFlush(size)
  BY <1>4, StutterInv DEF EncodeFlush
<1>5. CASE \E size \in BufferSizes : FlushNogap(size)
  BY <1>1, <1>5 DEF FlushNogap
<1>6. CASE StartFile BY <1>1, <1>6 DEF StartFile
<1>7. CASE Inside
  <2>1. CASE FillBuffer BY <2>1, StutterInv DEF FillBuffer
  <2>2. CASE EncodeFrame BY <2>2, <1>1 DEF EncodeFrame
  <2>3. CASE Format BY <2>3, <1>1 DEF Format
  <2>4. CASE CopyFrame BY <2>4, CopyBufferInv DEF CopyFrame
  <2>5. CASE ReturnFromBuffer BY <2>5, StutterInv DEF ReturnFromBuffer
  <2>6. CASE FlushChunk BY <2>6, <1>2 DEF FlushChunk
  <2>7. CASE FlushBitsOut BY <2>7, <1>1 DEF FlushBitsOut
  <2>8. CASE CopyFlushed BY <2>8, CopyBufferInv DEF CopyFlushed
  <2> QED BY <1>7, <2>1, <2>2, <2>3, <2>4, <2>5, <2>6, <2>7, <2>8 DEF Inside
<1>8. CASE UNCHANGED lameVars BY <1>8, StutterInv DEF lameVars
<1> QED BY <1>3, <1>4, <1>5, <1>6, <1>7, <1>8 DEF LameNext

\* What BitReservoir promises of the stream holds for every use of the interface.
THEOREM StreamIsSound ==
    RingAssumption =>
        (LameSpec => [](/\ FlushIsReservoir /\ DecoderFindsData /\ HeadersInTime
                        /\ ReservoirBounded))
<1> SUFFICES ASSUME RingAssumption
             PROVE  LameSpec => [](/\ FlushIsReservoir /\ DecoderFindsData /\ HeadersInTime
                                   /\ ReservoirBounded)
  OBVIOUS
<1>1. LameInit => IInv BY InitInv DEF LameInit
<1>2. IInv /\ [LameNext]_lameVars => IInv' BY LameNextInv
<1>3. IInv => /\ FlushIsReservoir /\ DecoderFindsData /\ HeadersInTime
              /\ ReservoirBounded
  BY Consequences
<1> QED BY <1>1, <1>2, <1>3, PTL DEF LameSpec

-----------------------------------------------------------------------------
(* Samples: the inductive invariant                                        *)

\* The running iteration of lame_encode_flush has completed its frame.
Done == frameNumber - call.atFrame

\* A failed call leaves the encoder at rest, and a frame has a bit rate when it is
\* copied out.
Resting ==
    /\ Failed => pc = "idle"
    /\ pc = "copy" /\ FrameDue => bitrateIndex # 0

\* mfbuf holds less than two frames, and less than one whenever it is not being
\* filled.
Fill ==
    /\ mfSize < Needed + FrameSize
    /\ call.op \in {"none", "flushing", "nogap"} => mfSize < Needed /\ left = 0

\* Outside of a flush: the samples are in frames or counted in mf_samples_to_encode.
Feeding ==
    call.op \in {"none", "buffer", "nogap"} =>
        IF mfToEncode = 0
        THEN audio.frames = 0 /\ audio.input = 0 /\ mfSize <= Needed - FrameSize
        ELSE /\ FrameSize * audio.frames = ENCDELAY + POSTDELAY + audio.input - mfToEncode
             /\ mfToEncode >= mfSize + 976
             /\ audio.input > 0 => audio.end = mfSize

\* In the loop of lame_encode_flush: what is missing is frames_left frames.
PaddingLoop ==
    call.op = "flush" =>
        /\ framesLeft >= 1 /\ encoderPadding >= 576 /\ Done \in {0, 1}
        /\ mfToEncode >= mfSize + 976
        /\ FrameSize * (audio.frames + framesLeft - Done)
             = ENCDELAY + audio.input + encoderPadding
        /\ audio.input > 0 =>
             audio.end - FrameSize * (framesLeft - Done) <= 176 - encoderPadding
        /\ mfSize + left <= Needed - FrameSize * Done

\* After the loop.
Padded ==
    call.op = "flushing" =>
        /\ encoderPadding >= 576 /\ mfToEncode = 0
        /\ FrameSize * audio.frames = ENCDELAY + audio.input + encoderPadding
        /\ audio.input > 0 => audio.end <= 176 - encoderPadding
        /\ mfSize <= Needed - FrameSize

PcmInv == LameTypeOK /\ Resting /\ Fill /\ Feeding /\ PaddingLoop /\ Padded

LEMMA Sizes == FrameSize \in {576, 1152} /\ FrameSize \in Nat /\ Needed = 752 + FrameSize
<1>1. Granules \in {1, 2} BY BitAssumption
<1>2. FrameSize \in {576, 1152} BY <1>1 DEF FrameSize
<1>3. BLKSIZE - FFTOFFSET > 512 - 32 BY DEF BLKSIZE, FFTOFFSET, MDCTDELAY
<1>4. Needed = BLKSIZE + FrameSize - FFTOFFSET BY <1>3 DEF Needed
<1> QED BY <1>2, <1>4 DEF BLKSIZE, FFTOFFSET, MDCTDELAY

Ops == {"none", "failed", "buffer", "flush", "flushing", "nogap"}

LEMMA LameFacts ==
    ASSUME LameTypeOK
    PROVE  /\ mfSize \in Nat /\ mfToEncode \in Nat /\ frameNumber \in Nat
           /\ encoderPadding \in Nat /\ left \in Nat /\ framesLeft \in Nat
           /\ call.op \in Ops /\ call.atFrame \in Nat
           /\ audio.input \in Nat /\ audio.frames \in Nat /\ audio.end \in Int
           /\ buffered \in Nat
<1>1. call.op \in Ops /\ call.atFrame \in Nat
  BY DEF LameTypeOK, Calls, Ops
<1>2. audio.input \in Nat /\ audio.frames \in Nat /\ audio.end \in Int
  BY DEF LameTypeOK
<1>3. encoderPadding \in Nat
  <2>1. encoderPadding \in 0 .. FrameSize + 575 BY DEF LameTypeOK
  <2> QED BY <2>1, Sizes
<1> QED BY <1>1, <1>2, <1>3 DEF LameTypeOK, TypeOK

\* The samples with their padding are whole frames.
LEMMA PaddingFacts ==
    ASSUME NEW s \in Int, s >= -176
    PROVE  /\ PaddingFor(s) \in 576 .. FrameSize + 575
           /\ (s + PaddingFor(s)) \div FrameSize \in Nat
           /\ (s + PaddingFor(s)) \div FrameSize >= 1
           /\ FrameSize * ((s + PaddingFor(s)) \div FrameSize) = s + PaddingFor(s)
<1>1. CASE FrameSize = 576 BY <1>1 DEF PaddingFor
<1>2. CASE FrameSize = 1152 BY <1>2 DEF PaddingFor
<1> QED BY <1>1, <1>2, Sizes

LEMMA LameInitInv == ASSUME LameInit PROVE PcmInv
<1>1. TypeOK BY InitInv DEF LameInit, IInv
<1>2. /\ mfSize = 528 /\ mfToEncode = 1728 /\ frameNumber = 0 /\ encoderPadding = 0
      /\ call = NoCall /\ left = 0 /\ framesLeft = 0 /\ calls = 0
      /\ seek = EmptySeek
      /\ audio = [input |-> 0, frames |-> 0, end |-> 0, rates |-> <<>>]
      /\ pc = "idle"
  BY DEF LameInit, Init, ENCDELAY, POSTDELAY, MDCTDELAY
<1>3. call \in Calls /\ call.op = "none"
  BY <1>2 DEF NoCall, Calls
<1>4. seek \in [sum : Nat, seen : Nat, want : Nat \ {0}, bag : Seq(Nat)]
  BY <1>2 DEF EmptySeek
<1>5. audio \in [input : Nat, frames : Nat, end : Int, rates : Seq(Nat)]
  BY <1>2
<1>6. LameTypeOK
  <2>1. 0 \in 0 .. FrameSize + 575 BY Sizes
  <2>2. 0 \in 0 .. MaxCalls BY LameAssumption
  <2> QED BY <2>1, <2>2, <1>1, <1>2, <1>3, <1>4, <1>5 DEF LameTypeOK
<1>7. Fill BY <1>2, <1>3, Sizes DEF Fill
<1>8. FrameSize * 0 = 0 /\ audio.frames = 0 /\ audio.input = 0
  BY <1>2, Sizes
<1>9. Feeding BY <1>2, <1>3, <1>8 DEF Feeding, ENCDELAY, POSTDELAY
<1> QED BY <1>2, <1>3, <1>6, <1>7, <1>9 DEF PcmInv, Resting, PaddingLoop, Padded, Failed

\* Steps of the bit stream alone.
LEMMA BitStepInv ==
    ASSUME PcmInv, TypeOK', UNCHANGED encoderVars,
           Failed => pc' = "idle", pc' = "copy" /\ FrameDue => bitrateIndex' # 0
    PROVE  PcmInv'
<1>1. UNCHANGED <<callVars, pcmVars, seek, audio>> BY DEF encoderVars
<1>2. UNCHANGED <<call, left, framesLeft, calls, mfSize, mfToEncode, frameNumber, encoderPadding>>
  BY <1>1 DEF callVars, pcmVars
<1>3. Done' = Done /\ FrameSize' = FrameSize /\ Needed' = Needed
  BY <1>2 DEF Done, FrameSize, Needed
<1>4. LameTypeOK' BY <1>1, <1>2 DEF PcmInv, LameTypeOK
<1>5. Resting' BY <1>2 DEF PcmInv, Resting, Failed, FrameDue
<1>6. Fill' /\ Feeding' /\ Padded'
  BY <1>1, <1>2 DEF PcmInv, Fill, Feeding, Padded
<1>7. PaddingLoop' BY <1>1, <1>2, <1>3 DEF PcmInv, PaddingLoop
<1> QED BY <1>4, <1>5, <1>6, <1>7 DEF PcmInv

LEMMA EncodeFrameInv == ASSUME IInv, PcmInv, TypeOK', EncodeFrame PROVE PcmInv'
<1>1. ~Failed /\ EncodeStep /\ UNCHANGED encoderVars
  BY DEF EncodeFrame
<1>2. pc' # "copy"
  <2>1. CASE \E used \in BitCounts, silence \in BOOLEAN : VbrFrame(used, silence)
    BY <2>1 DEF VbrFrame, ResvFrameEnd
  <2>2. CASE CbrFrame BY <2>2 DEF CbrFrame
  <2>3. CASE \E used \in BitCounts : Granule(used)
    BY <2>3 DEF Granule, ResvFrameEnd
  <2> QED BY <2>1, <2>2, <2>3, <1>1 DEF EncodeStep
<1> QED BY <1>1, <1>2, BitStepInv

LEMMA FormatInv == ASSUME IInv, PcmInv, TypeOK', Format PROVE PcmInv'
<1>1. FormatStep /\ UNCHANGED encoderVars
  BY DEF Format
<1>2. Writing
  BY <1>1 DEF FormatStep, PutHeader, PutBits, EncodeSideInfo, DrainPost, FinishFrame,
              FlushDone, Writing
<1>3. ~Failed BY <1>2 DEF PcmInv, Resting, Writing
<1>4. bitrateIndex # 0 BY <1>2, WritingFacts
<1>5. bitrateIndex' = bitrateIndex
  BY <1>1 DEF FormatStep, PutHeader, PutBits, EncodeSideInfo, DrainPost, FinishFrame,
              FlushDone, rateVars
<1> QED BY <1>1, <1>3, <1>4, <1>5, BitStepInv

LEMMA FillBufferInv == ASSUME PcmInv, TypeOK', FillBuffer PROVE PcmInv'
<1>1. PICK fs \in Nat : fs = FrameSize /\ fs \in {576, 1152} /\ Needed = 752 + fs
  BY Sizes
<1>2. PICK l \in Nat, m \in Nat, e \in Nat :
        l = left /\ m = mfSize /\ e = mfToEncode
  BY LameFacts DEF PcmInv
<1>3. /\ pc = "idle" /\ l > 0 /\ m < 752 + fs
      /\ UNCHANGED <<bitVars, call, framesLeft, calls, frameNumber, encoderPadding, seek>>
  BY <1>1, <1>2 DEF FillBuffer, FrameDue
<1>4. PICK n \in Nat :
        /\ n > 0 /\ n <= l /\ n <= fs
        /\ left' = l - n /\ mfSize' = m + n
        /\ mfToEncode' = (IF e < 1 THEN 1728 ELSE e) + n
        /\ audio' = IF call.op = "buffer"
                    THEN [audio EXCEPT !.input = audio.input + n, !.end = m + n]
                    ELSE audio
  <2> DEFINE n == Lower(fs, l)
  <2>1. n \in Nat /\ n > 0 /\ n <= l /\ n <= fs
    BY <1>1, <1>3 DEF Lower
  <2>2. /\ left' = l - n /\ mfSize' = m + n
        /\ mfToEncode' = (IF e < 1 THEN 1728 ELSE e) + n
        /\ audio' = IF call.op = "buffer"
                    THEN [audio EXCEPT !.input = audio.input + n, !.end = m + n]
                    ELSE audio
    BY <1>1, <1>2 DEF FillBuffer, ENCDELAY, POSTDELAY
  <2> QED BY <2>1, <2>2
<1>5. /\ call.op \in Ops /\ call.op \notin {"none", "flushing", "nogap"}
      /\ audio \in [input : Nat, frames : Nat, end : Int, rates : Seq(Nat)]
  <2>1. call.op \in Ops /\ LameTypeOK BY LameFacts DEF PcmInv
  <2>2. call.op \notin {"none", "flushing", "nogap"} BY <1>2, <1>3 DEF PcmInv, Fill
  <2> QED BY <2>1, <2>2 DEF LameTypeOK
<1>6. LameTypeOK'
  <2>1. left' \in Nat /\ mfSize' \in Nat /\ mfToEncode' \in Nat
    BY <1>4
  <2>2. audio' \in [input : Nat, frames : Nat, end : Int, rates : Seq(Nat)]
    <3>1. audio.input + n \in Nat /\ m + n \in Int BY <1>5
    <3> QED BY <3>1, <1>4, <1>5
  <2> QED BY <2>1, <2>2, <1>3 DEF PcmInv, LameTypeOK
<1>7. call' = call /\ pc' = pc /\ bitrateIndex' = bitrateIndex /\ Needed' = Needed
      /\ FrameSize' = FrameSize /\ Done' = Done
  BY <1>3 DEF bitVars, rateVars, Needed, FrameSize, Done
<1>8. Resting' BY <1>3, <1>7 DEF Resting, Failed
<1>9. Fill'
  <2>1. mfSize' < 752 + fs + fs BY <1>3, <1>4
  <2>2. call'.op \notin {"none", "flushing", "nogap"} BY <1>5, <1>7
  <2>3. Needed + FrameSize = 752 + fs + fs BY <1>1
  <2> QED BY <2>1, <2>2, <2>3, <1>7 DEF Fill
<1>10. CASE call.op = "buffer"
  <2>1. PICK i \in Nat, f \in Nat : i = audio.input /\ f = audio.frames
    BY <1>5
  <2>2. audio'.input = i + n /\ audio'.frames = f /\ audio'.end = m + n
    BY <2>1, <1>4, <1>5, <1>10
  <2>3. IF e = 0 THEN f = 0 /\ i = 0 /\ m <= 752
        ELSE fs * f = 1728 + i - e /\ e >= m + 976
    BY <2>1, <1>1, <1>2, <1>10 DEF PcmInv, Feeding, ENCDELAY, POSTDELAY
  <2>4. PICK g \in Int : g = fs * f
    BY <2>1
  <2>5. e = 0 => g = 0
    BY <2>3, <2>4, <1>1
  <2>6. PICK e2 \in Nat : e2 = mfToEncode' /\ e2 # 0
    BY <1>4
  <2>7. g = 1728 + (i + n) - e2 /\ e2 >= (m + n) + 976
    BY <2>3, <2>4, <2>5, <2>6, <1>4
  <2>8. Feeding'
    <3>1. FrameSize' * audio'.frames = g BY <2>2, <2>4, <1>1, <1>7
    <3>2. ENCDELAY + POSTDELAY = 1728 BY DEF ENCDELAY, POSTDELAY
    <3> QED BY <3>1, <3>2, <2>2, <2>6, <2>7, <1>4 DEF Feeding, ENCDELAY, POSTDELAY
  <2> QED BY <2>8, <1>6, <1>7, <1>8, <1>9, <1>10 DEF PcmInv, PaddingLoop, Padded
<1>11. CASE call.op = "flush"
  <2>1. audio' = audio BY <1>4, <1>11
  <2>2. e >= m + 976 BY <1>2, <1>11 DEF PcmInv, PaddingLoop
  <2>3. mfToEncode' >= mfSize' + 976 BY <2>2, <1>4
  <2>4. mfSize' + left' = mfSize + left BY <1>2, <1>4
  <2>5. PaddingLoop'
    BY <2>1, <2>3, <2>4, <1>3, <1>7, <1>11 DEF PcmInv, PaddingLoop
  <2> QED BY <2>5, <1>6, <1>7, <1>8, <1>9, <1>11 DEF PcmInv, Feeding, Padded
<1>12. CASE call.op = "failed"
  BY <1>6, <1>7, <1>8, <1>9, <1>12 DEF PcmInv, Feeding, PaddingLoop, Padded
<1> QED BY <1>5, <1>10, <1>11, <1>12 DEF Ops

LEMMA ReturnFromBufferInv == ASSUME PcmInv, TypeOK', ReturnFromBuffer PROVE PcmInv'
<1>1. /\ call.op = "buffer" /\ pc = "idle" /\ left = 0 /\ ~FrameDue
      /\ call' = NoCall
      /\ UNCHANGED <<bitVars, left, framesLeft, calls, pcmVars, seek, audio>>
  BY DEF ReturnFromBuffer
<1>2. UNCHANGED <<mfSize, mfToEncode, frameNumber, encoderPadding, pc, bitrateIndex>>
  BY <1>1 DEF pcmVars, bitVars, rateVars
<1>3. call'.op = "none" /\ call' \in Calls
  BY <1>1 DEF NoCall, Calls
<1>4. LameTypeOK' BY <1>1, <1>2, <1>3 DEF PcmInv, LameTypeOK
<1>5. Resting' BY <1>1, <1>2, <1>3 DEF Resting, Failed
<1>6. Fill'
  <2>1. mfSize < Needed
    BY <1>1, LameFacts, Sizes DEF PcmInv, FrameDue
  <2> QED BY <2>1, <1>1, <1>2, <1>3 DEF PcmInv, Fill, Needed, FrameSize
<1>7. Feeding'
  BY <1>1, <1>2 DEF PcmInv, Feeding, Needed, FrameSize
<1> QED BY <1>3, <1>4, <1>5, <1>6, <1>7 DEF PcmInv, PaddingLoop, Padded

LEMMA NoCallType == NoCall \in Calls /\ NoCall.op = "none"
BY DEF NoCall, Calls

\* The start of lame_encode_buffer: the call is on, or has failed.
LEMMA BeginBufferFacts ==
    ASSUME PcmInv, TypeOK', NEW n \in Nat, NEW c \in Calls, BeginBuffer(n, c)
    PROVE  /\ call' \in Calls /\ left' \in Nat /\ pc' = "idle" /\ bitrateIndex' = bitrateIndex
           /\ \/ call'.op = "failed" /\ left' = 0 /\ TooSmall(c.inSize)
              \/ /\ call'.op = c.op /\ left' = n /\ call'.atFrame = c.atFrame
                 /\ ~TooSmall(c.inSize)
<1>1. /\ CopyBuffer(c.inSize)
      /\ IF TooSmall(c.inSize)
         THEN call' = [NoCall EXCEPT !.op = "failed"] /\ left' = 0
         ELSE call' = [c EXCEPT !.inOut = buffered \div 8] /\ left' = n
  BY DEF BeginBuffer
<1>2. pc' = "idle" /\ bitrateIndex' = bitrateIndex
  BY <1>1 DEF CopyBuffer, rateVars
<1>3. CASE TooSmall(c.inSize)
  <2>1. [NoCall EXCEPT !.op = "failed"] \in Calls /\ [NoCall EXCEPT !.op = "failed"].op = "failed"
    BY DEF NoCall, Calls
  <2>2. call' = [NoCall EXCEPT !.op = "failed"] /\ left' = 0
    BY <1>1, <1>3
  <2>3. call' \in Calls /\ call'.op = "failed" /\ left' \in Nat
    BY <2>1, <2>2
  <2> QED BY <2>2, <2>3, <1>2, <1>3
<1>4. CASE ~TooSmall(c.inSize)
  <2>1. PICK k \in Nat : k = buffered \div 8
    <3>1. buffered \in Nat BY LameFacts DEF PcmInv
    <3>2. buffered \div 8 \in Nat BY <3>1
    <3> QED BY <3>2
  <2>2. call' = [c EXCEPT !.inOut = k] /\ left' = n
    BY <2>1, <1>1, <1>4
  <2>3. call' \in Calls /\ call'.op = c.op /\ call'.atFrame = c.atFrame
    BY <2>2 DEF Calls
  <2> QED BY <2>2, <2>3, <1>2, <1>4
<1> QED BY <1>3, <1>4

LEMMA EncodeBufferInv ==
    ASSUME PcmInv, TypeOK', NEW n \in InputSizes, NEW size \in BufferSizes,
           EncodeBuffer(n, size)
    PROVE  PcmInv'
<1> DEFINE c == [NoCall EXCEPT !.op = "buffer", !.inSize = size]
<1>1. /\ call.op = "none" /\ calls < MaxCalls /\ calls' = calls + 1
      /\ BeginBuffer(n, c)
      /\ UNCHANGED <<pcmVars, seek, audio, framesLeft>>
  BY DEF EncodeBuffer, CanCall
<1>2. n \in Nat /\ size \in Nat
  BY LameAssumption, BitAssumption
<1>3. c \in Calls /\ c.op = "buffer"
  <2>1. NoCall \in Calls BY NoCallType
  <2>2. size \in Int BY <1>2
  <2> QED BY <2>1, <2>2 DEF Calls
<1> HIDE DEF c
<1>4. /\ call' \in Calls /\ left' \in Nat /\ pc' = "idle"
      /\ call'.op \in {"failed", "buffer"}
  BY <1>1, <1>2, <1>3, BeginBufferFacts
<1>5. UNCHANGED <<mfSize, mfToEncode, frameNumber, encoderPadding>>
  BY <1>1 DEF pcmVars
<1>6. LameTypeOK'
  <2>1. calls' \in 0 .. MaxCalls
    <3>1. calls \in 0 .. MaxCalls /\ MaxCalls \in Nat BY LameAssumption DEF PcmInv, LameTypeOK
    <3> QED BY <3>1, <1>1
  <2> QED BY <2>1, <1>1, <1>4, <1>5 DEF PcmInv, LameTypeOK
<1>7. Resting' BY <1>4 DEF Resting, Failed
<1>8. Fill' BY <1>4, <1>5 DEF PcmInv, Fill, Needed, FrameSize
<1>9. Feeding' BY <1>1, <1>4, <1>5 DEF PcmInv, Feeding, Needed, FrameSize
<1> QED BY <1>4, <1>6, <1>7, <1>8, <1>9 DEF PcmInv, PaddingLoop, Padded

LEMMA CallsInBound == ASSUME LameTypeOK, CanCall PROVE calls' \in 0 .. MaxCalls
<1>1. calls \in 0 .. MaxCalls /\ MaxCalls \in Nat BY LameAssumption DEF LameTypeOK
<1> QED BY <1>1 DEF CanCall

LEMMA EncodeFlushInv ==
    ASSUME PcmInv, TypeOK', NEW size \in BufferSizes, EncodeFlush(size)
    PROVE  PcmInv'
<1>1. PICK fs \in Nat : fs = FrameSize /\ fs \in {576, 1152} /\ Needed = 752 + fs
  BY Sizes
<1>2. PICK m \in Nat, e \in Nat, i \in Nat, f \in Nat, end \in Int, num \in Nat :
        /\ m = mfSize /\ e = mfToEncode /\ i = audio.input /\ f = audio.frames
        /\ end = audio.end /\ num = frameNumber
  BY LameFacts DEF PcmInv
<1>3. /\ CanCall /\ call.op = "none" /\ pc = "idle" /\ e >= 1
      /\ encoderPadding' = PaddingFor(e - 1152)
      /\ framesLeft' = (e - 1152 + encoderPadding') \div fs
      /\ call' = [NoCall EXCEPT !.op = "flush", !.size = size, !.atFrame = num]
      /\ UNCHANGED <<bitVars, left, mfSize, mfToEncode, frameNumber, seek, audio>>
  BY <1>1, <1>2 DEF EncodeFlush, CanCall, POSTDELAY
<1>4. /\ m < 752 + fs /\ left = 0 /\ fs * f = 1728 + i - e /\ e >= m + 976
      /\ i > 0 => end = m
  BY <1>1, <1>2, <1>3, LameFacts DEF PcmInv, Fill, Feeding, ENCDELAY, POSTDELAY
<1>5. PICK pad \in Nat, k \in Nat :
        /\ pad = encoderPadding' /\ k = framesLeft'
        /\ pad \in 576 .. fs + 575 /\ k >= 1 /\ fs * k = e - 1152 + pad
  <2>1. e - 1152 \in Int /\ e - 1152 >= -176
    BY <1>4
  <2>2. /\ PaddingFor(e - 1152) \in 576 .. FrameSize + 575
        /\ (e - 1152 + PaddingFor(e - 1152)) \div FrameSize \in Nat
        /\ (e - 1152 + PaddingFor(e - 1152)) \div FrameSize >= 1
        /\ FrameSize * ((e - 1152 + PaddingFor(e - 1152)) \div FrameSize)
             = e - 1152 + PaddingFor(e - 1152)
    BY <2>1, PaddingFacts
  <2>3. PaddingFor(e - 1152) \in Nat
    BY <2>2, <1>1
  <2> QED BY <2>2, <2>3, <1>1, <1>3
<1>6. call' \in Calls /\ call'.op = "flush" /\ call'.atFrame = num
  <2>1. size \in Nat BY BitAssumption
  <2> QED BY <2>1, <1>3, NoCallType DEF Calls
<1>7. calls' \in 0 .. MaxCalls
  BY <1>3, CallsInBound DEF PcmInv
<1>8. LameTypeOK'
  <2>1. encoderPadding' \in 0 .. FrameSize + 575
    BY <1>1, <1>5
  <2>2. framesLeft' \in Nat BY <1>5
  <2>3. FrameSize' = FrameSize BY DEF FrameSize
  <2> QED BY <2>1, <2>2, <2>3, <1>3, <1>6, <1>7 DEF PcmInv, LameTypeOK
<1>9. Resting' /\ Fill'
  BY <1>3, <1>6 DEF PcmInv, Resting, Fill, Failed, FrameDue, Needed, FrameSize, bitVars, rateVars
<1>10. PaddingLoop'
  <2>1. /\ Done' = 0 /\ FrameSize' = fs /\ Needed' = 752 + fs
    <3>1. frameNumber' = num BY <1>2, <1>3
    <3>2. FrameSize' = FrameSize /\ Needed' = Needed BY DEF FrameSize, Needed
    <3>3. num - num = 0 OBVIOUS
    <3> QED BY <3>1, <3>2, <3>3, <1>1, <1>6 DEF Done
  <2>2. /\ audio'.input = i /\ audio'.frames = f /\ audio'.end = end
        /\ mfSize' = m /\ mfToEncode' = e /\ left' = 0
    BY <1>2, <1>3, <1>4
  <2>3. fs * (f + k - 0) = 576 + i + pad
    <3>1. fs * (f + k - 0) = fs * f + fs * k BY <1>1
    <3> QED BY <3>1, <1>4, <1>5
  <2>4. i > 0 => end - fs * (k - 0) <= 176 - pad
    <3>1. PICK g \in Int : g = fs * k /\ g = e - 1152 + pad
      <4>1. fs * k = e - 1152 + pad BY <1>5
      <4>2. e - 1152 + pad \in Int OBVIOUS
      <4> QED BY <4>1, <4>2
    <3>2. i > 0 => end - g <= 176 - pad BY <3>1, <1>4
    <3>3. k - 0 = k OBVIOUS
    <3> QED BY <3>1, <3>2, <3>3
  <2>5. fs * 0 = 0 /\ m + 0 <= 752 + fs - 0 /\ 0 \in {0, 1}
    <3>1. fs * 0 = 0 BY <1>1
    <3>2. m + 0 <= 752 + fs - 0 BY <1>1, <1>4
    <3> QED BY <3>1, <3>2
  <2>6. k >= 1 /\ pad >= 576 /\ e >= m + 976 /\ framesLeft' = k /\ encoderPadding' = pad
    BY <1>4, <1>5
  <2> QED
    BY <2>1, <2>2, <2>3, <2>4, <2>5, <2>6 DEF PaddingLoop, ENCDELAY
<1> QED BY <1>6, <1>8, <1>9, <1>10 DEF PcmInv, Feeding, Padded

LEMMA LoopFacts ==
    ASSUME PcmInv, ChunkDone
    PROVE  /\ Done \in {0, 1} /\ LeftAfterChunk = framesLeft - Done /\ LeftAfterChunk \in Nat
           /\ mfSize < Needed /\ left = 0 /\ call.op = "flush" /\ pc = "idle"
<1>1. call.op = "flush" /\ pc = "idle" /\ left = 0 /\ ~FrameDue BY DEF ChunkDone
<1>2. Done \in {0, 1} /\ framesLeft >= 1 /\ framesLeft \in Nat
  BY <1>1, LameFacts DEF PcmInv, PaddingLoop
<1>3. frameNumber \in Nat /\ call.atFrame \in Nat BY LameFacts DEF PcmInv
<1>4. LeftAfterChunk = framesLeft - Done
  BY <1>2, <1>3 DEF LeftAfterChunk, Done
<1>5. mfSize < Needed BY <1>1, LameFacts, Sizes DEF PcmInv, FrameDue
<1> QED BY <1>1, <1>2, <1>4, <1>5

LEMMA FlushChunkInv == ASSUME PcmInv, TypeOK', FlushChunk PROVE PcmInv'
<1>1. PICK fs \in Nat : fs = FrameSize /\ fs \in {576, 1152} /\ Needed = 752 + fs
  BY Sizes
<1>2. PICK m \in Nat, e \in Nat, i \in Nat, f \in Nat, end \in Int, num \in Nat, done \in {0, 1},
           pad \in Nat, k \in Nat :
        /\ m = mfSize /\ e = mfToEncode /\ i = audio.input /\ f = audio.frames
        /\ end = audio.end /\ num = frameNumber /\ done = Done
        /\ pad = encoderPadding /\ k = framesLeft
  BY LameFacts, LoopFacts DEF PcmInv, FlushChunk
<1>3. /\ m < 752 + fs /\ LeftAfterChunk = k - done /\ left = 0 /\ call.op = "flush" /\ k - done \in Nat
  BY <1>1, <1>2, LoopFacts DEF FlushChunk
<1> DEFINE count == call.count + call.inOut
           size == Remaining(call.size, count)
           c == [call EXCEPT !.count = count, !.inSize = size, !.atFrame = num]
<1>4. /\ k - done > 0 /\ framesLeft' = k - done
      /\ BeginBuffer(ChunkSize, c)
      /\ mfToEncode' = IF TooSmall(size) THEN 0 ELSE e
      /\ UNCHANGED <<calls, mfSize, frameNumber, encoderPadding, seek, audio>>
  BY <1>2, <1>3 DEF FlushChunk
<1>5. c \in Calls /\ c.op = "flush" /\ c.atFrame = num /\ c.inSize = size
  <2>1. call \in Calls BY DEF PcmInv, LameTypeOK
  <2>2. call.count \in Nat /\ call.inOut \in Nat /\ call.size \in Nat BY <2>1 DEF Calls
  <2>3. count \in Nat BY <2>2
  <2>4. size \in Int BY <2>2, <2>3 DEF Remaining
  <2> HIDE DEF count, size
  <2> QED BY <2>1, <2>3, <2>4, <1>3 DEF Calls
<1>6. PICK n \in Nat : n = ChunkSize /\ m + n <= 752 + fs
  <2>1. ChunkSize = LET missing == Lower(752 + fs - m, 1152)
                    IN IF missing < 1 THEN 1 ELSE missing
    BY <1>1, <1>2 DEF ChunkSize
  <2> QED BY <2>1, <1>3 DEF Lower
<1> HIDE DEF count, size, c
<1>7. /\ call' \in Calls /\ left' \in Nat /\ pc' = "idle"
      /\ \/ call'.op = "failed" /\ left' = 0
         \/ /\ call'.op = "flush" /\ left' = n /\ call'.atFrame = num
            /\ mfToEncode' = e
  BY <1>4, <1>5, <1>6, BeginBufferFacts
<1>8. LameTypeOK'
  <2>1. mfToEncode' \in Nat /\ framesLeft' \in Nat BY <1>3, <1>4
  <2>2. FrameSize' = FrameSize BY DEF FrameSize
  <2> QED BY <2>1, <2>2, <1>4, <1>7 DEF PcmInv, LameTypeOK
<1>9. Resting' BY <1>7 DEF Resting, Failed
<1>10. Fill' BY <1>4, <1>7 DEF PcmInv, Fill, Needed, FrameSize
<1>11. CASE call'.op = "failed"
  BY <1>8, <1>9, <1>10, <1>11 DEF PcmInv, Feeding, PaddingLoop, Padded
<1>12. CASE call'.op = "flush"
  <2>1. left' = n /\ call'.atFrame = num /\ mfToEncode' = e
    BY <1>7, <1>12
  <2>2. /\ Done' = 0 /\ FrameSize' = fs /\ Needed' = 752 + fs
    <3>1. frameNumber' = num BY <1>2, <1>4
    <3>2. FrameSize' = FrameSize /\ Needed' = Needed BY DEF FrameSize, Needed
    <3>3. num - num = 0 OBVIOUS
    <3> QED BY <3>1, <3>2, <3>3, <2>1, <1>1 DEF Done
  <2>3. /\ audio'.input = i /\ audio'.frames = f /\ audio'.end = end
        /\ mfSize' = m /\ encoderPadding' = pad
    BY <1>2, <1>4
  <2>4. /\ pad >= 576 /\ e >= m + 976
        /\ fs * (f + k - done) = 576 + i + pad
        /\ i > 0 => end - fs * (k - done) <= 176 - pad
    BY <1>1, <1>2, <1>3 DEF PcmInv, PaddingLoop, ENCDELAY
  <2>5. PICK j \in Nat : j = k - done
    BY <1>3
  <2>6. f + k - done = f + j - 0 /\ k - done = j - 0 /\ j >= 1
    BY <2>5, <1>4
  <2>7. /\ fs * (f + j - 0) = 576 + i + pad
        /\ i > 0 => end - fs * (j - 0) <= 176 - pad
    BY <2>4, <2>6
  <2>8. fs * 0 = 0 /\ m + n <= 752 + fs - 0 BY <1>1, <1>6
  <2>9. framesLeft' = j BY <2>5, <1>4
  <2> DEFINE x == fs * (f + j - 0)
             y == fs * (j - 0)
  <2>10. PaddingLoop'
    BY <2>1, <2>2, <2>3, <2>4, <2>6, <2>7, <2>8, <2>9, <1>12 DEF PaddingLoop, ENCDELAY
  <2> QED BY <2>10, <1>8, <1>9, <1>10, <1>12 DEF PcmInv, Feeding, Padded
<1> QED BY <1>7, <1>11, <1>12

\* Flush itself leaves the samples alone.
LEMMA FlushFacts ==
    ASSUME IInv, Flush
    PROVE  pc' \in {"copy", "flush"} /\ UNCHANGED bitrateIndex
BY DEF Flush, rateVars

LEMMA FlushBitsOutInv == ASSUME IInv, PcmInv, TypeOK', FlushBitsOut PROVE PcmInv'
<1>1. PICK fs \in Nat : fs = FrameSize /\ fs \in {576, 1152} /\ Needed = 752 + fs
  BY Sizes
<1>2. PICK m \in Nat, i \in Nat, f \in Nat, end \in Int, done \in {0, 1}, pad \in Nat, k \in Nat :
        /\ m = mfSize /\ i = audio.input /\ f = audio.frames
        /\ end = audio.end /\ done = Done /\ pad = encoderPadding /\ k = framesLeft
  BY LameFacts, LoopFacts DEF PcmInv, FlushBitsOut
<1>3. /\ LeftAfterChunk = k - done /\ left = 0 /\ call.op = "flush" /\ k - done \in Nat
      /\ m < 752 + fs
  BY <1>1, <1>2, LoopFacts DEF FlushBitsOut
<1>4. /\ k - done <= 0 /\ framesLeft' = 0 /\ mfToEncode' = 0
      /\ call' = [call EXCEPT !.op = "flushing", !.count = call.count + call.inOut]
      /\ Flush
      /\ UNCHANGED <<left, calls, mfSize, frameNumber, encoderPadding, seek, audio>>
  BY <1>3 DEF FlushBitsOut
<1>5. call' \in Calls /\ call'.op = "flushing"
  <2>1. call \in Calls BY DEF PcmInv, LameTypeOK
  <2>2. call.count + call.inOut \in Nat BY <2>1 DEF Calls
  <2> QED BY <2>1, <2>2, <1>4 DEF Calls
<1>6. LameTypeOK'
  <2>1. FrameSize' = FrameSize BY DEF FrameSize
  <2> QED BY <2>1, <1>4, <1>5 DEF PcmInv, LameTypeOK
<1>7. k = 1 /\ done = 1
  <2>1. k >= 1 BY <1>2, <1>3 DEF PcmInv, PaddingLoop
  <2> QED BY <2>1, <1>3, <1>4
<1>8. /\ pad >= 576
      /\ fs * (f + k - done) = 576 + i + pad
      /\ i > 0 => end - fs * (k - done) <= 176 - pad
      /\ m + left <= 752 + fs - fs * done
  BY <1>1, <1>2, <1>3 DEF PcmInv, PaddingLoop, ENCDELAY
<1>9. /\ fs * f = 576 + i + pad /\ (i > 0 => end <= 176 - pad) /\ m <= 752
  <2>1. f + 1 - 1 = f /\ fs * (1 - 1) = 0 /\ fs * 1 = fs BY <1>1
  <2> QED BY <2>1, <1>1, <1>3, <1>7, <1>8
<1>10. /\ FrameSize' = fs /\ Needed' = 752 + fs
  BY <1>1 DEF FrameSize, Needed
<1>11. Padded'
  <2>1. /\ audio'.input = i /\ audio'.frames = f /\ audio'.end = end
        /\ mfSize' = m /\ encoderPadding' = pad
    BY <1>2, <1>4
  <2>2. 752 + fs - fs = 752 BY <1>1
  <2> QED BY <2>1, <2>2, <1>4, <1>8, <1>9, <1>10 DEF Padded, ENCDELAY
<1>12. Fill'
  <2>1. m < 752 + fs + fs BY <1>1, <1>3
  <2> QED BY <2>1, <1>2, <1>3, <1>4, <1>10 DEF Fill
<1>13. Resting'
  <2>1. ~FrameDue'
    <3>1. ~(m >= 752 + fs) BY <1>3
    <3> QED BY <3>1, <1>2, <1>4, <1>10 DEF FrameDue
  <2> QED BY <2>1, <1>5 DEF Resting, Failed
<1> QED BY <1>5, <1>6, <1>11, <1>12, <1>13 DEF PcmInv, Feeding, PaddingLoop

LEMMA FlushNogapInv ==
    ASSUME IInv, PcmInv, TypeOK', NEW size \in BufferSizes, FlushNogap(size)
    PROVE  PcmInv'
<1>1. /\ CanCall /\ call.op = "none"
      /\ call' = [NoCall EXCEPT !.op = "nogap", !.size = size]
      /\ UNCHANGED <<left, framesLeft, pcmVars, seek, audio>>
  BY DEF FlushNogap, CanCall
<1>2. UNCHANGED <<mfSize, mfToEncode, frameNumber, encoderPadding>>
  BY <1>1 DEF pcmVars
<1>3. call' \in Calls /\ call'.op = "nogap"
  <2>1. size \in Nat BY BitAssumption
  <2> QED BY <2>1, <1>1, NoCallType DEF Calls
<1>4. calls' \in 0 .. MaxCalls
  BY <1>1, CallsInBound DEF PcmInv
<1>5. LameTypeOK' BY <1>1, <1>2, <1>3, <1>4 DEF PcmInv, LameTypeOK
<1>6. Fill' /\ Feeding'
  BY <1>1, <1>2, <1>3 DEF PcmInv, Fill, Feeding, Needed, FrameSize
<1>7. Resting'
  <2>1. mfSize < Needed BY <1>1 DEF PcmInv, Fill
  <2>2. mfSize \in Nat /\ Needed \in Nat BY LameFacts, Sizes DEF PcmInv
  <2>3. ~(mfSize >= Needed) BY <2>1, <2>2
  <2> QED BY <2>3, <1>2, <1>3 DEF Resting, Failed, FrameDue, Needed, FrameSize
<1> QED BY <1>3, <1>5, <1>6, <1>7 DEF PcmInv, PaddingLoop, Padded

LEMMA CopyFlushedInv == ASSUME PcmInv, TypeOK', CopyFlushed PROVE PcmInv'
<1>1. /\ call.op \in {"flushing", "nogap"} /\ pc' = "idle"
      /\ \/ call' = [NoCall EXCEPT !.op = "failed"]
         \/ call' = NoCall
      /\ audio' = IF call.op = "flushing"
                  THEN [audio EXCEPT !.input = 0, !.frames = 0]
                  ELSE audio
      /\ UNCHANGED <<left, framesLeft, calls, pcmVars, seek>>
  BY DEF CopyFlushed, CopyBuffer
<1>2. UNCHANGED <<mfSize, mfToEncode, frameNumber, encoderPadding>>
  BY <1>1 DEF pcmVars
<1>3. call' \in Calls /\ call'.op \in {"failed", "none"}
  BY <1>1, NoCallType DEF Calls
<1>4. audio \in [input : Nat, frames : Nat, end : Int, rates : Seq(Nat)]
  BY DEF PcmInv, LameTypeOK
<1>5. /\ audio' \in [input : Nat, frames : Nat, end : Int, rates : Seq(Nat)]
      /\ call.op = "flushing" => audio'.input = 0 /\ audio'.frames = 0
      /\ call.op # "flushing" => audio' = audio
  BY <1>1, <1>4
<1>6. LameTypeOK' BY <1>1, <1>2, <1>3, <1>5 DEF PcmInv, LameTypeOK
<1>7. Resting' BY <1>1 DEF Resting
<1>8. Fill' BY <1>1, <1>2 DEF PcmInv, Fill, Needed, FrameSize
<1>9. Feeding'
  <2>1. CASE call.op = "flushing"
    BY <2>1, <1>2, <1>3, <1>5 DEF PcmInv, Feeding, Padded, Needed, FrameSize
  <2>2. CASE call.op = "nogap"
    BY <2>2, <1>2, <1>3, <1>5 DEF PcmInv, Feeding, Needed, FrameSize
  <2> QED BY <2>1, <2>2, <1>1
<1> QED BY <1>3, <1>6, <1>7, <1>8, <1>9 DEF PcmInv, PaddingLoop, Padded

LEMMA StartFileInv == ASSUME PcmInv, TypeOK', StartFile PROVE PcmInv'
<1>1. /\ CanCall /\ call.op = "none" /\ pc' = "idle" /\ frameNumber' = 0
      /\ seek' = EmptySeek
      /\ audio' = [audio EXCEPT !.rates = <<>>]
      /\ UNCHANGED <<call, left, framesLeft, mfSize, mfToEncode, encoderPadding>>
  BY DEF StartFile, CanCall, InitBitstream
<1>2. /\ audio' \in [input : Nat, frames : Nat, end : Int, rates : Seq(Nat)]
      /\ audio'.input = audio.input /\ audio'.frames = audio.frames /\ audio'.end = audio.end
  <2>1. audio \in [input : Nat, frames : Nat, end : Int, rates : Seq(Nat)]
    BY DEF PcmInv, LameTypeOK
  <2>2. <<>> \in Seq(Nat) OBVIOUS
  <2> QED BY <2>1, <2>2, <1>1
<1>3. seek' \in [sum : Nat, seen : Nat, want : Nat \ {0}, bag : Seq(Nat)]
  BY <1>1 DEF EmptySeek
<1>4. calls' \in 0 .. MaxCalls
  BY <1>1, CallsInBound DEF PcmInv
<1>5. LameTypeOK'
  <2>1. FrameSize' = FrameSize BY DEF FrameSize
  <2> QED BY <2>1, <1>1, <1>2, <1>3, <1>4 DEF PcmInv, LameTypeOK
<1>6. Fill' /\ Feeding'
  BY <1>1, <1>2 DEF PcmInv, Fill, Feeding, Needed, FrameSize
<1>7. Resting' BY <1>1 DEF Resting
<1> QED BY <1>1, <1>5, <1>6, <1>7 DEF PcmInv, PaddingLoop, Padded

LEMMA AddVbrType ==
    ASSUME NEW v \in [sum : Nat, seen : Nat, want : Nat \ {0}, bag : Seq(Nat)], NEW rate \in Nat
    PROVE  AddVbr(v, rate) \in [sum : Nat, seen : Nat, want : Nat \ {0}, bag : Seq(Nat)]
<1>1. PICK s \in Nat, n \in Nat, w \in Nat \ {0}, b \in Seq(Nat) :
        s = v.sum /\ n = v.seen /\ w = v.want /\ b = v.bag
  OBVIOUS
<1>2. PICK sum \in Nat, bag \in Seq(Nat), n1 \in Nat, w2 \in Nat \ {0} :
        /\ sum = v.sum + rate /\ bag = Append(v.bag, sum)
        /\ n1 = v.seen + 1 /\ w2 = 2 * v.want
  <2>1. s + rate \in Nat /\ n + 1 \in Nat /\ 2 * w \in Nat \ {0} OBVIOUS
  <2>2. Append(b, s + rate) \in Seq(Nat) BY <2>1
  <2> QED BY <2>1, <2>2, <1>1
<1>3. CASE v.seen + 1 < v.want
  <2>1. AddVbr(v, rate) = [v EXCEPT !.sum = sum, !.seen = n1]
    BY <1>2, <1>3 DEF AddVbr
  <2> QED BY <2>1
<1>4. CASE ~(v.seen + 1 < v.want) /\ Len(bag) < BagSize
  <2>1. AddVbr(v, rate) = [v EXCEPT !.sum = sum, !.seen = 0, !.bag = bag]
    BY <1>2, <1>4 DEF AddVbr
  <2> DEFINE R == [sum : Nat, seen : Nat, want : Nat \ {0}, bag : Seq(Nat)]
  <2>2. PICK x \in R : x = [v EXCEPT !.sum = sum] OBVIOUS
  <2>3. PICK y \in R : y = [x EXCEPT !.seen = 0] OBVIOUS
  <2>4. [y EXCEPT !.bag = bag] \in R OBVIOUS
  <2> QED BY <2>1, <2>2, <2>3, <2>4
<1>5. CASE ~(v.seen + 1 < v.want) /\ ~(Len(bag) < BagSize)
  <2>1. AddVbr(v, rate) = [sum |-> sum, seen |-> 0, want |-> w2,
                           bag |-> [k \in 1 .. BagSize \div 2 |-> bag[2 * k]]]
    BY <1>2, <1>5 DEF AddVbr
  <2>2. PICK half \in Nat : half = BagSize \div 2 /\ 2 * half <= BagSize
    <3>1. BagSize \in Nat BY LameAssumption
    <3>2. BagSize \div 2 \in Nat /\ 2 * (BagSize \div 2) <= BagSize BY <3>1
    <3> QED BY <3>2
  <2>3. ASSUME NEW k \in 1 .. half PROVE bag[2 * k] \in Nat
    <3>1. BagSize \in Nat /\ Len(bag) \in Nat BY LameAssumption
    <3>2. 2 * k \in 1 .. Len(bag) BY <3>1, <2>2, <1>5
    <3> QED BY <3>2
  <2>4. [k \in 1 .. half |-> bag[2 * k]] \in Seq(Nat)
    <3>1. [k \in 1 .. half |-> bag[2 * k]] \in [1 .. half -> Nat] BY <2>3
    <3> QED BY <3>1
  <2> QED BY <2>1, <2>2, <2>4, <1>1
<1> QED BY <1>3, <1>4, <1>5

\* The history of a frame that is copied out.
LEMMA AudioStep ==
    ASSUME NEW a \in [input : Nat, frames : Nat, end : Int, rates : Seq(Nat)],
           NEW f1 \in Nat, NEW e1 \in Int, NEW r \in Seq(Nat)
    PROVE  LET b == [a EXCEPT !.frames = f1, !.end = e1, !.rates = r]
           IN /\ b \in [input : Nat, frames : Nat, end : Int, rates : Seq(Nat)]
              /\ b.input = a.input /\ b.frames = f1 /\ b.end = e1
<1> DEFINE A == [input : Nat, frames : Nat, end : Int, rates : Seq(Nat)]
<1>1. PICK x \in A : x = [a EXCEPT !.frames = f1]
  OBVIOUS
<1>2. x.input = a.input /\ x.frames = f1 BY <1>1
<1>3. PICK y \in A : y = [x EXCEPT !.end = e1]
  OBVIOUS
<1>4. y.input = a.input /\ y.frames = f1 /\ y.end = e1 BY <1>2, <1>3
<1>5. PICK z \in A : z = [y EXCEPT !.rates = r]
  OBVIOUS
<1>6. z.input = a.input /\ z.frames = f1 /\ z.end = e1 BY <1>4, <1>5
<1>7. [a EXCEPT !.frames = f1, !.end = e1, !.rates = r] = z BY <1>1, <1>3, <1>5
<1> QED BY <1>6, <1>7

LEMMA CopyFrameInv == ASSUME IInv, PcmInv, TypeOK', CopyFrame PROVE PcmInv'
<1>1. PICK fs \in Nat : fs = FrameSize /\ fs \in {576, 1152} /\ Needed = 752 + fs
  BY Sizes
<1>2. PICK m \in Nat, e \in Nat, l \in Nat, i \in Nat, f \in Nat, end \in Int, num \in Nat :
        /\ m = mfSize /\ e = mfToEncode /\ l = left /\ i = audio.input /\ f = audio.frames
        /\ end = audio.end /\ num = frameNumber
  BY LameFacts DEF PcmInv
<1>3. PICK rate \in Nat : rate = Rate(bitrateIndex)
  <2>1. bitrateIndex # 0 BY DEF CopyFrame, PcmInv, Resting
  <2>2. bitrateIndex \in 1 .. MaxIndex
    <3>1. bitrateIndex \in 0 .. MaxIndex BY DEF IInv, TypeOK
    <3> QED BY <3>1, <2>1, Table
  <2>3. FrameBytes[bitrateIndex] \in Nat BY <2>2, Table
  <2> QED BY <2>3 DEF Rate
<1> DEFINE small == TooSmall(Remaining(call.inSize, call.inOut))
<1>4. /\ pc = "copy" /\ m >= 752 + fs /\ m < 752 + fs + fs /\ pc' = "idle"
      /\ IF small
         THEN /\ call' = [NoCall EXCEPT !.op = "failed"] /\ left' = 0
              /\ mfToEncode' = IF call.op = "flush" THEN 0 ELSE e
              /\ mfSize' = m
         ELSE /\ call' = [call EXCEPT !.inOut = call.inOut + buffered \div 8]
              /\ mfSize' = m - fs /\ mfToEncode' = e - fs /\ left' = l
      /\ seek' = IF TagBytes = 0 THEN seek ELSE AddVbr(seek, rate)
      /\ frameNumber' = num + 1
      /\ audio' = [audio EXCEPT !.frames = f + 1, !.end = end - fs,
                                !.rates = Append(audio.rates, rate)]
      /\ UNCHANGED <<encoderPadding, framesLeft, calls>>
  <2>1. m < 752 + fs + fs BY <1>1, <1>2 DEF PcmInv, Fill
  <2> HIDE DEF small
  <2> QED BY <2>1, <1>1, <1>2, <1>3 DEF CopyFrame, CopyBuffer, FrameDue, small
<1> HIDE DEF small
<1>5. /\ call \in Calls
      /\ audio \in [input : Nat, frames : Nat, end : Int, rates : Seq(Nat)]
      /\ seek \in [sum : Nat, seen : Nat, want : Nat \ {0}, bag : Seq(Nat)]
  BY DEF PcmInv, LameTypeOK
<1>6. call.op \in {"buffer", "flush"}
  <2>1. call.op \in Ops BY LameFacts DEF PcmInv
  <2>2. call.op # "failed" BY <1>4 DEF PcmInv, Resting, Failed
  <2>3. ~(m < Needed) BY <1>1, <1>4
  <2>4. call.op \notin {"none", "flushing", "nogap"} BY <2>3, <1>2 DEF PcmInv, Fill
  <2> QED BY <2>1, <2>2, <2>4 DEF Ops
<1>7. e >= m + 976
  <2>1. CASE call.op = "buffer"
    <3>1. ~(m <= 752) BY <1>1, <1>4
    <3>2. 752 + fs - fs = 752 BY <1>1
    <3> QED BY <2>1, <3>1, <3>2, <1>1, <1>2 DEF PcmInv, Feeding
  <2>2. CASE call.op = "flush" BY <2>2, <1>2 DEF PcmInv, PaddingLoop
  <2> QED BY <2>1, <2>2, <1>6
<1>8. /\ audio' \in [input : Nat, frames : Nat, end : Int, rates : Seq(Nat)]
      /\ audio'.input = i /\ audio'.frames = f + 1 /\ audio'.end = end - fs
  <2>1. PICK rates \in Seq(Nat) : rates = Append(audio.rates, rate)
    <3>1. PICK a \in [input : Nat, frames : Nat, end : Int, rates : Seq(Nat)] : a = audio
      BY <1>5
    <3>2. PICK s \in Seq(Nat) : s = a.rates OBVIOUS
    <3>3. Append(s, rate) \in Seq(Nat) OBVIOUS
    <3> QED BY <3>1, <3>2, <3>3
  <2>2. PICK f1 \in Nat, end1 \in Int : f1 = f + 1 /\ end1 = end - fs BY <1>1
  <2>3. audio' = [audio EXCEPT !.frames = f1, !.end = end1, !.rates = rates]
    BY <1>4, <2>1, <2>2
  <2> QED BY <2>2, <2>3, <1>2, <1>5, AudioStep
<1>9. seek' \in [sum : Nat, seen : Nat, want : Nat \ {0}, bag : Seq(Nat)]
  BY <1>4, <1>5, AddVbrType
<1>10. call' \in Calls /\ call'.op = IF small THEN "failed" ELSE call.op
  <2>1. CASE small BY <2>1, <1>4, NoCallType DEF Calls
  <2>2. CASE ~small
    <3>1. buffered \in Nat BY LameFacts DEF PcmInv
    <3>2. PICK out \in Nat : out = call.inOut + buffered \div 8
      <4>1. buffered \div 8 \in Nat BY <3>1
      <4>2. call.inOut \in Nat BY <1>5 DEF Calls
      <4> QED BY <4>1, <4>2
    <3>3. call' = [call EXCEPT !.inOut = out] BY <2>2, <1>4, <3>2
    <3> QED BY <3>3, <2>2, <1>5 DEF Calls
  <2> QED BY <2>1, <2>2
<1>11. mfSize' \in Nat /\ mfToEncode' \in Nat /\ left' \in Nat /\ mfSize' < 752 + fs + fs
  <2>1. m - fs \in Nat /\ m - fs < 752 + fs + fs /\ e - fs \in Nat BY <1>1, <1>4, <1>7
  <2> QED BY <2>1, <1>4
<1>12. LameTypeOK'
  <2>1. FrameSize' = FrameSize BY DEF FrameSize
  <2>2. /\ encoderPadding' \in 0 .. FrameSize' + 575 /\ framesLeft' \in Nat
        /\ calls' \in 0 .. MaxCalls
    BY <2>1, <1>4 DEF PcmInv, LameTypeOK
  <2>3. frameNumber' \in Nat BY <1>4
  <2> QED BY <2>2, <2>3, <1>8, <1>9, <1>10, <1>11 DEF LameTypeOK
<1>13. FrameSize' = fs /\ Needed' = 752 + fs
  BY <1>1 DEF FrameSize, Needed
<1>14. Fill'
  <2>1. call'.op \notin {"none", "flushing", "nogap"} BY <1>6, <1>10
  <2> QED BY <2>1, <1>11, <1>13 DEF Fill
<1>15. Resting' BY <1>4 DEF Resting
<1>16. CASE small
  BY <1>10, <1>12, <1>14, <1>15, <1>16 DEF PcmInv, Feeding, PaddingLoop, Padded
<1>17. CASE ~small /\ call.op = "buffer"
  <2>1. mfSize' = m - fs /\ mfToEncode' = e - fs BY <1>4, <1>17
  <2>2. e # 0 BY <1>7
  <2>3. fs * f = 1728 + i - e /\ (i > 0 => end = m)
    BY <2>2, <1>1, <1>2, <1>17 DEF PcmInv, Feeding, ENCDELAY, POSTDELAY
  <2>4. fs * (f + 1) = 1728 + i - (e - fs)
    <3>1. fs * (f + 1) = fs * f + fs BY <1>1
    <3> QED BY <3>1, <2>3, <1>1
  <2>5. e - fs # 0 /\ e - fs >= (m - fs) + 976 /\ (i > 0 => end - fs = m - fs)
    BY <2>3, <1>1, <1>4, <1>7
  <2>6. Feeding'
    BY <2>1, <2>4, <2>5, <1>8, <1>13 DEF Feeding, ENCDELAY, POSTDELAY
  <2> QED BY <2>6, <1>10, <1>12, <1>14, <1>15, <1>17 DEF PcmInv, PaddingLoop, Padded
<1>18. CASE ~small /\ call.op = "flush"
  <2>1. mfSize' = m - fs /\ mfToEncode' = e - fs /\ left' = l BY <1>4, <1>18
  <2>2. PICK done \in {0, 1}, pad \in Nat, k \in Nat :
          done = Done /\ pad = encoderPadding /\ k = framesLeft
    BY <1>18, LameFacts DEF PcmInv, PaddingLoop
  <2>3. /\ k >= 1 /\ pad >= 576
        /\ fs * (f + k - done) = 576 + i + pad
        /\ i > 0 => end - fs * (k - done) <= 176 - pad
        /\ m + l <= 752 + fs - fs * done
    BY <2>2, <1>1, <1>2, <1>18 DEF PcmInv, PaddingLoop, ENCDELAY
  <2>4. done = 0
    <3>1. fs * 1 = fs BY <1>1
    <3>2. ~(m + l <= 752 + fs - fs) BY <1>1, <1>4
    <3> QED BY <3>1, <3>2, <2>3
  <2>5. Done' = 1
    <3>1. call'.atFrame = call.atFrame /\ call.atFrame \in Nat
      <4>1. call' = [call EXCEPT !.inOut = call.inOut + buffered \div 8] BY <1>4, <1>18
      <4> QED BY <4>1, <1>5 DEF Calls
    <3>2. num - call.atFrame = 0 BY <2>2, <2>4, <1>2 DEF Done
    <3>3. (num + 1) - call.atFrame = 1 BY <3>1, <3>2
    <3> QED BY <3>1, <3>3, <1>4 DEF Done
  <2>6. /\ fs * ((f + 1) + k - 1) = 576 + i + pad
        /\ fs * 1 = fs /\ (m - fs) + l <= 752 + fs - fs
    <3>1. (f + 1) + k - 1 = f + k - 0 OBVIOUS
    <3>2. fs * 0 = 0 /\ fs * 1 = fs BY <1>1
    <3> QED BY <3>1, <3>2, <2>3, <2>4, <1>1
  <2>7. i > 0 => (end - fs) - fs * (k - 1) <= 176 - pad
    <3>1. PICK g \in Int : g = fs * k /\ fs * (k - 1) = g - fs
      <4>1. fs * (k - 1) = fs * k - fs BY <1>1
      <4>2. fs * k \in Int BY <1>1
      <4> QED BY <4>1, <4>2
    <3>2. k - 0 = k OBVIOUS
    <3>3. i > 0 => end - g <= 176 - pad BY <3>1, <3>2, <2>3, <2>4
    <3>4. i > 0 => (end - fs) - (g - fs) <= 176 - pad BY <3>3, <1>1
    <3> QED BY <3>1, <3>4
  <2>8. e - fs >= (m - fs) + 976 BY <1>1, <1>7
  <2>9. encoderPadding' = pad /\ framesLeft' = k BY <2>2, <1>4
  <2>10. PaddingLoop'
    BY <2>1, <2>3, <2>5, <2>6, <2>7, <2>8, <2>9, <1>8, <1>13 DEF PaddingLoop, ENCDELAY
  <2> QED BY <2>10, <1>10, <1>12, <1>14, <1>15, <1>18 DEF PcmInv, Feeding, Padded
<1> QED BY <1>6, <1>16, <1>17, <1>18

LEMMA PcmNextInv ==
    ASSUME IInv, PcmInv, RingAssumption, [LameNext]_lameVars
    PROVE  PcmInv'
<1>1. TypeOK'
  BY LameNextInv DEF IInv
<1>2. CASE \E n \in InputSizes, size \in BufferSizes : EncodeBuffer(n, size)
  BY <1>1, <1>2, EncodeBufferInv
<1>3. CASE \E size \in BufferSizes : EncodeFlush(size)
  BY <1>1, <1>3, EncodeFlushInv
<1>4. CASE \E size \in BufferSizes : FlushNogap(size)
  BY <1>1, <1>4, FlushNogapInv
<1>5. CASE StartFile BY <1>1, <1>5, StartFileInv
<1>6. CASE Inside
  <2>1. CASE FillBuffer BY <2>1, <1>1, FillBufferInv
  <2>2. CASE EncodeFrame BY <2>2, <1>1, EncodeFrameInv
  <2>3. CASE Format BY <2>3, <1>1, FormatInv
  <2>4. CASE CopyFrame BY <2>4, <1>1, CopyFrameInv
  <2>5. CASE ReturnFromBuffer BY <2>5, <1>1, ReturnFromBufferInv
  <2>6. CASE FlushChunk BY <2>6, <1>1, FlushChunkInv
  <2>7. CASE FlushBitsOut BY <2>7, <1>1, FlushBitsOutInv
  <2>8. CASE CopyFlushed BY <2>8, <1>1, CopyFlushedInv
  <2> QED BY <1>6, <2>1, <2>2, <2>3, <2>4, <2>5, <2>6, <2>7, <2>8 DEF Inside
<1>7. CASE UNCHANGED lameVars
  <2>1. UNCHANGED encoderVars /\ pc' = pc /\ bitrateIndex' = bitrateIndex
    BY <1>7 DEF lameVars, bitVars, rateVars
  <2>2. Resting BY DEF PcmInv
  <2>3. (Failed => pc' = "idle") /\ (pc' = "copy" /\ FrameDue => bitrateIndex' # 0)
    BY <2>1, <2>2 DEF Resting
  <2> QED BY <2>1, <2>3, <1>1, BitStepInv
<1> QED BY <1>2, <1>3, <1>4, <1>5, <1>6, <1>7 DEF LameNext

\* What the invariant says of the states the properties are about.
LEMMA PcmConsequences ==
    ASSUME PcmInv
    PROVE  LameTypeOK /\ SamplesFit /\ PaddingCounts
<1>1. LameTypeOK BY DEF PcmInv
<1>2. SamplesFit
  <2>1. mfSize <= MFSIZE
    <3>1. mfSize \in Nat /\ FrameSize <= 1152 BY <1>1, LameFacts, Sizes
    <3>2. mfSize < 752 + FrameSize + FrameSize BY Sizes DEF PcmInv, Fill
    <3>3. MFSIZE = 3984 BY DEF MFSIZE, ENCDELAY, MDCTDELAY
    <3> QED BY <3>1, <3>2, <3>3, Sizes
  <2>2. call.op = "none" => ~FrameDue
    <3>1. call.op = "none" => mfSize < Needed BY DEF PcmInv, Fill
    <3>2. mfSize \in Nat /\ Needed \in Nat BY <1>1, LameFacts, Sizes
    <3> QED BY <3>1, <3>2 DEF FrameDue
  <2> QED BY <2>1, <2>2 DEF PcmInv, PaddingLoop, SamplesFit, Done
<1>3. ASSUME call.op = "flushing", audio.input > 0
      PROVE  audio.end + MDCTDELAY + 288 <= 0
  <2>1. PICK end \in Int, pad \in Nat : end = audio.end /\ pad = encoderPadding
    BY <1>1, LameFacts
  <2>2. pad >= 576 /\ end <= 176 - pad BY <1>3, <2>1 DEF PcmInv, Padded
  <2>3. end + 48 + 288 <= 0 BY <2>2
  <2> QED BY <2>1, <2>3 DEF MDCTDELAY
<1>4. PaddingCounts BY <1>3 DEF PcmInv, Padded, PaddingCounts
<1> QED BY <1>1, <1>2, <1>4

LEMMA PcmInvariance ==
    RingAssumption => (LameSpec => [](IInv /\ PcmInv))
<1> SUFFICES ASSUME RingAssumption PROVE LameSpec => [](IInv /\ PcmInv)
  OBVIOUS
<1>1. LameInit => IInv /\ PcmInv BY InitInv, LameInitInv DEF LameInit
<1>2. (IInv /\ PcmInv) /\ [LameNext]_lameVars => (IInv /\ PcmInv)'
  BY LameNextInv, PcmNextInv
<1> QED BY <1>1, <1>2, PTL DEF LameSpec

\* The state of the encoder keeps its type: mf_size, mf_samples_to_encode and the
\* output position never become negative.
THEOREM LameTypeCorrect == RingAssumption => (LameSpec => []LameTypeOK)
<1> SUFFICES ASSUME RingAssumption PROVE LameSpec => []LameTypeOK
  OBVIOUS
<1>1. IInv /\ PcmInv => LameTypeOK BY PcmConsequences
<1>2. LameSpec => [](IInv /\ PcmInv) BY PcmInvariance
<1> QED BY <1>1, <1>2, PTL

\* mfbuf holds the samples of every sequence of calls, and a chunk of padding
\* completes at most one frame.
THEOREM SamplesAlwaysFit == RingAssumption => (LameSpec => []SamplesFit)
<1> SUFFICES ASSUME RingAssumption PROVE LameSpec => []SamplesFit
  OBVIOUS
<1>1. IInv /\ PcmInv => SamplesFit BY PcmConsequences
<1>2. LameSpec => [](IInv /\ PcmInv) BY PcmInvariance
<1> QED BY <1>1, <1>2, PTL

\* The delay, the samples and the padding of the LAME tag add up to the frames,
\* however the samples were cut into calls, and the last sample is encoded.
THEOREM PaddingAddsUp == RingAssumption => (LameSpec => []PaddingCounts)
<1> SUFFICES ASSUME RingAssumption PROVE LameSpec => []PaddingCounts
  OBVIOUS
<1>1. IInv /\ PcmInv => PaddingCounts BY PcmConsequences
<1>2. LameSpec => [](IInv /\ PcmInv) BY PcmInvariance
<1> QED BY <1>1, <1>2, PTL

-----------------------------------------------------------------------------
(* The seek table of VbrTag.c                                              *)

\* f holds the sums of the first entries of s.
Sums(f, s, n) == f = [k \in 0 .. n |-> IF k = 0 THEN 0 ELSE f[k - 1] + s[k]]

LEMMA SumsExist == ASSUME NEW s, NEW n \in Nat PROVE \E f : Sums(f, s, n)
<1> DEFINE S == {m \in Nat : \E f : Sums(f, s, m)}
<1>1. 0 \in S
  <2> DEFINE f == [k \in 0 .. 0 |-> 0]
  <2>1. Sums(f, s, 0)
    <3>1. \A k \in 0 .. 0 : k = 0
      OBVIOUS
    <3> QED BY <3>1 DEF Sums
  <2> HIDE DEF f
  <2> QED BY <2>1
<1>2. ASSUME NEW m \in Nat, m \in S PROVE m + 1 \in S
  <2>1. PICK f : Sums(f, s, m)
    BY <1>2
  <2> DEFINE g == [k \in 0 .. (m + 1) |-> IF k = m + 1 THEN f[m] + s[k] ELSE f[k]]
  <2>2. \A k \in 0 .. m : g[k] = f[k]
    OBVIOUS
  <2>3. \A k \in 0 .. (m + 1) : g[k] = IF k = 0 THEN 0 ELSE g[k - 1] + s[k]
    <3> TAKE k \in 0 .. (m + 1)
    <3>1. CASE k = m + 1
      <4>1. g[k] = f[m] + s[k] /\ k # 0 /\ k - 1 = m /\ m \in 0 .. m
        BY <3>1
      <4>2. g[k - 1] = f[m]
        BY <2>2, <4>1
      <4> HIDE DEF g
      <4> QED BY <4>1, <4>2
    <3>2. CASE k \in 0 .. m
      <4>1. g[k] = f[k]
        BY <2>2, <3>2
      <4>2. f[k] = IF k = 0 THEN 0 ELSE f[k - 1] + s[k]
        BY <2>1, <3>2 DEF Sums
      <4>3. k # 0 => k - 1 \in 0 .. m
        BY <3>2
      <4>4. k # 0 => g[k - 1] = f[k - 1]
        BY <2>2, <4>3
      <4> HIDE DEF g
      <4> QED BY <4>1, <4>2, <4>4
    <3> QED BY <3>1, <3>2
  <2>4. Sums(g, s, m + 1)
    <3>1. g = [k \in 0 .. (m + 1) |-> g[k]]
      OBVIOUS
    <3> HIDE DEF g
    <3> QED BY <2>3, <3>1 DEF Sums
  <2> HIDE DEF g
  <2> QED BY <2>4
<1> HIDE DEF S
<1>3. Nat \subseteq S
  BY <1>1, <1>2, SetInduction
<1> QED BY <1>3 DEF S

LEMMA SumToIsSums ==
    ASSUME NEW s, NEW n \in Nat
    PROVE  \E f : Sums(f, s, n) /\ SumTo(s, n) = f[n]
<1> DEFINE sums == CHOOSE f : f = [k \in 0 .. n |-> IF k = 0 THEN 0 ELSE f[k - 1] + s[k]]
<1>1. Sums(sums, s, n)
  BY SumsExist DEF Sums
<1>2. SumTo(s, n) = sums[n]
  BY DEF SumTo
<1> HIDE DEF sums
<1> QED BY <1>1, <1>2

\* Sums of sequences that agree so far agree so far.
LEMMA SumsAgree ==
    ASSUME NEW s, NEW t, NEW n \in Nat, NEW m \in Nat, NEW f, NEW g,
           Sums(f, s, n), Sums(g, t, m),
           NEW j \in Nat, j <= n, j <= m, \A k \in 1 .. j : s[k] = t[k]
    PROVE  f[j] = g[j]
<1> DEFINE S == {k \in Nat : k <= j => f[k] = g[k]}
<1>1. 0 \in S
  <2>1. f[0] = 0 /\ g[0] = 0
    BY DEF Sums
  <2> QED BY <2>1
<1>2. ASSUME NEW k \in Nat, k \in S PROVE k + 1 \in S
  <2> SUFFICES ASSUME k + 1 <= j PROVE f[k + 1] = g[k + 1]
    OBVIOUS
  <2>1. k + 1 \in 0 .. n /\ k + 1 \in 0 .. m /\ k + 1 \in 1 .. j /\ k + 1 # 0 /\ (k + 1) - 1 = k
    OBVIOUS
  <2>2. f[k + 1] = f[k] + s[k + 1] /\ g[k + 1] = g[k] + t[k + 1]
    BY <2>1 DEF Sums
  <2>3. f[k] = g[k] /\ s[k + 1] = t[k + 1]
    BY <1>2, <2>1
  <2> QED BY <2>2, <2>3
<1> HIDE DEF S
<1>3. Nat \subseteq S
  BY <1>1, <1>2, SetInduction
<1> QED BY <1>3 DEF S

\* A sum does not depend on what follows.
LEMMA SumToPrefix ==
    ASSUME NEW s, NEW t, NEW n \in Nat, \A k \in 1 .. n : s[k] = t[k]
    PROVE  SumTo(s, n) = SumTo(t, n)
<1>1. PICK f : Sums(f, s, n) /\ SumTo(s, n) = f[n]
  BY SumToIsSums
<1>2. PICK g : Sums(g, t, n) /\ SumTo(t, n) = g[n]
  BY SumToIsSums
<1>3. f[n] = g[n]
  BY <1>1, <1>2, SumsAgree
<1> QED BY <1>1, <1>2, <1>3

LEMMA SumToZero == ASSUME NEW s PROVE SumTo(s, 0) = 0
<1>1. PICK f : Sums(f, s, 0) /\ SumTo(s, 0) = f[0]
  BY SumToIsSums
<1> QED BY <1>1 DEF Sums

LEMMA SumToNext ==
    ASSUME NEW s, NEW n \in Nat
    PROVE  SumTo(s, n + 1) = SumTo(s, n) + s[n + 1]
<1>1. n + 1 \in Nat /\ n + 1 # 0 /\ (n + 1) - 1 = n /\ n + 1 \in 0 .. (n + 1)
  OBVIOUS
<1>2. PICK f : Sums(f, s, n + 1) /\ SumTo(s, n + 1) = f[n + 1]
  BY <1>1, SumToIsSums
<1>3. PICK g : Sums(g, s, n) /\ SumTo(s, n) = g[n]
  BY SumToIsSums
<1>4. f[n] = g[n]
  <2>1. n <= n /\ n <= n + 1
    OBVIOUS
  <2> QED BY <1>1, <1>2, <1>3, <2>1, SumsAgree
<1>5. f[n + 1] = f[n] + s[n + 1]
  BY <1>1, <1>2 DEF Sums
<1> QED BY <1>2, <1>3, <1>4, <1>5

\* The table v stands for the frames of these bit rates.
Covers(v, rates) ==
    /\ v.seen < v.want /\ Len(v.bag) < BagSize
    /\ Len(rates) = Len(v.bag) * v.want + v.seen
    /\ \A k \in 1 .. Len(v.bag) : v.bag[k] = SumTo(rates, k * v.want)
    /\ v.sum = SumTo(rates, Len(rates))

SeekTables == [sum : Nat, seen : Nat, want : Nat \ {0}, bag : Seq(Nat)]

LEMMA Products ==
    ASSUME NEW l \in Nat, NEW w \in Nat, NEW n \in Nat
    PROVE  /\ l * w \in Nat /\ (l + 1) * w = l * w + w
           /\ \A k \in 1 .. l : k * w \in Nat /\ k * w <= l * w + n
<1>1. l * w \in Nat /\ (l + 1) * w = l * w + w
  OBVIOUS
<1>2. ASSUME NEW k \in 1 .. l PROVE k * w \in Nat /\ k * w <= l * w + n
  <2>1. PICK d \in Nat : l = k + d
    <3>1. l - k \in Nat /\ l = k + (l - k)
      OBVIOUS
    <3> QED BY <3>1
  <2>2. k \in Nat
    OBVIOUS
  <2>3. l * w = k * w + d * w /\ d * w \in Nat /\ k * w \in Nat
    BY <2>1, <2>2
  <2> QED BY <2>3
<1> QED BY <1>1, <1>2

\* addVbr: a frame more, whether or not its sum is put into the bag, and whether
\* or not the bag is thinned out.
LEMMA AddVbrCovers ==
    ASSUME NEW v \in SeekTables, NEW rates \in Seq(Nat), NEW rate \in Nat, Covers(v, rates)
    PROVE  Covers(AddVbr(v, rate), Append(rates, rate))
<1> DEFINE R == Append(rates, rate)
<1>1. PICK n \in Nat, w \in Nat \ {0}, b \in Seq(Nat), l \in Nat, c \in Nat :
        /\ n = v.seen /\ w = v.want /\ b = v.bag /\ l = Len(b) /\ c = Len(rates)
  BY DEF SeekTables
<1>2. /\ n < w /\ l < BagSize /\ c = l * w + n
      /\ \A k \in 1 .. l : b[k] = SumTo(rates, k * w)
      /\ v.sum = SumTo(rates, c)
  BY <1>1 DEF Covers
<1>3. Len(R) = c + 1 /\ R[c + 1] = rate /\ \A k \in 1 .. c : R[k] = rates[k]
  BY <1>1
<1>4. \A j \in 0 .. c : SumTo(R, j) = SumTo(rates, j)
  <2> TAKE j \in 0 .. c
  <2>1. j \in Nat /\ \A k \in 1 .. j : R[k] = rates[k]
    BY <1>1, <1>3
  <2> HIDE DEF R
  <2> QED BY <2>1, SumToPrefix
<1> HIDE DEF R
<1>5. v.sum + rate = SumTo(R, c + 1)
  <2>1. SumTo(R, c + 1) = SumTo(R, c) + R[c + 1]
    BY <1>1, SumToNext
  <2>2. SumTo(R, c) = SumTo(rates, c)
    <3>1. c \in 0 .. c
      OBVIOUS
    <3> QED BY <1>4, <3>1
  <2> QED BY <1>2, <1>3, <2>1, <2>2
<1>6. \A k \in 1 .. l : b[k] = SumTo(R, k * w)
  <2> TAKE k \in 1 .. l
  <2>1. k * w \in 0 .. c
    <3>1. k * w \in Nat /\ k * w <= l * w + n
      BY <1>1, Products
    <3>2. l * w \in Nat
      BY <1>1, Products
    <3> QED BY <1>2, <3>1, <3>2
  <2> QED BY <1>2, <1>4, <2>1
<1> DEFINE sum == v.sum + rate
           bag == Append(b, sum)
<1>7. CASE n + 1 < w
  <2>1. AddVbr(v, rate) = [v EXCEPT !.sum = sum, !.seen = n + 1]
    BY <1>1, <1>7 DEF AddVbr
  <2>2. /\ AddVbr(v, rate).sum = sum /\ AddVbr(v, rate).seen = n + 1
        /\ AddVbr(v, rate).want = w /\ AddVbr(v, rate).bag = b
    <3> HIDE DEF sum
    <3> QED BY <1>1, <2>1 DEF SeekTables
  <2>3. c + 1 = l * w + (n + 1)
    <3>1. l * w \in Nat
      BY <1>1, Products
    <3> QED BY <1>2, <3>1
  <2> QED BY <1>1, <1>2, <1>3, <1>5, <1>6, <1>7, <2>2, <2>3 DEF Covers, R
<1>8. CASE ~(n + 1 < w)
  <2>1. c + 1 = (l + 1) * w
    <3>1. l * w \in Nat /\ (l + 1) * w = l * w + w
      BY <1>1, Products
    <3>2. n + 1 = w
      BY <1>2, <1>8
    <3> QED BY <1>2, <3>1, <3>2
  <2>2. Len(bag) = l + 1 /\ \A k \in 1 .. l + 1 : bag[k] = SumTo(R, k * w)
    <3>0. sum \in Nat
      BY DEF SeekTables
    <3>1. Len(bag) = l + 1 /\ bag[l + 1] = sum /\ \A k \in 1 .. l : bag[k] = b[k]
      <4> HIDE DEF sum
      <4> QED BY <1>1, <3>0
    <3> HIDE DEF bag
    <3>2. ASSUME NEW k \in 1 .. l + 1 PROVE bag[k] = SumTo(R, k * w)
      <4>1. k = l + 1 \/ k \in 1 .. l
        OBVIOUS
      <4> QED BY <1>5, <1>6, <2>1, <3>1, <4>1
    <3> QED BY <3>1, <3>2
  <2>3. CASE l + 1 < BagSize
    <3>1. AddVbr(v, rate) = [v EXCEPT !.sum = sum, !.seen = 0, !.bag = bag]
      BY <1>1, <1>8, <2>2, <2>3 DEF AddVbr
    <3>2. /\ AddVbr(v, rate).sum = sum /\ AddVbr(v, rate).seen = 0
          /\ AddVbr(v, rate).want = w /\ AddVbr(v, rate).bag = bag
      <4> HIDE DEF sum, bag
      <4> QED BY <1>1, <3>1 DEF SeekTables
    <3>3. 0 < w /\ c + 1 = (l + 1) * w + 0
      <4>1. c + 1 \in Nat
        BY <1>1
      <4> QED BY <1>1, <2>1, <4>1
    <3> HIDE DEF bag
    <3> QED BY <1>3, <1>5, <2>2, <2>3, <3>2, <3>3 DEF Covers, R
  <2>4. CASE ~(l + 1 < BagSize)
    <3>1. PICK h \in Nat : h = BagSize \div 2 /\ 2 * h = BagSize /\ h < BagSize
      <4>1. BagSize \in Nat \ {0} /\ BagSize % 2 = 0
        BY LameAssumption
      <4>2. BagSize \div 2 \in Nat /\ 2 * (BagSize \div 2) = BagSize /\ BagSize \div 2 < BagSize
        BY <4>1
      <4> QED BY <4>2
    <3> DEFINE half == [k \in 1 .. h |-> bag[2 * k]]
    <3>2. AddVbr(v, rate) = [sum |-> sum, seen |-> 0, want |-> 2 * w, bag |-> half]
      BY <1>1, <1>8, <2>2, <2>4, <3>1 DEF AddVbr
    <3>3. l + 1 = 2 * h
      <4>1. l < BagSize
        BY <1>2
      <4>2. BagSize \in Nat /\ 2 * h = BagSize
        BY <3>1, LameAssumption
      <4> HIDE DEF sum, bag, half
      <4> QED BY <2>4, <4>1, <4>2
    <3>4. Len(half) = h /\ \A k \in 1 .. h : half[k] = bag[2 * k]
      <4> HIDE DEF bag
      <4> QED BY <3>1
    <3>5. ASSUME NEW k \in 1 .. h PROVE half[k] = SumTo(R, k * (2 * w))
      <4>1. 2 * k \in 1 .. l + 1
        BY <3>3, <1>1
      <4>2. (2 * k) * w = k * (2 * w)
        BY <1>1
      <4> HIDE DEF bag, half
      <4> QED BY <2>2, <3>4, <4>1, <4>2
    <3>6. c + 1 = h * (2 * w) + 0 /\ 0 < 2 * w
      <4>1. (2 * h) * w = h * (2 * w) /\ h * (2 * w) \in Nat
        OBVIOUS
      <4>2. c + 1 = (2 * h) * w
        BY <2>1, <3>3
      <4> HIDE DEF half, bag, sum
      <4> QED BY <4>1, <4>2
    <3>7. /\ AddVbr(v, rate).sum = sum /\ AddVbr(v, rate).seen = 0
          /\ AddVbr(v, rate).want = 2 * w /\ AddVbr(v, rate).bag = half
      <4> HIDE DEF half, bag, sum
      <4> QED BY <3>2
    <3>8. v.sum + rate = SumTo(R, Len(R)) /\ Len(R) = c + 1
      BY <1>3, <1>5 DEF R
    <3> HIDE DEF half, bag
    <3> QED BY <3>1, <3>4, <3>5, <3>6, <3>7, <3>8 DEF Covers, R
  <2> QED BY <2>3, <2>4
<1> QED BY <1>7, <1>8

SeekInv == TagBytes > 0 => Covers(seek, audio.rates)

LEMMA SeekInvIsProperty == SeekTableCumulative <=> SeekInv
BY DEF SeekTableCumulative, SeekInv, Covers

LEMMA EmptyCovers == Covers(EmptySeek, <<>>)
<1>1. /\ EmptySeek.seen = 0 /\ EmptySeek.want = 1 /\ EmptySeek.bag = <<>>
      /\ EmptySeek.sum = 0
  BY DEF EmptySeek
<1>2. Len(<<>>) = 0 /\ 0 < BagSize
  BY LameAssumption
<1> QED BY <1>1, <1>2, SumToZero DEF Covers

LEMMA SeekNextInv ==
    ASSUME IInv, PcmInv, SeekInv, [LameNext]_lameVars
    PROVE  SeekInv'
<1>1. seek \in SeekTables /\ audio.rates \in Seq(Nat)
      /\ audio \in [input : Nat, frames : Nat, end : Int, rates : Seq(Nat)]
  BY DEF PcmInv, LameTypeOK, SeekTables
<1>2. ASSUME seek' = seek, audio'.rates = audio.rates PROVE SeekInv'
  BY <1>2 DEF SeekInv, Covers
<1>3. ASSUME UNCHANGED <<seek, audio>> PROVE SeekInv'
  BY <1>2, <1>3
<1>4. CASE \E n \in InputSizes, size \in BufferSizes : EncodeBuffer(n, size)
  BY <1>3, <1>4 DEF EncodeBuffer
<1>5. CASE \E size \in BufferSizes : EncodeFlush(size)
  BY <1>3, <1>5 DEF EncodeFlush
<1>6. CASE \E size \in BufferSizes : FlushNogap(size)
  BY <1>3, <1>6 DEF FlushNogap
<1>7. CASE StartFile
  <2>1. seek' = EmptySeek /\ audio'.rates = <<>>
    BY <1>1, <1>7 DEF StartFile
  <2> QED BY <2>1, EmptyCovers DEF SeekInv
<1>8. CASE Inside
  <2>1. CASE FillBuffer
    <3>1. seek' = seek
      BY <2>1 DEF FillBuffer
    <3>2. audio'.rates = audio.rates
      BY <2>1, <1>1 DEF FillBuffer
    <3> QED BY <1>2, <3>1, <3>2
  <2>2. CASE EncodeFrame BY <1>3, <2>2 DEF EncodeFrame, encoderVars
  <2>3. CASE Format BY <1>3, <2>3 DEF Format, encoderVars
  <2>4. CASE CopyFrame
    <3>1. pc = "copy" /\ FrameDue
      BY <2>4 DEF CopyFrame
    <3>2. Rate(bitrateIndex) \in Nat
      <4>1. bitrateIndex # 0
        BY <3>1 DEF PcmInv, Resting
      <4>2. bitrateIndex \in 0 .. MaxIndex
        BY DEF PcmInv, LameTypeOK, TypeOK
      <4>3. FrameBytes \in Seq(Nat) /\ MaxIndex = Len(FrameBytes)
        BY BitAssumption DEF MaxIndex
      <4> QED BY <4>1, <4>2, <4>3 DEF Rate
    <3>3. seek' = IF TagBytes = 0 THEN seek ELSE AddVbr(seek, Rate(bitrateIndex))
      BY <2>4 DEF CopyFrame
    <3>4. audio'.rates = Append(audio.rates, Rate(bitrateIndex))
      BY <2>4, <1>1 DEF CopyFrame
    <3>5. ASSUME TagBytes > 0 PROVE Covers(seek', audio'.rates)
      <4>1. TagBytes # 0
        BY <3>5, BitAssumption
      <4>2. Covers(seek, audio.rates)
        BY <3>5 DEF SeekInv
      <4> QED BY <1>1, <3>2, <3>3, <3>4, <4>1, <4>2, AddVbrCovers
    <3> QED BY <3>5 DEF SeekInv, Covers
  <2>5. CASE ReturnFromBuffer BY <1>3, <2>5 DEF ReturnFromBuffer
  <2>6. CASE FlushChunk BY <1>3, <2>6 DEF FlushChunk
  <2>7. CASE FlushBitsOut BY <1>3, <2>7 DEF FlushBitsOut
  <2>8. CASE CopyFlushed
    <3>1. seek' = seek
      BY <2>8 DEF CopyFlushed
    <3>2. audio'.rates = audio.rates
      BY <2>8, <1>1 DEF CopyFlushed
    <3> QED BY <1>2, <3>1, <3>2
  <2> QED BY <1>8, <2>1, <2>2, <2>3, <2>4, <2>5, <2>6, <2>7, <2>8 DEF Inside
<1>9. CASE UNCHANGED lameVars BY <1>3, <1>9 DEF lameVars, encoderVars
<1> QED BY <1>4, <1>5, <1>6, <1>7, <1>8, <1>9 DEF LameNext

\* Every entry of the seek table is the sum of the bit rates up to the frame it
\* stands for, however often addVbr thinned the bag out, and no frame since
\* lame_init_bitstream is missed.
THEOREM SeekTableAddsUp == RingAssumption => (LameSpec => []SeekTableCumulative)
<1> SUFFICES ASSUME RingAssumption PROVE LameSpec => []SeekTableCumulative
  OBVIOUS
<1>1. LameInit => SeekInv
  <2> SUFFICES ASSUME LameInit PROVE SeekInv
    OBVIOUS
  <2>1. seek = EmptySeek /\ audio.rates = <<>>
    BY DEF LameInit
  <2> QED BY <2>1, EmptyCovers DEF SeekInv
<1>2. SeekInv /\ (IInv /\ PcmInv) /\ [LameNext]_lameVars => SeekInv'
  BY SeekNextInv
<1>3. LameSpec => [](IInv /\ PcmInv) BY PcmInvariance
<1>4. SeekInv => SeekTableCumulative BY SeekInvIsProperty
<1> QED BY <1>1, <1>2, <1>3, <1>4, PTL DEF LameSpec
=============================================================================
