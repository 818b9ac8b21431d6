------------------------ MODULE TransportDec_proofs ------------------------
(***************************************************************************)
(* What holds of the transport decoder for every set of streams, buffer    *)
(* size, portions of input and flushes.                                    *)
(***************************************************************************)
EXTENDS TransportDec, FiniteSetTheorems, WellFoundedInduction, TLAPS

(* A bounded set of numbers has a least and a greatest element: the search  *)
(* has a first hit.  The intervals up to, and from, its elements are        *)
(* well-founded by inclusion.                                               *)
LEMMA Extremes ==
  ASSUME NEW n \in Nat, NEW T, T \subseteq 0 .. n, T # {}
  PROVE  /\ Min(T) \in T /\ \A x \in T : Min(T) <= x
         /\ Max(T) \in T /\ \A x \in T : x <= Max(T)
<1>1. IsWellFoundedOn(StrictSubsetOrdering(0 .. n), FiniteSubsetsOf(0 .. n))
  BY FS_StrictSubsetOrderingWellFounded
<1>2. ASSUME NEW I, I = {0 .. x : x \in T} \/ I = {x .. n : x \in T}
      PROVE  \E a \in I : \A b \in I : ~(b \subseteq a /\ b # a)
  <2>1. \A a \in I : a \in FiniteSubsetsOf(0 .. n)
    <3>1. \A a \in I : a \subseteq 0 .. n  BY <1>2
    <3>2. IsFiniteSet(0 .. n)  BY FS_Interval
    <3> QED  BY <3>1, <3>2, FS_Subset DEF FiniteSubsetsOf
  <2>2. I # {}  BY <1>2
  <2>3. \E a \in I : \A b \in I : ~(<<b, a>> \in StrictSubsetOrdering(0 .. n))
    <3>1. I \subseteq FiniteSubsetsOf(0 .. n)  BY <2>1
    <3> QED  BY <3>1, <2>2, <1>1, WFMin, Zenon
  <2>4. \A a \in I, b \in I : b \subseteq a /\ b # a
           => <<b, a>> \in StrictSubsetOrdering(0 .. n)
    BY <1>2 DEF StrictSubsetOrdering
  <2> QED  BY <2>3, <2>4
<1>3. \E m \in T : \A x \in T : m <= x
  <2> DEFINE I == {0 .. x : x \in T}
  <2>1. \E a \in I : \A b \in I : ~(b \subseteq a /\ b # a)
    <3>1. I = {0 .. x : x \in T} \/ I = {x .. n : x \in T}  OBVIOUS
    <3> HIDE DEF I
    <3> QED  BY <3>1, <1>2
  <2>2. PICK m \in T : \A b \in I : ~(b \subseteq 0 .. m /\ b # 0 .. m)
    BY <2>1
  <2>3. ASSUME NEW x \in T, ~(m <= x) PROVE FALSE
    <3>1. 0 .. x \in I  OBVIOUS
    <3>2. 0 .. x \subseteq 0 .. m /\ m \notin 0 .. x /\ m \in 0 .. m  BY <2>3
    <3> QED  BY <3>1, <3>2, <2>2
  <2> QED  BY <2>3
<1>4. \E m \in T : \A x \in T : x <= m
  <2> DEFINE I == {x .. n : x \in T}
  <2>1. \E a \in I : \A b \in I : ~(b \subseteq a /\ b # a)
    <3>1. I = {0 .. x : x \in T} \/ I = {x .. n : x \in T}  OBVIOUS
    <3> HIDE DEF I
    <3> QED  BY <3>1, <1>2
  <2>2. PICK m \in T : \A b \in I : ~(b \subseteq m .. n /\ b # m .. n)
    BY <2>1
  <2>3. ASSUME NEW x \in T, ~(x <= m) PROVE FALSE
    <3>1. x .. n \in I  OBVIOUS
    <3>2. x .. n \subseteq m .. n /\ m \notin x .. n /\ m \in m .. n  BY <2>3
    <3> QED  BY <3>1, <3>2, <2>2
  <2> QED  BY <2>3
<1> QED  BY <1>3, <1>4 DEF Min, Max

(* The two-element sets the definitions take extremes of.                   *)
LEMMA OfTwo ==
  ASSUME NEW a \in Int, NEW b \in Int
  PROVE  /\ Min({a, b}) = IF a <= b THEN a ELSE b
         /\ Max({a, b}) = IF a <= b THEN b ELSE a
BY DEF Min, Max

LEMMA ByteAlignedSums ==
  ASSUME NEW a \in Int, NEW b \in Int, a % 8 = 0, b % 8 = 0
  PROVE  (a + b) % 8 = 0 /\ (a - b) % 8 = 0
OBVIOUS

LEMMA RoomLeft ==
  ASSUME NEW capacity \in Nat, NEW unread \in Int,
         capacity > 56, unread < capacity - 7
  PROVE  (IF unread <= 0 THEN capacity ELSE capacity - unread) \div 8 > 0
<1>1. CASE unread <= 0  BY <1>1
<1>2. CASE unread > 0
  <2>1. capacity - unread \in Nat /\ capacity - unread >= 8  BY <1>2
  <2> QED  BY <2>1, <1>2
<1> QED  BY <1>1, <1>2

-----------------------------------------------------------------------------
(* The parts of the inductive invariant.                                    *)

(* Reader and data stand at byte boundaries, also between two blocks.       *)
ByteAlignedPositions == pos % 8 = 0 /\ fed % 8 = 0

(* The blocks that are still due are blocks of the header that is kept.     *)
BlocksOfHeader == numberOfRawDataBlocks <= num_raw_blocks(bs)

(* The buffer can hold the frame whose blocks are due.                      *)
FrameFits == numberOfRawDataBlocks > 0 => FrameBits(bs) <= bufBits - 7

(* The frame of a block that is due or being decoded starts at a byte       *)
(* boundary; globalFramePos lies a sync word of 12 bits behind it.          *)
FrameStartsAligned ==
  numberOfRawDataBlocks > 0 \/ decoding => globalFramePos % 8 = 4

AccessUnitAligned ==
  accessUnitAnchor % 8 = 0 /\ (auLength > 0 => auLength % 8 = 0)

Known == Type /\ BlocksOfHeader /\ FrameFits

Aligned == /\ ByteAlignedPositions /\ FrameStartsAligned /\ AccessUnitAligned
           /\ NoAbort

IInv == Known /\ (~Interrupts => Aligned)

-----------------------------------------------------------------------------
(* Headers and streams.                                                     *)

IsHeader(h) == h \in Header /\ Len(h.blocks) \in 1 .. 4

LEMMA HeaderSizes ==
  ASSUME NEW h, IsHeader(h)
  PROVE  /\ HeaderBits(h) \in Nat /\ HeaderBits(h) >= 56 /\ HeaderBits(h) % 8 = 0
         /\ FrameBits(h) \in Nat /\ FrameBits(h) % 8 = 0
         /\ num_raw_blocks(h) \in 0 .. 3
<1>1. Len(h.blocks) \in 1 .. 4 /\ h.crc \in BOOLEAN /\ h.frame_length \in Nat
  BY DEF IsHeader, Header
<1>2. num_raw_blocks(h) \in 0 .. 3  BY <1>1 DEF num_raw_blocks
<1>3. FrameBits(h) \in Nat /\ FrameBits(h) % 8 = 0  BY <1>1 DEF FrameBits
<1>4. /\ HeaderBits(h) \in Nat /\ HeaderBits(h) >= 56
      /\ HeaderBits(h) % 8 = 0
  BY <1>1, <1>2 DEF HeaderBits, ADTS_HEADERLENGTH, CrcLength, PositionLength
<1> QED  BY <1>2, <1>3, <1>4

(* What is computed of the length of a block keeps the byte boundary.       *)
LEMMA BlockLengthAligned ==
  ASSUME NEW h, IsHeader(h), NEW k \in 0 .. num_raw_blocks(h)
  PROVE  /\ RawDataBlockLength(h, k) \in Int
         /\ RawDataBlockLength(h, k) > 0 => RawDataBlockLength(h, k) % 8 = 0
<1>1. Len(h.blocks) \in 1 .. 4 /\ h.crc \in BOOLEAN /\ h.blocks \in Seq(Nat)
  BY DEF IsHeader, Header
<1>2. k + 1 \in 1 .. Len(h.blocks)  BY <1>1 DEF num_raw_blocks
<1>3. h.blocks[k + 1] \in Nat  BY <1>1, <1>2
<1>4. FrameBits(h) \in Nat /\ FrameBits(h) % 8 = 0  BY HeaderSizes
<1> QED  BY <1>1, <1>3, <1>4 DEF RawDataBlockLength, CrcLength

LEMMA StreamFacts ==
  ASSUME stream \in Streams
  PROVE  /\ stream.size \in Nat
         /\ \A q \in DOMAIN stream.headers :
              /\ q \in 0 .. stream.size /\ q % 8 = 0
              /\ IsHeader(stream.headers[q])
         /\ \A u \in DOMAIN stream.blockEnd :
              stream.blockEnd[u] \in Int /\ stream.blockEnd[u] % 8 = 0
<1>1. IsStream(stream)  BY StreamsAssumption
<1>2. stream.size \in Nat  BY <1>1 DEF IsStream
<1>3. \A q \in DOMAIN stream.headers :
        /\ q \in 0 .. stream.size /\ q % 8 = 0
        /\ IsHeader(stream.headers[q])
  BY <1>1 DEF IsStream, ByteAligned, IsHeader
<1>4. ASSUME NEW u \in DOMAIN stream.blockEnd
      PROVE  stream.blockEnd[u] \in Int /\ stream.blockEnd[u] % 8 = 0
  <2>1. stream.blockEnd[u] % 8 = 0 /\ stream.blockEnd[u] \in u .. stream.size
    BY <1>1 DEF IsStream
  <2> QED  BY <2>1
<1> QED  BY <1>2, <1>3, <1>4

-----------------------------------------------------------------------------
(* The search for a frame header.                                           *)

LEMMA ComparedFacts ==
  ASSUME Type
  PROVE  /\ Compared \subseteq 0 .. stream.size
         /\ Tried \subseteq Compared /\ Hits \subseteq Compared
         /\ \A q \in Compared :
              q \in Int /\ q >= pos /\ q % 8 = 0 /\ IsHeader(stream.headers[q])
<1>1. stream \in Streams  BY DEF Type
<1>2. \A q \in Compared : q \in DOMAIN stream.headers /\ q >= pos
  BY DEF Compared
<1>3. Tried \subseteq Compared /\ Hits \subseteq Compared  BY DEF Tried, Hits
<1> QED  BY <1>1, <1>2, <1>3, StreamFacts

(* The search stops at or behind the position, at a byte boundary if it     *)
(* started at one; at a header that opens a frame if it succeeds; and where *)
(* there is room for more bits if it asks for them.                         *)
LEMMA SearchFacts ==
  ASSUME Type
  PROVE  /\ SearchEnd \in Int /\ SearchEnd >= pos
         /\ ByteAlignedPositions => SearchEnd % 8 = 0
         /\ SearchResult = "OK" =>
              /\ SearchEnd \in Tried /\ Opens(SearchEnd)
              /\ \A q \in Tried : q <= SearchEnd
         /\ SearchResult = "NOT_ENOUGH_BITS" => fed - SearchEnd < bufBits - 7
<1>1. fed \in Int /\ pos \in Int /\ synced \in BOOLEAN /\ stream \in Streams
  BY StreamFacts DEF Type
<1>2. stream.size \in Nat  BY <1>1, StreamFacts
<1>3. TooFewToSearch <=> fed - pos < 20
  BY <1>1 DEF TooFewToSearch, Valid, ADTS_SYNCLENGTH, TPDEC_SYNCSKIP
<1>4. CASE synced \/ TooFewToSearch
  <2>1. SearchEnd = pos  BY <1>4 DEF SearchEnd
  <2>2. ASSUME SearchResult = "OK"
        PROVE  SearchEnd \in Tried /\ Opens(SearchEnd)
    <3>1. ~TooFewToSearch /\ Outcome(SearchEnd) = "OK"
      BY <2>2, <1>4 DEF SearchResult
    <3>2. Opens(SearchEnd)  BY <3>1 DEF Outcome
    <3>3. pos \in DOMAIN stream.headers  BY <3>2, <2>1 DEF Opens, IsSync
    <3>4. pos >= pos /\ (pos - pos) % TPDEC_SYNCSKIP = 0 /\ fed - pos >= 16
      BY <1>1, <1>3, <3>1 DEF TPDEC_SYNCSKIP
    <3>5. pos \in Compared  BY <3>3, <3>4 DEF Compared
    <3> QED  BY <3>1, <3>2, <3>5, <2>1, <1>1 DEF Tried
  <2>3. \A q \in Tried : q <= SearchEnd  BY DEF Tried
  <2>4. SearchResult = "NOT_ENOUGH_BITS" => ~(fed - SearchEnd >= bufBits - 7)
    BY DEF SearchResult
  <2> QED  BY <1>1, <2>1, <2>2, <2>3, <2>4, BufferAssumption
             DEF ByteAlignedPositions
<1>5. CASE ~(synced \/ TooFewToSearch) /\ Hits = {}
  <2>1. SearchEnd = fed - 8  BY <1>5 DEF SearchEnd, TPDEC_SYNCSKIP
  <2>2. SearchResult # "OK"  BY <1>5 DEF SearchResult
  <2>3. SearchResult = "NOT_ENOUGH_BITS" => ~(fed - SearchEnd >= bufBits - 7)
    BY DEF SearchResult
  <2>4. ByteAlignedPositions => (fed - 8) % 8 = 0
    BY <1>1 DEF ByteAlignedPositions
  <2> QED  BY <1>1, <1>3, <1>5, <2>1, <2>2, <2>3, <2>4, BufferAssumption
<1>6. CASE ~(synced \/ TooFewToSearch) /\ Hits # {}
  <2>1. SearchEnd = Min(Hits)  BY <1>6 DEF SearchEnd
  <2>2. Hits \subseteq 0 .. stream.size  BY ComparedFacts
  <2>3. SearchEnd \in Hits  BY <2>1, <2>2, <1>2, <1>6, Extremes
  <2>4. SearchEnd \in Compared  BY <2>3 DEF Hits
  <2>5. SearchEnd \in Int /\ SearchEnd >= pos /\ SearchEnd % 8 = 0
    BY <2>4, ComparedFacts
  <2>6. SearchEnd \in Tried  BY <2>4, <2>5, <1>6 DEF Tried
  <2>7. SearchResult = "OK" => Opens(SearchEnd)
    <3>1. SearchResult = "OK" => Outcome(SearchEnd) = "OK"
      BY <1>6 DEF SearchResult
    <3> QED  BY <3>1 DEF Outcome
  <2>8. \A q \in Tried : q <= SearchEnd  BY DEF Tried
  <2>9. SearchResult = "NOT_ENOUGH_BITS" => ~(fed - SearchEnd >= bufBits - 7)
    BY DEF SearchResult
  <2> QED  BY <1>1, <2>5, <2>6, <2>7, <2>8, <2>9, BufferAssumption
<1> QED  BY <1>4, <1>5, <1>6

(* What the headers on the way leave behind.                                *)
LEMMA KeptFacts ==
  ASSUME Type, KeepHeaders
  PROVE  /\ IsHeader(bs') /\ globalFramePos' \in Int
         /\ SearchResult = "OK" =>
              /\ bs' = stream.headers[SearchEnd]
              /\ globalFramePos' = fed - SearchEnd - 12
<1> DEFINE kept == {q \in Tried : Kept(q)}
<1>1. fed \in Int /\ stream \in Streams /\ globalFramePos \in Int
      /\ IsHeader(bs) /\ stream.size \in Nat
  BY StreamFacts DEF Type, IsHeader, num_raw_blocks, Header
<1>2. Tried \subseteq 0 .. stream.size  BY ComparedFacts
<1>3. kept \subseteq Tried /\ kept \subseteq 0 .. stream.size  BY <1>2
<1>4. /\ globalFramePos' = IF Tried = {} THEN globalFramePos
                           ELSE fed - Max(Tried) - 12
      /\ bs' = IF kept = {} THEN bs ELSE stream.headers[Max(kept)]
  BY DEF KeepHeaders, ADTS_SYNCLENGTH
<1> HIDE DEF kept
<1>5. Tried # {} => Max(Tried) \in 0 .. stream.size
  BY <1>1, <1>2, Extremes
<1>6. kept # {} => Max(kept) \in Tried  BY <1>1, <1>3, Extremes
<1>7. IsHeader(bs')
  <2>1. kept # {} => IsHeader(stream.headers[Max(kept)])
    BY <1>6, ComparedFacts
  <2> QED  BY <2>1, <1>1, <1>4
<1>8. globalFramePos' \in Int  BY <1>1, <1>4, <1>5
<1>9. ASSUME SearchResult = "OK"
      PROVE  bs' = stream.headers[SearchEnd]
             /\ globalFramePos' = fed - SearchEnd - 12
  <2>1. SearchEnd \in Tried /\ \A q \in Tried : q <= SearchEnd
    BY <1>9, SearchFacts
  <2>2. SearchEnd \in kept
    <3>1. Opens(SearchEnd)  BY <1>9, SearchFacts
    <3>2. Kept(SearchEnd)  BY <3>1 DEF Opens, Accepted, Kept
    <3> QED  BY <3>2, <2>1 DEF kept
  <2>3. Max(Tried) \in Tried /\ SearchEnd <= Max(Tried)
    BY <1>1, <1>2, <2>1, Extremes
  <2>4. Max(kept) \in kept /\ SearchEnd <= Max(kept)
    BY <1>1, <1>3, <2>2, Extremes
  <2>5. \A q \in Tried : q \in Int  BY <1>2
  <2>6. Max(Tried) = SearchEnd  BY <2>1, <2>3, <2>5
  <2>7. Max(kept) = SearchEnd
    <3>1. Max(kept) \in Tried  BY <2>2, <1>6
    <3>2. Max(kept) <= SearchEnd /\ Max(kept) \in Int /\ SearchEnd \in Int
      BY <3>1, <2>1, <2>5
    <3> QED  BY <3>2, <2>4
  <2> QED  BY <2>1, <2>2, <2>6, <2>7, <1>4
<1> QED  BY <1>7, <1>8, <1>9

-----------------------------------------------------------------------------
(* Known is inductive.                                                      *)

LEMMA InitIInv == Init => IInv
<1> SUFFICES ASSUME Init PROVE IInv  OBVIOUS
<1>1. IsHeader(NoHeader) /\ num_raw_blocks(NoHeader) = 0
  <2>1. NoHeader.blocks = <<0>>  BY DEF NoHeader
  <2>2. <<0>> \in Seq(Nat) /\ Len(<<0>>) = 1  OBVIOUS
  <2>3. NoHeader \in Header  BY <2>2 DEF NoHeader, Header
  <2> QED  BY <2>1, <2>2, <2>3 DEF IsHeader, num_raw_blocks
<1>2. stream \in Streams /\ stream.size \in Nat  BY StreamFacts DEF Init
<1>3. Type
  <2>1. 0 \in 0 .. stream.size  BY <1>2
  <2>2. bs \in Header /\ num_raw_blocks(bs) \in 0 .. 3
    BY <1>1 DEF Init, IsHeader
  <2>3. delivered \in Seq(Int)  BY DEF Init
  <2>4. fed \in 0 .. stream.size /\ numberOfRawDataBlocks \in 0 .. 3
    BY <2>1 DEF Init
  <2>5. /\ pos \in Int /\ globalFramePos \in Int
        /\ accessUnitAnchor \in Int /\ auLength \in Int
        /\ resets \in Nat /\ overruns \in Nat /\ droppedTo \in Int
    BY DEF Init
  <2>6. /\ synced \in BOOLEAN /\ decoding \in BOOLEAN /\ aborted \in BOOLEAN
        /\ err \in {"OK", "NOT_ENOUGH_BITS", "SYNC_ERROR"}
    BY DEF Init
  <2> QED  BY <1>2, <2>2, <2>3, <2>4, <2>5, <2>6 DEF Type
<1> QED  BY <1>1, <1>3 DEF Init, IInv, Known, Aligned, BlocksOfHeader,
           FrameFits, ByteAlignedPositions, FrameStartsAligned,
           AccessUnitAligned, NoAbort

(* The facts of Type that the steps use.                                    *)
LEMMA TypeFacts ==
  ASSUME Type
  PROVE  /\ fed \in Int /\ pos \in Int /\ globalFramePos \in Int
         /\ accessUnitAnchor \in Int /\ auLength \in Int
         /\ numberOfRawDataBlocks \in 0 .. 3
         /\ IsHeader(bs) /\ num_raw_blocks(bs) \in 0 .. 3
         /\ bufBits \in Nat /\ bufBits > 56
<1>1. bs \in Header /\ Len(bs.blocks) \in Nat  BY DEF Type, Header
<1>2. Len(bs.blocks) \in 1 .. 4  BY <1>1 DEF Type, num_raw_blocks
<1>3. stream.size \in Nat  BY StreamFacts DEF Type
<1> QED  BY <1>1, <1>2, <1>3, BufferAssumption DEF Type, IsHeader

LEMMA FillDataStep ==
  ASSUME IInv, NEW offer \in Offers, FillData(offer)
  PROVE  IInv'
<1> DEFINE bits == Min({8 * offer, Max({0, 8 * Buffer!Room})})
<1>1. Type /\ Known  BY DEF IInv, Known
<1>2. offer \in Nat  BY BoundsAssumption
<1>3. Buffer!Room \in Int
  <2>1. fed - pos \in Int /\ bufBits \in Int  BY <1>1, TypeFacts
  <2> QED  BY <2>1 DEF Buffer!Room, Buffer!Unread
<1>4. bits \in 0 .. 8 * offer /\ bits % 8 = 0
  <2> DEFINE free == Max({0, 8 * Buffer!Room})
  <2>1. free \in Nat /\ free % 8 = 0
    <3> DEFINE r == 8 * Buffer!Room
    <3>1. r \in Int /\ r % 8 = 0  BY <1>3
    <3> HIDE DEF r
    <3>2. Max({0, r}) = IF 0 <= r THEN r ELSE 0  BY <3>1, OfTwo
    <3>3. free = Max({0, r})  BY DEF r
    <3> HIDE DEF free
    <3> QED  BY <3>1, <3>2, <3>3
  <2> HIDE DEF free
  <2>2. Min({8 * offer, free}) = IF 8 * offer <= free THEN 8 * offer ELSE free
    BY <1>2, <2>1, OfTwo
  <2>3. (8 * offer) % 8 = 0 /\ 8 * offer \in Nat  BY <1>2
  <2>4. bits = Min({8 * offer, free})  BY DEF free
  <2> QED  BY <2>1, <2>2, <2>3, <2>4
<1>5. /\ ~decoding /\ fed + 8 * offer <= stream.size
      /\ fed' = fed + bits
      /\ MovePositions(bits)
      /\ UNCHANGED <<stream, pos, synced, numberOfRawDataBlocks, bs, auLength,
                     err, decoding, delivered, resets, overruns, droppedTo, aborted>>
  BY DEF FillData
<1> HIDE DEF bits
<1>6. IF numberOfRawDataBlocks > 0
      THEN globalFramePos' = globalFramePos + bits
           /\ accessUnitAnchor' = fed - pos + bits
      ELSE UNCHANGED <<globalFramePos, accessUnitAnchor>>
  BY <1>5 DEF MovePositions, Valid
<1>7. Type'
  <2>1. fed' \in 0 .. stream.size
    <3>1. fed \in 0 .. stream.size /\ stream.size \in Nat
      BY <1>1, StreamFacts DEF Type
    <3> QED  BY <3>1, <1>2, <1>4, <1>5
  <2>2. globalFramePos' \in Int /\ accessUnitAnchor' \in Int
    BY <1>1, <1>4, <1>6, TypeFacts
  <2> QED  BY <1>1, <1>5, <2>1, <2>2 DEF Type, num_raw_blocks
<1>8. Known'
  BY <1>1, <1>5, <1>7 DEF Known, BlocksOfHeader, FrameFits, FrameBits,
                          num_raw_blocks
<1>9. ASSUME Aligned PROVE Aligned'
  <2>1. fed % 8 = 0 /\ pos % 8 = 0 /\ accessUnitAnchor % 8 = 0
        /\ (numberOfRawDataBlocks > 0 => globalFramePos % 8 = 4)
    BY <1>9 DEF Aligned, ByteAlignedPositions, AccessUnitAligned,
                FrameStartsAligned
  <2>2. fed \in Int /\ pos \in Int /\ globalFramePos \in Int /\ bits \in Int
    BY <1>1, <1>2, <1>4, TypeFacts
  <2>3. (fed + bits) % 8 = 0 /\ (fed - pos + bits) % 8 = 0
    BY <2>1, <2>2, <1>4
  <2>4. globalFramePos % 8 = 4 => (globalFramePos + bits) % 8 = 4
    BY <2>2, <1>4
  <2> QED  BY <1>5, <1>6, <1>9, <2>1, <2>3, <2>4
       DEF Aligned, ByteAlignedPositions, AccessUnitAligned,
           FrameStartsAligned, NoAbort
<1> QED  BY <1>8, <1>9 DEF IInv

(* What ReadAccessUnit returns keeps its types and the byte boundary.       *)
LEMMA ReturnsFacts ==
  ASSUME Type, pos' \in Int, NEW e \in {"OK", "NOT_ENOUGH_BITS", "SYNC_ERROR"},
         NEW length \in Int, Returns(e, length)
  PROVE  /\ err' = e /\ auLength' = length
         /\ accessUnitAnchor' \in Int /\ delivered' \in Seq(Int)
         /\ (fed % 8 = 0 /\ pos' % 8 = 0) => accessUnitAnchor' % 8 = 0
         /\ UNCHANGED <<stream, fed, resets, overruns, droppedTo>>
<1>1. fed \in Int /\ delivered \in Seq(Int)  BY TypeFacts DEF Type
<1>2. /\ err' = e /\ auLength' = length
      /\ accessUnitAnchor' = IF e = "OK" THEN fed - pos' ELSE 0
      /\ delivered' = IF e = "OK" THEN Append(delivered, pos') ELSE delivered
      /\ UNCHANGED <<stream, fed, resets, overruns, droppedTo>>
  BY DEF Returns
<1>3. Append(delivered, pos') \in Seq(Int)  BY <1>1
<1>4. accessUnitAnchor' \in Int  BY <1>1, <1>2
<1>5. ASSUME fed % 8 = 0, pos' % 8 = 0
      PROVE  accessUnitAnchor' % 8 = 0
  <2>1. pos' \in Int  OBVIOUS
  <2>2. (fed - pos') % 8 = 0  BY <1>1, <1>5, <2>1, ByteAlignedSums
  <2>3. 0 % 8 = 0  OBVIOUS
  <2> QED  BY <2>2, <2>3, <1>2
<1>6. delivered' \in Seq(Int)  BY <1>1, <1>2, <1>3
<1> QED  BY <1>2, <1>4, <1>5, <1>6, Zenon

(* An aligned search does not abort.                                        *)
LEMMA AlignedSearch ==
  ASSUME Type, ByteAlignedPositions
  PROVE  Valid % TPDEC_SYNCSKIP = 0
BY TypeFacts DEF ByteAlignedPositions, Valid, TPDEC_SYNCSKIP

LEMMA OpenFrameStep ==
  ASSUME IInv, OpenFrame
  PROVE  IInv'
<1> DEFINE h == stream.headers[SearchEnd]
<1>1. Type /\ stream \in Streams  BY DEF IInv, Known, Type
<1>2. /\ SearchEnd \in Int /\ Opens(SearchEnd)
      /\ ByteAlignedPositions => SearchEnd % 8 = 0
      /\ bs' = h /\ globalFramePos' = fed - SearchEnd - 12
  BY <1>1, SearchFacts, KeptFacts DEF OpenFrame
<1>3. IsHeader(h) /\ FrameBits(h) <= bufBits - 7
  BY <1>1, <1>2, StreamFacts DEF Opens, Accepted, IsSync
<1> DEFINE length == RawDataBlockLength(h, 0)
<1>4. /\ pos' = SearchEnd + HeaderBits(h)
      /\ numberOfRawDataBlocks' = num_raw_blocks(h)
      /\ Returns("OK", length)
      /\ synced' = TRUE /\ decoding' = TRUE
      /\ aborted' = (Valid % TPDEC_SYNCSKIP # 0)
  BY DEF OpenFrame
<1> HIDE DEF h, length
<1>5. /\ HeaderBits(h) \in Nat /\ HeaderBits(h) % 8 = 0
      /\ num_raw_blocks(h) \in 0 .. 3
  BY <1>3, HeaderSizes
<1>6. length \in Int /\ (length > 0 => length % 8 = 0)
  BY <1>3, <1>5, BlockLengthAligned DEF length
<1>7. pos' \in Int /\ (ByteAlignedPositions => pos' % 8 = 0)
  BY <1>2, <1>4, <1>5
<1>8. /\ err' = "OK" /\ auLength' = length
      /\ accessUnitAnchor' \in Int /\ delivered' \in Seq(Int)
      /\ (fed % 8 = 0 /\ pos' % 8 = 0) => accessUnitAnchor' % 8 = 0
      /\ UNCHANGED <<stream, fed, resets, overruns, droppedTo>>
  BY <1>1, <1>4, <1>6, <1>7, ReturnsFacts
<1>9. fed \in Int  BY <1>1, TypeFacts
<1>10. Type'
  <2>1. globalFramePos' \in Int  BY <1>2, <1>9
  <2>2. bs' \in Header /\ num_raw_blocks(bs)' \in 0 .. 3
    BY <1>2, <1>3, <1>5 DEF IsHeader, num_raw_blocks
  <2>3. aborted' \in BOOLEAN  BY <1>4
  <2> QED  BY <1>1, <1>4, <1>5, <1>6, <1>7, <1>8, <2>1, <2>2, <2>3 DEF Type
<1>11. Known'
  <2>1. BlocksOfHeader'
    BY <1>2, <1>4, <1>5 DEF BlocksOfHeader, num_raw_blocks
  <2>2. FrameFits'  BY <1>2, <1>3 DEF FrameFits, FrameBits
  <2> QED  BY <1>10, <2>1, <2>2 DEF Known
<1>12. ASSUME Aligned PROVE Aligned'
  <2>1. ByteAlignedPositions  BY <1>12 DEF Aligned
  <2>2. ByteAlignedPositions'
    BY <2>1, <1>7, <1>8 DEF ByteAlignedPositions
  <2>3. FrameStartsAligned'
    <3>1. fed % 8 = 0 /\ SearchEnd % 8 = 0
      BY <2>1, <1>2 DEF ByteAlignedPositions
    <3>2. (fed - SearchEnd - 12) % 8 = 4  BY <3>1, <1>2, <1>9
    <3> QED  BY <3>2, <1>2 DEF FrameStartsAligned
  <2>4. AccessUnitAligned'
    BY <2>1, <1>6, <1>7, <1>8 DEF ByteAlignedPositions, AccessUnitAligned
  <2>5. NoAbort'  BY <2>1, <1>1, <1>4, AlignedSearch DEF NoAbort
  <2> QED  BY <2>2, <2>3, <2>4, <2>5 DEF Aligned
<1> QED  BY <1>11, <1>12 DEF IInv

(* A search that fails: it leaves no block due.                             *)
LEMMA FailedSearch ==
  ASSUME IInv, KeepHeaders, pos' \in Int, numberOfRawDataBlocks' = 0,
         NEW e \in {"NOT_ENOUGH_BITS", "SYNC_ERROR"}, Returns(e, 0),
         synced' \in BOOLEAN, decoding' \in BOOLEAN, aborted' \in BOOLEAN,
         Aligned => pos' % 8 = 0 /\ ~aborted',
         ~Interrupts => ~decoding'
  PROVE  IInv'
<1>1. Type  BY DEF IInv, Known
<1>2. IsHeader(bs') /\ globalFramePos' \in Int  BY <1>1, KeptFacts
<1>3. /\ err' = e /\ auLength' = 0
      /\ accessUnitAnchor' \in Int /\ delivered' \in Seq(Int)
      /\ (fed % 8 = 0 /\ pos' % 8 = 0) => accessUnitAnchor' % 8 = 0
      /\ UNCHANGED <<stream, fed, resets, overruns, droppedTo>>
  <2>1. e \in {"OK", "NOT_ENOUGH_BITS", "SYNC_ERROR"} /\ 0 \in Int
    OBVIOUS
  <2> QED  BY <1>1, <2>1, ReturnsFacts, Zenon
<1>4. num_raw_blocks(bs)' \in 0 .. 3
  BY <1>2 DEF IsHeader, Header, num_raw_blocks
<1>5. Type'
  BY <1>1, <1>2, <1>3, <1>4 DEF Type, IsHeader
<1>6. Known'  BY <1>4, <1>5 DEF Known, BlocksOfHeader, FrameFits
<1>7. ASSUME ~Interrupts, Aligned PROVE Aligned'
  <2>1. fed' % 8 = 0 /\ pos' % 8 = 0 /\ fed % 8 = 0 /\ ~aborted'
    BY <1>3, <1>7 DEF Aligned, ByteAlignedPositions
  <2>2. accessUnitAnchor' % 8 = 0  BY <1>3, <2>1
  <2>3. ~(auLength' > 0)  BY <1>3
  <2>4. ~(numberOfRawDataBlocks' > 0 \/ decoding')  BY <1>7
  <2> QED  BY <2>1, <2>2, <2>3, <2>4
       DEF Aligned, ByteAlignedPositions, FrameStartsAligned,
           AccessUnitAligned, NoAbort
<1> QED  BY <1>6, <1>7 DEF IInv

LEMMA StarveSearchStep ==
  ASSUME IInv, StarveSearch
  PROVE  IInv'
<1>1. Type  BY DEF IInv, Known
<1>2. SearchEnd \in Int /\ (ByteAlignedPositions => SearchEnd % 8 = 0)
  BY <1>1, SearchFacts
<1>3. /\ KeepHeaders /\ pos' = SearchEnd /\ numberOfRawDataBlocks' = 0
      /\ Returns("NOT_ENOUGH_BITS", 0) /\ ~decoding
      /\ aborted' = (Valid > 0 /\ Valid % TPDEC_SYNCSKIP # 0)
      /\ UNCHANGED <<synced, decoding>>
  BY DEF StarveSearch
<1>4. synced' \in BOOLEAN /\ decoding' \in BOOLEAN /\ aborted' \in BOOLEAN
  BY <1>1, <1>3 DEF Type
<1>5. Aligned => pos' % 8 = 0 /\ ~aborted'
  BY <1>1, <1>2, <1>3, AlignedSearch DEF Aligned
<1> QED  BY <1>2, <1>3, <1>4, <1>5, FailedSearch

LEMMA LoseSyncStep ==
  ASSUME IInv, NEW intr \in {FALSE, Interrupts}, LoseSync(intr)
  PROVE  IInv'
<1>1. Type  BY DEF IInv, Known
<1>2. SearchEnd \in Int /\ (ByteAlignedPositions => SearchEnd % 8 = 0)
  BY <1>1, SearchFacts
<1>3. /\ KeepHeaders /\ pos' = SearchEnd + 8 /\ numberOfRawDataBlocks' = 0
      /\ Returns("SYNC_ERROR", 0)
      /\ synced' = FALSE /\ decoding' = intr
      /\ aborted' = (Valid % TPDEC_SYNCSKIP # 0)
  BY DEF LoseSync, BehindBadSync, TPDEC_SYNCSKIP
<1>4. /\ synced' \in BOOLEAN /\ decoding' \in BOOLEAN /\ aborted' \in BOOLEAN
      /\ ~Interrupts => ~decoding'
  <2>1. intr = FALSE \/ intr = Interrupts  OBVIOUS
  <2>2. intr \in BOOLEAN /\ (~Interrupts => ~intr)
    <3>1. CASE intr = FALSE  BY <3>1
    <3>2. CASE intr = Interrupts  BY <3>2, BoundsAssumption
    <3> QED  BY <2>1, <3>1, <3>2
  <2>3. synced' \in BOOLEAN /\ aborted' \in BOOLEAN  BY <1>3, Zenon
  <2> QED  BY <1>3, <2>2, <2>3, Zenon
<1>5. pos' \in Int /\ (ByteAlignedPositions => pos' % 8 = 0)
  BY <1>2, <1>3
<1>6. Aligned => pos' % 8 = 0 /\ ~aborted'
  BY <1>1, <1>3, <1>5, AlignedSearch DEF Aligned
<1> QED  BY <1>3, <1>4, <1>5, <1>6, FailedSearch

(* A block of the frame: the one after those that have been read.           *)
LEMMA OpenBlockStep ==
  ASSUME IInv, OpenBlock
  PROVE  IInv'
<1>1. Type /\ Known  BY DEF IInv, Known
<1>2. /\ numberOfRawDataBlocks \in 1 .. 3 /\ IsHeader(bs)
      /\ num_raw_blocks(bs) \in 0 .. 3 /\ pos \in Int
      /\ numberOfRawDataBlocks <= num_raw_blocks(bs)
  BY <1>1, TypeFacts DEF OpenBlock, NextFrame, Known, BlocksOfHeader
<1> DEFINE k == num_raw_blocks(bs) - numberOfRawDataBlocks'
           length == RawDataBlockLength(bs, k)
<1>3. /\ numberOfRawDataBlocks' = numberOfRawDataBlocks - 1
      /\ decoding' = TRUE /\ pos' = pos
      /\ Returns("OK", length)
      /\ UNCHANGED <<synced, globalFramePos, bs, aborted>>
  BY DEF OpenBlock
<1>4. k \in 0 .. num_raw_blocks(bs)  BY <1>2, <1>3
<1> HIDE DEF k
<1>5. length \in Int /\ (length > 0 => length % 8 = 0)
  BY <1>2, <1>4, BlockLengthAligned
<1> HIDE DEF length
<1>6. /\ err' = "OK" /\ auLength' = length
      /\ accessUnitAnchor' \in Int /\ delivered' \in Seq(Int)
      /\ (fed % 8 = 0 /\ pos' % 8 = 0) => accessUnitAnchor' % 8 = 0
      /\ UNCHANGED <<stream, fed, resets, overruns, droppedTo>>
  <2>1. "OK" \in {"OK", "NOT_ENOUGH_BITS", "SYNC_ERROR"} /\ pos' \in Int
    BY <1>2, <1>3
  <2> QED  BY <1>1, <1>3, <1>5, <2>1, ReturnsFacts, Zenon
<1>7. Type'
  <2>1. numberOfRawDataBlocks' \in 0 .. 3  BY <1>2, <1>3
  <2>2. num_raw_blocks(bs)' \in 0 .. 3 /\ bs' \in Header
    BY <1>1, <1>2, <1>3 DEF Type, num_raw_blocks
  <2> QED  BY <1>1, <1>2, <1>3, <1>5, <1>6, <2>1, <2>2 DEF Type
<1>8. Known'
  <2>1. BlocksOfHeader'
    BY <1>2, <1>3 DEF BlocksOfHeader, num_raw_blocks
  <2>2. FrameFits'  BY <1>1, <1>2, <1>3 DEF Known, FrameFits, FrameBits
  <2> QED  BY <1>7, <2>1, <2>2 DEF Known
<1>9. ASSUME Aligned PROVE Aligned'
  <2>1. fed' % 8 = 0 /\ pos' % 8 = 0 /\ fed % 8 = 0
    BY <1>3, <1>6, <1>9 DEF Aligned, ByteAlignedPositions
  <2>2. globalFramePos' % 8 = 4
    BY <1>2, <1>3, <1>9 DEF Aligned, FrameStartsAligned
  <2>3. accessUnitAnchor' % 8 = 0 /\ (auLength' > 0 => auLength' % 8 = 0)
    BY <1>5, <1>6, <2>1
  <2>4. ~aborted'  BY <1>3, <1>9 DEF Aligned, NoAbort
  <2> QED  BY <2>1, <2>2, <2>3, <2>4
       DEF Aligned, ByteAlignedPositions, FrameStartsAligned,
           AccessUnitAligned, NoAbort
<1> QED  BY <1>8, <1>9 DEF IInv

LEMMA StarveBlockStep ==
  ASSUME IInv, StarveBlock
  PROVE  IInv'
<1>1. Type /\ Known  BY DEF IInv, Known
<1>2. /\ Returns("NOT_ENOUGH_BITS", 0)
      /\ UNCHANGED <<pos, synced, numberOfRawDataBlocks, globalFramePos, bs,
                     decoding, aborted>>
  BY DEF StarveBlock
<1>3. /\ err' = "NOT_ENOUGH_BITS" /\ auLength' = 0
      /\ accessUnitAnchor' \in Int /\ delivered' \in Seq(Int)
      /\ (fed % 8 = 0 /\ pos' % 8 = 0) => accessUnitAnchor' % 8 = 0
      /\ UNCHANGED <<stream, fed, resets, overruns, droppedTo>>
  <2>1. /\ "NOT_ENOUGH_BITS" \in {"OK", "NOT_ENOUGH_BITS", "SYNC_ERROR"}
        /\ 0 \in Int /\ pos' \in Int
    BY <1>1, <1>2, TypeFacts
  <2> QED  BY <1>1, <1>2, <2>1, ReturnsFacts, Zenon
<1>4. Type'  BY <1>1, <1>2, <1>3 DEF Type, num_raw_blocks
<1>5. Known'
  BY <1>1, <1>2, <1>4 DEF Known, BlocksOfHeader, FrameFits, FrameBits,
                          num_raw_blocks
<1>6. ASSUME Aligned PROVE Aligned'
  <2>1. /\ fed % 8 = 0 /\ pos' % 8 = 0 /\ fed' % 8 = 0 /\ ~aborted'
        /\ (numberOfRawDataBlocks > 0 \/ decoding => globalFramePos % 8 = 4)
    BY <1>2, <1>3, <1>6 DEF Aligned, ByteAlignedPositions, FrameStartsAligned,
                            NoAbort
  <2>2. accessUnitAnchor' % 8 = 0  BY <1>3, <2>1
  <2>3. ~(auLength' > 0)  BY <1>3
  <2>4. numberOfRawDataBlocks' > 0 \/ decoding' => globalFramePos' % 8 = 4
    BY <1>2, <2>1
  <2> QED  BY <2>1, <2>2, <2>3, <2>4
       DEF Aligned, ByteAlignedPositions, FrameStartsAligned,
           AccessUnitAligned, NoAbort
<1> QED  BY <1>5, <1>6 DEF IInv

(* Wherever the parser stops, the reader is put at a byte boundary: a       *)
(* length that is known counts whole bytes, and so does the data.           *)
LEMMA ParserStopsAligned ==
  ASSUME Type, NEW p \in ParserStops
  PROVE  p \in Int /\ (ByteAlignedPositions => p % 8 = 0)
<1>1. fed \in Int /\ pos \in Int /\ stream \in Streams
  BY TypeFacts DEF Type
<1>2. CASE Intact
  <2>1. p = stream.blockEnd[pos]  BY <1>2 DEF ParserStops
  <2> QED  BY <1>1, <1>2, <2>1, StreamFacts DEF Intact
<1>3. CASE ~Intact
  <2>1. Max({Valid, 0}) \div 8 + MaxAhead \in Int
    <3> DEFINE v == Valid
               m == Max({v, 0})
    <3>1. v \in Int  BY <1>1 DEF Valid
    <3> HIDE DEF v
    <3>2. m = IF v <= 0 THEN 0 ELSE v  BY <3>1, OfTwo
    <3> HIDE DEF m
    <3>3. m \div 8 + MaxAhead \in Int  BY <3>1, <3>2, BoundsAssumption
    <3> QED  BY <3>3 DEF m, v
  <2>2. PICK k \in 0 .. Max({Valid, 0}) \div 8 + MaxAhead : p = pos + 8 * k
    BY <1>3 DEF ParserStops
  <2>3. k \in Int  BY <2>1, <2>2
  <2>4. pos % 8 = 0 => (pos + 8 * k) % 8 = 0  BY <1>1, <2>3
  <2> QED  BY <1>1, <2>2, <2>3, <2>4 DEF ByteAlignedPositions
<1> QED  BY <1>2, <1>3

LEMMA BehindUnitAligned ==
  ASSUME Type, NEW p \in ParserStops
  PROVE  /\ BehindUnit(p) \in Int
         /\ ByteAlignedPositions /\ AccessUnitAligned => BehindUnit(p) % 8 = 0
<1>1. /\ fed \in Int /\ accessUnitAnchor \in Int /\ auLength \in Int
      /\ p \in Int /\ (ByteAlignedPositions => p % 8 = 0)
  BY TypeFacts, ParserStopsAligned
<1>2. BehindUnit(p) = IF ~LengthKnown THEN p
                      ELSE IF p <= fed THEN fed - accessUnitAnchor + auLength
                      ELSE fed
  BY <1>1 DEF BehindUnit, AuBitsRemaining
<1>3. ASSUME LengthKnown, ByteAlignedPositions, AccessUnitAligned
      PROVE  fed % 8 = 0 /\ (fed - accessUnitAnchor + auLength) % 8 = 0
  BY <1>1, <1>3 DEF LengthKnown, ByteAlignedPositions, AccessUnitAligned
<1> DEFINE e == BehindUnit(p)
<1> HIDE DEF e
<1>4. BehindUnit(p) \in Int  BY <1>1, <1>2
<1> QED  BY <1>1, <1>2, <1>3, <1>4

LEMMA DecodeFrameStep ==
  ASSUME IInv, DecodeFrame
  PROVE  IInv'
<1>1. Type /\ Known  BY DEF IInv, Known
<1>2. PICK stop \in ParserStops :
        /\ pos' = AdjustEndOfAccessUnit(BehindUnit(stop))
        /\ overruns' = IF Strays(stop) THEN overruns + 1 ELSE overruns
        /\ droppedTo' = IF Strays(stop) THEN fed ELSE droppedTo
  BY DEF DecodeFrame
<1>3. /\ decoding /\ decoding' = FALSE
      /\ UNCHANGED <<stream, fed, synced, numberOfRawDataBlocks, globalFramePos,
                     bs, accessUnitAnchor, auLength, err, delivered, resets,
                     aborted>>
  BY DEF DecodeFrame
<1> DEFINE p == BehindUnit(stop)
<1>4. /\ p \in Int
      /\ ByteAlignedPositions /\ AccessUnitAligned => p % 8 = 0
  BY <1>1, BehindUnitAligned
<1>5. /\ fed \in Int /\ globalFramePos \in Int /\ accessUnitAnchor \in Int
      /\ FrameBits(bs) \in Nat /\ FrameBits(bs) % 8 = 0
  BY <1>1, TypeFacts, HeaderSizes
<1>6. /\ FrameEnd \in Int
      /\ (fed % 8 = 0 /\ globalFramePos % 8 = 4) => FrameEnd % 8 = 0
  <2>1. FrameEnd = fed - globalFramePos - 12 + FrameBits(bs)
    BY DEF FrameEnd, ADTS_SYNCLENGTH
  <2> HIDE DEF FrameBits
  <2>2. ASSUME fed % 8 = 0, globalFramePos % 8 = 4
        PROVE  (fed - globalFramePos - 12 + FrameBits(bs)) % 8 = 0
    BY <1>5, <2>2
  <2> QED  BY <1>5, <2>1, <2>2
<1> DEFINE end == bs.blocks[num_raw_blocks(bs) - numberOfRawDataBlocks + 1]
<1>7. numberOfRawDataBlocks # 0 => end \in Nat
  <2>1. /\ numberOfRawDataBlocks \in 0 .. 3
        /\ numberOfRawDataBlocks <= Len(bs.blocks) - 1
        /\ Len(bs.blocks) \in 1 .. 4 /\ bs.blocks \in Seq(Nat)
    BY <1>1, TypeFacts DEF Known, BlocksOfHeader, num_raw_blocks, IsHeader, Header
  <2>2. numberOfRawDataBlocks # 0
          => num_raw_blocks(bs) - numberOfRawDataBlocks + 1 \in 1 .. Len(bs.blocks)
    BY <2>1 DEF num_raw_blocks
  <2> QED  BY <2>1, <2>2
<1>8. pos' = IF ~bs.crc THEN p
             ELSE IF numberOfRawDataBlocks = 0 THEN FrameEnd
             ELSE fed - accessUnitAnchor + 8 * end
  BY <1>2 DEF AdjustEndOfAccessUnit
<1> HIDE DEF end, FrameEnd, p
<1>9. pos' \in Int  BY <1>4, <1>5, <1>6, <1>7, <1>8
<1>10. Type'
  <2>1. overruns' \in Nat /\ droppedTo' \in Int
    BY <1>1, <1>2, <1>5 DEF Type
  <2> QED  BY <1>1, <1>3, <1>9, <2>1 DEF Type, num_raw_blocks
<1>11. Known'
  BY <1>1, <1>3, <1>10 DEF Known, BlocksOfHeader, FrameFits, FrameBits,
                           num_raw_blocks
<1>12. ASSUME Aligned PROVE Aligned'
  <2>1. /\ fed % 8 = 0 /\ globalFramePos % 8 = 4 /\ accessUnitAnchor % 8 = 0
        /\ p % 8 = 0
    BY <1>3, <1>4, <1>12
    DEF Aligned, ByteAlignedPositions, FrameStartsAligned, AccessUnitAligned
  <2>2. numberOfRawDataBlocks # 0 => (fed - accessUnitAnchor + 8 * end) % 8 = 0
    <3>1. ASSUME end \in Nat
          PROVE  (fed - accessUnitAnchor + 8 * end) % 8 = 0
      BY <1>5, <2>1, <3>1
    <3> QED  BY <1>7, <3>1
  <2>3. pos' % 8 = 0  BY <1>6, <1>8, <2>1, <2>2
  <2> QED  BY <1>3, <1>12, <2>1, <2>3
       DEF Aligned, ByteAlignedPositions, FrameStartsAligned,
           AccessUnitAligned, NoAbort
<1> QED  BY <1>11, <1>12 DEF IInv

LEMMA ResetStep ==
  ASSUME IInv, Reset
  PROVE  IInv'
<1>1. Type /\ Known  BY DEF IInv, Known
<1>2. /\ ~decoding /\ resets' = resets + 1 /\ pos' = fed /\ droppedTo' = fed
      /\ synced' = FALSE /\ numberOfRawDataBlocks' = 0
      /\ globalFramePos' = 0 /\ accessUnitAnchor' = 0 /\ auLength' = 0
      /\ UNCHANGED <<stream, fed, bs, err, decoding, delivered, overruns, aborted>>
  BY DEF Reset
<1>3. Type'
  <2>1. fed \in Int /\ num_raw_blocks(bs)' \in 0 .. 3
    BY <1>1, <1>2, TypeFacts DEF num_raw_blocks
  <2>2. /\ pos' \in Int /\ droppedTo' \in Int /\ resets' \in Nat
        /\ overruns' \in Nat
        /\ numberOfRawDataBlocks' \in 0 .. 3 /\ globalFramePos' \in Int
        /\ accessUnitAnchor' \in Int /\ auLength' \in Int
    BY <1>1, <1>2, <2>1 DEF Type
  <2>3. synced' \in BOOLEAN /\ decoding' \in BOOLEAN /\ aborted' \in BOOLEAN
    BY <1>1, <1>2 DEF Type
  <2>4. /\ stream' \in Streams /\ fed' \in 0 .. stream'.size
        /\ bs' \in Header /\ delivered' \in Seq(Int)
        /\ err' \in {"OK", "NOT_ENOUGH_BITS", "SYNC_ERROR"}
    BY <1>1, <1>2 DEF Type
  <2> QED  BY <2>1, <2>2, <2>3, <2>4 DEF Type
<1>4. Known'
  <2>1. num_raw_blocks(bs)' \in 0 .. 3  BY <1>3 DEF Type
  <2> QED  BY <1>2, <1>3, <2>1 DEF Known, BlocksOfHeader, FrameFits
<1>5. ASSUME Aligned PROVE Aligned'
  BY <1>2, <1>5 DEF Aligned, ByteAlignedPositions, FrameStartsAligned,
                    AccessUnitAligned, NoAbort
<1> QED  BY <1>4, <1>5 DEF IInv

-----------------------------------------------------------------------------
LEMMA StutterStep ==
  ASSUME IInv, UNCHANGED vars
  PROVE  IInv'
<1>1. UNCHANGED <<stream, fed, pos, synced, numberOfRawDataBlocks,
                  globalFramePos, bs, accessUnitAnchor, auLength, err,
                  decoding, delivered, resets, overruns, droppedTo, aborted>>
  BY DEF vars
<1>2. Type /\ Known  BY DEF IInv, Known
<1>3. Type'  BY <1>1, <1>2 DEF Type, num_raw_blocks
<1>4. Known'
  BY <1>1, <1>2, <1>3 DEF Known, BlocksOfHeader, FrameFits, FrameBits,
                          num_raw_blocks
<1>5. Aligned => Aligned'
  BY <1>1 DEF Aligned, ByteAlignedPositions, FrameStartsAligned,
              AccessUnitAligned, NoAbort
<1> QED  BY <1>4, <1>5 DEF IInv

LEMMA NextStep == IInv /\ [Next]_vars => IInv'
<1> SUFFICES ASSUME IInv, [Next]_vars PROVE IInv'  OBVIOUS
<1>1. ASSUME NEW offer \in Offers, FillData(offer) PROVE IInv'
  BY <1>1, FillDataStep
<1>2. CASE OpenFrame  BY <1>2, OpenFrameStep
<1>3. CASE StarveSearch  BY <1>3, StarveSearchStep
<1>4. CASE OpenBlock  BY <1>4, OpenBlockStep
<1>5. CASE StarveBlock  BY <1>5, StarveBlockStep
<1>6. ASSUME NEW intr \in {FALSE, Interrupts}, LoseSync(intr) PROVE IInv'
  BY <1>6, LoseSyncStep
<1>7. CASE DecodeFrame  BY <1>7, DecodeFrameStep
<1>8. CASE Reset  BY <1>8, ResetStep
<1>9. CASE UNCHANGED vars  BY <1>9, StutterStep
<1> QED  BY <1>1, <1>2, <1>3, <1>4, <1>5, <1>6, <1>7, <1>8, <1>9
    DEF Next, ReadAccessUnit

(* The blocks that are still due belong to the header that is kept, and the *)
(* buffer can hold their frame, whatever the streams are, also with         *)
(* AACDEC_INTR.                                                             *)
THEOREM TransportInvariant == Spec => []IInv
BY InitIInv, NextStep, PTL DEF Spec

(* The type invariant.                                                      *)
THEOREM TypeCorrect == Spec => []Type
<1>1. IInv => Type  BY DEF IInv, Known
<1> QED  BY <1>1, TransportInvariant, PTL

(* Without AACDEC_INTR, the assertion in synchronization() that a search    *)
(* starts at a byte boundary never fails: a damaged or padded access unit,  *)
(* a frame with several blocks, a wrong header or a flush cannot make it.   *)
THEOREM NoAbortTheorem ==
  ASSUME ~Interrupts
  PROVE  Spec => []NoAbort
<1>1. IInv => NoAbort  BY DEF IInv, Aligned
<1> QED  BY <1>1, TransportInvariant, PTL

(* Whenever ReadAccessUnit asks for more bits, the next aacDecoder_Fill has *)
(* room for at least a byte, for every buffer size and every stream.        *)
THEOREM StarvedHasRoomTheorem == Spec => StarvedHasRoom
<1> DEFINE Claim == ReadAccessUnit /\ err' = "NOT_ENOUGH_BITS" => Buffer!Room' > 0
<1>1. IInv /\ [Next]_vars => [Claim]_vars
  <2> SUFFICES ASSUME IInv, ReadAccessUnit, err' = "NOT_ENOUGH_BITS"
               PROVE  Buffer!Room' > 0
    OBVIOUS
  <2>1. Type /\ Known  BY DEF IInv, Known
  <2>2. fed \in Int /\ pos \in Int /\ bufBits \in Nat /\ bufBits > 56
    BY <2>1, TypeFacts
  <2>3. fed' = fed /\ pos' \in Int /\ fed - pos' < bufBits - 7
    <3>1. CASE StarveSearch
      <4>1. /\ SearchResult = "NOT_ENOUGH_BITS" /\ pos' = SearchEnd
            /\ fed' = fed
        BY <3>1 DEF StarveSearch, Returns
      <4> QED  BY <4>1, <2>1, SearchFacts
    <3>2. CASE StarveBlock
      <4>1. /\ pos' = pos /\ fed' = fed /\ numberOfRawDataBlocks > 0
            /\ FrameBits(bs) - 12 > fed - pos
        <5>1. numberOfRawDataBlocks \in 0 .. 3  BY <2>1, TypeFacts
        <5> QED  BY <3>2, <5>1 DEF StarveBlock, Returns, NextFrame, BlockStarved,
                                  Valid, ADTS_SYNCLENGTH
      <4>2. FrameBits(bs) <= bufBits - 7 /\ FrameBits(bs) \in Nat
        BY <2>1, <4>1, TypeFacts, HeaderSizes DEF Known, FrameFits
      <4> QED  BY <2>2, <4>1, <4>2
    <3>3. ~OpenFrame /\ ~OpenBlock /\ ~(\E intr \in {FALSE, Interrupts} : LoseSync(intr))
      BY DEF OpenFrame, OpenBlock, LoseSync, Returns
    <3> QED  BY <3>1, <3>2, <3>3 DEF ReadAccessUnit
  <2>4. fed - pos' \in Int  BY <2>2, <2>3
  <2>5. (IF fed - pos' <= 0 THEN bufBits ELSE bufBits - (fed - pos')) \div 8 > 0
    BY <2>2, <2>3, <2>4, RoomLeft
  <2>6. fed' - pos' = fed - pos'  BY <2>3
  <2> QED  BY <2>5, <2>6 DEF Buffer!Room, Buffer!Unread
<1> QED  BY <1>1, TransportInvariant, PTL DEF Spec, StarvedHasRoom

(* A call of ReadAccessUnit that does not ask for more bits gets on: it     *)
(* moves the position forward or leaves fewer blocks of the frame, for      *)
(* every stream. So a call loop on one input buffer ends.                   *)
THEOREM ReadsMoveOnTheorem == Spec => ReadsMoveOn
<1> DEFINE Moves ==
      \/ err' = "NOT_ENOUGH_BITS" /\ pos' >= pos
      \/ pos' > pos
      \/ pos' = pos /\ numberOfRawDataBlocks' < numberOfRawDataBlocks
<1>1. IInv /\ [Next]_vars => [ReadAccessUnit => Moves]_vars
  <2> SUFFICES ASSUME IInv, ReadAccessUnit PROVE Moves
    OBVIOUS
  <2>1. Type  BY DEF IInv, Known
  <2>2. /\ pos \in Int /\ numberOfRawDataBlocks \in Int
        /\ SearchEnd \in Int /\ SearchEnd >= pos
    BY <2>1, TypeFacts, SearchFacts
  <2>3. CASE OpenFrame
    <3>1. SearchResult = "OK" /\ pos' = SearchEnd + HeaderBits(stream.headers[SearchEnd])
      BY <2>3 DEF OpenFrame
    <3>2. Opens(SearchEnd) /\ stream \in Streams
      BY <2>1, <3>1, SearchFacts DEF Type
    <3>3. IsHeader(stream.headers[SearchEnd])
      BY <3>2, StreamFacts DEF Opens, IsSync
    <3>4. /\ HeaderBits(stream.headers[SearchEnd]) \in Nat
          /\ HeaderBits(stream.headers[SearchEnd]) >= 56
      BY <3>3, HeaderSizes
    <3> QED  BY <2>2, <3>1, <3>4
  <2>4. CASE StarveSearch
    BY <2>2, <2>4 DEF StarveSearch, Returns
  <2>5. CASE OpenBlock
    BY <2>2, <2>5 DEF OpenBlock
  <2>6. CASE StarveBlock
    BY <2>2, <2>6 DEF StarveBlock, Returns
  <2>7. ASSUME NEW intr \in {FALSE, Interrupts}, LoseSync(intr) PROVE Moves
    <3>1. pos' = SearchEnd + 8
      BY <2>7 DEF LoseSync, BehindBadSync, TPDEC_SYNCSKIP
    <3> QED  BY <2>2, <3>1
  <2> QED  BY <2>3, <2>4, <2>5, <2>6, <2>7 DEF ReadAccessUnit
<1> QED  BY <1>1, TransportInvariant, PTL DEF Spec, ReadsMoveOn
-----------------------------------------------------------------------------
(* The order of delivery.                                                   *)

FrameStart == fed - globalFramePos - ADTS_SYNCLENGTH

(* The number of the last block of the frame that was handed over.          *)
Current == num_raw_blocks(bs) - numberOfRawDataBlocks + 1

(* The frame that is being read is a frame of the stream.                   *)
FrameIsSent ==
  /\ FrameStart \in DOMAIN stream.headers /\ bs = stream.headers[FrameStart]
  /\ Accepted(bs)

(* The position is at the start of its block number k.                      *)
AtBlock(k) ==
  IF num_raw_blocks(bs) = 0 THEN k = 1 /\ pos = FrameStart + HeaderBits(bs)
  ELSE \E off \in [1 .. Len(bs.blocks) -> DOMAIN stream.blockEnd] :
         BlocksFollow(stream, FrameStart, off) /\ pos = off[k]

(* A block that is being parsed starts at the position; if blocks of the    *)
(* frame are due, the next one does when the parser has left.               *)
InFrame ==
  /\ decoding =>
       /\ FrameIsSent /\ AtBlock(Current)
       /\ err = "OK" /\ accessUnitAnchor = fed - pos /\ pos <= fed
       /\ auLength = RawDataBlockLength(bs, Current - 1)
  /\ ~decoding /\ numberOfRawDataBlocks > 0 => FrameIsSent /\ AtBlock(Current + 1)

(* What has been delivered is behind the reader, and has arrived.           *)
Passed ==
  \A i \in 1 .. Len(delivered) :
    /\ delivered[i] <= pos /\ delivered[i] <= fed
    /\ ~decoding /\ numberOfRawDataBlocks > 0 => delivered[i] < pos

Ordered == InOrder /\ Passed /\ InFrame

(* A unit that starts behind those before it keeps the order.               *)
LEMMA AppendInOrder ==
  ASSUME Type, InOrder, NEW p \in Int, p <= fed,
         \A i \in 1 .. Len(delivered) : delivered[i] < p,
         delivered' = Append(delivered, p), fed' = fed
  PROVE  /\ InOrder'
         /\ \A i \in 1 .. Len(delivered') : delivered'[i] <= p /\ delivered'[i] <= fed'
<1> DEFINE n == Len(delivered)
<1>1. delivered \in Seq(Int) /\ n \in Nat /\ fed \in Int
  BY TypeFacts DEF Type
<1>2. /\ Len(delivered') = n + 1 /\ delivered'[n + 1] = p
      /\ \A i \in 1 .. n : delivered'[i] = delivered[i] /\ delivered[i] \in Int
  BY <1>1
<1>3. ASSUME NEW i \in 1 .. Len(delivered') - 1
      PROVE  delivered'[i] < delivered'[i + 1]
  <2>1. i \in 1 .. n  BY <1>1, <1>2
  <2>2. CASE i = n  BY <1>2, <2>1, <2>2
  <2>3. CASE i # n
    <3>1. i \in 1 .. n - 1 /\ i + 1 \in 1 .. n  BY <1>1, <2>1, <2>3
    <3>2. delivered[i] < delivered[i + 1]  BY <3>1 DEF InOrder
    <3> QED  BY <1>2, <2>1, <3>1, <3>2
  <2> QED  BY <2>2, <2>3
<1>4. InOrder'  BY <1>3 DEF InOrder
<1>5. ASSUME NEW i \in 1 .. Len(delivered')
      PROVE  delivered'[i] <= p /\ delivered'[i] <= fed'
  <2>1. CASE i = n + 1  BY <1>1, <1>2, <2>1
  <2>2. CASE i # n + 1
    <3>1. i \in 1 .. n  BY <1>1, <1>2, <2>2
    <3>2. delivered'[i] = delivered[i] /\ delivered[i] < p /\ delivered[i] \in Int
      BY <1>2, <3>1
    <3> QED  BY <1>1, <3>2
  <2> QED  BY <2>1, <2>2
<1> QED  BY <1>4, <1>5

(* A header that opens a frame has arrived.                                 *)
LEMMA HeaderArrived ==
  ASSUME Type, NEW q, Opens(q)
  PROVE  q + HeaderBits(stream.headers[q]) <= fed
<1> DEFINE h == stream.headers[q]
           S == {ADTS_HEADERLENGTH, FrameBits(h), HeaderBits(h)}
<1>1. q \in Int /\ IsHeader(h) /\ fed \in Int
  BY StreamFacts, TypeFacts DEF Type, Opens, IsSync
<1>2. FrameBits(h) \in Nat /\ HeaderBits(h) \in Nat /\ HeaderBits(h) >= 56
  BY <1>1, HeaderSizes
<1>3. fed - q >= Max(S)  BY DEF Opens, Complete
<1> HIDE DEF h
<1> DEFINE n == FrameBits(h) + HeaderBits(h)
<1>4. n \in Nat /\ S \subseteq 0 .. n /\ HeaderBits(h) \in S
  BY <1>2 DEF ADTS_HEADERLENGTH
<1> HIDE DEF n, S
<1>5. HeaderBits(h) <= Max(S) /\ Max(S) \in 0 .. n
  BY <1>4, Extremes
<1>6. Max(S) \in Int  BY <1>4, <1>5
<1> QED  BY <1>1, <1>2, <1>3, <1>5, <1>6 DEF h

LEMMA InitOrdered == Init => Ordered
<1> SUFFICES ASSUME Init PROVE Ordered  OBVIOUS
<1>1. Len(delivered) = 0 /\ ~decoding /\ ~(numberOfRawDataBlocks > 0)
  BY DEF Init
<1> QED  BY <1>1 DEF Ordered, InOrder, Passed, InFrame

(* The bits that one aacDecoder_Fill moves into the buffer.                 *)
LEMMA BitsFed ==
  ASSUME Type, NEW offer \in Offers
  PROVE  Min({8 * offer, Max({0, 8 * Buffer!Room})}) \in Nat
<1> DEFINE bits == Min({8 * offer, Max({0, 8 * Buffer!Room})})
<1>1. offer \in Nat  BY BoundsAssumption
<1>2. Buffer!Room \in Int
  <2>1. fed - pos \in Int /\ bufBits \in Int  BY TypeFacts
  <2> QED  BY <2>1 DEF Buffer!Room, Buffer!Unread
<1> DEFINE r == 8 * Buffer!Room
           free == Max({0, r})
<1>3. r \in Int  BY <1>2
<1> HIDE DEF r
<1>4. free = IF 0 <= r THEN r ELSE 0  BY <1>3, OfTwo
<1>5. free \in Nat  BY <1>3, <1>4
<1> HIDE DEF free
<1>6. Min({8 * offer, free}) = IF 8 * offer <= free THEN 8 * offer ELSE free
  BY <1>1, <1>5, OfTwo
<1>7. bits = Min({8 * offer, free})  BY DEF free, r
<1> QED  BY <1>1, <1>5, <1>6, <1>7

LEMMA FillDataOrdered ==
  ASSUME IInv, Ordered, IInv', NEW offer \in Offers, FillData(offer)
  PROVE  Ordered'
<1> DEFINE bits == Min({8 * offer, Max({0, 8 * Buffer!Room})})
<1>1. Type /\ Type'  BY DEF IInv, Known
<1>2. /\ ~decoding /\ fed' = fed + bits /\ MovePositions(bits)
      /\ UNCHANGED <<stream, pos, numberOfRawDataBlocks, bs, decoding, delivered>>
  BY DEF FillData
<1>3. bits \in Nat  BY <1>1, BitsFed
<1> HIDE DEF bits
<1>4. fed \in Int /\ pos \in Int /\ globalFramePos \in Int
      /\ \A i \in 1 .. Len(delivered) : delivered[i] \in Int
  BY <1>1, TypeFacts DEF Type
<1>5. Passed'
  BY <1>2, <1>3, <1>4 DEF Ordered, Passed
<1>6. InOrder'  BY <1>2 DEF Ordered, InOrder
<1>7. ASSUME numberOfRawDataBlocks > 0
      PROVE  (FrameIsSent /\ AtBlock(Current + 1))'
  <2>1. globalFramePos' = globalFramePos + bits
    BY <1>2, <1>7 DEF MovePositions
  <2>2. FrameStart' = FrameStart
    BY <1>2, <1>3, <1>4, <2>1 DEF FrameStart, ADTS_SYNCLENGTH
  <2>3. FrameIsSent /\ AtBlock(Current + 1)
    BY <1>2, <1>7 DEF Ordered, InFrame
  <2>4. Current' = Current  BY <1>2 DEF Current, num_raw_blocks
  <2>5. FrameIsSent'
    BY <1>2, <2>2, <2>3 DEF FrameIsSent, Accepted, FrameBits, HeaderBits,
                                num_raw_blocks
  <2>6. AtBlock(Current + 1)'
    BY <1>2, <2>2, <2>3, <2>4 DEF AtBlock, num_raw_blocks, HeaderBits
  <2> QED  BY <2>5, <2>6
<1>8. InFrame'  BY <1>2, <1>7 DEF InFrame
<1> QED  BY <1>5, <1>6, <1>8 DEF Ordered

LEMMA OpenFrameOrdered ==
  ASSUME IInv, Ordered, IInv', OpenFrame, SentInOrder(stream)
  PROVE  Ordered'
<1> DEFINE h == stream.headers[SearchEnd]
<1>1. Type /\ Type' /\ stream \in Streams  BY DEF IInv, Known, Type
<1>2. /\ SearchEnd \in Int /\ SearchEnd >= pos /\ Opens(SearchEnd)
      /\ bs' = h /\ globalFramePos' = fed - SearchEnd - 12
  BY <1>1, SearchFacts, KeptFacts DEF OpenFrame
<1>3. /\ SearchEnd \in DOMAIN stream.headers /\ IsHeader(h)
      /\ Accepted(h)
  BY <1>1, <1>2, StreamFacts DEF Opens, IsSync
<1>4. HeaderBits(h) \in Nat /\ HeaderBits(h) >= 56 /\ num_raw_blocks(h) \in 0 .. 3
  BY <1>3, HeaderSizes
<1>5. /\ pos' = SearchEnd + HeaderBits(h)
      /\ numberOfRawDataBlocks' = num_raw_blocks(h)
      /\ decoding' = TRUE
      /\ err' = "OK" /\ auLength' = RawDataBlockLength(h, 0)
      /\ accessUnitAnchor' = fed - pos' /\ delivered' = Append(delivered, pos')
      /\ fed' = fed /\ stream' = stream
  BY DEF OpenFrame, Returns
<1>6. pos' <= fed
  BY <1>1, <1>2, <1>5, HeaderArrived
<1> HIDE DEF h
<1>7. /\ fed \in Int /\ pos \in Int /\ pos' \in Int /\ globalFramePos' \in Int
      /\ \A i \in 1 .. Len(delivered) : delivered[i] \in Int
  BY <1>1, <1>2, <1>4, <1>5, TypeFacts DEF Type
<1>8. \A i \in 1 .. Len(delivered) : delivered[i] < pos'
  BY <1>2, <1>4, <1>5, <1>7 DEF Ordered, Passed
<1>9. InOrder' /\ Passed'
  <2>1. /\ InOrder'
        /\ \A i \in 1 .. Len(delivered') : delivered'[i] <= pos' /\ delivered'[i] <= fed'
    BY <1>1, <1>5, <1>6, <1>7, <1>8, AppendInOrder DEF Ordered
  <2> QED  BY <1>5, <2>1 DEF Passed
<1>10. FrameStart' = SearchEnd
  BY <1>2, <1>5, <1>7 DEF FrameStart, ADTS_SYNCLENGTH
<1>11. /\ num_raw_blocks(bs)' = num_raw_blocks(h) /\ HeaderBits(bs)' = HeaderBits(h)
       /\ FrameBits(bs)' = FrameBits(h) /\ Current' = 1
  <2>1. bs' = h /\ numberOfRawDataBlocks' = num_raw_blocks(h)  BY <1>2, <1>5
  <2>2. /\ num_raw_blocks(bs)' = num_raw_blocks(h) /\ FrameBits(bs)' = FrameBits(h)
    BY <2>1 DEF num_raw_blocks, FrameBits
  <2>3. HeaderBits(bs)' = HeaderBits(h)
    BY <2>1, <2>2 DEF HeaderBits
  <2>4. Current' = num_raw_blocks(h) - num_raw_blocks(h) + 1
    BY <2>1, <2>2 DEF Current
  <2> QED  BY <2>2, <2>3, <2>4, <1>4
<1>12. FrameIsSent'
  BY <1>2, <1>3, <1>5, <1>10, <1>11 DEF FrameIsSent, h
<1>13. AtBlock(Current)'
  <2>1. CASE num_raw_blocks(h) = 0
    BY <1>5, <1>10, <1>11, <2>1 DEF AtBlock
  <2>2. CASE num_raw_blocks(h) # 0
    <3>1. num_raw_blocks(h) > 0
      BY <1>4, <2>2
    <3>2. PICK off \in [1 .. Len(h.blocks) -> DOMAIN stream.blockEnd] :
            BlocksFollow(stream, SearchEnd, off)
      BY <1>3, <3>1 DEF SentInOrder, h
    <3>3. off[1] = SearchEnd + HeaderBits(h)
      BY <3>2 DEF BlocksFollow, h
    <3>4. /\ pos' = off[Current'] /\ bs'.blocks = h.blocks
          /\ FrameStart' = SearchEnd /\ stream' = stream
      BY <1>2, <1>5, <1>10, <1>11, <3>3
    <3>5. BlocksFollow(stream, FrameStart, off)'
      BY <3>2, <3>4 DEF BlocksFollow, HeaderBits, FrameBits, num_raw_blocks
    <3> QED  BY <2>2, <1>11, <3>4, <3>5 DEF AtBlock
  <2> QED  BY <2>1, <2>2
<1>14. InFrame'
  <2>1. auLength' = RawDataBlockLength(bs, Current - 1)'
    <3>1. RawDataBlockLength(bs, Current - 1)' = RawDataBlockLength(h, 0)
      BY <1>2, <1>11 DEF RawDataBlockLength, num_raw_blocks, FrameBits
    <3> QED  BY <1>5, <3>1
  <2>2. accessUnitAnchor' = fed' - pos' /\ pos' <= fed'  BY <1>5, <1>6
  <2> QED  BY <1>5, <1>12, <1>13, <2>1, <2>2 DEF InFrame
<1> QED  BY <1>9, <1>14 DEF Ordered

(* A search that fails delivers nothing and leaves no block due.            *)
LEMMA FailedSearchOrdered ==
  ASSUME Type, Ordered, pos' \in Int, pos' >= pos, numberOfRawDataBlocks' = 0,
         ~decoding', UNCHANGED <<fed, delivered>>
  PROVE  Ordered'
<1>1. pos \in Int /\ \A i \in 1 .. Len(delivered) : delivered[i] \in Int
  BY TypeFacts DEF Type
<1>2. Passed'  BY <1>1 DEF Ordered, Passed
<1> QED  BY <1>2 DEF Ordered, InOrder, InFrame

LEMMA OpenBlockOrdered ==
  ASSUME IInv, Ordered, OpenBlock
  PROVE  Ordered'
<1>1. Type /\ BlocksOfHeader  BY DEF IInv, Known
<1>2. /\ ~decoding /\ decoding' = TRUE /\ pos' = pos /\ ~NextFrame
      /\ numberOfRawDataBlocks' = numberOfRawDataBlocks - 1
      /\ err' = "OK" /\ accessUnitAnchor' = fed - pos'
      /\ auLength' = RawDataBlockLength(bs, num_raw_blocks(bs) - numberOfRawDataBlocks')
      /\ delivered' = Append(delivered, pos')
      /\ UNCHANGED <<fed, stream, bs, globalFramePos>>
  BY DEF OpenBlock, Returns
<1>3. /\ fed \in Int /\ pos \in Int /\ globalFramePos \in Int
      /\ numberOfRawDataBlocks \in 1 .. 3 /\ fed - pos > 0
      /\ num_raw_blocks(bs) \in 0 .. 3
  BY <1>1, <1>2, TypeFacts DEF NextFrame, Valid
<1>4. \A i \in 1 .. Len(delivered) : delivered[i] < pos
  BY <1>2, <1>3 DEF Ordered, Passed
<1>5. InOrder' /\ Passed'
  <2>1. pos <= fed  BY <1>3
  <2>2. /\ InOrder'
        /\ \A i \in 1 .. Len(delivered') : delivered'[i] <= pos /\ delivered'[i] <= fed'
    BY <1>1, <1>2, <1>3, <1>4, <2>1, AppendInOrder DEF Ordered
  <2> QED  BY <1>2, <2>2 DEF Passed
<1>6. FrameIsSent /\ AtBlock(Current + 1)
  BY <1>2, <1>3 DEF Ordered, InFrame
<1>7. /\ Current' = Current + 1 /\ FrameStart' = FrameStart
      /\ num_raw_blocks(bs) - numberOfRawDataBlocks' = Current' - 1
  BY <1>2, <1>3 DEF Current, FrameStart, num_raw_blocks
<1>8. FrameIsSent'
  BY <1>2, <1>6, <1>7 DEF FrameIsSent, Accepted, FrameBits, HeaderBits,
                                num_raw_blocks
<1>9. AtBlock(Current)'
  BY <1>2, <1>6, <1>7 DEF AtBlock, num_raw_blocks, HeaderBits
<1>10. auLength' = RawDataBlockLength(bs, Current - 1)'
  BY <1>2, <1>7 DEF RawDataBlockLength, num_raw_blocks, FrameBits
<1>11. InFrame'
  <2>1. pos' <= fed'  BY <1>2, <1>3
  <2> QED  BY <1>2, <1>8, <1>9, <1>10, <2>1 DEF InFrame
<1> QED  BY <1>5, <1>11 DEF Ordered

LEMMA StarveBlockOrdered ==
  ASSUME IInv, Ordered, StarveBlock
  PROVE  Ordered'
<1>1. /\ ~decoding
      /\ UNCHANGED <<pos, numberOfRawDataBlocks, globalFramePos, bs, decoding,
                     stream, fed, delivered>>
  BY DEF StarveBlock, Returns
<1>2. Passed' /\ InOrder'  BY <1>1 DEF Ordered, Passed, InOrder
<1>3. Current' = Current /\ FrameStart' = FrameStart
  BY <1>1 DEF Current, FrameStart, num_raw_blocks
<1>4. FrameIsSent => FrameIsSent'
  BY <1>1, <1>3 DEF FrameIsSent, Accepted, FrameBits, HeaderBits,
                                num_raw_blocks
<1>5. AtBlock(Current + 1) => AtBlock(Current + 1)'
  BY <1>1, <1>3 DEF AtBlock, num_raw_blocks, HeaderBits
<1>6. InFrame'  BY <1>1, <1>4, <1>5 DEF Ordered, InFrame
<1> QED  BY <1>2, <1>6 DEF Ordered

(* Wherever the parser stops, it has not gone back, and past an intact      *)
(* block it is at the end of it.                                            *)
LEMMA ParserStopsBehind ==
  ASSUME Type, err = "OK", NEW p \in ParserStops
  PROVE  /\ p \in Int /\ p >= pos
         /\ pos \in DOMAIN stream.blockEnd \ stream.broken
              => p = stream.blockEnd[pos]
<1>1. fed \in Int /\ pos \in Int /\ IsStream(stream)
  BY TypeFacts, StreamsAssumption DEF Type
<1>2. p \in Int  BY ParserStopsAligned
<1>3. CASE pos \in DOMAIN stream.blockEnd \ stream.broken
  <2>1. p = stream.blockEnd[pos]  BY <1>3 DEF ParserStops, Intact
  <2>2. stream.blockEnd[pos] \in pos .. stream.size  BY <1>1, <1>3 DEF IsStream
  <2> QED  BY <1>1, <1>2, <1>3, <2>1, <2>2
<1>4. CASE ~(pos \in DOMAIN stream.blockEnd \ stream.broken)
  <2> DEFINE v == Valid
             top == Max({v, 0}) \div 8 + MaxAhead
  <2>1. p \in {pos + 8 * k : k \in 0 .. top}  BY <1>4 DEF ParserStops, Intact
  <2>2. top \in Int
    <3>1. v \in Int  BY <1>1 DEF Valid
    <3> HIDE DEF v
    <3> DEFINE m == Max({v, 0})
    <3>2. m = IF v <= 0 THEN 0 ELSE v  BY <3>1, OfTwo
    <3> HIDE DEF m
    <3>3. m \div 8 + MaxAhead \in Int  BY <3>1, <3>2, BoundsAssumption
    <3> QED  BY <3>3 DEF m
  <2> HIDE DEF top
  <2>3. PICK k \in 0 .. top : p = pos + 8 * k  BY <2>1
  <2> QED  BY <1>1, <1>2, <1>4, <2>2, <2>3
<1> QED  BY <1>3, <1>4

(* Where the reader is put behind the unit: at its end, if its length is    *)
(* known and the parser has not read past the data; then at the end of the  *)
(* data; and where the parser stopped if the length is not known.           *)
LEMMA BehindUnitFacts ==
  ASSUME Type, err = "OK", accessUnitAnchor = fed - pos, NEW p \in ParserStops
  PROVE  /\ BehindUnit(p) \in Int
         /\ auLength > 0 /\ p <= fed => BehindUnit(p) = pos + auLength
         /\ auLength > 0 /\ p > fed => BehindUnit(p) = fed
         /\ ~(auLength > 0) => BehindUnit(p) = p
<1>1. /\ fed \in Int /\ pos \in Int /\ auLength \in Int
      /\ p \in Int /\ p >= pos
  BY TypeFacts, ParserStopsBehind
<1> QED  BY <1>1 DEF BehindUnit, LengthKnown, AuBitsRemaining

(* Where the parser leaves a block that is not the last of its frame: at    *)
(* the start of the next one.                                               *)
LEMMA NextBlock ==
  ASSUME Type, BlocksOfHeader, decoding, FrameIsSent, AtBlock(Current),
         err = "OK", accessUnitAnchor = fed - pos,
         auLength = RawDataBlockLength(bs, Current - 1),
         num_raw_blocks(bs) # 0, numberOfRawDataBlocks # 0,
         NEW p \in ParserStops, pos' = AdjustEndOfAccessUnit(BehindUnit(p)),
         NEW off \in [1 .. Len(bs.blocks) -> DOMAIN stream.blockEnd],
         BlocksFollow(stream, FrameStart, off), pos = off[Current]
  PROVE  pos' = off[Current + 1]
<1>1. /\ fed \in Int /\ pos \in Int /\ auLength \in Int
      /\ numberOfRawDataBlocks \in 1 .. 3 /\ num_raw_blocks(bs) \in 0 .. 3
      /\ numberOfRawDataBlocks <= num_raw_blocks(bs) /\ IsHeader(bs)
  BY TypeFacts DEF Type, BlocksOfHeader
<1> DEFINE n == Len(bs.blocks)
<1>2. n = num_raw_blocks(bs) + 1 /\ Current \in 1 .. n - 1 /\ Current \in 1 .. n
  BY <1>1 DEF Current, num_raw_blocks, IsHeader
<1>3. \A k \in 1 .. n - 1 :
        IF bs.crc THEN off[k + 1] = off[k] + 8 * bs.blocks[k]
        ELSE off[k] \notin stream.broken /\ off[k + 1] = stream.blockEnd[off[k]]
  BY DEF BlocksFollow, FrameIsSent
<1>4. off[Current] \in DOMAIN stream.blockEnd  BY <1>2
<1> HIDE DEF n
<1>5. CASE bs.crc
  <2>1. pos' = pos + 8 * bs.blocks[Current]
    BY <1>1, <1>5 DEF AdjustEndOfAccessUnit, Current
  <2> QED  BY <1>2, <1>3, <1>5, <2>1
<1>6. CASE ~bs.crc
  <2>1. auLength = -1  BY <1>6 DEF RawDataBlockLength
  <2>2. pos \in DOMAIN stream.blockEnd \ stream.broken
    BY <1>2, <1>3, <1>4, <1>6
  <2>3. p = stream.blockEnd[pos]  BY <2>2, ParserStopsBehind
  <2>4. BehindUnit(p) = p  BY <1>1, <2>1, BehindUnitFacts
  <2>5. pos' = p  BY <1>6, <2>4 DEF AdjustEndOfAccessUnit
  <2> QED  BY <1>2, <1>3, <1>6, <2>3, <2>5
<1> QED  BY <1>5, <1>6

LEMMA DecodeFrameOrdered ==
  ASSUME IInv, Ordered, DecodeFrame
  PROVE  Ordered'
<1>1. Type /\ BlocksOfHeader  BY DEF IInv, Known
<1>2. PICK stop \in ParserStops :
        pos' = AdjustEndOfAccessUnit(BehindUnit(stop))
  BY DEF DecodeFrame
<1>3. /\ decoding /\ decoding' = FALSE
      /\ UNCHANGED <<stream, fed, numberOfRawDataBlocks, globalFramePos, bs,
                     accessUnitAnchor, auLength, delivered>>
  BY DEF DecodeFrame
<1>4. /\ FrameIsSent /\ AtBlock(Current) /\ err = "OK" /\ accessUnitAnchor = fed - pos
      /\ pos <= fed
      /\ auLength = RawDataBlockLength(bs, Current - 1)
  BY <1>3 DEF Ordered, InFrame
<1>5. /\ fed \in Int /\ pos \in Int /\ globalFramePos \in Int /\ auLength \in Int
      /\ numberOfRawDataBlocks \in 0 .. 3 /\ num_raw_blocks(bs) \in 0 .. 3
      /\ numberOfRawDataBlocks <= num_raw_blocks(bs) /\ IsHeader(bs)
      /\ FrameBits(bs) \in Nat /\ HeaderBits(bs) \in Nat
      /\ \A i \in 1 .. Len(delivered) : delivered[i] \in Int
  BY <1>1, TypeFacts, HeaderSizes DEF Type, BlocksOfHeader
<1> DEFINE p == BehindUnit(stop)
<1>6. p \in Int /\ p >= pos
  <2>1. /\ p \in Int
        /\ auLength > 0 /\ stop <= fed => p = pos + auLength
        /\ auLength > 0 /\ stop > fed => p = fed
        /\ ~(auLength > 0) => p = stop
    BY <1>1, <1>4, BehindUnitFacts
  <2>2. stop \in Int /\ stop >= pos  BY <1>1, <1>4, ParserStopsBehind
  <2> HIDE DEF p
  <2> QED  BY <1>4, <1>5, <2>1, <2>2
<1>7. /\ FrameEnd = FrameStart + FrameBits(bs) /\ FrameStart \in Int
      /\ FrameBits(bs) > HeaderBits(bs)
  BY <1>4, <1>5 DEF FrameEnd, FrameStart, FrameIsSent, Accepted,
                      ADTS_SYNCLENGTH
<1>8. pos' = IF ~bs.crc THEN p
             ELSE IF numberOfRawDataBlocks = 0 THEN FrameEnd
             ELSE pos + 8 * bs.blocks[Current]
  BY <1>2, <1>4, <1>5 DEF AdjustEndOfAccessUnit, Current
<1> HIDE DEF p
<1> DEFINE n == Len(bs.blocks)
           r == numberOfRawDataBlocks
<1>9. /\ n = num_raw_blocks(bs) + 1 /\ n \in 1 .. 4
      /\ Current = n - r /\ Current \in 1 .. n /\ bs.blocks \in Seq(Nat)
  BY <1>5 DEF Current, num_raw_blocks, IsHeader, Header
<1> HIDE DEF n, r
<1>10. CASE num_raw_blocks(bs) = 0
  <2>1. r = 0 /\ pos = FrameStart + HeaderBits(bs)
    BY <1>4, <1>5, <1>10 DEF AtBlock, r
  <2>2. pos' >= pos /\ pos' \in Int
    BY <1>5, <1>6, <1>7, <1>8, <2>1 DEF r
  <2> QED  BY <1>3, <1>5, <2>1, <2>2 DEF r, Ordered, InOrder, Passed, InFrame
<1>11. CASE num_raw_blocks(bs) # 0
  <2>1. PICK off \in [1 .. Len(bs.blocks) -> DOMAIN stream.blockEnd] :
          BlocksFollow(stream, FrameStart, off) /\ pos = off[Current]
    BY <1>4, <1>11 DEF AtBlock
  <2>2. /\ bs.crc => off[n] <= FrameStart + FrameBits(bs)
        /\ \A k \in 1 .. n - 1 :
             /\ off[k] < off[k + 1]
             /\ IF bs.crc THEN off[k + 1] = off[k] + 8 * bs.blocks[k]
                ELSE off[k] \notin stream.broken /\ off[k + 1] = stream.blockEnd[off[k]]
    BY <1>4, <2>1 DEF BlocksFollow, FrameIsSent, n
  <2>3. CASE r = 0
    <3>1. pos = off[n]  BY <1>9, <2>1, <2>3
    <3>2. pos' >= pos /\ pos' \in Int
      BY <1>5, <1>6, <1>7, <1>8, <2>2, <2>3, <3>1 DEF r
    <3>3. Passed'
      BY <1>3, <1>5, <2>3, <3>2 DEF r, Ordered, Passed
    <3> QED  BY <1>3, <2>3, <3>3 DEF r, Ordered, InOrder, InFrame
  <2>4. CASE r # 0
    <3>1. Current \in 1 .. n - 1 /\ r > 0  BY <1>5, <1>9, <2>4 DEF r
    <3>2. off[Current] < off[Current + 1] /\ off[Current] \in DOMAIN stream.blockEnd
      BY <1>9, <2>1, <2>2, <3>1 DEF n
    <3>3. pos' = off[Current + 1]
      BY <1>1, <1>2, <1>3, <1>4, <1>11, <2>1, <2>4, NextBlock DEF r
    <3>4. pos < pos' /\ pos' \in Int
      <4>1. bs.blocks[Current] \in Nat  BY <1>9, <3>1 DEF n
      <4>2. pos' \in Int  BY <1>5, <1>6, <1>8, <2>4, <4>1 DEF r
      <4> QED  BY <2>1, <3>2, <3>3, <4>2
    <3>5. Passed' /\ InOrder'
      BY <1>3, <1>5, <3>4 DEF Ordered, Passed, InOrder
    <3>6. Current' = Current /\ FrameStart' = FrameStart
      BY <1>3 DEF Current, FrameStart, num_raw_blocks
    <3>7. FrameIsSent'
      BY <1>3, <1>4, <3>6 DEF FrameIsSent, Accepted, FrameBits, HeaderBits,
                                num_raw_blocks
    <3>8. AtBlock(Current + 1)'
      <4>1. BlocksFollow(stream, FrameStart, off)'
        BY <1>3, <2>1, <3>6 DEF BlocksFollow, HeaderBits, FrameBits, num_raw_blocks
      <4>2. num_raw_blocks(bs)' # 0 /\ bs' = bs /\ stream' = stream
        BY <1>3, <1>11 DEF num_raw_blocks
      <4>3. pos' = off[Current' + 1]  BY <3>3, <3>6
      <4> QED  BY <2>1, <4>1, <4>2, <4>3 DEF AtBlock
    <3>9. InFrame'  BY <1>3, <3>7, <3>8 DEF InFrame
    <3> QED  BY <3>5, <3>9 DEF Ordered
  <2> QED  BY <2>3, <2>4
<1> QED  BY <1>10, <1>11

LEMMA ResetOrdered ==
  ASSUME IInv, Ordered, Reset
  PROVE  Ordered'
<1>1. /\ ~decoding' /\ pos' = fed /\ numberOfRawDataBlocks' = 0
      /\ UNCHANGED <<fed, delivered>>
  BY DEF Reset
<1> QED  BY <1>1 DEF Ordered, Passed, InOrder, InFrame

LEMMA StutterOrdered ==
  ASSUME Ordered, UNCHANGED vars
  PROVE  Ordered'
<1>1. UNCHANGED <<stream, fed, pos, numberOfRawDataBlocks, globalFramePos, bs,
                  accessUnitAnchor, auLength, err, decoding, delivered>>
  BY DEF vars
<1>2. Passed' /\ InOrder'  BY <1>1 DEF Ordered, Passed, InOrder
<1>3. Current' = Current /\ FrameStart' = FrameStart
  BY <1>1 DEF Current, FrameStart, num_raw_blocks
<1>4. FrameIsSent => FrameIsSent'
  BY <1>1, <1>3 DEF FrameIsSent, Accepted, FrameBits, HeaderBits,
                                num_raw_blocks
<1>5. /\ AtBlock(Current) => AtBlock(Current)'
      /\ AtBlock(Current + 1) => AtBlock(Current + 1)'
  BY <1>1, <1>3 DEF AtBlock, num_raw_blocks, HeaderBits
<1>6. RawDataBlockLength(bs, Current - 1)' = RawDataBlockLength(bs, Current - 1)
  BY <1>1, <1>3 DEF RawDataBlockLength, num_raw_blocks, FrameBits
<1>7. InFrame'  BY <1>1, <1>4, <1>5, <1>6 DEF Ordered, InFrame
<1> QED  BY <1>2, <1>7 DEF Ordered

LEMMA NextOrdered ==
  ASSUME ~Interrupts, \A s \in Streams : SentInOrder(s),
         IInv, IInv', Ordered, [Next]_vars
  PROVE  Ordered'
<1>1. Type /\ SentInOrder(stream)  BY DEF IInv, Known, Type
<1>2. pos \in Int /\ SearchEnd \in Int /\ SearchEnd >= pos
  BY <1>1, TypeFacts, SearchFacts
<1>3. ASSUME NEW offer \in Offers, FillData(offer) PROVE Ordered'
  BY <1>3, FillDataOrdered
<1>4. CASE OpenFrame  BY <1>1, <1>4, OpenFrameOrdered
<1>5. CASE StarveSearch
  <2>1. /\ pos' = SearchEnd /\ numberOfRawDataBlocks' = 0 /\ ~decoding'
        /\ UNCHANGED <<fed, delivered>>
    BY <1>5 DEF StarveSearch, Returns
  <2> QED  BY <1>1, <1>2, <2>1, FailedSearchOrdered
<1>6. ASSUME NEW intr \in {FALSE, Interrupts}, LoseSync(intr) PROVE Ordered'
  <2>1. /\ pos' = SearchEnd + 8 /\ numberOfRawDataBlocks' = 0 /\ decoding' = intr
        /\ UNCHANGED <<fed, delivered>>
    BY <1>6 DEF LoseSync, BehindBadSync, TPDEC_SYNCSKIP, Returns
  <2>2. ~intr
    <3>1. intr = FALSE \/ intr = Interrupts  OBVIOUS
    <3> QED  BY <3>1, Zenon
  <2>3. pos' \in Int /\ pos' >= pos  BY <1>2, <2>1
  <2> QED  BY <1>1, <2>1, <2>2, <2>3, FailedSearchOrdered
<1>7. CASE OpenBlock  BY <1>7, OpenBlockOrdered
<1>8. CASE StarveBlock  BY <1>8, StarveBlockOrdered
<1>9. CASE DecodeFrame  BY <1>9, DecodeFrameOrdered
<1>10. CASE Reset  BY <1>10, ResetOrdered
<1>11. CASE UNCHANGED vars  BY <1>11, StutterOrdered
<1> QED  BY <1>3, <1>4, <1>5, <1>6, <1>7, <1>8, <1>9, <1>10, <1>11
    DEF Next, ReadAccessUnit

(* Without AACDEC_INTR the units are handed over in the order of the        *)
(* stream, none twice, through noise, damaged units, wrong headers and      *)
(* flushes, whenever the blocks of a frame lie behind each other inside it. *)
THEOREM InOrderTheorem ==
  ASSUME ~Interrupts, \A s \in Streams : SentInOrder(s)
  PROVE  Spec => []InOrder
<1>1. IInv /\ IInv' /\ Ordered /\ [Next]_vars => Ordered'
  BY NextOrdered
<1>2. Ordered => InOrder
  BY DEF Ordered
<1> QED  BY <1>1, <1>2, InitOrdered, TransportInvariant, PTL DEF Spec
-----------------------------------------------------------------------------
(* No unit is passed over.                                                  *)

(* The frame whose blocks are read has arrived: blocks that are due are not *)
(* given up for want of bits.                                               *)
Arrived ==
  decoding \/ numberOfRawDataBlocks > 0 => FrameStart + FrameBits(bs) <= fed

(* Where the reader is with respect to a unit that it still has to hand     *)
(* over: in its frame and not behind it, or in a frame before, or before    *)
(* the header of its frame.                                                 *)
StillAhead(u) ==
  IF decoding \/ numberOfRawDataBlocks > 0
  THEN \/ /\ stream.opener[u] = FrameStart
          /\ pos <= u /\ (decoding => pos # u)
       \/ stream.opener[u] >= FrameStart + FrameBits(bs)
  ELSE pos <= stream.opener[u]

Ahead ==
  \A i \in DOMAIN stream.units :
    LET u == stream.units[i]
    IN  ~Done(u) => StillAhead(u)

Finding == Arrived /\ Ahead

(* What was dropped had arrived.                                            *)
DroppedArrived == droppedTo <= fed

LEMMA DroppedStep ==
  ASSUME IInv, DroppedArrived, [Next]_vars
  PROVE  DroppedArrived'
<1>1. Type  BY DEF IInv, Known
<1>2. fed \in Int /\ droppedTo \in Int  BY <1>1, TypeFacts DEF Type
<1>3. ASSUME NEW offer \in Offers, FillData(offer) PROVE DroppedArrived'
  <2> DEFINE bits == Min({8 * offer, Max({0, 8 * Buffer!Room})})
  <2>1. bits \in Nat  BY <1>1, BitsFed
  <2>2. fed' = fed + bits /\ droppedTo' = droppedTo  BY <1>3 DEF FillData
  <2> HIDE DEF bits
  <2> QED  BY <1>2, <2>1, <2>2 DEF DroppedArrived
<1>4. CASE Reset  BY <1>2, <1>4 DEF Reset, DroppedArrived
<1>5. CASE ReadAccessUnit
  BY <1>5 DEF ReadAccessUnit, OpenFrame, StarveSearch, OpenBlock, StarveBlock,
              LoseSync, Returns, DroppedArrived
<1>6. CASE DecodeFrame
  <2>1. fed' = fed /\ (droppedTo' = fed \/ droppedTo' = droppedTo)
    BY <1>6 DEF DecodeFrame
  <2> QED  BY <1>2, <2>1 DEF DroppedArrived
<1>7. CASE UNCHANGED vars  BY <1>7 DEF vars, DroppedArrived
<1> QED  BY <1>3, <1>4, <1>5, <1>6, <1>7 DEF Next

(* What the assumptions on a stream say of a unit and its frame.            *)
LEMMA UnitFacts ==
  ASSUME stream \in Streams, Findable(stream),
         NEW i \in DOMAIN stream.units, NEW u, u = stream.units[i],
         NEW q, q = stream.opener[u]
  PROVE  /\ u \in Int /\ q \in Int /\ q \in DOMAIN stream.headers
         /\ q >= 0 /\ q % 8 = 0 /\ q < u
         /\ u \in DOMAIN stream.blockEnd
         /\ stream.blockEnd[u] \in Int /\ u < stream.blockEnd[u]
         /\ UnitInFrame(stream, u) /\ Accepted(stream.headers[q])
         /\ u < q + FrameBits(stream.headers[q])
<1> DEFINE h == stream.headers[q]
<1>1. IsStream(stream)  BY StreamsAssumption
<1>2. u \in DOMAIN stream.blockEnd
  BY <1>1 DEF IsStream
<1>3. q \in DOMAIN stream.headers
  BY <1>1 DEF IsStream
<1>4. q \in 0 .. stream.size /\ q % 8 = 0 /\ IsHeader(h) /\ stream.size \in Nat
      /\ stream.blockEnd[u] \in Int
  BY <1>2, <1>3, StreamFacts
<1>5. UnitInFrame(stream, u)  BY DEF Findable
<1>6. /\ Accepted(h) /\ u \in q + HeaderBits(h) .. q + FrameBits(h) - 1
      /\ u < stream.blockEnd[u]
  BY <1>5 DEF UnitInFrame
<1>7. HeaderBits(h) \in Nat /\ HeaderBits(h) >= 56 /\ FrameBits(h) \in Nat
  BY <1>4, HeaderSizes
<1> HIDE DEF h
<1> QED  BY <1>2, <1>3, <1>4, <1>5, <1>6, <1>7 DEF h

(* A header that opens a frame and has arrived is not answered otherwise:   *)
(* once the buffer is full, the frame has arrived as well.                  *)
LEMMA AcceptedOutcome ==
  ASSUME Type, NEW q \in DOMAIN stream.headers, Accepted(stream.headers[q])
  PROVE  /\ Outcome(q) # "SYNC_ERROR"
         /\ fed - q >= bufBits - 7 => Outcome(q) = "OK"
<1> DEFINE h == stream.headers[q]
           S == {ADTS_HEADERLENGTH, FrameBits(h), HeaderBits(h)}
<1>1. q \in Int /\ IsHeader(h) /\ fed \in Int /\ bufBits \in Nat
  BY StreamFacts, TypeFacts DEF Type
<1>2. FrameBits(h) \in Nat /\ HeaderBits(h) \in Nat /\ HeaderBits(h) >= 56
  BY <1>1, HeaderSizes
<1>3. FrameBits(h) > HeaderBits(h) /\ FrameBits(h) <= bufBits - 7
  BY DEF Accepted
<1>4. IsSync(q)  BY DEF IsSync
<1>5. Complete(q) => Outcome(q) = "OK"
  BY <1>4 DEF Opens, Outcome
<1>6. ~Complete(q) => Outcome(q) = "NOT_ENOUGH_BITS"
  BY <1>4 DEF Opens, Outcome, Starved
<1>7. fed - q >= bufBits - 7 => Complete(q)
  <2>1. S \subseteq 0 .. FrameBits(h) /\ S # {}
    BY <1>2, <1>3 DEF ADTS_HEADERLENGTH
  <2> HIDE DEF S, h
  <2>2. Max(S) \in 0 .. FrameBits(h)  BY <2>1, <1>2, Extremes
  <2>3. fed - q >= bufBits - 7 => fed - q >= Max(S)
    BY <1>1, <1>2, <1>3, <2>2
  <2> QED  BY <2>3 DEF Complete, S, h
<1> QED  BY <1>5, <1>6, <1>7

(* Arithmetic of byte boundaries.                                           *)
LEMMA ByteSteps ==
  ASSUME NEW a \in Int, NEW b \in Int, a % 8 = 0, b % 8 = 0
  PROVE  a < b => a + 8 <= b
OBVIOUS

(* The search does not pass a header that opens a frame, and does not call  *)
(* it an error.                                                             *)
LEMMA SearchStopsBefore ==
  ASSUME Type, ByteAlignedPositions,
         NEW q \in DOMAIN stream.headers, Accepted(stream.headers[q]), pos <= q
  PROVE  /\ SearchEnd <= q
         /\ SearchResult = "SYNC_ERROR" => SearchEnd + 8 <= q
<1>1. /\ fed \in Int /\ pos \in Int /\ q \in Int /\ q % 8 = 0
      /\ bufBits \in Nat /\ bufBits > 56 /\ stream.size \in Nat
  BY StreamFacts, TypeFacts DEF Type
<1>2. fed % 8 = 0 /\ pos % 8 = 0  BY DEF ByteAlignedPositions
<1>3. /\ Outcome(q) # "SYNC_ERROR"
      /\ fed - q >= bufBits - 7 => Outcome(q) = "OK"
  BY AcceptedOutcome
<1>4. q \in Compared => q \in Hits  BY <1>3 DEF Hits
<1>5. fed - q >= 16 => q \in Compared
  <2>1. (q - pos) % 8 = 0  BY <1>1, <1>2, ByteAlignedSums
  <2> QED  BY <1>1, <2>1 DEF Compared, TPDEC_SYNCSKIP
<1>6. fed - q < 16 => fed - 8 <= q
  <2>1. fed - 8 \in Int /\ (fed - 8) % 8 = 0  BY <1>1, <1>2
  <2>2. q < fed - 8 => q + 8 <= fed - 8  BY <1>1, <2>1, ByteSteps
  <2> QED  BY <1>1, <2>2
<1>7. TooFewToSearch <=> fed - pos < 20
  BY <1>1 DEF TooFewToSearch, Valid, ADTS_SYNCLENGTH, TPDEC_SYNCSKIP
<1>8. SearchEnd <= q
  <2>1. CASE synced \/ TooFewToSearch  BY <2>1 DEF SearchEnd
  <2>2. CASE ~(synced \/ TooFewToSearch) /\ Hits = {}
    BY <1>4, <1>5, <1>6, <1>1, <2>2 DEF SearchEnd, TPDEC_SYNCSKIP
  <2>3. CASE ~(synced \/ TooFewToSearch) /\ Hits # {}
    <3>1. SearchEnd = Min(Hits)  BY <2>3 DEF SearchEnd
    <3>2. Hits \subseteq 0 .. stream.size
      BY ComparedFacts
    <3>3. SearchEnd \in Hits /\ \A x \in Hits : SearchEnd <= x
      BY <1>1, <2>3, <3>1, <3>2, Extremes
    <3>4. SearchEnd \in Int /\ fed - SearchEnd >= 16
      BY <3>2, <3>3 DEF Hits, Compared
    <3> QED  BY <1>1, <1>4, <1>5, <1>6, <3>3, <3>4
  <2> QED  BY <2>1, <2>2, <2>3
<1>9. ASSUME SearchResult = "SYNC_ERROR" PROVE SearchEnd # q
  <2> SUFFICES ASSUME SearchEnd = q PROVE FALSE  OBVIOUS
  <2> DEFINE found == IF TooFewToSearch \/ (~synced /\ Hits = {})
                      THEN "NOT_ENOUGH_BITS" ELSE Outcome(SearchEnd)
  <2>1. /\ found = "SYNC_ERROR" \/ fed - SearchEnd >= bufBits - 7
        /\ found # "SYNC_ERROR" => found = "NOT_ENOUGH_BITS"
    BY <1>9 DEF SearchResult
  <2>2. CASE TooFewToSearch
    BY <1>1, <1>7, <2>1, <2>2 DEF SearchEnd
  <2>3. CASE ~TooFewToSearch /\ ~synced /\ Hits = {}
    BY <1>1, <2>1, <2>3 DEF SearchEnd, TPDEC_SYNCSKIP
  <2>4. CASE ~TooFewToSearch /\ ~(~synced /\ Hits = {})
    <3>1. found = Outcome(q)  BY <2>4
    <3> QED  BY <3>1, <2>1, <1>3
  <2> QED  BY <2>2, <2>3, <2>4
<1>10. SearchEnd \in Int /\ SearchEnd % 8 = 0
  BY SearchFacts
<1> QED  BY <1>1, <1>8, <1>9, <1>10, ByteSteps

(* A unit that is not done after a step of the decoder was not before it.   *)
LEMMA DoneStays ==
  ASSUME UNCHANGED <<stream, droppedTo>>, delivered \in Seq(Int),
         \/ delivered' = delivered
         \/ \E p \in Int : delivered' = Append(delivered, p),
         NEW u, Done(u)
  PROVE  Done(u)'
<1>1. Range(delivered) \subseteq Range(delivered')
  <2>1. CASE delivered' = delivered  BY <2>1
  <2>2. ASSUME NEW p \in Int, delivered' = Append(delivered, p)
        PROVE  Range(delivered) \subseteq Range(delivered')
    <3>1. \A i \in DOMAIN delivered :
            i \in DOMAIN delivered' /\ delivered'[i] = delivered[i]
      BY <2>2
    <3> QED  BY <3>1 DEF Range
  <2> QED  BY <2>1, <2>2
<1> QED  BY <1>1 DEF Done

(* A unit that has just been handed over is done.                           *)
LEMMA AppendedDone ==
  ASSUME delivered \in Seq(Int), NEW p \in Int, delivered' = Append(delivered, p)
  PROVE  Done(p)'
<1>1. Len(delivered) + 1 \in DOMAIN delivered' /\ delivered'[Len(delivered) + 1] = p
  OBVIOUS
<1>2. p \in Range(delivered')  BY <1>1 DEF Range
<1> QED  BY <1>2 DEF Done

LEMMA InitFinding ==
  ASSUME Init, \A s \in Streams : Findable(s)
  PROVE  Finding
<1>1. ~decoding /\ ~(numberOfRawDataBlocks > 0) /\ pos = 0 /\ stream \in Streams
  BY DEF Init
<1>2. ASSUME NEW i \in DOMAIN stream.units PROVE StillAhead(stream.units[i])
  BY <1>1, UnitFacts DEF StillAhead
<1> QED  BY <1>1, <1>2 DEF Finding, Arrived, Ahead

(* Steps that leave the reader where it is, and the frame it is in.         *)
LEMMA UnmovedFinding ==
  ASSUME Type, Finding,
         UNCHANGED <<stream, pos, numberOfRawDataBlocks, bs, decoding, delivered,
                     droppedTo>>,
         fed' \in Int, fed' >= fed,
         decoding \/ numberOfRawDataBlocks > 0 => FrameStart' = FrameStart
  PROVE  Finding'
<1>1. fed \in Int /\ FrameBits(bs) \in Nat /\ FrameStart \in Int
  BY TypeFacts, HeaderSizes DEF FrameStart, ADTS_SYNCLENGTH
<1>2. FrameBits(bs)' = FrameBits(bs)  BY DEF FrameBits
<1>3. Arrived'  BY <1>1, <1>2 DEF Finding, Arrived
<1>4. ASSUME NEW u, StillAhead(u) PROVE StillAhead(u)'
  BY <1>2, <1>4 DEF StillAhead
<1>5. \A u : Done(u)' <=> Done(u)  BY DEF Done
<1> QED  BY <1>3, <1>4, <1>5 DEF Finding, Ahead

LEMMA FillDataFinding ==
  ASSUME IInv, Finding, NEW offer \in Offers, FillData(offer)
  PROVE  Finding'
<1> DEFINE bits == Min({8 * offer, Max({0, 8 * Buffer!Room})})
<1>1. Type  BY DEF IInv, Known
<1>2. /\ ~decoding /\ fed' = fed + bits /\ MovePositions(bits)
      /\ UNCHANGED <<stream, pos, numberOfRawDataBlocks, bs, decoding, delivered,
                     droppedTo>>
  BY DEF FillData
<1>3. bits \in Nat  BY <1>1, BitsFed
<1> HIDE DEF bits
<1>4. fed \in Int /\ pos \in Int /\ globalFramePos \in Int
  BY <1>1, TypeFacts
<1>5. numberOfRawDataBlocks > 0 => FrameStart' = FrameStart
  BY <1>2, <1>3, <1>4 DEF MovePositions, FrameStart, ADTS_SYNCLENGTH
<1> QED  BY <1>1, <1>2, <1>3, <1>4, <1>5, UnmovedFinding

(* A frame that is opened has arrived.                                      *)
LEMMA FrameArrived ==
  ASSUME Type, NEW q, Opens(q)
  PROVE  q + FrameBits(stream.headers[q]) <= fed
<1> DEFINE h == stream.headers[q]
           S == {ADTS_HEADERLENGTH, FrameBits(h), HeaderBits(h)}
<1>1. q \in Int /\ IsHeader(h) /\ fed \in Int
  BY StreamFacts, TypeFacts DEF Type, Opens, IsSync
<1>2. FrameBits(h) \in Nat /\ HeaderBits(h) \in Nat /\ HeaderBits(h) >= 56
  BY <1>1, HeaderSizes
<1>3. fed - q >= Max(S)  BY DEF Opens, Complete
<1> HIDE DEF h
<1> DEFINE n == FrameBits(h) + HeaderBits(h)
<1>4. n \in Nat /\ S \subseteq 0 .. n /\ FrameBits(h) \in S
  BY <1>2 DEF ADTS_HEADERLENGTH
<1> HIDE DEF n, S
<1>5. FrameBits(h) <= Max(S) /\ Max(S) \in 0 .. n
  BY <1>4, Extremes
<1>6. Max(S) \in Int  BY <1>4, <1>5
<1> QED  BY <1>1, <1>2, <1>3, <1>5, <1>6 DEF h

(* The starts of the blocks of a frame ascend.                              *)
LEMMA BlocksAscend ==
  ASSUME stream \in Streams, NEW q \in DOMAIN stream.headers,
         NEW off \in [1 .. Len(stream.headers[q].blocks) -> DOMAIN stream.blockEnd],
         BlocksFollow(stream, q, off)
  PROVE  /\ \A k \in 1 .. Len(stream.headers[q].blocks) : off[k] \in Int
         /\ \A j, k \in 1 .. Len(stream.headers[q].blocks) :
              j < k => off[j] < off[k]
<1> DEFINE h == stream.headers[q]
           n == Len(h.blocks)
<1>1. /\ n \in 1 .. 4 /\ h.blocks \in Seq(Nat) /\ q \in Int
      /\ HeaderBits(h) \in Nat
  BY StreamFacts, HeaderSizes DEF IsHeader, Header
<1>2. /\ off[1] = q + HeaderBits(h)
      /\ \A k \in 1 .. n - 1 :
           /\ off[k] < off[k + 1]
           /\ \/ off[k + 1] = off[k] + 8 * h.blocks[k]
              \/ off[k + 1] = stream.blockEnd[off[k]]
  BY DEF BlocksFollow
<1>3. \A k \in 1 .. n - 1 : h.blocks[k] \in Nat  BY <1>1
<1>4. \A k \in 1 .. n : off[k] \in DOMAIN stream.blockEnd  OBVIOUS
<1>5. \A k \in 1 .. n - 1 : stream.blockEnd[off[k]] \in Int
  BY <1>1, <1>4, StreamFacts
<1> HIDE DEF h, n
<1>6. ASSUME NEW k \in 1 .. n - 1, off[k] \in Int PROVE off[k + 1] \in Int
  BY <1>2, <1>3, <1>5, <1>6
<1>7. off[1] \in Int  BY <1>1, <1>2
<1>8. /\ n >= 2 => off[2] \in Int
      /\ n >= 3 => off[3] \in Int
      /\ n >= 4 => off[4] \in Int
  <2>1. n >= 2 => off[2] \in Int  BY <1>1, <1>6, <1>7
  <2>2. n >= 3 => off[3] \in Int  BY <1>1, <1>6, <2>1
  <2>3. n >= 4 => off[4] \in Int  BY <1>1, <1>6, <2>2
  <2> QED  BY <2>1, <2>2, <2>3
<1>9. \A k \in 1 .. n : off[k] \in Int  BY <1>1, <1>7, <1>8
<1>10. /\ n >= 2 => off[1] < off[2]
       /\ n >= 3 => off[2] < off[3]
       /\ n >= 4 => off[3] < off[4]
  BY <1>1, <1>2
<1>11. ASSUME NEW j \in 1 .. n, NEW k \in 1 .. n, j < k PROVE off[j] < off[k]
  <2>1. /\ n = 1 \/ n = 2 \/ n = 3 \/ n = 4
        /\ j = 1 \/ j = 2 \/ j = 3 \/ j = 4
        /\ k = 2 \/ k = 3 \/ k = 4
    BY <1>1, <1>11
  <2>2. n >= j /\ n >= k  BY <1>1, <1>11
  <2>3. CASE k = 2  BY <1>1, <1>10, <1>11, <2>1, <2>2, <2>3
  <2>4. CASE k = 3
    <3>1. off[1] < off[2] /\ off[2] < off[3]  BY <1>1, <1>10, <2>2, <2>4
    <3>2. off[1] \in Int /\ off[2] \in Int /\ off[3] \in Int
      BY <1>1, <1>9, <2>2, <2>4
    <3> QED  BY <1>11, <2>1, <2>4, <3>1, <3>2
  <2>5. CASE k = 4
    <3>1. off[1] < off[2] /\ off[2] < off[3] /\ off[3] < off[4]
      BY <1>1, <1>10, <2>2, <2>5
    <3>2. off[1] \in Int /\ off[2] \in Int /\ off[3] \in Int /\ off[4] \in Int
      BY <1>1, <1>9, <2>2, <2>5
    <3> QED  BY <1>11, <2>1, <2>5, <3>1, <3>2
  <2> QED  BY <2>1, <2>3, <2>4, <2>5
<1> QED  BY <1>9, <1>11 DEF n, h

(* The block that is due or being parsed starts inside its frame, so the    *)
(* valid bits do not run out before the blocks do.                          *)
LEMMA PositionInFrame ==
  ASSUME IInv, Ordered, stream \in Streams, Findable(stream),
         decoding \/ numberOfRawDataBlocks > 0
  PROVE  pos < FrameStart + FrameBits(bs)
<1>1. Type /\ BlocksOfHeader  BY DEF IInv, Known
<1>2. /\ numberOfRawDataBlocks \in 0 .. 3 /\ num_raw_blocks(bs) \in 0 .. 3
      /\ numberOfRawDataBlocks <= num_raw_blocks(bs) /\ IsHeader(bs)
      /\ FrameBits(bs) \in Nat /\ HeaderBits(bs) \in Nat
      /\ Len(bs.blocks) = num_raw_blocks(bs) + 1 /\ Len(bs.blocks) \in 1 .. 4
  BY <1>1, TypeFacts, HeaderSizes DEF BlocksOfHeader, num_raw_blocks, IsHeader
<1>3. PICK k \in 1 .. Len(bs.blocks) : FrameIsSent /\ AtBlock(k)
  <2>1. CASE decoding
    <3>1. FrameIsSent /\ AtBlock(Current)  BY <2>1 DEF Ordered, InFrame
    <3>2. Current \in 1 .. Len(bs.blocks)  BY <1>2 DEF Current
    <3> QED  BY <3>1, <3>2
  <2>2. CASE ~decoding
    <3>1. FrameIsSent /\ AtBlock(Current + 1)  BY <2>2 DEF Ordered, InFrame
    <3>2. Current + 1 \in 1 .. Len(bs.blocks)  BY <1>2, <2>2 DEF Current
    <3> QED  BY <3>1, <3>2
  <2> QED  BY <2>1, <2>2
<1>4. /\ FrameStart \in DOMAIN stream.headers /\ bs = stream.headers[FrameStart]
      /\ FrameBits(bs) > HeaderBits(bs) /\ FrameStart \in Int
  BY <1>1, <1>3, StreamFacts DEF FrameIsSent, Accepted, Type
<1>5. CASE num_raw_blocks(bs) = 0
  BY <1>2, <1>3, <1>4, <1>5 DEF AtBlock
<1>6. CASE num_raw_blocks(bs) # 0
  <2>1. PICK off \in [1 .. Len(bs.blocks) -> DOMAIN stream.blockEnd] :
          BlocksFollow(stream, FrameStart, off) /\ pos = off[k]
    BY <1>3, <1>6 DEF AtBlock
  <2>2. off[Len(bs.blocks)] < FrameStart + FrameBits(bs)
    <3>1. Accepted(bs) /\ num_raw_blocks(bs) > 0
      BY <1>2, <1>3, <1>6 DEF FrameIsSent
    <3>2. BlocksInside(stream, FrameStart)  BY <1>4, <3>1 DEF Findable
    <3> QED  BY <1>4, <2>1, <3>2 DEF BlocksInside
  <2> DEFINE n == Len(bs.blocks)
  <2>3. /\ off[k] \in Int /\ off[n] \in Int
        /\ k < n => off[k] < off[n]
    <3>1. /\ \A j \in 1 .. n : off[j] \in Int
          /\ \A i, j \in 1 .. n : i < j => off[i] < off[j]
      <4>1. bs = stream.headers[FrameStart] /\ FrameStart \in DOMAIN stream.headers
        BY <1>4
      <4> QED  BY ONLY stream \in Streams, <2>1, <4>1, BlocksAscend
    <3>2. k \in 1 .. n /\ n \in 1 .. n  BY <1>2
    <3> HIDE DEF n
    <3> QED  BY <3>1, <3>2
  <2>4. k \in 1 .. n /\ n \in 1 .. 4  BY <1>2
  <2> HIDE DEF n
  <2>5. k = n \/ k < n  BY <2>4
  <2> QED  BY <1>2, <1>4, <2>1, <2>2, <2>3, <2>5 DEF n
<1> QED  BY <1>5, <1>6

(* A new frame is looked for only when no block of the last one is due.     *)
LEMMA DueBlocksArrived ==
  ASSUME IInv, Ordered, Finding, stream \in Streams, Findable(stream),
         ~decoding, NextFrame
  PROVE  numberOfRawDataBlocks = 0
<1>1. Type  BY DEF IInv, Known
<1>2. /\ numberOfRawDataBlocks \in 0 .. 3 /\ fed \in Int /\ pos \in Int
      /\ FrameStart \in Int /\ FrameBits(bs) \in Nat
  BY <1>1, TypeFacts, HeaderSizes DEF FrameStart, ADTS_SYNCLENGTH
<1> SUFFICES ASSUME numberOfRawDataBlocks > 0 PROVE FALSE  BY <1>2
<1>3. pos < FrameStart + FrameBits(bs)  BY PositionInFrame
<1>4. FrameStart + FrameBits(bs) <= fed  BY DEF Finding, Arrived
<1>5. fed - pos <= 0  BY <1>2 DEF NextFrame, Valid
<1> QED  BY <1>2, <1>3, <1>4, <1>5

(* A frame is opened: the first unit of it is done, the others lie ahead in *)
(* it, and units of other frames lie behind its end.                        *)
LEMMA OpenFrameFinding ==
  ASSUME IInv, Aligned, Ordered, Finding, OpenFrame,
         stream \in Streams, Findable(stream)
  PROVE  Finding'
<1> DEFINE h == stream.headers[SearchEnd]
<1>1. Type  BY DEF IInv, Known
<1>2. /\ SearchEnd \in Int /\ Opens(SearchEnd)
      /\ bs' = h /\ globalFramePos' = fed - SearchEnd - 12
  BY <1>1, SearchFacts, KeptFacts DEF OpenFrame
<1>3. /\ SearchEnd \in DOMAIN stream.headers /\ IsHeader(h) /\ Accepted(h)
  BY <1>1, <1>2, StreamFacts DEF Opens, IsSync
<1>4. /\ FrameBits(h) \in Nat /\ HeaderBits(h) \in Nat /\ FrameBits(h) > HeaderBits(h)
      /\ fed \in Int /\ pos \in Int
  BY <1>1, <1>3, HeaderSizes, TypeFacts DEF Accepted
<1>5. /\ ~decoding /\ (numberOfRawDataBlocks = 0 \/ Valid <= 0)
      /\ pos' = SearchEnd + HeaderBits(h) /\ decoding' = TRUE
      /\ delivered' = Append(delivered, pos')
      /\ UNCHANGED <<fed, stream, droppedTo>>
  BY DEF OpenFrame, Returns, NextFrame
<1>6. FrameStart' = SearchEnd /\ FrameBits(bs)' = FrameBits(h)
  BY <1>2, <1>4, <1>5 DEF FrameStart, ADTS_SYNCLENGTH, FrameBits
<1>7. SearchEnd + FrameBits(h) <= fed
  BY <1>1, <1>2, FrameArrived
<1>8. Arrived'  BY <1>5, <1>6, <1>7 DEF Arrived
<1>9. ASSUME NEW i \in DOMAIN stream.units, NEW u, u = stream.units[i], ~Done(u)'
      PROVE  StillAhead(u)'
  <2> DEFINE q == stream.opener[u]
  <2>1. /\ u \in Int /\ q \in Int /\ q \in DOMAIN stream.headers
        /\ UnitInFrame(stream, u) /\ Accepted(stream.headers[q])
    BY <1>9, UnitFacts
  <2> HIDE DEF q
  <2>2. ~Done(u)
    <3>1. delivered \in Seq(Int) /\ pos' \in Int  BY <1>1, <1>2, <1>4, <1>5 DEF Type
    <3> QED  BY <1>5, <1>9, <3>1, DoneStays
  <2>3. u # pos'
    <3>1. delivered \in Seq(Int) /\ pos' \in Int  BY <1>1, <1>2, <1>4, <1>5 DEF Type
    <3> QED  BY <1>5, <1>9, <3>1, AppendedDone
  <2>4. SearchEnd <= q
    <3>1. numberOfRawDataBlocks = 0
      BY <1>5, DueBlocksArrived DEF OpenFrame
    <3>2. pos <= q
      BY <1>5, <1>9, <2>2, <3>1 DEF Finding, Ahead, StillAhead, q
    <3> QED  BY <1>1, <2>1, <3>2, SearchStopsBefore DEF Aligned
  <2>5. CASE q = SearchEnd
    <3>1. pos' <= u
      <4>1. u \in q + HeaderBits(h) .. q + FrameBits(h) - 1
        BY <2>1, <2>5 DEF UnitInFrame, q
      <4> QED  BY <1>2, <1>4, <1>5, <2>1, <2>5, <4>1
    <3> QED  BY <1>5, <1>6, <2>3, <2>5, <3>1 DEF StillAhead, q
  <2>6. CASE q # SearchEnd
    <3>1. q \notin SearchEnd + 1 .. SearchEnd + FrameBits(h) - 1
      BY <1>3, <1>9 DEF Findable, q
    <3>2. q >= SearchEnd + FrameBits(h)
      BY <1>2, <1>4, <2>1, <2>4, <2>6, <3>1
    <3> QED  BY <1>5, <1>6, <3>2 DEF StillAhead, q
  <2> QED  BY <2>5, <2>6
<1>10. Ahead'  BY <1>5, <1>9 DEF Ahead
<1> QED  BY <1>8, <1>10 DEF Finding

(* A search that fails stops before the header of the next unit.            *)
LEMMA FailedSearchFinding ==
  ASSUME IInv, Aligned, Finding, Ordered, stream \in Streams, Findable(stream),
         ~decoding, NextFrame,
         \/ pos' = SearchEnd
         \/ pos' = SearchEnd + 8 /\ SearchResult = "SYNC_ERROR",
         ~decoding', numberOfRawDataBlocks' = 0,
         UNCHANGED <<fed, stream, delivered, droppedTo>>
  PROVE  Finding'
<1>1. Type  BY DEF IInv, Known
<1>2. Arrived'  BY DEF Arrived
<1>3. numberOfRawDataBlocks = 0
  BY DueBlocksArrived
<1>4. ASSUME NEW i \in DOMAIN stream.units, NEW u, u = stream.units[i], ~Done(u)'
      PROVE  StillAhead(u)'
  <2> DEFINE q == stream.opener[u]
  <2>1. q \in DOMAIN stream.headers /\ Accepted(stream.headers[q])
    BY <1>4, UnitFacts
  <2>2. pos <= q
    BY <1>3, <1>4 DEF Finding, Ahead, StillAhead, Done
  <2> HIDE DEF q
  <2>3. pos' <= q
    BY <1>1, <2>1, <2>2, SearchStopsBefore DEF Aligned
  <2> QED  BY <2>3 DEF StillAhead, q
<1>5. Ahead'  BY <1>4 DEF Ahead
<1> QED  BY <1>2, <1>5 DEF Finding

LEMMA OpenBlockFinding ==
  ASSUME IInv, Finding, OpenBlock
  PROVE  Finding'
<1>1. Type  BY DEF IInv, Known
<1>2. /\ ~decoding /\ decoding' = TRUE /\ pos' = pos
      /\ numberOfRawDataBlocks \in Int /\ numberOfRawDataBlocks > 0
      /\ delivered' = Append(delivered, pos) /\ pos \in Int
      /\ UNCHANGED <<fed, stream, bs, globalFramePos, droppedTo>>
  BY <1>1, TypeFacts DEF OpenBlock, Returns, NextFrame
<1>3. FrameStart' = FrameStart /\ FrameBits(bs)' = FrameBits(bs)
  BY <1>2 DEF FrameStart, FrameBits
<1>4. Arrived'  BY <1>2, <1>3 DEF Finding, Arrived
<1>5. ASSUME NEW i \in DOMAIN stream.units, NEW u, u = stream.units[i], ~Done(u)'
      PROVE  StillAhead(u)'
  <2>1. delivered \in Seq(Int)  BY <1>1 DEF Type
  <2>2. ~Done(u)  BY <1>2, <1>5, <2>1, DoneStays
  <2>3. u # pos  BY <1>2, <1>5, <2>1, AppendedDone
  <2>4. StillAhead(u)  BY <1>5, <2>2 DEF Finding, Ahead
  <2> QED  BY <1>2, <1>3, <2>3, <2>4 DEF StillAhead
<1>6. Ahead'  BY <1>2, <1>5 DEF Ahead
<1> QED  BY <1>4, <1>6 DEF Finding

(* The parser leaves the block: the units of the frame that are not done    *)
(* start at the next one or behind it, and behind the last block the reader *)
(* is at the end of the frame or before it, or what has arrived is dropped. *)
LEMMA DecodeFrameFinding ==
  ASSUME IInv, Ordered, Finding, DroppedArrived, DecodeFrame,
         stream \in Streams, Findable(stream)
  PROVE  Finding'
<1>1. Type /\ BlocksOfHeader  BY DEF IInv, Known
<1>2. PICK stop \in ParserStops :
        /\ pos' = AdjustEndOfAccessUnit(BehindUnit(stop))
        /\ droppedTo' = IF Strays(stop) THEN fed ELSE droppedTo
  BY DEF DecodeFrame
<1>3. /\ decoding /\ decoding' = FALSE
      /\ UNCHANGED <<stream, fed, numberOfRawDataBlocks, globalFramePos, bs,
                     delivered>>
  BY DEF DecodeFrame
<1>4. /\ FrameIsSent /\ AtBlock(Current) /\ err = "OK" /\ accessUnitAnchor = fed - pos
      /\ pos <= fed
      /\ auLength = RawDataBlockLength(bs, Current - 1)
  BY <1>3 DEF Ordered, InFrame
<1>5. /\ fed \in Int /\ pos \in Int /\ globalFramePos \in Int /\ auLength \in Int
      /\ numberOfRawDataBlocks \in 0 .. 3 /\ num_raw_blocks(bs) \in 0 .. 3
      /\ numberOfRawDataBlocks <= num_raw_blocks(bs) /\ IsHeader(bs)
      /\ FrameBits(bs) \in Nat /\ HeaderBits(bs) \in Nat
      /\ droppedTo \in Int /\ droppedTo <= fed
  BY <1>1, TypeFacts, HeaderSizes DEF Type, BlocksOfHeader, DroppedArrived
<1> DEFINE p == BehindUnit(stop)
<1>6. /\ p \in Int /\ stop \in Int
      /\ auLength > 0 /\ stop <= fed => p = pos + auLength
      /\ auLength > 0 /\ stop > fed => p = fed
      /\ ~(auLength > 0) => p = stop
      /\ pos \in DOMAIN stream.blockEnd \ stream.broken
           => stop = stream.blockEnd[pos]
  BY <1>1, <1>4, ParserStopsBehind, BehindUnitFacts
<1> HIDE DEF p
<1> DEFINE top == FrameStart + FrameBits(bs)
           n == Len(bs.blocks)
<1>7. /\ FrameEnd = top /\ FrameStart \in Int /\ top \in Int
      /\ FrameStart \in DOMAIN stream.headers /\ bs = stream.headers[FrameStart]
      /\ FrameBits(bs) > HeaderBits(bs) /\ Accepted(bs)
  BY <1>4, <1>5 DEF FrameEnd, FrameStart, FrameIsSent, Accepted,
                    ADTS_SYNCLENGTH
<1>8. pos' = IF ~bs.crc THEN p
             ELSE IF numberOfRawDataBlocks = 0 THEN FrameEnd
             ELSE pos + 8 * bs.blocks[Current]
  BY <1>2, <1>4, <1>5 DEF AdjustEndOfAccessUnit, Current, p
<1>9. /\ n = num_raw_blocks(bs) + 1 /\ n \in 1 .. 4
      /\ Current = n - numberOfRawDataBlocks /\ Current \in 1 .. n
  BY <1>5 DEF Current, num_raw_blocks, IsHeader, Header
<1>10. FrameStart' = FrameStart /\ FrameBits(bs)' = FrameBits(bs)
  BY <1>3 DEF FrameStart, FrameBits
<1>11. Arrived'  BY <1>3, <1>10 DEF Finding, Arrived
<1>12. ASSUME NEW i \in DOMAIN stream.units, NEW u, u = stream.units[i], ~Done(u)'
       PROVE  /\ StillAhead(u) /\ u \in Int /\ stream.opener[u] \in Int
              /\ UnitInFrame(stream, u)
  <2>1. /\ u \in Int /\ stream.opener[u] \in Int /\ UnitInFrame(stream, u)
    BY <1>12, UnitFacts
  <2> DEFINE q == stream.opener[u]
  <2>2. ~(u \in Range(delivered)) /\ ~(q < droppedTo')
    BY <1>3, <1>12 DEF Done
  <2>3. q \in Int  BY <2>1
  <2> HIDE DEF q
  <2>4. ~(q < droppedTo)  BY <1>2, <1>5, <2>2, <2>3
  <2>5. ~Done(u)  BY <2>2, <2>4 DEF Done, q
  <2> QED  BY <1>12, <2>1, <2>5 DEF Finding, Ahead
<1> HIDE DEF top, n
<1>13. CASE num_raw_blocks(bs) = 0
  <2>1. /\ numberOfRawDataBlocks = 0 /\ Current = 1
        /\ pos = FrameStart + HeaderBits(bs)
    BY <1>4, <1>5, <1>9, <1>13 DEF AtBlock
  <2>2. ASSUME ~bs.crc
        PROVE  auLength = FrameBits(bs) - 56 /\ HeaderBits(bs) = 56 /\ auLength > 0
    BY <1>4, <1>5, <1>7, <1>13, <2>2
    DEF RawDataBlockLength, HeaderBits, ADTS_HEADERLENGTH
  <2>3. CASE Strays(stop)
    <3>1. ~bs.crc /\ stop > fed /\ droppedTo' = fed
      BY <1>2, <2>3 DEF Strays
    <3>2. pos' = fed  BY <1>6, <1>8, <2>2, <3>1
    <3>3. ASSUME NEW i \in DOMAIN stream.units, NEW u, u = stream.units[i], ~Done(u)'
          PROVE  StillAhead(u)'
      <4> DEFINE q == stream.opener[u]
      <4>1. ~(q < fed) /\ q \in Int
        BY <1>3, <1>12, <3>1, <3>3 DEF Done
      <4> HIDE DEF q
      <4>2. fed <= q  BY <1>5, <4>1
      <4> QED  BY <1>3, <2>1, <3>2, <4>2 DEF StillAhead, q
    <3> QED  BY <1>3, <1>11, <3>3 DEF Finding, Ahead
  <2>4. CASE ~Strays(stop)
    <3>1. pos' = top
      <4>1. CASE bs.crc  BY <1>7, <1>8, <2>1, <4>1
      <4>2. CASE ~bs.crc
        <5>1. stop <= fed
          <6> SUFFICES ASSUME stop > fed PROVE FALSE  BY <1>5, <1>6
          <6>1. Intact  BY <1>4, <2>2, <2>4, <4>2 DEF Strays, LengthKnown
          <6>2. /\ pos \in DOMAIN stream.blockEnd \ stream.broken
                /\ stop = stream.blockEnd[pos]
            BY <1>6, <6>1 DEF Intact
          <6>3. OneBlockInside(stream, FrameStart)
            BY <1>7, <1>13, <4>2 DEF Findable
          <6>4. stream.blockEnd[pos] <= top
            BY <1>7, <2>1, <6>2, <6>3 DEF OneBlockInside, top
          <6>5. top <= fed  BY <1>3 DEF Finding, Arrived, top
          <6> QED  BY <1>5, <1>6, <1>7, <6>2, <6>4, <6>5
        <5>2. pos' = pos + auLength  BY <1>6, <1>8, <2>2, <4>2, <5>1
        <5> QED  BY <1>5, <1>7, <2>1, <2>2, <4>2, <5>2 DEF top
      <4> QED  BY <4>1, <4>2
    <3>2. ASSUME NEW i \in DOMAIN stream.units, NEW u, u = stream.units[i], ~Done(u)'
          PROVE  StillAhead(u)'
      <4>1. stream.opener[u] # FrameStart
        <5> SUFFICES ASSUME stream.opener[u] = FrameStart PROVE FALSE  OBVIOUS
        <5>1. u = FrameStart + HeaderBits(bs)
          BY <1>7, <1>12, <1>13, <3>2 DEF UnitInFrame
        <5>2. pos # u
          BY <1>3, <1>5, <1>7, <1>12, <3>2 DEF StillAhead
        <5> QED  BY <2>1, <5>1, <5>2
      <4>2. stream.opener[u] >= top
        BY <1>3, <1>12, <3>2, <4>1 DEF StillAhead, top
      <4> QED  BY <1>3, <2>1, <3>1, <4>2 DEF StillAhead
    <3> QED  BY <1>3, <1>11, <3>2 DEF Finding, Ahead
  <2> QED  BY <2>3, <2>4
<1>14. CASE num_raw_blocks(bs) # 0
  <2>1. PICK off \in [1 .. Len(bs.blocks) -> DOMAIN stream.blockEnd] :
          BlocksFollow(stream, FrameStart, off) /\ pos = off[Current]
    BY <1>4, <1>14 DEF AtBlock
  <2>2. /\ \A k \in 1 .. n : off[k] \in Int
        /\ \A j, k \in 1 .. n : j < k => off[j] < off[k]
    BY <1>1, <1>7, <2>1, BlocksAscend DEF n, Type
  <2>3. /\ bs.crc => off[n] <= top
        /\ off[n] < top
        /\ ~bs.crc => off[n] \notin stream.broken /\ stream.blockEnd[off[n]] <= top
    <3>1. BlocksInside(stream, FrameStart)
      BY <1>5, <1>7, <1>14 DEF Findable
    <3> QED  BY <1>7, <2>1, <3>1 DEF BlocksInside, BlocksFollow, top, n
  <2>4. ASSUME NEW i \in DOMAIN stream.units, NEW u, u = stream.units[i],
               ~Done(u)', stream.opener[u] = FrameStart
        PROVE  \E k \in 1 .. n : u = off[k] /\ Current < k
    <3>1. u \in Range(off)
      BY <1>7, <1>12, <1>14, <2>1, <2>4 DEF UnitInFrame
    <3>2. PICK k \in 1 .. n : u = off[k]  BY <3>1 DEF Range, n
    <3>3. pos < u
      <4>1. FrameStart < top  BY <1>5, <1>7 DEF top
      <4>2. pos <= u /\ pos # u
        BY <1>3, <1>7, <1>12, <2>4, <4>1 DEF StillAhead, top
      <4> QED  BY <1>5, <1>12, <2>4, <4>2
    <3>4. k # Current /\ ~(k < Current)
      BY <1>5, <1>9, <2>1, <2>2, <3>2, <3>3
    <3>5. Current < k  BY <1>9, <3>4
    <3> QED  BY <3>2, <3>5
  <2>5. CASE numberOfRawDataBlocks = 0
    <3>1. Current = n /\ pos = off[n]  BY <1>9, <2>1, <2>5
    <3>2. pos' <= top
      <4>1. CASE bs.crc  BY <1>7, <1>8, <2>5, <4>1
      <4>2. CASE ~bs.crc
        <5>1. auLength = -1
          BY <1>4, <1>14, <4>2 DEF RawDataBlockLength
        <5>2. off[n] \in DOMAIN stream.blockEnd  BY <1>9, <2>1 DEF n
        <5>3. p = stream.blockEnd[off[n]]
          <6>1. p = stop  BY <1>6, <5>1
          <6> QED  BY <1>6, <2>3, <3>1, <4>2, <5>2, <6>1
        <5> QED  BY <1>8, <2>3, <4>2, <5>3
      <4> QED  BY <4>1, <4>2
    <3>3. pos' \in Int
      BY <1>5, <1>6, <1>7, <1>8, <2>5
    <3>4. ASSUME NEW i \in DOMAIN stream.units, NEW u, u = stream.units[i], ~Done(u)'
          PROVE  StillAhead(u)'
      <4>1. stream.opener[u] # FrameStart
        BY <1>9, <2>4, <3>1, <3>4
      <4>2. stream.opener[u] >= top
        BY <1>3, <1>12, <3>4, <4>1 DEF StillAhead, top
      <4>3. pos' <= stream.opener[u]
        BY <1>7, <1>12, <3>2, <3>3, <3>4, <4>2
      <4> QED  BY <1>3, <2>5, <4>3 DEF StillAhead
    <3> QED  BY <1>3, <1>11, <3>4 DEF Finding, Ahead
  <2>6. CASE numberOfRawDataBlocks # 0
    <3>1. Current \in 1 .. n - 1 /\ numberOfRawDataBlocks > 0
      BY <1>5, <1>9, <2>6
    <3>2. pos' = off[Current + 1]
      BY <1>1, <1>2, <1>3, <1>4, <1>14, <2>1, <2>6, NextBlock
    <3>3. ASSUME NEW i \in DOMAIN stream.units, NEW u, u = stream.units[i], ~Done(u)'
          PROVE  StillAhead(u)'
      <4>1. CASE stream.opener[u] = FrameStart
        <5>1. PICK k \in 1 .. n : u = off[k] /\ Current < k
          BY <2>4, <3>3, <4>1
        <5>2. Current + 1 \in 1 .. n /\ (k = Current + 1 \/ Current + 1 < k)
          BY <1>9, <3>1, <5>1
        <5>3. off[Current + 1] <= off[k]
          BY <2>2, <5>1, <5>2
        <5> QED  BY <1>3, <1>10, <3>1, <3>2, <4>1, <5>1, <5>3 DEF StillAhead
      <4>2. CASE stream.opener[u] # FrameStart
        <5>1. stream.opener[u] >= top
          BY <1>3, <1>12, <3>3, <4>2 DEF StillAhead, top
        <5> QED  BY <1>3, <1>10, <3>1, <5>1 DEF StillAhead, top
      <4> QED  BY <4>1, <4>2
    <3> QED  BY <1>3, <1>11, <3>3 DEF Finding, Ahead
  <2> QED  BY <2>5, <2>6
<1> QED  BY <1>13, <1>14

LEMMA ResetFinding ==
  ASSUME IInv, Finding, Reset, stream \in Streams, Findable(stream)
  PROVE  Finding'
<1>1. /\ ~decoding' /\ pos' = fed /\ numberOfRawDataBlocks' = 0 /\ droppedTo' = fed
      /\ UNCHANGED <<fed, delivered, stream>>
  BY DEF Reset
<1>2. fed \in Int  BY TypeFacts DEF IInv, Known
<1>3. ASSUME NEW i \in DOMAIN stream.units, NEW u, u = stream.units[i], ~Done(u)'
      PROVE  StillAhead(u)'
  <2>1. stream.opener[u] \in Int  BY <1>3, UnitFacts
  <2>2. ~(stream.opener[u] < fed)  BY <1>1, <1>3 DEF Done
  <2> QED  BY <1>1, <1>2, <2>1, <2>2 DEF StillAhead
<1> QED  BY <1>1, <1>3 DEF Finding, Arrived, Ahead

LEMMA NextFinding ==
  ASSUME ~Interrupts, \A s \in Streams : Findable(s),
         IInv, Ordered, Finding, DroppedArrived, [Next]_vars
  PROVE  Finding'
<1>1. Type /\ Aligned /\ stream \in Streams /\ Findable(stream)
  BY DEF IInv, Known, Type
<1>2. fed \in Int  BY <1>1, TypeFacts
<1>3. ASSUME NEW offer \in Offers, FillData(offer) PROVE Finding'
  BY <1>3, FillDataFinding
<1>4. CASE OpenFrame  BY <1>1, <1>4, OpenFrameFinding
<1>5. CASE StarveSearch
  <2>1. /\ ~decoding /\ NextFrame /\ pos' = SearchEnd
        /\ numberOfRawDataBlocks' = 0 /\ ~decoding'
        /\ UNCHANGED <<fed, stream, delivered, droppedTo>>
    BY <1>5 DEF StarveSearch, Returns
  <2> QED  BY <1>1, <2>1, FailedSearchFinding
<1>6. ASSUME NEW intr \in {FALSE, Interrupts}, LoseSync(intr) PROVE Finding'
  <2>1. ~intr
    <3>1. intr = FALSE \/ intr = Interrupts  OBVIOUS
    <3> QED  BY <3>1, Zenon
  <2>2. /\ ~decoding /\ NextFrame /\ SearchResult = "SYNC_ERROR"
        /\ pos' = SearchEnd + 8 /\ numberOfRawDataBlocks' = 0 /\ ~decoding'
        /\ UNCHANGED <<fed, stream, delivered, droppedTo>>
    BY <1>6, <2>1 DEF LoseSync, BehindBadSync, TPDEC_SYNCSKIP, Returns
  <2> QED  BY <1>1, <2>2, FailedSearchFinding
<1>7. CASE OpenBlock  BY <1>7, OpenBlockFinding
<1>8. CASE StarveBlock
  <2>1. UNCHANGED <<stream, fed, pos, numberOfRawDataBlocks, bs, decoding,
                    delivered, droppedTo, globalFramePos>>
    BY <1>8 DEF StarveBlock, Returns
  <2> QED  BY <1>1, <1>2, <2>1, UnmovedFinding DEF FrameStart
<1>9. CASE DecodeFrame  BY <1>1, <1>9, DecodeFrameFinding
<1>10. CASE Reset  BY <1>1, <1>10, ResetFinding
<1>11. CASE UNCHANGED vars
  <2>1. UNCHANGED <<stream, fed, pos, numberOfRawDataBlocks, bs, decoding,
                    delivered, droppedTo, globalFramePos>>
    BY <1>11 DEF vars
  <2> QED  BY <1>1, <1>2, <2>1, UnmovedFinding DEF FrameStart
<1> QED  BY <1>3, <1>4, <1>5, <1>6, <1>7, <1>8, <1>9, <1>10, <1>11
    DEF Next, ReadAccessUnit

(* The reader is not behind the start of a unit that is not done.           *)
LEMMA NotBehind ==
  ASSUME IInv, Ordered, Finding, stream \in Streams, Findable(stream),
         NEW i \in DOMAIN stream.units, NEW u, u = stream.units[i], ~Done(u)
  PROVE  pos <= u
<1> DEFINE q == stream.opener[u]
<1>1. pos \in Int /\ FrameStart \in Int /\ FrameBits(bs) \in Nat
  BY TypeFacts, HeaderSizes DEF IInv, Known, FrameStart, ADTS_SYNCLENGTH
<1>2. u \in Int /\ q \in Int /\ q < u  BY UnitFacts
<1>3. StillAhead(u)  BY DEF Finding, Ahead
<1>4. CASE decoding \/ numberOfRawDataBlocks > 0
  <2>1. pos < FrameStart + FrameBits(bs)  BY <1>4, PositionInFrame
  <2>2. pos <= u \/ q >= FrameStart + FrameBits(bs)
    BY <1>3, <1>4 DEF StillAhead
  <2> HIDE DEF q
  <2> QED  BY <1>1, <1>2, <2>1, <2>2
<1>5. CASE ~(decoding \/ numberOfRawDataBlocks > 0)
  <2>1. pos <= q  BY <1>3, <1>5 DEF StillAhead
  <2> HIDE DEF q
  <2> QED  BY <1>1, <1>2, <2>1
<1> QED  BY <1>4, <1>5

(* A unit that lies ahead does not end at or before the position.           *)
LEMMA AheadNotPassed ==
  ASSUME IInv, Ordered, Finding, stream \in Streams, Findable(stream)
  PROVE  NoneSkipped
<1>1. Type  BY DEF IInv, Known
<1>2. pos \in Int  BY <1>1, TypeFacts
<1>3. ASSUME NEW i \in DOMAIN stream.units, NEW u, u = stream.units[i], ~Done(u)
      PROVE  pos < stream.blockEnd[u]
  <2>1. u \in Int /\ stream.blockEnd[u] \in Int /\ u < stream.blockEnd[u]
    BY <1>3, UnitFacts
  <2>2. pos <= u  BY <1>3, NotBehind
  <2> QED  BY <1>2, <2>1, <2>2
<1>4. ASSUME NEW i \in DOMAIN stream.units, pos >= stream.blockEnd[stream.units[i]]
      PROVE  Done(stream.units[i])
  <2> DEFINE u == stream.units[i]
  <2>1. u = stream.units[i]  OBVIOUS
  <2>2. stream.blockEnd[u] \in Int  BY <1>1, <2>1, UnitFacts
  <2> HIDE DEF u
  <2>3. ~Done(u) => pos < stream.blockEnd[u]  BY <1>3, <2>1
  <2> QED  BY <1>2, <1>4, <2>1, <2>2, <2>3
<1> QED  BY <1>4 DEF NoneSkipped

(* The invariant of the reader and the stream.                              *)
THEOREM FindingTheorem ==
  ASSUME ~Interrupts, \A s \in Streams : SentInOrder(s) /\ Findable(s)
  PROVE  Spec => [](Ordered /\ Finding /\ DroppedArrived)
<1>1. \A s \in Streams : SentInOrder(s)  OBVIOUS
<1>2. \A s \in Streams : Findable(s)  OBVIOUS
<1>3. Init => Finding /\ DroppedArrived
  <2>1. Init => Finding  BY <1>2, InitFinding
  <2>2. Init => DroppedArrived  BY DEF Init, DroppedArrived
  <2> QED  BY <2>1, <2>2
<1>4. IInv /\ IInv' /\ Ordered /\ [Next]_vars => Ordered'
  BY <1>1, NextOrdered
<1>5. IInv /\ Ordered /\ Finding /\ DroppedArrived /\ [Next]_vars => Finding'
  BY <1>2, NextFinding
<1>6. IInv /\ DroppedArrived /\ [Next]_vars => DroppedArrived'
  BY DroppedStep
<1> QED  BY <1>3, <1>4, <1>5, <1>6, InitOrdered, TransportInvariant, PTL DEF Spec

(* Without AACDEC_INTR no access unit is passed over, through noise,        *)
(* damaged units, headers that are refused or that other bytes spell, and   *)
(* flushes, for every buffer size and every way the input is cut up: the    *)
(* reader never stands behind a unit that was not handed over, unless the   *)
(* header of its frame had arrived when the input was flushed, or when the  *)
(* parser of a damaged unit without CRC read past the data.  The latter the *)
(* code does lose (RightPosition).                                          *)
THEOREM NoneSkippedTheorem ==
  ASSUME ~Interrupts, \A s \in Streams : SentInOrder(s) /\ Findable(s)
  PROVE  Spec => []NoneSkipped
<1>1. IInv /\ Ordered /\ Finding => NoneSkipped
  <2>1. IInv => stream \in Streams  BY DEF IInv, Known, Type
  <2> QED  BY <2>1, AheadNotPassed
<1>2. Spec => [](Ordered /\ Finding /\ DroppedArrived)  BY FindingTheorem
<1> QED  BY <1>1, <1>2, TransportInvariant, PTL
-----------------------------------------------------------------------------
(* The decoder implements the safety part of AuDelivery.                    *)

(* The units that are done are the first ones of the stream.                *)
Gapless ==
  \A i, j \in DOMAIN stream.units :
    i < j /\ Done(stream.units[j]) => Done(stream.units[i])

(* It is a consequence of where the reader is: what was handed over is      *)
(* behind it, what is not done lies ahead, and frames do not overlap.       *)
LEMMA AheadGapless ==
  ASSUME IInv, Ordered, Finding, stream \in Streams, Findable(stream)
  PROVE  Gapless
<1>1. Type  BY DEF IInv, Known
<1>2. pos \in Int /\ droppedTo \in Int  BY <1>1, TypeFacts DEF Type
<1>3. ASSUME NEW i \in DOMAIN stream.units, NEW j \in DOMAIN stream.units, i < j,
             NEW u, u = stream.units[i], NEW v, v = stream.units[j],
             Done(v), ~Done(u)
      PROVE  FALSE
  <2> DEFINE q == stream.opener[u]
             r == stream.opener[v]
  <2>1. u \in Int /\ q \in Int /\ q < u /\ q \in DOMAIN stream.headers
    BY <1>3, UnitFacts
  <2>2. /\ v \in Int /\ r \in Int /\ r \in DOMAIN stream.headers
        /\ Accepted(stream.headers[r]) /\ v < r + FrameBits(stream.headers[r])
    BY <1>3, UnitFacts
  <2>3. FrameBits(stream.headers[r]) \in Nat
    BY <2>2, StreamFacts, HeaderSizes
  <2>4. u < v  BY <1>3 DEF Findable
  <2>5. v \notin Range(delivered)
    <3> SUFFICES ASSUME v \in Range(delivered) PROVE FALSE  OBVIOUS
    <3>1. PICK k \in DOMAIN delivered : v = delivered[k]  BY DEF Range
    <3>2. v <= pos
      <4>1. delivered \in Seq(Int)  BY <1>1 DEF Type
      <4> QED  BY <3>1, <4>1 DEF Ordered, Passed
    <3>3. pos <= u  BY <1>3, NotBehind
    <3> HIDE DEF q, r
    <3> QED  BY <1>2, <2>1, <2>2, <2>4, <3>2, <3>3
  <2>6. r < droppedTo  BY <1>3, <2>5 DEF Done
  <2>7. ~(q < droppedTo)  BY <1>3 DEF Done
  <2>8. q \notin r + 1 .. r + FrameBits(stream.headers[r]) - 1
    BY <1>3, <2>2 DEF Findable
  <2> DEFINE f == FrameBits(stream.headers[r])
  <2>9. f \in Nat /\ v < r + f /\ q \notin r + 1 .. r + f - 1
    BY <2>2, <2>3, <2>8
  <2> HIDE DEF q, r, f
  <2> QED  BY <1>2, <2>1, <2>2, <2>4, <2>6, <2>7, <2>9
<1> QED  BY <1>3 DEF Gapless

(* The greatest of some numbers of units, 0 if there are none.              *)
LEMMA GreatestOrZero ==
  ASSUME NEW n \in Nat, NEW T, T \subseteq 1 .. n
  PROVE  LET m == Max({0} \cup T)
         IN  /\ m \in 0 .. n /\ (m # 0 => m \in T)
             /\ \A i \in T : i <= m
<1>1. {0} \cup T \subseteq 0 .. n /\ {0} \cup T # {}  OBVIOUS
<1> QED  BY <1>1, Extremes

(* The units that are done, by their numbers.                               *)
DoneUnits == {i \in DOMAIN stream.units : Done(stream.units[i])}

(* A step that hands a unit over is Deliver, or no step if the data was not *)
(* a unit.                                                                  *)
LEMMA HandOverDelivers ==
  ASSUME stream \in Streams, Findable(stream), Gapless', delivered \in Seq(Int),
         NEW p \in Int, delivered' = Append(delivered, p),
         UNCHANGED <<stream, droppedTo, resets, overruns>>
  PROVE  Delivery!Deliver \/ UNCHANGED Delivery!vars
<1> DEFINE n == Len(stream.units)
<1>1. n \in Nat /\ DOMAIN stream.units = 1 .. n
  BY StreamsAssumption DEF IsStream
<1>2. /\ Gone = Max({0} \cup DoneUnits) /\ Gone' = Max({0} \cup DoneUnits')
      /\ DoneUnits \subseteq 1 .. n /\ DoneUnits' \subseteq 1 .. n
  BY <1>1 DEF Gone, DoneUnits
<1>3. /\ Gone \in 0 .. n /\ Gone' \in 0 .. n
      /\ Gone # 0 => Gone \in DoneUnits
      /\ Gone' # 0 => Gone' \in DoneUnits'
      /\ \A i \in DoneUnits : i <= Gone
      /\ \A i \in DoneUnits' : i <= Gone'
  BY <1>1, <1>2, GreatestOrZero
<1>4. DoneUnits \subseteq DoneUnits'
  BY DoneStays DEF DoneUnits
<1>5. ASSUME NEW i \in DoneUnits', i \notin DoneUnits
      PROVE  stream.units[i] = p
  <2>1. \A k \in DOMAIN delivered' :
          delivered'[k] = p \/ (k \in DOMAIN delivered /\ delivered'[k] = delivered[k])
    OBVIOUS
  <2>2. Range(delivered') \subseteq Range(delivered) \cup {p}
    BY <2>1 DEF Range
  <2> QED  BY <1>5, <2>2 DEF DoneUnits, Done
<1>6. Gone <= Gone'
  <2>1. Gone = 0 \/ Gone \in DoneUnits'  BY <1>3, <1>4
  <2> QED  BY <1>1, <1>3, <2>1
<1>7. ASSUME Gone < Gone' PROVE Gone' = Gone + 1
  <2>1. Gone' \in DoneUnits' /\ Gone' \notin DoneUnits
    BY <1>1, <1>3, <1>7
  <2>2. stream.units[Gone'] = p  BY <1>5, <2>1
  <2> SUFFICES ASSUME Gone + 1 < Gone' PROVE FALSE  BY <1>1, <1>3, <1>7
  <2>3. Gone + 1 \in 1 .. n /\ Gone' \in 1 .. n  BY <1>1, <1>3
  <2>4. Gone + 1 \in DoneUnits'
    BY <1>1, <2>1, <2>3 DEF Gapless, DoneUnits
  <2>5. Gone + 1 \notin DoneUnits  BY <1>1, <1>3, <2>3
  <2>6. stream.units[Gone + 1] = p  BY <1>5, <2>4, <2>5
  <2>7. stream.units[Gone + 1] < stream.units[Gone'] /\ p \in Int
    BY <1>1, <2>3 DEF Findable
  <2> QED  BY <2>2, <2>6, <2>7
<1>8. CASE Gone' = Gone  BY <1>8 DEF Delivery!vars
<1>9. CASE Gone' # Gone
  <2>1. Gone' = Gone + 1 /\ Gone < n  BY <1>1, <1>3, <1>6, <1>7, <1>9
  <2> QED  BY <2>1 DEF Delivery!Deliver
<1> QED  BY <1>8, <1>9

(* A flush of the input, and a damaged unit that is read past the data, is  *)
(* Drop.                                                                    *)
LEMMA DropsInput ==
  ASSUME stream \in Streams, DroppedArrived, fed \in Int, droppedTo \in Int,
         resets \in Nat, overruns \in Nat, Findable(stream),
         droppedTo' = fed, UNCHANGED <<stream, delivered>>,
         \/ resets' = resets + 1 /\ overruns' = overruns
         \/ resets' = resets /\ overruns' = overruns + 1
  PROVE  Delivery!Drop
<1> DEFINE n == Len(stream.units)
<1>1. n \in Nat /\ DOMAIN stream.units = 1 .. n
  BY StreamsAssumption DEF IsStream
<1>2. /\ (resets + overruns)' = resets + overruns + 1 /\ droppedTo' = fed
      /\ UNCHANGED <<stream, delivered>>
  OBVIOUS
<1>3. /\ Gone = Max({0} \cup DoneUnits) /\ Gone' = Max({0} \cup DoneUnits')
      /\ DoneUnits \subseteq 1 .. n /\ DoneUnits' \subseteq 1 .. n
  BY <1>1, <1>2 DEF Gone, DoneUnits
<1>4. /\ Gone \in 0 .. n /\ Gone' \in 0 .. n
      /\ Gone # 0 => Gone \in DoneUnits
      /\ \A i \in DoneUnits' : i <= Gone'
  BY <1>1, <1>3, GreatestOrZero
<1>5. ASSUME NEW i \in DoneUnits PROVE i \in DoneUnits'
  <2>1. i \in DOMAIN stream.units /\ Done(stream.units[i])  BY DEF DoneUnits
  <2> DEFINE u == stream.units[i]
             q == stream.opener[u]
  <2>2. q \in Int  BY <2>1, UnitFacts
  <2>3. q < droppedTo => q < fed
    <3> HIDE DEF q
    <3> QED  BY <2>2 DEF DroppedArrived
  <2> QED  BY <1>2, <2>1, <2>3 DEF DoneUnits, Done
<1>6. Gone <= Gone'
  <2>1. Gone = 0 \/ Gone \in DoneUnits'  BY <1>4, <1>5
  <2> QED  BY <1>1, <1>4, <2>1
<1>7. Gone' \in Gone .. n  BY <1>1, <1>4, <1>6
<1> QED  BY <1>2, <1>7 DEF Delivery!Drop

LEMMA StepDelivers ==
  ASSUME ~Interrupts, \A s \in Streams : Findable(s),
         IInv, IInv', DroppedArrived, Gapless', [Next]_vars
  PROVE  [Delivery!Next]_Delivery!vars
<1>1. Type /\ Type' /\ stream \in Streams /\ Findable(stream)
  BY DEF IInv, Known, Type
<1>2. delivered \in Seq(Int) /\ fed \in Int /\ pos' \in Int /\ droppedTo \in Int
      /\ resets \in Nat /\ overruns \in Nat
  BY <1>1, TypeFacts DEF Type
<1>3. ASSUME UNCHANGED <<stream, delivered, droppedTo, resets, overruns>>
      PROVE  UNCHANGED Delivery!vars
  <2>1. Gone' = Gone  BY <1>3 DEF Gone, Done
  <2> QED  BY <1>3, <2>1 DEF Delivery!vars
<1>4. ASSUME NEW offer \in Offers, FillData(offer) PROVE UNCHANGED Delivery!vars
  BY <1>3, <1>4 DEF FillData
<1>5. ASSUME OpenFrame \/ OpenBlock
      PROVE  Delivery!Deliver \/ UNCHANGED Delivery!vars
  <2>1. /\ delivered' = Append(delivered, pos')
        /\ UNCHANGED <<stream, droppedTo, resets, overruns>>
    BY <1>5 DEF OpenFrame, OpenBlock, Returns
  <2> QED  BY <1>1, <1>2, <2>1, HandOverDelivers
<1>6. ASSUME StarveSearch \/ StarveBlock
      PROVE  UNCHANGED Delivery!vars
  BY <1>3, <1>6 DEF StarveSearch, StarveBlock, Returns
<1>7. ASSUME NEW intr \in {FALSE, Interrupts}, LoseSync(intr)
      PROVE  UNCHANGED Delivery!vars
  BY <1>3, <1>7 DEF LoseSync, Returns
<1>8. ASSUME DecodeFrame PROVE Delivery!Drop \/ UNCHANGED Delivery!vars
  <2>1. PICK p \in ParserStops :
          /\ overruns' = IF Strays(p) THEN overruns + 1 ELSE overruns
          /\ droppedTo' = IF Strays(p) THEN fed ELSE droppedTo
    BY <1>8 DEF DecodeFrame
  <2>2. UNCHANGED <<stream, delivered, resets>>  BY <1>8 DEF DecodeFrame
  <2>3. CASE Strays(p)  BY <1>1, <1>2, <2>1, <2>2, <2>3, DropsInput
  <2>4. CASE ~Strays(p)  BY <1>3, <2>1, <2>2, <2>4
  <2> QED  BY <2>3, <2>4
<1>9. CASE Reset
  <2>1. /\ droppedTo' = fed /\ resets' = resets + 1
        /\ UNCHANGED <<stream, delivered, overruns>>
    BY <1>9 DEF Reset
  <2> QED  BY <1>1, <1>2, <2>1, DropsInput DEF Delivery!Next
<1>10. CASE UNCHANGED vars
  BY <1>3, <1>10 DEF vars
<1> QED  BY <1>4, <1>5, <1>6, <1>7, <1>8, <1>9, <1>10
    DEF Next, ReadAccessUnit, Delivery!Next

LEMMA InitDelivers ==
  ASSUME Init
  PROVE  Delivery!Init
<1>1. stream \in Streams /\ delivered = <<>> /\ droppedTo = 0
      /\ resets = 0 /\ overruns = 0
  BY DEF Init
<1>2. IsStream(stream)  BY <1>1, StreamsAssumption
<1>3. Len(stream.units) \in Nat  BY <1>2 DEF IsStream
<1>4. ASSUME NEW i \in DOMAIN stream.units PROVE ~Done(stream.units[i])
  <2>1. stream.opener[stream.units[i]] \in DOMAIN stream.headers
    BY <1>2 DEF IsStream
  <2>2. stream.opener[stream.units[i]] >= 0
    BY <1>1, <2>1, StreamFacts
  <2>3. Range(delivered) = {}  BY <1>1 DEF Range
  <2>4. stream.opener[stream.units[i]] \in Int  BY <1>1, <2>1, StreamFacts
  <2> QED  BY <1>1, <2>2, <2>3, <2>4 DEF Done
<1>5. Gone = Max({0})  BY <1>4 DEF Gone
<1>6. Max({0}) = 0
  <2>1. {0} \subseteq 0 .. 0 /\ {0} # {}  OBVIOUS
  <2>2. Max({0}) \in {0}  BY <2>1, Extremes
  <2> QED  BY <2>2
<1> QED  BY <1>1, <1>3, <1>5, <1>6 DEF Delivery!Init

(* Without AACDEC_INTR the decoder implements the abstract delivery: every  *)
(* access unit is handed over once, in order, no step hands over two or     *)
(* leaves one out; units are dropped only by a flush of the application,    *)
(* and when the parser of a damaged unit without CRC reads past the data.   *)
THEOREM ImplementsDeliverySafety ==
  ASSUME ~Interrupts, \A s \in Streams : SentInOrder(s) /\ Findable(s)
  PROVE  Spec => Delivery!Safety
<1>1. \A s \in Streams : Findable(s)  OBVIOUS
<1>2. IInv /\ Ordered /\ Finding => Gapless
  <2>1. IInv => stream \in Streams  BY DEF IInv, Known, Type
  <2> QED  BY <1>1, <2>1, AheadGapless
<1>3. IInv /\ IInv' /\ DroppedArrived /\ Gapless' /\ [Next]_vars
        => [Delivery!Next]_Delivery!vars
  BY <1>1, StepDelivers
<1>4. Init => Delivery!Init  BY InitDelivers
<1>5. Spec => [](Ordered /\ Finding /\ DroppedArrived)  BY FindingTheorem
<1> QED  BY <1>2, <1>3, <1>4, <1>5, TransportInvariant, PTL
    DEF Spec, Delivery!Safety
=============================================================================
