---------------------------- MODULE TransportDec ----------------------------
(***************************************************************************)
(* The transport decoder (libMpegTPDec/src/tpdec_lib.cpp, tpdec_adts.cpp)  *)
(* for ADTS streams, as aacDecoder_Fill and aacDecoder_DecodeFrame drive   *)
(* it: bytes are fed into the input buffer, transportDec_ReadAccessUnit    *)
(* finds the next access unit, the audio decoder parses it, and            *)
(* transportDec_EndAccessUnit moves to the end of it.                      *)
(*                                                                         *)
(* The input buffer is the queue of bits that BitFifo specifies: of the    *)
(* stream, fed bits have arrived and the reader stands at bit pos.  Of the *)
(* stream's contents the model keeps the offsets at which a sync word      *)
(* stands, with the header behind it, and where a parser that starts at    *)
(* an intact block ends.  The content of a block is abstract, its program  *)
(* config element (channel configuration 0) is left out.                   *)
(***************************************************************************)
EXTENDS Integers, Sequences, FiniteSetsExt, SequencesExt

CONSTANTS
  Streams,     \* the streams the decoder may be given
  bufBits,     \* size of the input buffer
  Offers,      \* how many bytes one aacDecoder_Fill may be offered
  MaxAhead,    \* bound: bytes a parser runs past the end of the data
  MaxResets,   \* bound: flushes of the input
  Interrupts   \* whether aacDecoder_DecodeFrame may be given AACDEC_INTR

ADTS_SYNCLENGTH == 12
ADTS_HEADERLENGTH == 56
CrcLength == 16
PositionLength == 16       \* of one raw_data_block_position
TPDEC_SYNCSKIP == 8

ByteAligned(offsets) == \A q \in offsets : q % 8 = 0

(* STRUCT_ADTS_BS: blocks are the lengths in bytes of the raw data blocks,  *)
(* each with its CRC if it has one of its own; num_raw_blocks is one less   *)
(* than their number.  status tells a header that is accepted from one     *)
(* whose format is not supported, one with a wrong CRC, and one whose       *)
(* configuration the audio decoder refuses.                                 *)
Header == [crc : BOOLEAN, blocks : Seq(Nat), frame_length : Nat,
           status : {"good", "unsupported", "corrupt", "refused"}]

(* What the model keeps of a stream.  headers: what stands behind the sync  *)
(* word at an offset, sent or emulated by other data.  blockEnd: where the  *)
(* block that starts at an offset ends.  broken: the blocks whose content   *)
(* is damaged.  units: the blocks a decoder can find, in order.  opener:    *)
(* the offset of the frame a unit is in.                                    *)
IsStream(s) ==
  /\ s.size \in Nat /\ s.size % 8 = 0
  /\ ByteAligned(DOMAIN s.headers) /\ DOMAIN s.headers \subseteq 0 .. s.size
  /\ \A q \in DOMAIN s.headers :
       s.headers[q] \in Header /\ Len(s.headers[q].blocks) \in 1 .. 4
  /\ ByteAligned(DOMAIN s.blockEnd)
  /\ \A u \in DOMAIN s.blockEnd :
       s.blockEnd[u] % 8 = 0 /\ s.blockEnd[u] \in u .. s.size
  /\ s.units \in Seq(DOMAIN s.blockEnd)
  /\ \A i \in DOMAIN s.units : s.opener[s.units[i]] \in DOMAIN s.headers

ASSUME StreamsAssumption == \A s \in Streams : IsStream(s)
ASSUME BufferAssumption == bufBits \in Nat /\ bufBits % 8 = 0 /\ bufBits > 56
ASSUME BoundsAssumption == /\ Offers \subseteq Nat /\ MaxAhead \in Nat
                           /\ MaxResets \in Nat /\ Interrupts \in BOOLEAN

VARIABLES
  stream,
  fed, pos,                \* bits that have arrived, position of the reader
  synced,                  \* TPDEC_SYNCOK
  numberOfRawDataBlocks,   \* blocks of the current frame still to be read
  globalFramePos,          \* valid bits behind the sync word of the frame
  bs,                      \* the last header that was accepted
  accessUnitAnchor,        \* valid bits at the start of the access unit
  auLength,                \* -1 when unknown
  err,                     \* what ReadAccessUnit returned
  decoding,                \* the audio decoder is at work on the result
  delivered,               \* history: offsets of the units handed over
  resets, overruns,        \* history: flushes, damaged units read past the data
  droppedTo,               \* history: the last of them dropped the bits up to here
  aborted                  \* an assertion of the code has failed

vars == <<stream, fed, pos, synced, numberOfRawDataBlocks, globalFramePos, bs,
          accessUnitAnchor, auLength, err, decoding, delivered, resets,
          overruns, droppedTo, aborted>>

Buffer == INSTANCE BitFifo WITH ByteBits <- 8, Capacity <- bufBits,
                                call <- <<"sync", 0>>, out <- <<>>

NoHeader == [crc |-> TRUE, blocks |-> <<0>>, frame_length |-> 0, status |-> "good"]

num_raw_blocks(h) == Len(h.blocks) - 1

Valid == fed - pos         \* FDKgetValidBits

Init ==
  /\ stream \in Streams
  /\ fed = 0 /\ pos = 0
  /\ synced = FALSE
  /\ numberOfRawDataBlocks = 0
  /\ globalFramePos = 0
  /\ bs = NoHeader
  /\ accessUnitAnchor = 0
  /\ auLength = 0
  /\ err = "OK"
  /\ decoding = FALSE
  /\ delivered = <<>>
  /\ resets = 0 /\ overruns = 0 /\ droppedTo = 0
  /\ aborted = FALSE

-----------------------------------------------------------------------------
(* transportDec_FillData, with offer bytes in the external buffer.  Between *)
(* two blocks of a frame the positions that are kept as distances from the  *)
(* end of the data move along.                                              *)
MovePositions_Forgets(bits) ==                 \* mutant: they do not
  UNCHANGED <<globalFramePos, accessUnitAnchor>>

MovePositions(bits) ==
  IF numberOfRawDataBlocks > 0
  THEN /\ globalFramePos' = globalFramePos + bits
       /\ accessUnitAnchor' = Valid + bits
  ELSE UNCHANGED <<globalFramePos, accessUnitAnchor>>

FillData(offer) ==
  LET bits == Min({8 * offer, Max({0, 8 * Buffer!Room})})
  IN  /\ ~decoding
      /\ fed + 8 * offer <= stream.size
      /\ fed' = fed + bits
      /\ MovePositions(bits)
      /\ UNCHANGED <<stream, pos, synced, numberOfRawDataBlocks, bs, auLength,
                     err, decoding, delivered, resets, overruns, droppedTo,
                     aborted>>

-----------------------------------------------------------------------------
(* The bits of a header with its block positions and its CRC.               *)
HeaderBits(h) ==
  ADTS_HEADERLENGTH
    + IF h.crc THEN num_raw_blocks(h) * PositionLength + CrcLength ELSE 0

FrameBits(h) == 8 * h.frame_length

IsSync(q) == q \in DOMAIN stream.headers

(* adtsRead_DecodeHeader has the header and the frame it announces.         *)
Complete(q) ==
  LET h == stream.headers[q]
  IN  fed - q >= Max({ADTS_HEADERLENGTH, FrameBits(h), HeaderBits(h)})

(* The search waits at q: too few bits have arrived to judge the header.    *)
(* To skip an unsupported frame the code counts it behind its header, and   *)
(* waits for that many bits.                                                *)
Starved(q) ==
  /\ IsSync(q)
  /\ LET h == stream.headers[q]
         skipped == HeaderBits(h) + FrameBits(h)
     IN  \/ ~Complete(q)
         \/ h.status = "unsupported" /\ fed - q < skipped /\ skipped < bufBits

(* A header that adtsRead_DecodeHeader keeps in pAdts->bs.                  *)
Kept(q) == /\ IsSync(q) /\ Complete(q)
           /\ stream.headers[q].status \in {"good", "refused"}

(* A header that opens a frame: transportDec_readHeader and the test for    *)
(* frames that the buffer cannot hold.                                      *)
Accepted(h) == /\ h.status = "good"
               /\ FrameBits(h) > HeaderBits(h)
               /\ FrameBits(h) <= bufBits - 7

Opens(q) == IsSync(q) /\ Complete(q) /\ Accepted(stream.headers[q])

Outcome(q) == IF Opens(q) THEN "OK"
              ELSE IF Starved(q) THEN "NOT_ENOUGH_BITS" ELSE "SYNC_ERROR"

(* The sync words that the search can meet; it compares 12 bits at a time.  *)
Compared == {q \in DOMAIN stream.headers :
               q >= pos /\ (q - pos) % TPDEC_SYNCSKIP = 0 /\ fed - q >= 16}
Hits == {q \in Compared : Outcome(q) # "SYNC_ERROR"}

TooFewToSearch == Valid - ADTS_SYNCLENGTH < TPDEC_SYNCSKIP

(* Where the search of synchronization() stops: when synced, only the next  *)
(* bits are looked at; else it stops at the first header that is not        *)
(* rejected, or keeps the last byte.                                        *)
SearchEnd_TakesAll ==                          \* mutant: no byte is kept
  IF synced \/ TooFewToSearch THEN pos
  ELSE IF Hits = {} THEN fed ELSE Min(Hits)

SearchEnd ==
  IF synced \/ TooFewToSearch THEN pos
  ELSE IF Hits = {} THEN fed - TPDEC_SYNCSKIP ELSE Min(Hits)

(* A buffer that is full and still not enough is answered by moving on.     *)
SearchResult_NoDetect ==                       \* mutant: it is not
  IF TooFewToSearch \/ (~synced /\ Hits = {}) THEN "NOT_ENOUGH_BITS"
  ELSE Outcome(SearchEnd)

SearchResult ==
  LET found == IF TooFewToSearch \/ (~synced /\ Hits = {})
               THEN "NOT_ENOUGH_BITS" ELSE Outcome(SearchEnd)
  IN  IF found = "NOT_ENOUGH_BITS" /\ fed - SearchEnd >= bufBits - 7
      THEN "SYNC_ERROR" ELSE found

(* The headers that were looked into on the way.                            *)
Tried == {q \in Compared : q <= SearchEnd /\ ~TooFewToSearch}

(* adtsRead_GetRawDataBlockLength                                           *)
RawDataBlockLength(h, blockNum) ==
  IF num_raw_blocks(h) = 0
  THEN FrameBits(h) - 56 - (IF h.crc THEN CrcLength ELSE 0)
  ELSE IF h.crc THEN 8 * h.blocks[blockNum + 1] - CrcLength
  ELSE -1

NextFrame_AtEnd == Valid <= 0                  \* mutant: blocks not counted

NextFrame == numberOfRawDataBlocks = 0 \/ Valid <= 0

KeepHeaders ==
  LET kept == {q \in Tried : Kept(q)}
  IN  /\ globalFramePos' = IF Tried = {} THEN globalFramePos
                           ELSE fed - Max(Tried) - ADTS_SYNCLENGTH
      /\ bs' = IF kept = {} THEN bs ELSE stream.headers[Max(kept)]

(* What transportDec_ReadAccessUnit leaves behind when it returns e.        *)
Returns(e, length) ==
  /\ err' = e
  /\ auLength' = length
  /\ accessUnitAnchor' = IF e = "OK" THEN fed - pos' ELSE 0
  /\ delivered' = IF e = "OK" THEN Append(delivered, pos') ELSE delivered
  /\ UNCHANGED <<stream, fed, resets, overruns, droppedTo>>

(* A frame header is due and found.                                         *)
OpenFrame ==
  /\ ~decoding /\ NextFrame
  /\ SearchResult = "OK"
  /\ LET h == stream.headers[SearchEnd]
     IN  /\ pos' = SearchEnd + HeaderBits(h)
         /\ numberOfRawDataBlocks' = num_raw_blocks(h)
         /\ Returns("OK", RawDataBlockLength(h, 0))
  /\ KeepHeaders
  /\ synced' = TRUE
  /\ decoding' = TRUE
  /\ aborted' = (Valid % TPDEC_SYNCSKIP # 0)

(* The search runs out of bits; it goes on at the same place.               *)
StarveSearch ==
  /\ ~decoding /\ NextFrame
  /\ SearchResult = "NOT_ENOUGH_BITS"
  /\ pos' = SearchEnd
  /\ numberOfRawDataBlocks' = 0
  /\ Returns("NOT_ENOUGH_BITS", 0)
  /\ KeepHeaders
  /\ aborted' = (Valid > 0 /\ Valid % TPDEC_SYNCSKIP # 0)
  /\ UNCHANGED <<synced, decoding>>

(* The search is to look one byte ahead next time.                          *)
BehindBadSync_Stays == SearchEnd               \* mutant: it stays

BehindBadSync == SearchEnd + TPDEC_SYNCSKIP

(* Sync is lost.  With AACDEC_INTR the audio decoder is called all the same.*)
LoseSync(intr) ==
  /\ ~decoding /\ NextFrame
  /\ SearchResult = "SYNC_ERROR"
  /\ pos' = BehindBadSync
  /\ numberOfRawDataBlocks' = 0
  /\ Returns("SYNC_ERROR", 0)
  /\ KeepHeaders
  /\ synced' = FALSE
  /\ decoding' = intr
  /\ aborted' = (Valid % TPDEC_SYNCSKIP # 0)

(* The next block of the frame.  The frame length is compared with what is  *)
(* left in the buffer, less the sync word, though the header and the blocks *)
(* before are already gone.                                                 *)
BlockStarved(h) == FrameBits(h) - ADTS_SYNCLENGTH > Valid

OpenBlock ==
  /\ ~decoding /\ ~NextFrame
  /\ ~BlockStarved(bs)
  /\ numberOfRawDataBlocks' = numberOfRawDataBlocks - 1
  /\ decoding' = TRUE
  /\ UNCHANGED pos
  /\ Returns("OK",
       RawDataBlockLength(bs, num_raw_blocks(bs) - numberOfRawDataBlocks'))
  /\ UNCHANGED <<synced, globalFramePos, bs, aborted>>

StarveBlock ==
  /\ ~decoding /\ ~NextFrame
  /\ BlockStarved(bs)
  /\ Returns("NOT_ENOUGH_BITS", 0)
  /\ UNCHANGED <<pos, synced, numberOfRawDataBlocks, globalFramePos, bs,
                 decoding, aborted>>

-----------------------------------------------------------------------------
(* Where the parser of CAacDecoder_DecodeFrame stops, byte aligned to where *)
(* it started: at the end of an intact block, else wherever the syntax      *)
(* leads it, also past the end of the data.                                 *)
Intact == err = "OK" /\ pos \in DOMAIN stream.blockEnd \ stream.broken

ParserStops ==
  IF Intact THEN {stream.blockEnd[pos]}
  ELSE {pos + 8 * k : k \in 0 .. Max({Valid, 0}) \div 8 + MaxAhead}

(* transportDec_GetAuBitsRemaining of a unit of known length, with the      *)
(* parser at p: what is left of it, unless the valid bits are negative;     *)
(* then those.                                                              *)
LengthKnown == err = "OK" /\ auLength > 0

AuBitsRemaining(p) ==
  IF p <= fed THEN auLength - (accessUnitAnchor - (fed - p)) ELSE fed - p

(* CAacDecoder_DecodeFrame moves behind a unit of known length by that.     *)
BehindUnit(p) == IF LengthKnown THEN p + AuBitsRemaining(p) ELSE p

(* transportDec_AdjustEndOfAccessUnit: with CRCs, the end of the block, and *)
(* of the frame behind the last block.  That of the block is found from     *)
(* rawDataBlockDist, which the header of a frame with one block does not    *)
(* set; the end of the frame then overrides it.                             *)
FrameEnd_NoSync ==                             \* mutant: sync word not counted
  fed - globalFramePos + FrameBits(bs)
FrameEnd_Start ==                              \* mutant: length not added
  fed - globalFramePos - ADTS_SYNCLENGTH

FrameEnd == fed - globalFramePos - ADTS_SYNCLENGTH + FrameBits(bs)

AdjustEndOfAccessUnit(p) ==
  IF ~bs.crc THEN p
  ELSE IF numberOfRawDataBlocks = 0 THEN FrameEnd
  ELSE fed - accessUnitAnchor
         + 8 * bs.blocks[num_raw_blocks(bs) - numberOfRawDataBlocks + 1]

(* The parser of a damaged unit of known length has read past the data,    *)
(* and no CRC tells where the frame ends: the reader stays at the end of    *)
(* the data, and what had arrived behind the unit is lost.                  *)
Strays(p) == LengthKnown /\ ~Intact /\ p > fed /\ ~bs.crc

(* The audio decoder parses the access unit, checks its CRC, which moves to *)
(* the end as well, and calls transportDec_EndAccessUnit.                   *)
DecodeFrame ==
  /\ decoding
  /\ \E p \in ParserStops :
       /\ pos' = AdjustEndOfAccessUnit(BehindUnit(p))
       /\ overruns' = IF Strays(p) THEN overruns + 1 ELSE overruns
       /\ droppedTo' = IF Strays(p) THEN fed ELSE droppedTo
  /\ decoding' = FALSE
  /\ UNCHANGED <<stream, fed, synced, numberOfRawDataBlocks, globalFramePos, bs,
                 accessUnitAnchor, auLength, err, delivered, resets, aborted>>

(* TPDEC_PARAM_RESET (AACDEC_FLUSH, AAC_TPDEC_CLEAR_BUFFER): the input is   *)
(* dropped; what the application feeds next is a new start.                 *)
Reset ==
  /\ ~decoding /\ resets < MaxResets
  /\ resets' = resets + 1
  /\ pos' = fed
  /\ droppedTo' = fed
  /\ synced' = FALSE
  /\ numberOfRawDataBlocks' = 0
  /\ globalFramePos' = 0
  /\ accessUnitAnchor' = 0
  /\ auLength' = 0
  /\ UNCHANGED <<stream, fed, bs, err, decoding, delivered, overruns, aborted>>

ReadAccessUnit ==
  \/ OpenFrame \/ StarveSearch \/ OpenBlock \/ StarveBlock
  \/ \E intr \in {FALSE, Interrupts} : LoseSync(intr)

Next == \/ \E offer \in Offers : FillData(offer)
        \/ ReadAccessUnit
        \/ DecodeFrame
        \/ Reset

(* The application keeps filling and decoding, as the decoding loop of      *)
(* aacdecoder_lib.h asks it to, as long as a call does anything.            *)
Spec == Init /\ [][Next]_vars /\ WF_vars(Next)

-----------------------------------------------------------------------------
Type ==
  /\ stream \in Streams
  /\ fed \in 0 .. stream.size /\ pos \in Int
  /\ synced \in BOOLEAN
  /\ numberOfRawDataBlocks \in 0 .. 3
  /\ globalFramePos \in Int
  /\ bs \in Header /\ num_raw_blocks(bs) \in 0 .. 3
  /\ accessUnitAnchor \in Int /\ auLength \in Int
  /\ err \in {"OK", "NOT_ENOUGH_BITS", "SYNC_ERROR"}
  /\ decoding \in BOOLEAN
  /\ delivered \in Seq(Int)
  /\ resets \in Nat /\ overruns \in Nat /\ droppedTo \in Int
  /\ aborted \in BOOLEAN

(* The assertion in synchronization() that the search starts byte aligned   *)
(* never fails, whatever the parser of the last access unit did.            *)
NoAbort == ~aborted

(* A unit that has been handed over, or whose frame header was in the input *)
(* that a flush, or the parser of a damaged unit, has dropped.              *)
Done(u) == u \in Range(delivered) \/ stream.opener[u] < droppedTo

(* No access unit is passed over: the position is never behind the end of   *)
(* a unit that has not been handed over.  Excepted are units whose header   *)
(* had arrived when the application flushed the input, and when the parser  *)
(* of a damaged unit of a frame without CRC read past the data: the code    *)
(* drops those (RightPosition).                                             *)
NoneSkipped ==
  \A i \in DOMAIN stream.units :
    LET u == stream.units[i]
    IN  pos >= stream.blockEnd[u] => Done(u)

(* Access units are handed over in the order of the stream, none twice,     *)
(* also while resynchronizing.                                              *)
InOrder ==
  \A i \in 1 .. Len(delivered) - 1 : delivered[i] < delivered[i + 1]

(* What the order rests on: the blocks of a frame with more than one follow *)
(* each other inside it, and without a CRC the parser finds where they end. *)
BlocksFollow(s, q, off) ==
  LET h == s.headers[q]
      n == Len(h.blocks)
  IN  /\ off[1] = q + HeaderBits(h)
      /\ h.crc => off[n] <= q + FrameBits(h)
      /\ \A k \in 1 .. n - 1 :
           /\ off[k] < off[k + 1]
           /\ IF h.crc THEN off[k + 1] = off[k] + 8 * h.blocks[k]
              ELSE off[k] \notin s.broken /\ off[k + 1] = s.blockEnd[off[k]]
SentInOrder(s) ==
  \A q \in DOMAIN s.headers :
    LET h == s.headers[q]
    IN  Accepted(h) /\ num_raw_blocks(h) > 0 =>
          \E off \in [1 .. Len(h.blocks) -> DOMAIN s.blockEnd] :
            BlocksFollow(s, q, off)

(* What finding every unit rests on.  The blocks of a frame that is opened  *)
(* start inside it; without a CRC the last one of several is intact and     *)
(* ends there, and so does a single one that is intact.  A unit is a block  *)
(* of a frame that is opened, no other such frame reaches over the header   *)
(* of its frame, and units are listed in order.                             *)
BlocksInside(s, q) ==
  LET h == s.headers[q]
      n == Len(h.blocks)
  IN  \A off \in [1 .. n -> DOMAIN s.blockEnd] :
        BlocksFollow(s, q, off) =>
          /\ off[n] < q + FrameBits(h)
          /\ ~h.crc => /\ off[n] \notin s.broken
                       /\ s.blockEnd[off[n]] <= q + FrameBits(h)
OneBlockInside(s, q) ==
  LET h == s.headers[q]
      u == q + HeaderBits(h)
  IN  u \in DOMAIN s.blockEnd \ s.broken => s.blockEnd[u] <= q + FrameBits(h)
UnitInFrame(s, u) ==
  LET q == s.opener[u]
      h == s.headers[q]
  IN  /\ Accepted(h)
      /\ u \in q + HeaderBits(h) .. q + FrameBits(h) - 1
      /\ u < s.blockEnd[u]
      /\ IF num_raw_blocks(h) = 0 THEN u = q + HeaderBits(h)
         ELSE \A off \in [1 .. Len(h.blocks) -> DOMAIN s.blockEnd] :
                BlocksFollow(s, q, off) => u \in Range(off)
Findable(s) ==
  /\ \A q \in DOMAIN s.headers :
       LET h == s.headers[q]
       IN  Accepted(h) =>
             IF num_raw_blocks(h) > 0 THEN BlocksInside(s, q)
             ELSE h.crc \/ OneBlockInside(s, q)
  /\ \A i \in DOMAIN s.units : UnitInFrame(s, s.units[i])
  /\ \A i \in DOMAIN s.units, q \in DOMAIN s.headers :
       Accepted(s.headers[q]) =>
         s.opener[s.units[i]] \notin q + 1 .. q + FrameBits(s.headers[q]) - 1
  /\ \A i, j \in DOMAIN s.units : i < j => s.units[i] < s.units[j]

(* When the decoder asks for more bits there is room for them in the input  *)
(* buffer: the application is never left with a full buffer and no unit.    *)
StarvedHasRoom ==
  [][ReadAccessUnit /\ err' = "NOT_ENOUGH_BITS" => Buffer!Room' > 0]_vars

(* Every call of ReadAccessUnit that does not ask for more bits gets on in  *)
(* the stream: a decoding loop on a full buffer cannot run in circles.      *)
ReadsMoveOn ==
  [][ReadAccessUnit =>
       \/ err' = "NOT_ENOUGH_BITS" /\ pos' >= pos
       \/ pos' > pos
       \/ pos' = pos /\ numberOfRawDataBlocks' < numberOfRawDataBlocks]_vars

(* Every unit that can be found is handed over in the end, except those     *)
(* that were in the input when it was flushed or read past.                 *)
AllDelivered == <>(\A i \in DOMAIN stream.units : Done(stream.units[i]))

(* Out of bits. Provide more bits and try again: the decoder asks for more  *)
(* bits only while the frame it is in has not arrived completely.           *)
WaitsForMissingBits ==
  [][StarveBlock => fed < FrameEnd]_vars

(* Always put the bitbuffer at the right position after the current Access  *)
(* Unit: behind the last unit of a frame, if its length is known, that is   *)
(* the end of the frame.                                                    *)
RightPosition ==
  [][DecodeFrame /\ LengthKnown /\ numberOfRawDataBlocks = 0
       => pos' = FrameEnd]_vars

(* The decoder hands the units of the stream over as AuDelivery promises; a *)
(* flush drops the input, and a damaged unit that is read past the data.    *)
Gone == Max({0} \cup {i \in DOMAIN stream.units : Done(stream.units[i])})
Delivery == INSTANCE AuDelivery WITH units <- Len(stream.units), gone <- Gone,
                                     drops <- resets + overruns
ImplementsDelivery == Delivery!Spec
=============================================================================
