----------------------------- MODULE BitReader -----------------------------
(***************************************************************************)
(* FDK_BITSTREAM in the configuration BS_READER (FDK_bitstream.h): the     *)
(* ring of BitBuffer behind a cache word of CacheBits bits, of which the   *)
(* BitsInCache low ones have not been read.  The bits in the cache have    *)
(* already left the ring, so whoever uses the ring's own counters without  *)
(* a sync sees a position that is too far ahead.                           *)
(***************************************************************************)
EXTENDS BitBuffer

CONSTANTS
  MaxFed,      \* bound: bits of one stream the model feeds
  MaxAhead     \* bound: bits a caller runs past the end of the data

ASSUME ReaderBounds == MaxFed \in Nat /\ MaxAhead \in Nat
ASSUME ReaderHeadroom == UintMod > 2 * (bufBits + MaxAhead + CacheBits)

VARIABLES
  bb,          \* hBitBuf
  CacheWord,   \* the cells of the cache word, most significant first
  BitsInCache,
  fed,         \* history: bits of the stream that have been stored
  call,        \* history: the last call and its argument
  out,         \* history: the bits it returned
  packet,      \* whether the memory was handed over filled
  anchor,      \* what the caller's last FDKgetValidBits returned
  aborted      \* an assertion of the code has failed

vars == <<bb, CacheWord, BitsInCache, fed, call, out, packet, anchor, aborted>>

NoCache == [i \in 1 .. CacheBits |-> Junk]

(* Bits between the position of the reader and the end of the data; it is   *)
(* negative when the reader has run past the end.                           *)
Unread == INT(bb.ValidBits) + BitsInCache
pos == fed - Unread

Type ==
  /\ bb \in FDK_BITBUF
  /\ CacheWord \in [1 .. CacheBits -> Int]
  /\ BitsInCache \in 0 .. CacheBits
  /\ fed \in Nat
  /\ call \in {"init", "feed", "read", "move", "align", "sync"} \X Int
  /\ out \in Seq(Int)
  /\ packet \in BOOLEAN
  /\ anchor \in Int
  /\ aborted \in BOOLEAN

Returns(name, arg, bits) == call' = <<name, arg>> /\ out' = bits

(* A memory in which the first validBits bits of the stream are stored.  A  *)
(* cell that holds a bit of an earlier stream holds junk for this one.      *)
Filled(validBits) == [c \in Cells |-> IF c < validBits THEN c ELSE Junk]

(* FDKinitBitStream, FDKresetBitbuffer *)
InitBitStream(validBits) ==
  /\ bb' = InitBitBuffer(Filled(validBits), validBits)
  /\ CacheWord' = NoCache
  /\ BitsInCache' = 0
  /\ fed' = validBits
  /\ Returns("init", validBits, <<>>)
  /\ packet' = (validBits > 0)
  /\ anchor' = validBits
  /\ UNCHANGED aborted

Init ==
  \E validBits \in 0 .. bufBits :
    /\ bb = InitBitBuffer(Filled(validBits), validBits)
    /\ CacheWord = NoCache
    /\ BitsInCache = 0
    /\ fed = validBits
    /\ call = <<"init", validBits>>
    /\ out = <<>>
    /\ packet = (validBits > 0)
    /\ anchor = validBits
    /\ aborted = FALSE

(* FDKsyncCache: the buffer after the cached bits have been handed back.    *)
Synced == pushBack(bb, BitsInCache, Reader)

(* Mutant: the cached bits are handed back and stay cached.                 *)
DropCache_KeepsCount == CacheWord' = NoCache /\ UNCHANGED BitsInCache

DropCache == CacheWord' = NoCache /\ BitsInCache' = 0

SyncCache ==
  /\ bb' = Synced
  /\ DropCache
  /\ Returns("sync", 0, <<>>)
  /\ UNCHANGED <<fed, packet, anchor, aborted>>

(* FDKgetValidBits, as the callers use it to set an alignment anchor.       *)
GetValidBits ==
  /\ bb' = Synced
  /\ DropCache
  /\ Returns("sync", 0, <<>>)
  /\ anchor' = INT(Synced.ValidBits)
  /\ UNCHANGED <<fed, packet, aborted>>

(* FDKfeedBuffer: the next bytes of the stream, as many as fit.  A reader   *)
(* that was handed a filled memory is not fed.                              *)
FeedBuffer(offered) ==
  /\ ~packet
  /\ fed + offered * ByteBits <= MaxFed
  /\ LET n == FeedBytes(Synced, offered) * ByteBits
     IN  /\ bb' = Feed(Synced, [i \in 1 .. n |-> fed + i - 1])
         /\ fed' = fed + n
  /\ DropCache
  /\ Returns("feed", offered, <<>>)
  /\ UNCHANGED <<packet, anchor, aborted>>

(* The k low bits of a cache word that come first.                          *)
Low_FromTop(word, k) == SubSeq(word, 1, k)   \* mutant: the wrong end

Low(word, k) == SubSeq(word, CacheBits - k + 1, CacheBits)

(* FDKreadBits (and FDKreadBit, FDKread2Bits, its versions for one and two  *)
(* bits): what the cache lacks comes from a fresh word, whose rest stays    *)
(* in the cache.                                                            *)
ReadBits(n) ==
  /\ Unread - n >= -MaxAhead
  /\ IF n > BitsInCache
       THEN LET missing == n - BitsInCache
                word    == PeekBits(bb, CacheBits)
            IN  /\ Returns("read", n, Low(CacheWord, BitsInCache)
                                         \o SubSeq(word, 1, missing))
                /\ CacheWord' = word
                /\ BitsInCache' = CacheBits - missing
                /\ bb' = get(bb, CacheBits)
       ELSE /\ Returns("read", n, SubSeq(Low(CacheWord, BitsInCache), 1, n))
            /\ BitsInCache' = BitsInCache - n
            /\ UNCHANGED <<bb, CacheWord>>
  /\ UNCHANGED <<fed, packet, anchor, aborted>>

(* FDKpushBackCache: n bits of the preceding read become unread again; the  *)
(* assertion wants them to be in the cache word still.                      *)
PushBackCache(n) ==
  /\ n <= Len(out)
  /\ IF BitsInCache + n <= CacheBits
       THEN BitsInCache' = BitsInCache + n /\ UNCHANGED aborted
       ELSE aborted' = TRUE /\ UNCHANGED BitsInCache
  /\ Returns("move", IF aborted' THEN 0 ELSE -n, <<>>)
  /\ UNCHANGED <<bb, CacheWord, fed, packet, anchor>>

(* A Huffman word is decoded two bits at a time and gives back at most the  *)
(* last one (CBlock_DecodeHuffmanWord).                                     *)
HuffmanPushBack_Both == Len(out) = 2 /\ PushBackCache(2)   \* mutant

HuffmanPushBack == Len(out) = 2 /\ PushBackCache(1)

(* FDKpushBack: callers go back over bits they have read, as far as the     *)
(* ring still holds them.                                                   *)
PushBack(n) ==
  /\ n <= pos
  /\ Unread + n <= bufBits
  /\ bb' = IF BitsInCache + n < CacheBits
             THEN pushBack(bb, BitsInCache + n, Reader)
             ELSE pushBack(Synced, n, Reader)
  /\ DropCache
  /\ Returns("move", -n, <<>>)
  /\ UNCHANGED <<fed, packet, anchor, aborted>>

(* FDKpushFor *)
PushFor(n) ==
  /\ Unread - n >= -MaxAhead
  /\ IF BitsInCache > n
       THEN /\ BitsInCache' = BitsInCache - n
            /\ UNCHANGED <<bb, CacheWord>>
       ELSE /\ bb' = pushForward(Synced, n, Reader)
            /\ DropCache
  /\ Returns("move", n, <<>>)
  /\ UNCHANGED <<fed, packet, anchor, aborted>>

(* FDKpushBiDirectional *)
PushBiDirectional(n) == IF n >= 0 THEN PushFor(n) ELSE PushBack(-n)

(* FDKbyteAlign: skips to the next byte boundary, counted from the anchor.  *)
(* Mutant: a whole byte is skipped where nothing has to be.                 *)
Skip_WholeByte(from, validBits) == ByteBits - (UINT(from - validBits) % ByteBits)

Skip(from, validBits) ==
  (ByteBits - (UINT(from - validBits) % ByteBits)) % ByteBits

ByteAlign ==
  /\ Unread >= -MaxAhead + ByteBits
  /\ bb' = pushForward(Synced, Skip(anchor, Synced.ValidBits), Reader)
  /\ DropCache
  /\ Returns("align", 0, <<>>)
  /\ UNCHANGED <<fed, packet, anchor, aborted>>

Next ==
  /\ ~aborted
  /\ \/ \E v \in 0 .. bufBits : InitBitStream(v)
     \/ SyncCache
     \/ GetValidBits
     \/ \E offered \in 0 .. bufSize : FeedBuffer(offered)
     \/ \E n \in 0 .. CacheBits : ReadBits(n)
     \/ HuffmanPushBack
     \/ \E n \in -bufBits .. bufBits : PushBiDirectional(n)
     \/ ByteAlign

Spec == Init /\ [][Next]_vars

----------------------------------------------------------------------------
(* Nothing the decoder can still come back to has been overwritten: every   *)
(* bit between the position and the end of the data sits in its cell.  The  *)
(* free space FDK_Feed counts must therefore include the cached bits.       *)
UnreadBitsStored ==
  \A p \in Larger(pos, 0) .. fed - 1 : bb.Buffer[p % bufBits] = p

(* The cache is a copy of the ring: its unread bits are the cells just      *)
(* before BitNdx as they are now, junk past the end of the data included.   *)
CacheIsFresh ==
  \A k \in 1 .. BitsInCache :
    CacheWord[CacheBits - k + 1] = bb.Buffer[(bb.BitNdx - k) % bufBits]

(* The assertion in FDKpushBackCache does not fail for what the Huffman     *)
(* decoders give back, wherever in the cache word the codeword ended.       *)
NoAbort == ~aborted

(* Why all this holds, whatever the sizes: the ring's own position is where *)
(* BitNdx points and ends where ReadOffset points, the distance to the end  *)
(* of the data never leaves the range in which ValidBits can be read as a   *)
(* signed number, the ring holds all it has room for, a cache word in use   *)
(* is a copy of the ring with its read bits too, and a read of two bits     *)
(* leaves room for one in the cache and in the ring.                        *)
RingPos == fed - INT(bb.ValidBits)

Positions ==
  /\ Unread \in -MaxAhead .. bufBits /\ Unread <= fed
  /\ INT(bb.ValidBits) \in -(MaxAhead + CacheBits) .. bufBits
  /\ bb.BitNdx = RingPos % bufBits
  /\ ~packet => fed % bufBits = bb.ReadOffset * ByteBits

WindowStored ==
  \A p \in 0 .. fed - 1 : p >= fed - bufBits => bb.Buffer[p % bufBits] = p

WordIsFresh ==
  BitsInCache > 0 \/ Len(out) > 0 =>
    \A k \in 1 .. CacheBits :
      CacheWord[CacheBits - k + 1] = bb.Buffer[(bb.BitNdx - k) % bufBits]

ReadLeavesRoom ==
  Len(out) = 2 => BitsInCache < CacheBits /\ Unread < bufBits /\ Unread < fed

Inv == Type /\ Positions /\ WindowStored /\ WordIsFresh /\ ReadLeavesRoom /\ NoAbort

(* FDKbyteAlign leaves the position at a whole number of bytes from the     *)
(* anchor, skips less than a byte, and never goes back.                     *)
AlignedFromAnchor ==
  [][ByteAlign => /\ (pos' - (fed - anchor)) % ByteBits = 0
                  /\ pos' - pos \in 0 .. ByteBits - 1]_vars

(* The reader implements the stream of bits of BitFifo.                     *)
Fifo == INSTANCE BitFifo WITH Capacity <- bufBits
ImplementsFifo == Fifo!Spec
=============================================================================
