-------------------------- MODULE BitReader_proofs --------------------------
(***************************************************************************)
(* Theorems about BitReader for every size of the ring, the cache word and *)
(* the type UINT.                                                          *)
(***************************************************************************)
EXTENDS BitReader, ModuloFacts, SequenceTheorems, TLAPS

----------------------------------------------------------------------------
(* The sizes, and the signed reading of UINT.                               *)

Behind == MaxAhead + CacheBits     \* how far the ring runs past the data

LEMMA Sizes ==
  /\ ByteBits \in Nat \ {0}
  /\ bufSize \in Nat \ {0}
  /\ bufBits \in Nat \ {0}
  /\ UintMod \in Nat \ {0}
  /\ CacheBits \in Nat \ {0, 1}
  /\ MaxAhead \in Nat
  /\ Behind \in Nat
  /\ UintMod \div 2 \in Nat
  /\ bufBits + Behind <= UintMod \div 2
  /\ bufBits + Behind <= UintMod - (UintMod \div 2)
<1>1. bufBits \in Nat \ {0}
  BY BitBufferAssumption DEF bufBits
<1>2. UintMod > 2 * (bufBits + MaxAhead + CacheBits)
  BY ReaderHeadroom
<1> QED BY <1>1, <1>2, BitBufferAssumption, ReaderBounds DEF Behind

(* Adding n to a counter of type UINT adds n to the signed number it        *)
(* stands for, as long as that stays between -Behind and bufBits.           *)
LEMMA SignedSum ==
  ASSUME NEW v \in 0 .. UintMod - 1, NEW n \in Int,
         INT(v) + n \in -Behind .. bufBits
  PROVE  /\ UINT(v + n) \in 0 .. UintMod - 1
         /\ INT(UINT(v + n)) = INT(v) + n
<1> DEFINE s == INT(v) + n
<1>1. s \in -Behind .. bufBits
  OBVIOUS
<1>2. v + n = s \/ v + n = s + UintMod
  BY Sizes DEF INT
<1>3. s \in Int /\ v + n \in Int
  BY <1>1, Sizes
<1> HIDE DEF s
<1>4. (v + n) % UintMod = s % UintMod
  <2>1. (s + UintMod) % UintMod = s % UintMod
    BY <1>3, Sizes, ModOnce
  <2> QED BY <1>2, <2>1
<1>5. CASE s >= 0
  <2>1. s % UintMod = s
    BY <1>1, <1>5, Sizes, ModSmall
  <2>2. s < UintMod \div 2
    BY <1>1, Sizes DEF Behind
  <2> QED BY <1>4, <2>1, <2>2, <1>1, <1>5, Sizes DEF UINT, INT, s
<1>6. CASE s < 0
  <2>a. s \in -UintMod .. -1
    BY <1>1, <1>3, <1>6, Sizes
  <2>1. s % UintMod = s + UintMod
    BY <2>a, <1>3, Sizes, ModSmall
  <2>2. s + UintMod >= UintMod \div 2
    BY <1>1, Sizes
  <2> QED BY <1>4, <2>1, <2>2, <1>1, <1>6, Sizes DEF UINT, INT, s
<1> QED BY <1>3, <1>5, <1>6

(* A counter of type UINT stands for an integer.                            *)
LEMMA SignedInt == ASSUME NEW v \in 0 .. UintMod - 1
                   PROVE  INT(v) \in Int
BY Sizes DEF INT

----------------------------------------------------------------------------
(* FDK_get32, FDK_pushBack and FDK_pushForward are one operation: the       *)
(* position of the ring moves by d bits and nothing else changes.           *)
Moved(b, d) == [b EXCEPT !.ValidBits = UINT(@ - d), !.BitNdx = (@ + d) % bufBits]

LEMMA Moves == ASSUME NEW b \in FDK_BITBUF, NEW n \in Int
               PROVE  /\ get(b, n) = Moved(b, n)
                      /\ pushForward(b, n, Reader) = Moved(b, n)
                      /\ pushBack(b, n, Reader) = Moved(b, -n)
<1>1. b.ValidBits \in Int /\ b.BitNdx \in Int
  BY Sizes DEF FDK_BITBUF, Cells
<1>2. b.ValidBits - (-n) = b.ValidBits + n /\ b.BitNdx + (-n) = b.BitNdx - n
  BY <1>1
<1> QED BY <1>2 DEF get, pushForward, pushBack, Moved, Reader

(* The counters of a ring whose data ends at bit f of the stream.           *)
Aligned(b, f) ==
  /\ INT(b.ValidBits) \in -Behind .. bufBits
  /\ b.BitNdx = (f - INT(b.ValidBits)) % bufBits

LEMMA MoveAligned ==
  ASSUME NEW b \in FDK_BITBUF, NEW f \in Int, NEW d \in Int,
         Aligned(b, f), INT(b.ValidBits) - d \in -Behind .. bufBits
  PROVE  /\ Moved(b, d) \in FDK_BITBUF
         /\ Aligned(Moved(b, d), f)
         /\ INT(Moved(b, d).ValidBits) = INT(b.ValidBits) - d
         /\ Moved(b, d).Buffer = b.Buffer
         /\ Moved(b, d).ReadOffset = b.ReadOffset
<1> DEFINE m == Moved(b, d)
<1>1. b.ValidBits \in 0 .. UintMod - 1 /\ b.BitNdx \in Int
  BY Sizes DEF FDK_BITBUF, Cells
<1>2. INT(b.ValidBits) \in Int
  BY <1>1, SignedInt
<1>3. /\ m.ValidBits = UINT(b.ValidBits - d)
      /\ m.BitNdx = (b.BitNdx + d) % bufBits
      /\ m.Buffer = b.Buffer
      /\ m.ReadOffset = b.ReadOffset
  BY DEF Moved, FDK_BITBUF
<1>4. /\ UINT(b.ValidBits - d) \in 0 .. UintMod - 1
      /\ INT(UINT(b.ValidBits - d)) = INT(b.ValidBits) - d
  <2>1. b.ValidBits + (-d) = b.ValidBits - d /\ INT(b.ValidBits) + (-d) = INT(b.ValidBits) - d
    BY <1>1, <1>2
  <2>2. -d \in Int
    OBVIOUS
  <2> QED BY <2>1, <2>2, <1>1, SignedSum
<1>5. m.BitNdx \in Cells
  <2>1. b.BitNdx + d \in Int
    BY <1>1
  <2>2. bufBits \in Nat \ {0}
    BY Sizes
  <2>3. (b.BitNdx + d) % bufBits \in 0 .. bufBits - 1
    BY <2>1, <2>2, ModRange
  <2> QED BY <2>3, <1>3 DEF Cells
<1>6. m \in FDK_BITBUF
  BY <1>4, <1>3, <1>5 DEF Moved, FDK_BITBUF
<1>7. m.BitNdx = (f - INT(m.ValidBits)) % bufBits
  <2> DEFINE x == f - INT(b.ValidBits)
  <2>1. x \in Int
    BY <1>2
  <2>2. b.BitNdx = x % bufBits
    BY DEF Aligned
  <2>3. x + d = f - INT(m.ValidBits)
    BY <1>2, <1>3, <1>4
  <2> HIDE DEF x
  <2>4. ((x % bufBits) + d) % bufBits = (x + d) % bufBits
    BY <2>1, Sizes, ModPlus
  <2> QED BY <2>2, <2>3, <2>4, <1>3
<1> QED BY <1>3, <1>4, <1>6, <1>7 DEF Aligned

----------------------------------------------------------------------------
(* The calls that give the cached bits back.                                *)

LEMMA SyncedFacts ==
  ASSUME Inv
  PROVE  /\ Unread \in -MaxAhead .. bufBits /\ Unread <= fed /\ fed \in Nat
         /\ Synced \in FDK_BITBUF
         /\ Aligned(Synced, fed)
         /\ INT(Synced.ValidBits) = Unread
         /\ Synced.Buffer = bb.Buffer
         /\ Synced.ReadOffset = bb.ReadOffset
<1>1. bb \in FDK_BITBUF /\ BitsInCache \in Nat /\ fed \in Nat
  BY DEF Inv, Type
<1>2. Aligned(bb, fed) /\ Unread \in -MaxAhead .. bufBits /\ Unread <= fed
  BY Sizes DEF Inv, Positions, Aligned, RingPos, Behind
<1>3. Unread = INT(bb.ValidBits) - (-BitsInCache)
  <2>1. INT(bb.ValidBits) \in Int
    BY <1>1, SignedInt DEF FDK_BITBUF
  <2> QED BY <1>1, <2>1 DEF Unread
<1>4. INT(bb.ValidBits) - (-BitsInCache) \in -Behind .. bufBits
  BY <1>2, <1>3, Sizes DEF Behind
<1>5. Synced = Moved(bb, -BitsInCache)
  BY <1>1, Moves DEF Synced
<1>6. -BitsInCache \in Int /\ fed \in Int
  BY <1>1
<1> QED BY <1>1, <1>2, <1>3, <1>4, <1>5, <1>6, MoveAligned

(* A ring in order behind an empty cache keeps the invariant.               *)
LEMMA DropStep ==
  ASSUME Inv,
         bb' \in FDK_BITBUF,
         Aligned(bb', fed),
         INT(bb'.ValidBits) \in -MaxAhead .. bufBits,
         INT(bb'.ValidBits) <= fed,
         bb'.Buffer = bb.Buffer,
         bb'.ReadOffset = bb.ReadOffset,
         DropCache,
         out' = <<>>,
         call' \in {"init", "feed", "read", "move", "align", "sync"} \X Int,
         anchor' \in Int,
         UNCHANGED <<fed, packet, aborted>>
  PROVE  Inv' /\ Unread' = INT(bb'.ValidBits)
<1>1. CacheWord' \in [1 .. CacheBits -> Int] /\ BitsInCache' = 0
  BY Sizes DEF DropCache, NoCache, Junk
<1>2. Type'
  BY <1>1, Sizes DEF Inv, Type
<1>u. Unread' = INT(bb'.ValidBits)
  BY <1>1, Sizes DEF Unread, INT
<1>3. Positions'
  <2>2. bb'.BitNdx = RingPos' % bufBits
    BY DEF Aligned, RingPos, INT
  <2>3. INT(bb.ValidBits)' \in -(MaxAhead + CacheBits) .. bufBits
    BY Sizes DEF INT
  <2> QED BY <1>u, <2>2, <2>3 DEF Positions, Inv, INT
<1>4. WindowStored'
  BY DEF Inv, WindowStored
<1>5. WordIsFresh'
  BY <1>1 DEF WordIsFresh
<1>6. ReadLeavesRoom' /\ NoAbort'
  BY <1>1, Sizes DEF ReadLeavesRoom, NoAbort, Inv
<1> QED BY <1>u, <1>2, <1>3, <1>4, <1>5, <1>6 DEF Inv

LEMMA SyncStep == ASSUME Inv, SyncCache \/ GetValidBits
                  PROVE  Inv' /\ Unread' = Unread
<1>1. /\ bb' = Synced /\ DropCache /\ out' = <<>>
      /\ call' = <<"sync", 0>>
      /\ UNCHANGED <<fed, packet, aborted>>
  BY DEF SyncCache, GetValidBits, Returns
<1>2. anchor' \in Int
  <2>1. Unread \in Int
    BY SyncedFacts, Sizes
  <2> QED BY <2>1, SyncedFacts DEF SyncCache, GetValidBits, Inv, Type
<1> QED BY <1>1, <1>2, SyncedFacts, DropStep

(* The ring after the cached bits went back and it moved on by d.           *)
LEMMA SyncedMove ==
  ASSUME Inv, NEW d \in Int, Unread - d \in -MaxAhead .. bufBits
  PROVE  /\ Moved(Synced, d) \in FDK_BITBUF
         /\ Aligned(Moved(Synced, d), fed)
         /\ INT(Moved(Synced, d).ValidBits) = Unread - d
         /\ Moved(Synced, d).Buffer = bb.Buffer
         /\ Moved(Synced, d).ReadOffset = bb.ReadOffset
<1>1. fed \in Int
  BY DEF Inv, Type
<1>2. INT(Synced.ValidBits) - d \in -Behind .. bufBits
  BY SyncedFacts, Sizes DEF Behind
<1> QED BY <1>1, <1>2, SyncedFacts, MoveAligned

LEMMA PushForStep == ASSUME Inv, NEW n \in Nat, PushFor(n)
                     PROVE  Inv' /\ Unread' = Unread - n
<1>1. Unread - n \in -MaxAhead .. bufBits /\ Unread - n <= fed
  BY SyncedFacts, Sizes DEF PushFor
<1>2. CASE BitsInCache > n
  <2>1. /\ BitsInCache' = BitsInCache - n
        /\ out' = <<>> /\ call' = <<"move", n>>
        /\ UNCHANGED <<bb, CacheWord, fed, packet, anchor, aborted>>
    BY <1>2 DEF PushFor, Returns
  <2>2. Type'
    BY <2>1, <1>2, Sizes DEF Inv, Type
  <2>u. Unread' = Unread - n
    <3>1. INT(bb.ValidBits) \in Int /\ BitsInCache \in Nat
      BY SignedInt DEF Inv, Type, FDK_BITBUF
    <3> QED BY <2>1, <3>1 DEF Unread, INT
  <2>3. Positions'
    BY <1>1, <2>1, <2>u DEF Positions, Inv, RingPos, INT
  <2>4. WindowStored'
    BY <2>1 DEF Inv, WindowStored
  <2>5. WordIsFresh'
    BY <2>1, <1>2 DEF Inv, Type, WordIsFresh
  <2>6. ReadLeavesRoom' /\ NoAbort'
    BY <2>1 DEF ReadLeavesRoom, NoAbort, Inv
  <2> QED BY <2>u, <2>2, <2>3, <2>4, <2>5, <2>6 DEF Inv
<1>3. CASE ~(BitsInCache > n)
  <2>1. /\ bb' = pushForward(Synced, n, Reader)
        /\ DropCache /\ out' = <<>> /\ call' = <<"move", n>>
        /\ UNCHANGED <<fed, packet, anchor, aborted>>
    BY <1>3 DEF PushFor, Returns
  <2>2. bb' = Moved(Synced, n)
    BY <2>1, SyncedFacts, Moves
  <2>3. anchor' \in Int
    BY <2>1 DEF Inv, Type
  <2> QED BY <2>1, <2>2, <2>3, <1>1, SyncedMove, DropStep
<1> QED BY <1>2, <1>3

LEMMA PushBackStep == ASSUME Inv, NEW n \in Nat, PushBack(n)
                      PROVE  Inv' /\ Unread' = Unread + n
<1>0. /\ Unread \in -MaxAhead .. bufBits /\ Unread + n <= bufBits
      /\ Unread + n <= fed
  BY SyncedFacts, Sizes DEF PushBack, pos
<1>1. /\ Unread - (-n) \in -MaxAhead .. bufBits /\ -n \in Int
      /\ Unread - (-n) = Unread + n /\ Unread - (-n) <= fed
  BY <1>0, Sizes
<1>2. /\ DropCache /\ out' = <<>> /\ call' = <<"move", -n>>
      /\ UNCHANGED <<fed, packet, anchor, aborted>>
  BY DEF PushBack, Returns
<1>3. anchor' \in Int
  BY <1>2 DEF Inv, Type
<1>4. CASE BitsInCache + n < CacheBits
  <2>1. bb \in FDK_BITBUF /\ BitsInCache \in Nat /\ fed \in Int
    BY DEF Inv, Type
  <2>2. bb' = Moved(bb, -(BitsInCache + n)) /\ -(BitsInCache + n) \in Int
    BY <1>4, <2>1, Moves DEF PushBack
  <2>3. INT(bb.ValidBits) \in Int
    BY <2>1, SignedInt DEF FDK_BITBUF
  <2>4. INT(bb.ValidBits) - (-(BitsInCache + n)) = Unread - (-n)
    BY <2>1, <2>3 DEF Unread
  <2>5. INT(bb.ValidBits) - (-(BitsInCache + n)) \in -Behind .. bufBits
    BY <1>1, <2>4, Sizes DEF Behind
  <2>6. Aligned(bb, fed)
    BY Sizes DEF Inv, Positions, Aligned, RingPos, Behind
  <2> QED BY <1>1, <1>2, <1>3, <2>1, <2>2, <2>4, <2>5, <2>6, MoveAligned, DropStep
<1>5. CASE ~(BitsInCache + n < CacheBits)
  <2>1. bb' = Moved(Synced, -n)
    BY <1>5, SyncedFacts, Moves DEF PushBack
  <2> QED BY <1>1, <1>2, <1>3, <2>1, SyncedMove, DropStep
<1> QED BY <1>4, <1>5

LEMMA SkipLessThanByte ==
  ASSUME NEW x \in Int, NEW y \in Int PROVE Skip(x, y) \in 0 .. ByteBits - 1
<1>1. UINT(x - y) \in Int
  BY Sizes, ModRange DEF UINT
<1>2. ByteBits - (UINT(x - y) % ByteBits) \in Int
  BY <1>1, Sizes, ModRange
<1>3. ByteBits \in Nat \ {0}
  BY Sizes
<1> QED BY <1>2, <1>3, ModRange DEF Skip

LEMMA ByteAlignStep ==
  ASSUME Inv, ByteAlign
  PROVE  /\ Inv' /\ Unread - Unread' \in 0 .. ByteBits - 1
         /\ Unread - Unread' = Skip(anchor, Synced.ValidBits)
<1> DEFINE d == Skip(anchor, Synced.ValidBits)
<1>1. d \in 0 .. ByteBits - 1
  <2>1. anchor \in Int /\ Synced.ValidBits \in Int
    BY SyncedFacts, Sizes DEF Inv, Type, FDK_BITBUF
  <2> QED BY <2>1, SkipLessThanByte
<1>2. /\ Unread >= -MaxAhead + ByteBits /\ Unread \in -MaxAhead .. bufBits
      /\ Unread <= fed /\ fed \in Nat
  BY SyncedFacts DEF ByteAlign
<1> HIDE DEF d
<1>3. /\ Unread - d \in -MaxAhead .. bufBits /\ d \in Int
      /\ Unread - (Unread - d) = d /\ Unread - d <= fed
  BY <1>1, <1>2, Sizes
<1>4. /\ bb' = pushForward(Synced, d, Reader)
      /\ DropCache /\ out' = <<>> /\ call' = <<"align", 0>>
      /\ UNCHANGED <<fed, packet, anchor, aborted>>
  BY DEF ByteAlign, Returns, d
<1>5. bb' = Moved(Synced, d)
  BY <1>3, <1>4, SyncedFacts, Moves
<1>6. anchor' \in Int
  BY <1>4 DEF Inv, Type
<1> QED BY <1>1, <1>3, <1>4, <1>5, <1>6, SyncedMove, DropStep DEF d

----------------------------------------------------------------------------
(* The calls that go through the cache.                                     *)

LEMMA LowFacts ==
  ASSUME NEW w \in [1 .. CacheBits -> Int], NEW k \in 0 .. CacheBits
  PROVE  /\ w \in Seq(Int) /\ Len(w) = CacheBits
         /\ Low(w, k) \in Seq(Int) /\ Len(Low(w, k)) = k
         /\ \A i \in 1 .. k : Low(w, k)[i] = w[CacheBits - k + i]
BY Sizes DEF Low

LEMMA PeekFacts ==
  ASSUME NEW b \in FDK_BITBUF
  PROVE  /\ PeekBits(b, CacheBits) \in [1 .. CacheBits -> Int]
         /\ \A i \in 1 .. CacheBits :
              PeekBits(b, CacheBits)[i] = b.Buffer[(b.BitNdx + i - 1) % bufBits]
<1>1. \A i \in 1 .. CacheBits : (b.BitNdx + i - 1) % bufBits \in Cells
  <2>1. SUFFICES ASSUME NEW i \in 1 .. CacheBits
                 PROVE  (b.BitNdx + i - 1) % bufBits \in Cells
    OBVIOUS
  <2>2. b.BitNdx + i - 1 \in Int
    BY Sizes DEF FDK_BITBUF, Cells
  <2>3. bufBits \in Nat \ {0}
    BY Sizes
  <2> QED BY <2>2, <2>3, ModRange DEF Cells
<1>2. b.Buffer \in [Cells -> Int]
  BY DEF FDK_BITBUF
<1> QED BY <1>1, <1>2, Sizes DEF PeekBits

(* A word read at the position of the ring is a copy of the cells that      *)
(* precede the new position.                                                *)
LEMMA FetchedWordIsFresh ==
  ASSUME NEW b \in FDK_BITBUF, NEW k \in 1 .. CacheBits
  PROVE  PeekBits(b, CacheBits)[CacheBits - k + 1]
           = b.Buffer[(Moved(b, CacheBits).BitNdx - k) % bufBits]
<1>1. b.BitNdx \in Int /\ b.BitNdx + CacheBits \in Int /\ -k \in Int
  BY Sizes DEF FDK_BITBUF, Cells
<1>2. Moved(b, CacheBits).BitNdx = (b.BitNdx + CacheBits) % bufBits
  BY DEF Moved, FDK_BITBUF
<1> DEFINE x == b.BitNdx + CacheBits
<1>3. x \in Int
  BY <1>1
<1>4. (x % bufBits) - k = (x % bufBits) + (-k)
  BY <1>3, Sizes, ModRange
<1>5. ((x % bufBits) + (-k)) % bufBits = (x + (-k)) % bufBits
  BY <1>1, <1>3, Sizes, ModPlus
<1>6. x + (-k) = b.BitNdx + (CacheBits - k + 1) - 1
  BY <1>1, Sizes
<1>7. CacheBits - k + 1 \in 1 .. CacheBits
  BY Sizes
<1>8. PeekBits(b, CacheBits)[CacheBits - k + 1]
        = b.Buffer[(b.BitNdx + (CacheBits - k + 1) - 1) % bufBits]
  BY <1>7, PeekFacts
<1> QED BY <1>2, <1>4, <1>5, <1>6, <1>8

LEMMA ReadBitsStep == ASSUME Inv, NEW n \in 0 .. CacheBits, ReadBits(n)
                      PROVE  Inv' /\ Len(out') = n /\ Unread' = Unread - n
<1>1. /\ bb \in FDK_BITBUF /\ CacheWord \in [1 .. CacheBits -> Int]
      /\ BitsInCache \in 0 .. CacheBits /\ fed \in Nat /\ n \in Int
  BY DEF Inv, Type
<1>2. Unread - n \in -MaxAhead .. bufBits /\ Unread - n <= fed
  BY SyncedFacts, Sizes DEF ReadBits
<1>3. INT(bb.ValidBits) \in Int /\ Unread = INT(bb.ValidBits) + BitsInCache
  BY <1>1, SignedInt DEF FDK_BITBUF, Unread
<1>4. call' = <<"read", n>> /\ UNCHANGED <<fed, packet, anchor, aborted>>
  BY DEF ReadBits, Returns
<1>5. CASE n > BitsInCache
  <2> DEFINE missing == n - BitsInCache
             word == PeekBits(bb, CacheBits)
  <2>1. missing \in 1 .. CacheBits /\ BitsInCache + missing = n
    BY <1>1, <1>5, Sizes
  <2>2. /\ out' = Low(CacheWord, BitsInCache) \o SubSeq(word, 1, missing)
        /\ CacheWord' = word
        /\ BitsInCache' = CacheBits - missing
        /\ bb' = get(bb, CacheBits)
    BY <1>5 DEF ReadBits, Returns
  <2>3. word \in [1 .. CacheBits -> Int]
    BY <1>1, PeekFacts
  <2> HIDE DEF word
  <2>4. out' \in Seq(Int) /\ Len(out') = n
    <3>1. word \in Seq(Int) /\ Len(word) = CacheBits
      BY <2>3, Sizes
    <3>2. SubSeq(word, 1, missing) \in Seq(Int) /\ Len(SubSeq(word, 1, missing)) = missing
      BY <2>1, <3>1, Sizes
    <3>3. Low(CacheWord, BitsInCache) \in Seq(Int) /\ Len(Low(CacheWord, BitsInCache)) = BitsInCache
      BY <1>1, LowFacts
    <3> HIDE DEF missing
    <3>4. \A s, t \in Seq(Int) : s \o t \in Seq(Int) /\ Len(s \o t) = Len(s) + Len(t)
      OBVIOUS
    <3> QED BY <2>1, <2>2, <3>2, <3>3, <3>4
  <2>5. bb' = Moved(bb, CacheBits) /\ CacheBits \in Int
    BY <1>1, <2>2, Sizes, Moves
  <2>6. INT(bb.ValidBits) - CacheBits \in -Behind .. bufBits
    BY <1>2, <1>3, <1>5, <1>1, Sizes DEF Behind, Inv, Positions
  <2>7. Aligned(bb, fed) /\ fed \in Int
    BY <1>1, Sizes DEF Inv, Positions, Aligned, RingPos, Behind
  <2>8. /\ bb' \in FDK_BITBUF
        /\ Aligned(bb', fed)
        /\ INT(bb'.ValidBits) = INT(bb.ValidBits) - CacheBits
        /\ bb'.Buffer = bb.Buffer
        /\ bb'.ReadOffset = bb.ReadOffset
    BY <1>1, <2>5, <2>6, <2>7, MoveAligned
  <2>9. Type'
    BY <1>1, <1>4, <2>1, <2>2, <2>3, <2>4, <2>8, Sizes DEF Inv, Type
  <2>u. Unread' = Unread - n
    BY <1>1, <1>3, <2>2, <2>8, Sizes DEF Unread, INT
  <2>10. Positions'
    <3>1. bb'.BitNdx = RingPos' % bufBits
      BY <1>4, <2>8 DEF Aligned, RingPos, INT
    <3> QED BY <1>2, <1>4, <2>6, <2>8, <2>u, <3>1 DEF Positions, Inv, INT, Behind
  <2>11. WindowStored'
    BY <1>4, <2>8 DEF Inv, WindowStored
  <2>12. WordIsFresh'
    <3>1. ASSUME NEW k \in 1 .. CacheBits
          PROVE  CacheWord'[CacheBits - k + 1] = bb'.Buffer[(bb'.BitNdx - k) % bufBits]
      BY <1>1, <2>2, <2>5, <2>8, FetchedWordIsFresh DEF word
    <3> QED BY <3>1 DEF WordIsFresh
  <2>13. ReadLeavesRoom' /\ NoAbort'
    <3>1. Len(out') = 2 => Unread' < bufBits /\ Unread' < fed
      BY <1>2, <1>1, <2>4, <2>u, SyncedFacts, Sizes
    <3> QED BY <1>4, <2>1, <2>2, <3>1, Sizes DEF ReadLeavesRoom, NoAbort, Inv
  <2> QED BY <2>u, <2>4, <2>9, <2>10, <2>11, <2>12, <2>13 DEF Inv
<1>6. CASE ~(n > BitsInCache)
  <2>1. /\ out' = SubSeq(Low(CacheWord, BitsInCache), 1, n)
        /\ BitsInCache' = BitsInCache - n
        /\ UNCHANGED <<bb, CacheWord>>
    BY <1>6 DEF ReadBits, Returns
  <2>2. out' \in Seq(Int) /\ Len(out') = n
    <3>1. /\ Low(CacheWord, BitsInCache) \in Seq(Int)
          /\ Len(Low(CacheWord, BitsInCache)) = BitsInCache
      BY <1>1, LowFacts
    <3> QED BY <1>1, <1>6, <2>1, <3>1
  <2>3. BitsInCache' \in 0 .. CacheBits /\ BitsInCache' <= BitsInCache
    BY <1>1, <1>6, <2>1, Sizes
  <2>4. Type'
    BY <1>1, <1>4, <2>1, <2>2, <2>3 DEF Inv, Type
  <2>u. Unread' = Unread - n
    BY <1>1, <1>3, <2>1 DEF Unread, INT
  <2>5. Positions'
    BY <1>2, <1>4, <2>1, <2>u DEF Positions, Inv, RingPos, INT
  <2>6. WindowStored'
    BY <1>4, <2>1 DEF Inv, WindowStored
  <2>7. WordIsFresh'
    <3>1. BitsInCache' > 0 \/ Len(out') > 0 => BitsInCache > 0
      BY <1>1, <1>6, <2>1, <2>2
    <3> QED BY <2>1, <3>1 DEF Inv, WordIsFresh
  <2>8. ReadLeavesRoom' /\ NoAbort'
    <3>1. Len(out') = 2 => /\ Unread' < bufBits /\ Unread' < fed
                           /\ BitsInCache' < CacheBits
      BY <1>2, <1>1, <1>6, <2>1, <2>2, <2>u, SyncedFacts, Sizes
    <3> QED BY <1>4, <3>1 DEF ReadLeavesRoom, NoAbort, Inv
  <2> QED BY <2>u, <2>2, <2>4, <2>5, <2>6, <2>7, <2>8 DEF Inv
<1> QED BY <1>5, <1>6

LEMMA HuffmanPushBackStep == ASSUME Inv, HuffmanPushBack
                             PROVE  Inv' /\ Unread' = Unread + 1
<1>1. /\ BitsInCache \in 0 .. CacheBits /\ INT(bb.ValidBits) \in Int
      /\ Unread = INT(bb.ValidBits) + BitsInCache
  BY SignedInt DEF Inv, Type, FDK_BITBUF, Unread
<1>2. Len(out) = 2 /\ BitsInCache < CacheBits
  BY DEF HuffmanPushBack, Inv, ReadLeavesRoom
<1>3. /\ BitsInCache' = BitsInCache + 1
      /\ out' = <<>> /\ call'[1] = "move"
      /\ UNCHANGED <<bb, CacheWord, fed, packet, anchor, aborted>>
  BY <1>1, <1>2, Sizes DEF HuffmanPushBack, PushBackCache, Returns
<1>4. call' \in {"init", "feed", "read", "move", "align", "sync"} \X Int
  BY DEF HuffmanPushBack, PushBackCache, Returns
<1>5. Type'
  BY <1>1, <1>2, <1>3, <1>4, Sizes DEF Inv, Type
<1>u. Unread' = Unread + 1
  BY <1>1, <1>3 DEF Unread, INT
<1>6. Positions'
  <2>2. Unread + 1 \in -MaxAhead .. bufBits /\ Unread + 1 <= fed
    BY <1>2, SyncedFacts, Sizes DEF Inv, ReadLeavesRoom
  <2> QED BY <1>3, <1>u, <2>2, Sizes DEF Positions, Inv, RingPos, INT
<1>7. WindowStored'
  BY <1>3 DEF Inv, WindowStored
<1>8. WordIsFresh'
  BY <1>2, <1>3 DEF Inv, WordIsFresh
<1>9. ReadLeavesRoom' /\ NoAbort'
  BY <1>3 DEF ReadLeavesRoom, NoAbort, Inv
<1> QED BY <1>u, <1>5, <1>6, <1>7, <1>8, <1>9 DEF Inv

----------------------------------------------------------------------------
(* FDK_Feed.                                                                *)

(* What FDK_Feed takes is a whole number of bytes that fit behind the data. *)
LEMMA FeedFits ==
  ASSUME NEW b \in FDK_BITBUF, NEW offered \in Nat,
         INT(b.ValidBits) \in -Behind .. bufBits
  PROVE  LET k == FeedBytes(b, offered) IN
           /\ k \in 0 .. bufSize
           /\ k * ByteBits \in 0 .. bufBits
           /\ INT(b.ValidBits) + k * ByteBits \in -Behind .. bufBits
           /\ INT(b.ValidBits) <= INT(b.ValidBits) + k * ByteBits
           /\ (k * ByteBits) \div ByteBits = k
<1> DEFINE free == Smaller(bufBits, Larger(0, bufBits - INT(b.ValidBits)))
           k == FeedBytes(b, offered)
<1>1. free \in 0 .. bufBits /\ free + INT(b.ValidBits) <= bufBits
  BY Sizes DEF Smaller, Larger
<1>2. k = Smaller(free \div ByteBits, offered)
  BY DEF FeedBytes
<1> HIDE DEF free, k
<1>3. free \div ByteBits \in Nat /\ (free \div ByteBits) * ByteBits <= free
  BY <1>1, Sizes
<1>4. k \in Nat /\ k <= free \div ByteBits
  BY <1>2, <1>3 DEF Smaller
<1>5. k * ByteBits <= (free \div ByteBits) * ByteBits
  BY <1>3, <1>4, Sizes
<1>6. k * ByteBits \in 0 .. free
  BY <1>1, <1>3, <1>4, <1>5, Sizes
<1>7. k <= bufSize
  <2>1. k * ByteBits <= bufSize * ByteBits
    <3>1. bufBits = bufSize * ByteBits
      BY DEF bufBits
    <3>2. bufBits \in Nat
      BY Sizes
    <3> QED BY <1>1, <1>6, <3>1, <3>2
  <2>2. bufSize \in Nat /\ ByteBits \in Nat \ {0}
    BY Sizes
  <2>3. ASSUME k > bufSize PROVE FALSE
    <3>1. k >= bufSize + 1
      BY <1>4, <2>2, <2>3
    <3>2. k * ByteBits >= (bufSize + 1) * ByteBits
      BY <1>4, <2>2, <3>1
    <3> QED BY <1>4, <2>1, <2>2, <3>2
  <2> QED BY <1>4, <2>2, <2>3
<1>8. (k * ByteBits) \div ByteBits = k
  BY <1>4, Sizes
<1> QED BY <1>1, <1>4, <1>6, <1>7, <1>8, Sizes DEF k

(* The byte where the next feed writes stays where the data ends.           *)
LEMMA FeedOffset ==
  ASSUME NEW r \in 0 .. bufSize - 1, NEW k \in 0 .. bufSize, NEW f \in Nat,
         f % bufBits = r * ByteBits
  PROVE  /\ (r + k) % bufSize \in 0 .. bufSize - 1
         /\ (f + k * ByteBits) % bufBits = ((r + k) % bufSize) * ByteBits
<1>1. bufBits = bufSize * ByteBits
  BY DEF bufBits
<1>2. bufSize \in Nat \ {0} /\ ByteBits \in Nat \ {0} /\ bufBits \in Nat \ {0}
  BY Sizes
<1>3. r + k \in Int /\ r + k >= 0
  BY <1>2
<1> DEFINE kb == k * ByteBits
           rb == r * ByteBits
<1>4. kb \in Int /\ rb \in Int /\ rb + kb = (r + k) * ByteBits
  BY <1>2
<1>5. (f + kb) % bufBits = (rb + kb) % bufBits
  <2>1. f % bufBits = rb
    OBVIOUS
  <2> HIDE DEF kb, rb
  <2>2. f \in Int /\ kb \in Int
    BY <1>4
  <2>3. bufBits \in Nat \ {0}
    BY <1>2
  <2>4. ((f % bufBits) + kb) % bufBits = (f + kb) % bufBits
    BY <2>2, <2>3, ModPlus
  <2> QED BY <2>1, <2>4
<1>6. ASSUME NEW t \in 0 .. bufSize - 1
      PROVE  t * ByteBits \in 0 .. bufBits - 1
  <2>1. t * ByteBits \in Nat /\ (t + 1) * ByteBits <= bufSize * ByteBits
    BY <1>2
  <2>2. (t + 1) * ByteBits = t * ByteBits + ByteBits
    BY <1>2
  <2> QED BY <1>1, <1>2, <2>1, <2>2
<1>7. CASE r + k < bufSize
  <2> DEFINE t == r + k
  <2>1. t \in 0 .. bufSize - 1
    BY <1>3, <1>7, <1>2
  <2> HIDE DEF t
  <2>2. t % bufSize = t
    BY <1>2, <2>1, ModSmall
  <2> DEFINE tb == t * ByteBits
  <2>3. tb \in 0 .. bufBits - 1
    BY <1>6, <2>1
  <2> HIDE DEF tb
  <2>4. tb % bufBits = tb
    BY <1>2, <2>3, ModSmall
  <2> QED BY <1>4, <1>5, <2>1, <2>2, <2>4 DEF t, tb
<1>8. CASE r + k >= bufSize
  <2> DEFINE t == r + k - bufSize
  <2>1. t \in 0 .. bufSize - 1 /\ r + k = t + bufSize
    BY <1>2, <1>8
  <2> HIDE DEF t
  <2>i. t \in Int
    BY <1>2, <2>1
  <2>j. bufSize \in Nat \ {0}
    BY <1>2
  <2>2. (t + bufSize) % bufSize = t % bufSize
    BY <2>i, <2>j, ModOnce
  <2>3. t % bufSize = t
    BY <1>2, <2>1, ModSmall
  <2> DEFINE tb == t * ByteBits
  <2>4. tb \in 0 .. bufBits - 1
    BY <1>6, <2>1
  <2>5. (t + bufSize) * ByteBits = tb + bufBits
    BY <1>1, <1>2, <2>1
  <2> HIDE DEF tb
  <2>k. tb \in Int
    BY <1>2, <2>4
  <2>l. bufBits \in Nat \ {0}
    BY <1>2
  <2>6. (tb + bufBits) % bufBits = tb % bufBits
    BY <2>k, <2>l, ModOnce
  <2>7. tb % bufBits = tb
    BY <1>2, <2>4, ModSmall
  <2>8. (f + kb) % bufBits = tb
    BY <1>4, <1>5, <2>1, <2>5, <2>6, <2>7
  <2> QED BY <2>1, <2>2, <2>3, <2>8 DEF tb
<1> QED BY <1>2, <1>3, <1>7, <1>8

(* Every bit of the window is in its cell after the next n bits of the      *)
(* stream were written where the data ended.                                *)
LEMMA FeedStores ==
  ASSUME NEW buffer \in [Cells -> Int], NEW f \in Nat, NEW n \in 0 .. bufBits,
         NEW off \in Int, f % bufBits = off,
         \A q \in 0 .. f - 1 : q >= f - bufBits => buffer[q % bufBits] = q,
         NEW p \in 0 .. f + n - 1, p >= f + n - bufBits
  PROVE  LET at == (((p % bufBits) - off) % bufBits) + 1 IN
           /\ p % bufBits \in Cells
           /\ at <= n => at \in 1 .. n /\ f + at - 1 = p
           /\ ~(at <= n) => buffer[p % bufBits] = p
<1>1. bufBits \in Nat \ {0}
  BY Sizes
<1>2. p \in Nat /\ p >= f + n - bufBits /\ p < f + n
  BY <1>1
<1> DEFINE d == p - f
<1>3. d \in -bufBits .. bufBits - 1
  BY <1>1, <1>2
<1>4. p % bufBits \in 0 .. bufBits - 1
  BY <1>1, <1>2, ModRange
<1>5. ((p % bufBits) - off) % bufBits = d % bufBits
  <2> DEFINE y == (p % bufBits) - off
  <2>1. p \in Int /\ f \in Int
    BY <1>2
  <2>2. PICK i \in Int : p = i * bufBits + (p % bufBits)
    BY <1>1, <2>1, ModQuotient
  <2>3. PICK j \in Int : f = j * bufBits + off
    BY <1>1, <2>1, ModQuotient
  <2> DEFINE h == i - j
  <2>h. h \in Int /\ h * bufBits = i * bufBits - j * bufBits
    BY <1>1
  <2> DEFINE ib == i * bufBits
             jb == j * bufBits
             hb == h * bufBits
  <2>i. ib \in Int /\ jb \in Int /\ hb = ib - jb /\ p = ib + (p % bufBits) /\ f = jb + off
    BY <1>1, <2>2, <2>3, <2>h
  <2>4. h \in Int /\ y \in Int /\ d = y + h * bufBits
    <3>1. y \in Int /\ p % bufBits \in Int
      BY <1>1, <1>4
    <3>2. d = y + hb
      <4> HIDE DEF ib, jb, hb, h
      <4> QED BY <2>1, <2>i, <3>1
    <3> QED BY <2>h, <3>1, <3>2
  <2> HIDE DEF h, y, d
  <2>5. (y + h * bufBits) % bufBits = y % bufBits
    BY <1>1, <2>4, ModShift
  <2> QED BY <2>4, <2>5 DEF y
<1>6. CASE d >= 0
  <2>1. d \in 0 .. bufBits - 1
    BY <1>1, <1>3, <1>6
  <2> HIDE DEF d
  <2>2. d % bufBits = d
    BY <1>1, <2>1, ModSmall
  <2> QED BY <1>1, <1>2, <1>4, <1>5, <2>1, <2>2 DEF d, Cells
<1>7. CASE d < 0
  <2>1. d \in -bufBits .. -1 /\ d \in Int
    BY <1>1, <1>2, <1>3, <1>7
  <2>2. d + bufBits >= n
    BY <1>1, <1>2
  <2>3. buffer[p % bufBits] = p
    BY <1>1, <1>2, <1>7
  <2> HIDE DEF d
  <2>4. d % bufBits = d + bufBits
    BY <1>1, <2>1, ModSmall
  <2> QED BY <1>1, <1>4, <1>5, <2>1, <2>2, <2>3, <2>4 DEF Cells
<1> QED BY <1>3, <1>6, <1>7

LEMMA FeedStep == ASSUME Inv, NEW offered \in Nat, FeedBuffer(offered)
                  PROVE  /\ Inv'
                         /\ Unread' = Unread + FeedBytes(Synced, offered) * ByteBits
                         /\ fed' = fed + FeedBytes(Synced, offered) * ByteBits
<1> DEFINE k == FeedBytes(Synced, offered)
           n == k * ByteBits
           bits == [i \in 1 .. n |-> fed + i - 1]
<1>1. /\ bb' = Feed(Synced, bits) /\ fed' = fed + n /\ ~packet
      /\ CacheWord' = NoCache /\ BitsInCache' = 0
      /\ out' = <<>> /\ call' = <<"feed", offered>>
      /\ UNCHANGED <<packet, anchor, aborted>>
  BY DEF FeedBuffer, Returns, DropCache
<1>2. /\ Synced \in FDK_BITBUF /\ Aligned(Synced, fed)
      /\ INT(Synced.ValidBits) = Unread /\ Unread \in -MaxAhead .. bufBits
      /\ Synced.Buffer = bb.Buffer /\ Synced.ReadOffset = bb.ReadOffset
      /\ fed \in Nat
  BY SyncedFacts DEF Inv, Type
<1>3. /\ k \in 0 .. bufSize /\ n \in 0 .. bufBits
      /\ Unread + n \in -Behind .. bufBits /\ Unread <= Unread + n
      /\ n \div ByteBits = k
  BY <1>2, FeedFits DEF Aligned
<1> HIDE DEF k, n
<1>4. Len(bits) = n /\ \A i \in 1 .. n : bits[i] = fed + i - 1
  BY <1>2, <1>3, Sizes
<1> DEFINE at(c) == ((c - bb.ReadOffset * ByteBits) % bufBits) + 1
           cells == [c \in Cells |-> IF at(c) <= n THEN bits[at(c)] ELSE bb.Buffer[c]]
<1> HIDE DEF bits
<1>5. /\ bb'.Buffer = cells
      /\ bb'.ValidBits = UINT(Synced.ValidBits + n)
      /\ bb'.ReadOffset = (bb.ReadOffset + k) % bufSize
      /\ bb'.BitNdx = Synced.BitNdx
      /\ bb'.WriteOffset = Synced.WriteOffset
      /\ bb' = [ValidBits |-> bb'.ValidBits, ReadOffset |-> bb'.ReadOffset,
                WriteOffset |-> bb'.WriteOffset, BitNdx |-> bb'.BitNdx,
                Buffer |-> bb'.Buffer]
  BY <1>1, <1>2, <1>3, <1>4 DEF Feed, FDK_BITBUF
<1>6. /\ bb'.ValidBits \in 0 .. UintMod - 1
      /\ INT(bb'.ValidBits) = Unread + n
  <2>1. Synced.ValidBits \in 0 .. UintMod - 1 /\ n \in Int
    BY <1>2, <1>3, Sizes DEF FDK_BITBUF
  <2>2. INT(Synced.ValidBits) + n \in -Behind .. bufBits
    BY <1>2, <1>3
  <2> QED BY <1>2, <1>5, <2>1, <2>2, SignedSum
<1>7. bb'.Buffer \in [Cells -> Int]
  <2>1. ASSUME NEW c \in Cells PROVE cells[c] \in Int
    <3>1. c - bb.ReadOffset * ByteBits \in Int
      BY Sizes DEF Cells, Inv, Type, FDK_BITBUF
    <3>2. bufBits \in Nat \ {0}
      BY Sizes
    <3>3. at(c) \in Nat /\ at(c) >= 1
      <4> DEFINE x == c - bb.ReadOffset * ByteBits
      <4> HIDE DEF x
      <4>1. x % bufBits \in 0 .. bufBits - 1
        BY <3>1, <3>2, ModRange DEF x
      <4> QED BY <4>1, <3>2 DEF x
    <3> HIDE DEF at
    <3>4. bb.Buffer[c] \in Int
      BY DEF Inv, Type, FDK_BITBUF
    <3> QED BY <1>2, <1>3, <1>4, <3>3, <3>4, Sizes
  <2> HIDE DEF at
  <2> QED BY <1>5, <2>1
<1>8. bb' \in FDK_BITBUF
  <2>1. bb.ReadOffset \in 0 .. bufSize - 1
    BY DEF Inv, Type, FDK_BITBUF
  <2>2. (bb.ReadOffset + k) % bufSize \in 0 .. bufSize - 1
    <3>1. bb.ReadOffset + k \in Int
      BY <1>3, <2>1, Sizes
    <3>2. bufSize \in Nat \ {0}
      BY Sizes
    <3> QED BY <3>1, <3>2, ModRange
  <2> HIDE DEF cells
  <2> QED BY <1>2, <1>5, <1>6, <1>7, <2>2 DEF FDK_BITBUF
<1>9. Type'
  <2>1. fed' \in Nat
    BY <1>1, <1>2, <1>3, Sizes
  <2>2. CacheWord' \in [1 .. CacheBits -> Int] /\ BitsInCache' \in 0 .. CacheBits
    BY <1>1, Sizes DEF NoCache, Junk
  <2> QED BY <1>1, <1>8, <2>1, <2>2 DEF Inv, Type
<1>u. Unread' = Unread + n
  BY <1>1, <1>2, <1>3, <1>6 DEF Unread, INT
<1>10. Positions'
  <2>2. RingPos' = fed - INT(Synced.ValidBits)
    BY <1>1, <1>2, <1>3, <1>6 DEF RingPos, INT
  <2>3. bb'.BitNdx = RingPos' % bufBits
    BY <1>2, <1>5, <2>2 DEF Aligned
  <2>4. fed' % bufBits = bb'.ReadOffset * ByteBits
    <3>1. fed % bufBits = bb.ReadOffset * ByteBits
      BY <1>1 DEF Inv, Positions
    <3>2. bb.ReadOffset \in 0 .. bufSize - 1
      BY DEF Inv, Type, FDK_BITBUF
    <3> QED BY <1>1, <1>2, <1>3, <1>5, <3>1, <3>2, FeedOffset DEF n
  <2>5. Unread + n \in -MaxAhead .. bufBits /\ Unread + n <= fed'
    BY <1>1, <1>2, <1>3, Sizes, SyncedFacts
  <2>6. INT(bb.ValidBits)' = Unread + n
    BY <1>6 DEF INT
  <2> QED BY <1>3, <1>u, <2>3, <2>4, <2>5, <2>6 DEF Positions, Behind
<1>11. ASSUME NEW p \in 0 .. fed + n - 1, p >= fed + n - bufBits
       PROVE  bb'.Buffer[p % bufBits] = p
  <2> DEFINE off == bb.ReadOffset * ByteBits
             c == p % bufBits
             a == ((c - off) % bufBits) + 1
  <2>2. /\ bb.Buffer \in [Cells -> Int] /\ off \in Int /\ fed % bufBits = off
        /\ \A q \in 0 .. fed - 1 : q >= fed - bufBits => bb.Buffer[q % bufBits] = q
    <3>1. bb \in FDK_BITBUF /\ ~packet
      BY <1>1 DEF Inv, Type
    <3>2. bb.Buffer \in [Cells -> Int] /\ bb.ReadOffset \in Int
      BY <3>1, Sizes DEF FDK_BITBUF
    <3> QED BY <3>1, <3>2, Sizes DEF Inv, Positions, WindowStored
  <2>3. /\ c \in Cells
        /\ a <= n => a \in 1 .. n /\ fed + a - 1 = p
        /\ ~(a <= n) => bb.Buffer[c] = p
    <3> HIDE DEF off
    <3>1. p \in 0 .. fed + n - 1 /\ p >= fed + n - bufBits
      BY <1>11
    <3> QED BY <1>2, <1>3, <2>2, <3>1, FeedStores
  <2>4. at(c) = a
    OBVIOUS
  <2> HIDE DEF a, c, at
  <2> QED BY <1>4, <1>5, <2>3, <2>4 DEF c
<1>12. WindowStored'
  <2>1. fed' = fed + n
    BY <1>1
  <2>t. fed \in Int /\ n \in Int /\ bufBits \in Int
    BY <1>2, <1>3, Sizes
  <2>2. fed' - 1 = fed + n - 1 /\ fed' - bufBits = fed + n - bufBits
    BY <2>1, <2>t
  <2> HIDE DEF cells
  <2> QED BY <2>2, <1>11 DEF WindowStored
<1>13. WordIsFresh' /\ ReadLeavesRoom' /\ NoAbort'
  BY <1>1 DEF Inv, WordIsFresh, ReadLeavesRoom, NoAbort
<1> QED BY <1>1, <1>u, <1>9, <1>10, <1>12, <1>13 DEF Inv, n, k

----------------------------------------------------------------------------
(* The invariant and what follows from it.                                  *)

LEMMA FilledFacts ==
  ASSUME NEW v \in 0 .. bufBits
  PROVE  /\ InitBitBuffer(Filled(v), v) \in FDK_BITBUF
         /\ INT(v) = v
         /\ \A p \in 0 .. v - 1 : Filled(v)[p % bufBits] = p
<1>1. v \in 0 .. UintMod - 1 /\ v < UintMod \div 2 /\ v \in Int
  BY Sizes DEF Behind
<1>2. INT(v) = v
  BY <1>1, Sizes DEF INT
<1>3. Filled(v) \in [Cells -> Int]
  BY Sizes DEF Filled, Cells, Junk
<1>4. InitBitBuffer(Filled(v), v) \in FDK_BITBUF
  BY <1>1, <1>3, Sizes DEF InitBitBuffer, FDK_BITBUF, Cells
<1>5. ASSUME NEW p \in 0 .. v - 1 PROVE Filled(v)[p % bufBits] = p
  <2>1. p \in 0 .. bufBits - 1 /\ p \in Int
    BY <1>1, Sizes
  <2>2. bufBits \in Nat \ {0}
    BY Sizes
  <2>3. p % bufBits = p
    BY <2>1, <2>2, ModSmall
  <2> QED BY <1>1, <2>1, <2>3 DEF Filled, Cells
<1> QED BY <1>2, <1>4, <1>5

LEMMA InitInv == Init => Inv
<1> SUFFICES ASSUME Init PROVE Inv
  OBVIOUS
<1>1. PICK v \in 0 .. bufBits :
        /\ bb = InitBitBuffer(Filled(v), v)
        /\ CacheWord = NoCache /\ BitsInCache = 0
        /\ fed = v /\ call = <<"init", v>> /\ out = <<>>
        /\ packet = (v > 0) /\ anchor = v /\ aborted = FALSE
  BY DEF Init
<1>2. v \in Nat /\ bb \in FDK_BITBUF /\ INT(v) = v
  BY <1>1, FilledFacts, Sizes
<1>3. Type
  <2>1. packet \in BOOLEAN
    <3>1. (v > 0) \in BOOLEAN
      OBVIOUS
    <3>2. packet = (v > 0)
      BY <1>1
    <3> QED BY <3>1, <3>2
  <2>2. CacheWord \in [1 .. CacheBits -> Int] /\ BitsInCache \in 0 .. CacheBits
    BY <1>1, Sizes DEF NoCache, Junk
  <2>3. fed \in Nat /\ anchor \in Int /\ aborted \in BOOLEAN /\ out \in Seq(Int)
    <3>1. fed = v /\ anchor = v /\ out = <<>> /\ aborted = FALSE
      BY <1>1
    <3>2. fed \in Nat /\ anchor \in Int /\ out \in Seq(Int)
      BY <1>2, <3>1
    <3>3. aborted \in BOOLEAN
      BY <3>1
    <3> QED BY <3>2, <3>3
  <2>4. call \in {"init", "feed", "read", "move", "align", "sync"} \X Int
    BY <1>1, <1>2
  <2> QED BY <1>2, <2>1, <2>2, <2>3, <2>4 DEF Type
<1>4. /\ bb.ValidBits = v /\ bb.BitNdx = 0 /\ bb.ReadOffset = 0
      /\ bb.Buffer = Filled(v)
  BY <1>1 DEF InitBitBuffer
<1>5. Positions
  <2>1. Unread = v /\ RingPos = 0
    BY <1>1, <1>2, <1>4 DEF Unread, RingPos
  <2>2. 0 % bufBits = 0
    <3>1. 0 \in 0 .. bufBits - 1 /\ bufBits \in Nat \ {0}
      BY Sizes
    <3> QED BY <3>1, ModSmall
  <2>3. ~packet => fed % bufBits = bb.ReadOffset * ByteBits
    <3>1. ~packet => ~(v > 0)
      BY <1>1, Zenon
    <3>2. ~(v > 0) => fed = 0
      BY <1>1, <1>2
    <3> QED BY <1>4, <2>2, <3>1, <3>2, Sizes
  <2> QED BY <1>1, <1>2, <1>4, <2>1, <2>2, <2>3, Sizes DEF Positions
<1>6. WindowStored
  BY <1>1, <1>4, FilledFacts DEF WindowStored
<1>7. WordIsFresh /\ ReadLeavesRoom /\ NoAbort
  BY <1>1 DEF WordIsFresh, ReadLeavesRoom, NoAbort
<1> QED BY <1>3, <1>5, <1>6, <1>7 DEF Inv

LEMMA InitBitStreamStep ==
  ASSUME Inv, NEW v \in 0 .. bufBits, InitBitStream(v)
  PROVE  Inv' /\ Unread' = v
<1>1. /\ bb' = InitBitBuffer(Filled(v), v)
      /\ CacheWord' = NoCache /\ BitsInCache' = 0
      /\ fed' = v /\ call' = <<"init", v>> /\ out' = <<>>
      /\ packet' = (v > 0) /\ anchor' = v /\ aborted' = aborted
  BY DEF InitBitStream, Returns
<1>2. v \in Nat /\ bb' \in FDK_BITBUF /\ INT(v) = v
  BY <1>1, FilledFacts, Sizes
<1>3. Type'
  <2>1. packet' \in BOOLEAN
    <3>1. (v > 0) \in BOOLEAN
      OBVIOUS
    <3>2. packet' = (v > 0)
      BY <1>1
    <3> QED BY <3>1, <3>2
  <2> QED BY <1>1, <1>2, <2>1, Sizes DEF Type, NoCache, Junk, Inv
<1>4. /\ bb'.ValidBits = v /\ bb'.BitNdx = 0 /\ bb'.ReadOffset = 0
      /\ bb'.Buffer = Filled(v)
  BY <1>1 DEF InitBitBuffer
<1>u. Unread' = v /\ RingPos' = 0 /\ INT(bb.ValidBits)' = v
  BY <1>1, <1>2, <1>4 DEF Unread, RingPos, INT
<1>5. Positions'
  <2>2. 0 % bufBits = 0
    <3>1. 0 \in 0 .. bufBits - 1 /\ bufBits \in Nat \ {0}
      BY Sizes
    <3> QED BY <3>1, ModSmall
  <2>3. ~packet' => fed' % bufBits = bb'.ReadOffset * ByteBits
    <3>1. ~packet' => ~(v > 0)
      BY <1>1, Zenon
    <3>2. ~(v > 0) => fed' = 0
      BY <1>1, <1>2
    <3> QED BY <1>4, <2>2, <3>1, <3>2, Sizes
  <2>4. Unread' <= fed'
    BY <1>1, <1>2, <1>u
  <2> QED BY <1>2, <1>4, <1>u, <2>2, <2>3, <2>4, Sizes DEF Positions
<1>6. WindowStored'
  BY <1>1, <1>4, FilledFacts DEF WindowStored
<1>7. WordIsFresh' /\ ReadLeavesRoom' /\ NoAbort'
  BY <1>1 DEF WordIsFresh, ReadLeavesRoom, NoAbort, Inv
<1> QED BY <1>u, <1>3, <1>5, <1>6, <1>7 DEF Inv

LEMMA NextInv == Inv /\ [Next]_vars => Inv'
<1> SUFFICES ASSUME Inv, [Next]_vars PROVE Inv'
  OBVIOUS
<1>1. ASSUME NEW v \in 0 .. bufBits, InitBitStream(v) PROVE Inv'
  BY <1>1, InitBitStreamStep
<1>2. CASE SyncCache \/ GetValidBits
  BY <1>2, SyncStep
<1>3. ASSUME NEW offered \in 0 .. bufSize, FeedBuffer(offered) PROVE Inv'
  <2>1. offered \in Nat
    BY Sizes
  <2> QED BY <1>3, <2>1, FeedStep
<1>4. ASSUME NEW n \in 0 .. CacheBits, ReadBits(n) PROVE Inv'
  BY <1>4, ReadBitsStep
<1>5. CASE HuffmanPushBack
  BY <1>5, HuffmanPushBackStep
<1>6. ASSUME NEW n \in -bufBits .. bufBits, PushBiDirectional(n) PROVE Inv'
  <2>1. CASE n >= 0
    <3>1. n \in Nat /\ PushFor(n)
      BY <1>6, <2>1, Sizes DEF PushBiDirectional
    <3> QED BY <3>1, PushForStep
  <2>2. CASE ~(n >= 0)
    <3>1. -n \in Nat /\ PushBack(-n)
      BY <1>6, <2>2, Sizes DEF PushBiDirectional
    <3> QED BY <3>1, PushBackStep
  <2> QED BY <2>1, <2>2
<1>7. CASE ByteAlign
  BY <1>7, ByteAlignStep
<1>8. CASE UNCHANGED vars
  BY <1>8 DEF vars, Inv, Type, Positions, WindowStored, WordIsFresh,
              ReadLeavesRoom, NoAbort, Unread, RingPos, INT
<1> QED BY <1>1, <1>2, <1>3, <1>4, <1>5, <1>6, <1>7, <1>8 DEF Next

(* The invariant holds for every ring, cache and counter size.              *)
THEOREM ReaderInvariant == Spec => []Inv
<1> QED BY InitInv, NextInv, PTL DEF Spec

(* The counters, the ring and the cache word stay in their ranges.          *)
THEOREM TypeCorrect == Spec => []Type
<1>1. Inv => Type
  BY DEF Inv
<1> QED BY <1>1, ReaderInvariant, PTL

(* The remainder modulo a divisor of the modulus                            *)
LEMMA ModOfMod ==
  ASSUME NEW m \in Nat \ {0}, NEW k \in Nat \ {0}, NEW x \in Int
  PROVE  (x % (k * m)) % m = x % m
<1>1. k * m \in Nat \ {0}
  OBVIOUS
<1>2. PICK q \in Int : x = q * (k * m) + (x % (k * m))
  BY <1>1, ModQuotient
<1> DEFINE y == x % (k * m)
           j == q * k
<1>3. y \in Int
  BY <1>1, ModRange
<1>4. j \in Int /\ x = y + j * m
  <2>1. q * (k * m) = (q * k) * m
    OBVIOUS
  <2> HIDE DEF y
  <2> QED BY <1>2, <1>3, <2>1 DEF y
<1> HIDE DEF y, j
<1>5. (y + j * m) % m = y % m
  BY <1>3, <1>4, ModShift
<1> QED BY <1>4, <1>5 DEF y

(* A UINT counts a whole number of bytes before it wraps.                   *)
LEMMA ModulusIsBytes == \E k \in Nat \ {0} : UintMod = k * ByteBits
<1> DEFINE r == UintMod % ByteBits
<1>1. UintMod \in Nat \ {0} /\ ByteBits \in Nat \ {0}
  BY Sizes
<1>2. r = 0
  BY BitBufferAssumption
<1>3. PICK q \in Int : UintMod = q * ByteBits + r
  <2>1. UintMod \in Int
    BY <1>1
  <2> QED BY <1>1, <2>1, ModQuotient
<1> HIDE DEF r
<1>4. UintMod = q * ByteBits
  <2>1. q * ByteBits \in Int
    BY <1>1
  <2> QED BY <1>2, <1>3, <2>1
<1>5. q > 0
  <2>1. CASE q <= 0
    <3>1. q * ByteBits <= 0
      BY <1>1, <2>1, Z3
    <3> QED BY <1>1, <1>4, <3>1
  <2> QED BY <2>1
<1> QED BY <1>4, <1>5

(* The skip fills up to a whole number of bytes.                            *)
LEMMA SkipAligns ==
  ASSUME NEW a \in Int, NEW v \in Int
  PROVE  (a - v + Skip(a, v)) % ByteBits = 0
<1>1. PICK k \in Nat \ {0} : UintMod = k * ByteBits
  BY ModulusIsBytes
<1> DEFINE x == a - v
           r == x % ByteBits
           s == Skip(a, v)
<1>2. x \in Int /\ r \in 0 .. ByteBits - 1
  BY Sizes, ModRange
<1>3. s = (ByteBits - r) % ByteBits
  <2>1. UINT(x) % ByteBits = x % ByteBits
    <3> HIDE DEF x
    <3>1. (x % (k * ByteBits)) % ByteBits = x % ByteBits
      BY <1>2, Sizes, ModOfMod
    <3> QED BY <1>1, <3>1 DEF UINT
  <2> QED BY <2>1 DEF Skip
<1>4. PICK q \in Int : x = q * ByteBits + r
  BY <1>2, Sizes, ModQuotient
<1> HIDE DEF x, r, s
<1>5. CASE r = 0
  <2>1. s = 0
    <3>1. ByteBits - r = 0 + 1 * ByteBits
      BY <1>5, Sizes
    <3>2. (0 + 1 * ByteBits) % ByteBits = 0 % ByteBits
      BY Sizes, ModShift
    <3>3. 0 % ByteBits = 0
      BY Sizes, ModSmall
    <3> QED BY <1>3, <3>1, <3>2, <3>3
  <2>2. x + s = q * ByteBits + 0
    BY <1>2, <1>4, <1>5, <2>1, Sizes
  <2>3. (q * ByteBits + 0) % ByteBits = 0
    BY Sizes, ModUnique
  <2> QED BY <2>2, <2>3 DEF x, s
<1>6. CASE r # 0
  <2>1. ByteBits - r \in 0 .. ByteBits - 1
    BY <1>2, <1>6, Sizes
  <2>2. s = ByteBits - r
    BY <1>3, <2>1, Sizes, ModSmall
  <2> DEFINE n == q + 1
  <2>3. n \in Int /\ x + s = n * ByteBits + 0
    BY <1>2, <1>4, <2>2, Sizes
  <2> HIDE DEF n
  <2>4. (n * ByteBits + 0) % ByteBits = 0
    BY <2>3, Sizes, ModUnique
  <2> QED BY <2>3, <2>4 DEF x, s
<1> QED BY <1>5, <1>6

LEMMA AlignStep ==
  ASSUME Inv, ByteAlign
  PROVE  /\ (pos' - (fed - anchor)) % ByteBits = 0
         /\ pos' - pos \in 0 .. ByteBits - 1
<1> DEFINE v == Synced.ValidBits
           d == Skip(anchor, v)
<1>1. /\ anchor \in Int /\ v \in 0 .. UintMod - 1 /\ fed \in Nat /\ fed' = fed
      /\ INT(v) = Unread /\ Unread \in Int
  <2>1. Synced \in FDK_BITBUF /\ INT(Synced.ValidBits) = Unread /\ fed \in Nat
    BY SyncedFacts
  <2>2. v \in 0 .. UintMod - 1
    BY <2>1 DEF FDK_BITBUF
  <2>3. anchor \in Int /\ fed' = fed
    BY DEF Inv, Type, ByteAlign
  <2>4. Unread \in Int
    BY SyncedFacts, Sizes
  <2> QED BY <2>1, <2>2, <2>3, <2>4
<1>2. Inv' /\ Unread - Unread' = d /\ Unread - Unread' \in 0 .. ByteBits - 1
  BY ByteAlignStep
<1>3. d \in Int
  <2> HIDE DEF v
  <2>1. v \in Int
    BY <1>1, Sizes
  <2>2. d \in 0 .. ByteBits - 1
    BY <1>1, <2>1, SkipLessThanByte
  <2> QED BY <2>2, Sizes
<1> HIDE DEF v, d
<1>4. (anchor - v + d) % ByteBits = 0
  BY <1>1, Sizes, SkipAligns DEF d
<1>5. PICK k \in Int : UintMod = k * ByteBits
  BY ModulusIsBytes
<1>6. PICK j \in Int : v = Unread + j * ByteBits
  <2>1. v = Unread \/ v = Unread + UintMod
    BY <1>1, Sizes DEF INT
  <2>2. v = Unread => v = Unread + 0 * ByteBits
    BY <1>1, Sizes
  <2> QED BY <1>5, <2>1, <2>2
<1> DEFINE w == anchor - v + d
<1>7. w \in Int /\ anchor - Unread + d = w + j * ByteBits
  <2>1. j * ByteBits \in Int
    BY Sizes
  <2> QED BY <1>1, <1>3, <1>6, <2>1, Sizes
<1> HIDE DEF w
<1>8. (w + j * ByteBits) % ByteBits = 0
  BY <1>4, <1>7, Sizes, ModShift DEF w
<1>9. Unread' = Unread - d
  <2>1. Unread' \in Int
    BY <1>2, SyncedFacts DEF Inv, Positions
  <2> DEFINE u == Unread
             t == Unread'
  <2>2. u \in Int /\ t \in Int /\ u - t = d
    BY <1>1, <1>2, <2>1
  <2> HIDE DEF u, t
  <2>3. t = u - d
    BY <1>3, <2>2
  <2> QED BY <2>3 DEF u, t
<1>10. pos' - (fed - anchor) = anchor - Unread + d /\ pos' - pos = d
  BY <1>1, <1>3, <1>9 DEF pos
<1> QED BY <1>2, <1>7, <1>8, <1>10

(* FDKbyteAlign ends at a whole number of bytes from the anchor and skips   *)
(* less than a byte, wherever in the ring and the cache the reader stands   *)
(* and whatever has been fed since the anchor was taken.                    *)
THEOREM AlignedFromAnchorTheorem == Spec => AlignedFromAnchor
<1>1. Inv => [ByteAlign => /\ (pos' - (fed - anchor)) % ByteBits = 0
                           /\ pos' - pos \in 0 .. ByteBits - 1]_vars
  BY AlignStep
<1> QED BY <1>1, ReaderInvariant, PTL DEF AlignedFromAnchor

(* No byte that still can be read is overwritten by a feed.                 *)
THEOREM UnreadBitsStoredTheorem == Spec => []UnreadBitsStored
<1>1. Inv => UnreadBitsStored
  <2> SUFFICES ASSUME Inv, NEW p \in Larger(pos, 0) .. fed - 1
               PROVE  bb.Buffer[p % bufBits] = p
    BY DEF UnreadBitsStored
  <2>1. fed \in Nat /\ Unread \in Int /\ Unread <= bufBits
    BY SyncedFacts, Sizes DEF Inv, Type
  <2>2. p \in 0 .. fed - 1 /\ p >= fed - bufBits
    BY <2>1, Sizes DEF pos, Larger
  <2> QED BY <2>2 DEF Inv, WindowStored
<1> QED BY <1>1, ReaderInvariant, PTL

(* What is left in the cache is what the ring holds now.                    *)
THEOREM CacheIsFreshTheorem == Spec => []CacheIsFresh
<1>1. Inv => CacheIsFresh
  BY Sizes DEF Inv, Type, WordIsFresh, CacheIsFresh
<1> QED BY <1>1, ReaderInvariant, PTL

(* Giving back the last bit of a Huffman codeword always finds it in the    *)
(* cache.                                                                   *)
THEOREM NoAbortTheorem == Spec => []NoAbort
<1>1. Inv => NoAbort
  BY DEF Inv
<1> QED BY <1>1, ReaderInvariant, PTL

----------------------------------------------------------------------------
(* The reader implements BitFifo.                                           *)

(* The cell j bits behind BitNdx is the cell of the stream's bit j bits     *)
(* behind the position of the ring, and holds it if that has arrived.       *)
LEMMA CellHolds ==
  ASSUME Inv, NEW j \in Int, NEW q \in Int, q = RingPos + j, pos <= q, q < fed
  PROVE  bb.Buffer[(bb.BitNdx + j) % bufBits] = q
<1>1. fed \in Nat /\ Unread \in Int /\ Unread <= bufBits /\ Unread <= fed
  BY SyncedFacts, Sizes
<1>2. q \in 0 .. fed - 1 /\ q >= fed - bufBits
  BY <1>1, Sizes DEF pos
<1>3. RingPos \in Int
  BY <1>1, SignedInt DEF RingPos, Inv, Type, FDK_BITBUF
<1>4. bb.BitNdx = RingPos % bufBits
  BY DEF Inv, Positions
<1>5. bufBits \in Nat \ {0}
  BY Sizes
<1> DEFINE x == RingPos
<1>6. x \in Int /\ q = x + j /\ bb.BitNdx = x % bufBits
  BY <1>3, <1>4
<1> HIDE DEF x
<1>7. ((x % bufBits) + j) % bufBits = (x + j) % bufBits
  BY <1>5, <1>6, ModPlus
<1> QED BY <1>2, <1>6, <1>7 DEF Inv, WindowStored

LEMMA ReadDelivers ==
  ASSUME Inv, NEW n \in 0 .. CacheBits, ReadBits(n),
         NEW i \in 1 .. n, pos + i - 1 < fed
  PROVE  out'[i] = pos + i - 1
<1>1. /\ bb \in FDK_BITBUF /\ CacheWord \in [1 .. CacheBits -> Int]
      /\ BitsInCache \in 0 .. CacheBits /\ fed \in Nat /\ n \in Nat
  BY Sizes DEF Inv, Type
<1>2. INT(bb.ValidBits) \in Int
  BY <1>1, SignedInt DEF FDK_BITBUF
<1>3. pos \in Int /\ RingPos \in Int /\ RingPos = pos + BitsInCache
  BY <1>1, <1>2 DEF pos, Unread, RingPos
<1> DEFINE q == pos + i - 1
<1>4. q \in Int /\ pos <= q /\ q < fed
  BY <1>3
<1>5. CASE i <= BitsInCache
  <2> DEFINE k == BitsInCache - i + 1
  <2>1. k \in 1 .. CacheBits /\ q = RingPos + (-k) /\ -k \in Int
    BY <1>1, <1>3, <1>5, Sizes
  <2>2. out'[i] = Low(CacheWord, BitsInCache)[i]
    <3>1. Low(CacheWord, BitsInCache) \in Seq(Int) /\ Len(Low(CacheWord, BitsInCache)) = BitsInCache
      BY <1>1, LowFacts
    <3>2. CASE n > BitsInCache
      <4> DEFINE a == Low(CacheWord, BitsInCache)
                 b == SubSeq(PeekBits(bb, CacheBits), 1, n - BitsInCache)
      <4>1. out' = a \o b
        BY <3>2 DEF ReadBits, Returns
      <4>2. b \in Seq(Int)
        <5>1. PeekBits(bb, CacheBits) \in Seq(Int) /\ Len(PeekBits(bb, CacheBits)) = CacheBits
          BY <1>1, PeekFacts, Sizes
        <5> QED BY <1>1, <3>2, <5>1, Sizes
      <4>3. a \in Seq(Int) /\ i \in 1 .. Len(a)
        BY <1>1, <1>5, <3>1
      <4> HIDE DEF a, b
      <4>4. (a \o b)[i] = a[i]
        BY <4>2, <4>3
      <4> QED BY <4>1, <4>4 DEF a
    <3>3. CASE ~(n > BitsInCache)
      <4>1. out' = SubSeq(Low(CacheWord, BitsInCache), 1, n)
        BY <3>3 DEF ReadBits, Returns
      <4> QED BY <1>1, <3>1, <3>3, <4>1
    <3> QED BY <3>2, <3>3
  <2>3. Low(CacheWord, BitsInCache)[i] = CacheWord[CacheBits - k + 1]
    <3>1. CacheBits - BitsInCache + i = CacheBits - k + 1
      BY <1>1, Sizes
    <3>2. i \in 1 .. BitsInCache
      BY <1>1, <1>5
    <3>3. Low(CacheWord, BitsInCache)[i] = CacheWord[CacheBits - BitsInCache + i]
      BY <1>1, <3>2, LowFacts
    <3> QED BY <3>1, <3>3
  <2>4. CacheWord[CacheBits - k + 1] = bb.Buffer[(bb.BitNdx - k) % bufBits]
    BY <1>1, <1>5, <2>1 DEF Inv, WordIsFresh
  <2>5. bb.BitNdx - k = bb.BitNdx + (-k)
    BY <1>1, <2>1, Sizes DEF FDK_BITBUF, Cells
  <2> HIDE DEF q, k
  <2>6. bb.Buffer[(bb.BitNdx + (-k)) % bufBits] = q
    BY <1>4, <2>1, CellHolds
  <2> QED BY <2>2, <2>3, <2>4, <2>5, <2>6 DEF q
<1>6. CASE i > BitsInCache
  <2> DEFINE j == i - BitsInCache
             word == PeekBits(bb, CacheBits)
  <2>1. /\ n > BitsInCache /\ j \in 1 .. n - BitsInCache /\ j \in 1 .. CacheBits
        /\ q = RingPos + (j - 1) /\ j - 1 \in Int
    BY <1>1, <1>3, <1>6, Sizes
  <2>2. out' = Low(CacheWord, BitsInCache) \o SubSeq(word, 1, n - BitsInCache)
    BY <2>1 DEF ReadBits, Returns
  <2>3. out'[i] = word[j]
    <3> DEFINE a == Low(CacheWord, BitsInCache)
               b == SubSeq(word, 1, n - BitsInCache)
    <3>1. a \in Seq(Int) /\ Len(a) = BitsInCache
      BY <1>1, LowFacts
    <3>2. word \in Seq(Int) /\ Len(word) = CacheBits
      BY <1>1, PeekFacts, Sizes
    <3>3. b \in Seq(Int) /\ Len(b) = n - BitsInCache /\ b[j] = word[j]
      BY <1>1, <2>1, <3>2, Sizes
    <3> HIDE DEF a, b, word
    <3>4. i \in 1 .. Len(a) + Len(b) /\ ~(i <= Len(a))
      BY <1>1, <1>6, <2>1, <3>1, <3>3
    <3>5. (a \o b)[i] = b[i - Len(a)]
      BY <3>1, <3>3, <3>4, ConcatProperties
    <3> QED BY <2>2, <3>1, <3>3, <3>5 DEF a, b
  <2>4. word[j] = bb.Buffer[(bb.BitNdx + j - 1) % bufBits]
    BY <1>1, <2>1, PeekFacts
  <2>5. bb.BitNdx + j - 1 = bb.BitNdx + (j - 1)
    BY <1>1, <2>1, Sizes DEF FDK_BITBUF, Cells
  <2> HIDE DEF q, j
  <2>6. bb.Buffer[(bb.BitNdx + (j - 1)) % bufBits] = q
    BY <1>4, <2>1, CellHolds
  <2> QED BY <2>3, <2>4, <2>5, <2>6 DEF q
<1> QED BY <1>1, <1>5, <1>6

LEMMA PositionFacts == Inv => pos \in Int /\ Unread \in Int /\ fed \in Nat /\ pos = fed - Unread
BY SyncedFacts, Sizes DEF pos

(* What FDK_Feed takes is what BitFifo has room for.                        *)
LEMMA FeedIsRoom ==
  ASSUME Inv, NEW offered \in Nat
  PROVE  FeedBytes(Synced, offered)
           = IF offered <= Fifo!Room THEN offered ELSE Fifo!Room
<1>1. Unread \in Int /\ Unread <= bufBits /\ INT(Synced.ValidBits) = Unread
  BY SyncedFacts, Sizes
<1>2. bufBits \in Nat \ {0} /\ ByteBits \in Nat \ {0}
  BY Sizes
<1> DEFINE free == IF Unread <= 0 THEN bufBits ELSE bufBits - Unread
<1>3. Smaller(bufBits, Larger(0, bufBits - Unread)) = free
  BY <1>1, <1>2 DEF Smaller, Larger
<1>4. Fifo!Unread = Unread
  BY PositionFacts DEF Fifo!Unread
<1>5. Fifo!Room = free \div ByteBits
  BY <1>4 DEF Fifo!Room
<1>6. FeedBytes(Synced, offered) = Smaller(free \div ByteBits, offered)
  BY <1>1, <1>3 DEF FeedBytes
<1>7. free \in Nat
  BY <1>1, <1>2
<1> HIDE DEF free
<1>8. free \div ByteBits \in Nat
  BY <1>2, <1>7
<1> QED BY <1>5, <1>6, <1>8 DEF Smaller

LEMMA StepRefines == Inv /\ [Next]_vars => [Fifo!Next]_Fifo!vars
<1> SUFFICES ASSUME Inv, [Next]_vars PROVE [Fifo!Next]_Fifo!vars
  OBVIOUS
<1>0. /\ Inv' /\ pos \in Int /\ pos' \in Int /\ Unread \in Int /\ Unread' \in Int
      /\ fed \in Nat /\ pos = fed - Unread /\ pos' = fed' - Unread' /\ fed' \in Nat
  <2>1. Inv'
    BY NextInv
  <2>2. (pos \in Int /\ Unread \in Int /\ fed \in Nat /\ pos = fed - Unread)'
    BY <2>1, PositionFacts, PTL
  <2> QED BY <2>1, <2>2, PositionFacts
<1>1. ASSUME NEW v \in 0 .. bufBits, InitBitStream(v) PROVE Fifo!Restart
  <2>1. Unread' = v /\ fed' = v /\ call' = <<"init", v>> /\ out' = <<>>
    BY <1>1, InitBitStreamStep DEF InitBitStream, Returns
  <2> QED BY <1>0, <2>1 DEF Fifo!Restart
<1>2. ASSUME SyncCache \/ GetValidBits PROVE Fifo!Sync
  <2>1. Unread' = Unread /\ fed' = fed /\ call' = <<"sync", 0>> /\ out' = <<>>
    BY <1>2, SyncStep DEF SyncCache, GetValidBits, Returns
  <2> QED BY <1>0, <2>1 DEF Fifo!Sync
<1>3. ASSUME NEW offered \in 0 .. bufSize, FeedBuffer(offered) PROVE Fifo!Feed
  <2> DEFINE k == FeedBytes(Synced, offered)
  <2>1. offered \in Nat
    BY Sizes
  <2>2. /\ Unread' = Unread + k * ByteBits /\ fed' = fed + k * ByteBits
        /\ call' = <<"feed", offered>> /\ out' = <<>>
    BY <1>3, <2>1, FeedStep DEF FeedBuffer, Returns
  <2>3. k = IF offered <= Fifo!Room THEN offered ELSE Fifo!Room
    BY <2>1, FeedIsRoom
  <2>4. k \in Int /\ k * ByteBits = ByteBits * k /\ k * ByteBits \in Int
    BY SyncedFacts, FeedFits, <2>1, Sizes DEF Aligned
  <2>5. pos' = pos
    <3> DEFINE kb == k * ByteBits
    <3>1. kb \in Int /\ Unread' = Unread + kb /\ fed' = fed + kb
      BY <2>2, <2>4
    <3> HIDE DEF kb
    <3> QED BY <1>0, <3>1
  <2> HIDE DEF k
  <2> QED BY <2>2, <2>3, <2>4, <2>5 DEF Fifo!Feed
<1>4. ASSUME NEW n \in 0 .. CacheBits, ReadBits(n) PROVE Fifo!Read
  <2>1. /\ Len(out') = n /\ Unread' = Unread - n /\ fed' = fed
        /\ call' = <<"read", n>>
    BY <1>4, ReadBitsStep DEF ReadBits, Returns
  <2>2. pos' = pos + Len(out')
    BY <1>0, <2>1, Sizes
  <2>3. \A i \in 1 .. n : pos + i - 1 < fed => out'[i] = pos + i - 1
    BY <1>4, ReadDelivers
  <2> QED BY <2>1, <2>2, <2>3 DEF Fifo!Read, Fifo!Delivers
<1>5. ASSUME HuffmanPushBack PROVE Fifo!Move
  <2>1. Unread' = Unread + 1
    BY <1>5, HuffmanPushBackStep
  <2>2. fed' = fed /\ call' = <<"move", -1>> /\ out' = <<>>
    <3>1. BitsInCache + 1 <= CacheBits /\ aborted = FALSE
      BY <1>5, Sizes DEF Inv, Type, ReadLeavesRoom, HuffmanPushBack, NoAbort
    <3> QED BY <1>5, <3>1 DEF HuffmanPushBack, PushBackCache, Returns
  <2> QED BY <1>0, <2>1, <2>2 DEF Fifo!Move
<1>6. ASSUME NEW n \in -bufBits .. bufBits, PushBiDirectional(n) PROVE Fifo!Move
  <2>1. Unread' = Unread - n /\ fed' = fed /\ call' = <<"move", n>> /\ out' = <<>>
    <3>1. CASE n >= 0
      <4>1. n \in Nat /\ PushFor(n)
        BY <1>6, <3>1, Sizes DEF PushBiDirectional
      <4> QED BY <4>1, PushForStep DEF PushFor, Returns
    <3>2. CASE ~(n >= 0)
      <4>1. -n \in Nat /\ PushBack(-n) /\ -(-n) = n
        BY <1>6, <3>2, Sizes DEF PushBiDirectional
      <4>2. Unread' = Unread + (-n)
        BY <4>1, PushBackStep
      <4>3. fed' = fed /\ call' = <<"move", n>> /\ out' = <<>>
        BY <4>1 DEF PushBack, Returns
      <4> QED BY <1>0, <4>2, <4>3, Sizes
    <3> QED BY <3>1, <3>2
  <2>2. pos' = pos + n
    <3>1. n \in Int
      BY Sizes
    <3> QED BY <1>0, <2>1, <3>1
  <2> QED BY <2>1, <2>2 DEF Fifo!Move
<1>7. ASSUME ByteAlign PROVE Fifo!Align
  <2>1. /\ Unread - Unread' \in 0 .. ByteBits - 1 /\ fed' = fed
        /\ call' = <<"align", 0>> /\ out' = <<>>
    BY <1>7, ByteAlignStep DEF ByteAlign, Returns
  <2>2. pos' \in pos .. pos + ByteBits - 1
    <3>1. pos' - pos = Unread - Unread' /\ ByteBits \in Int
      BY <1>0, <2>1, Sizes
    <3>2. pos' - pos \in 0 .. ByteBits - 1 /\ pos \in Int /\ pos' \in Int
      BY <1>0, <2>1, <3>1
    <3>3. \A x, y, b \in Int : x - y \in 0 .. b - 1 => x \in y .. y + b - 1
      OBVIOUS
    <3> QED BY <3>1, <3>2, <3>3
  <2> QED BY <2>1, <2>2 DEF Fifo!Align
<1>8. ASSUME UNCHANGED vars PROVE UNCHANGED Fifo!vars
  BY <1>8 DEF vars, Fifo!vars, pos, Unread, INT
<1> QED BY <1>1, <1>2, <1>3, <1>4, <1>5, <1>6, <1>7, <1>8 DEF Next, Fifo!Next

(* Through cache, ring and wrap-around the reader delivers exactly the      *)
(* stream it was fed: it implements BitFifo.                                *)
THEOREM ReaderImplementsFifo == Spec => ImplementsFifo
<1>1. Init => Fifo!Init
  <2> SUFFICES ASSUME Init PROVE Fifo!Init
    OBVIOUS
  <2>1. PICK v \in 0 .. bufBits :
          /\ bb = InitBitBuffer(Filled(v), v) /\ BitsInCache = 0
          /\ fed = v /\ call = <<"init", v>> /\ out = <<>>
    BY DEF Init
  <2>2. bb.ValidBits = v /\ INT(v) = v /\ v \in Int
    BY <2>1, FilledFacts DEF InitBitBuffer
  <2>3. pos = 0
    BY <2>1, <2>2 DEF pos, Unread
  <2> QED BY <2>1, <2>3 DEF Fifo!Init
<1> QED BY <1>1, StepRefines, ReaderInvariant, PTL DEF Spec, ImplementsFifo, Fifo!Spec
=============================================================================
