----------------------------- MODULE BitBuffer -----------------------------
(***************************************************************************)
(* The ring buffer of bits of libFDK (FDK_bitbuffer.cpp), as pure          *)
(* operators on the record FDK_BITBUF.  Every bit of memory is one cell    *)
(* that holds the identity of the bit stored there (its index in the       *)
(* stream it belongs to) and not its value, so that a bit that is lost,    *)
(* repeated, overwritten or read from the wrong place is visible.  The     *)
(* shifts and masks that pack cells into bytes and 32 bit words are        *)
(* abstracted to the sequence of cells they address.                       *)
(***************************************************************************)
EXTENDS Integers, Sequences

CONSTANTS
  ByteBits,    \* bits of a byte (8)
  CacheBits,   \* CACHE_BITS, bits of a cache word (32)
  bufSize,     \* bytes of the ring, a power of two
  UintMod      \* 2^w of the type UINT (2^32)

ASSUME BitBufferAssumption ==
  /\ ByteBits \in Nat \ {0}
  /\ CacheBits \in Nat \ {0, 1}
  /\ bufSize \in Nat \ {0}
  /\ UintMod \in Nat
  /\ UintMod >= 8 * bufSize * ByteBits   \* MAX_BUFSIZE_BYTES: 3 bits headroom
  /\ UintMod >= 4 * CacheBits
  /\ UintMod % ByteBits = 0

bufBits == bufSize * ByteBits

Junk == -1                               \* a cell no bit of the stream is in
Cells == 0 .. bufBits - 1

UINT(x) == x % UintMod
INT(u)  == IF u >= UintMod \div 2 THEN u - UintMod ELSE u

Smaller(x, y) == IF x <= y THEN x ELSE y
Larger(x, y)  == IF x >= y THEN x ELSE y

FDK_BITBUF ==
  [ValidBits : 0 .. UintMod - 1, ReadOffset : 0 .. bufSize - 1,
   WriteOffset : 0 .. bufSize - 1, BitNdx : Cells, Buffer : [Cells -> Int]]

InitBitBuffer(cells, validBits) ==
  [ValidBits |-> validBits, ReadOffset |-> 0, WriteOffset |-> 0,
   BitNdx |-> 0, Buffer |-> cells]

(* FDK_get32 and FDK_get: the next n cells, and the buffer after them.      *)
PeekBits(b, n) == [i \in 1 .. n |-> b.Buffer[(b.BitNdx + i - 1) % bufBits]]

(* Mutant: the position is not wrapped at the end of the memory.            *)
get_NoWrap(b, n) == [b EXCEPT !.BitNdx = @ + n, !.ValidBits = UINT(@ - n)]

get(b, n) == [b EXCEPT !.BitNdx = (@ + n) % bufBits,
                       !.ValidBits = UINT(@ - n)]

(* FDK_put: the n = Len(bits) cells from BitNdx on are overwritten.         *)
put(b, bits) ==
  LET n    == Len(bits)
      at(c) == ((c - b.BitNdx) % bufBits) + 1    \* which bit lands in cell c
  IN  [b EXCEPT
        !.Buffer = [c \in Cells |-> IF at(c) <= n THEN bits[at(c)] ELSE @[c]],
        !.BitNdx = (@ + n) % bufBits,
        !.ValidBits = UINT(@ + n)]

Reader == 0                              \* BS_READER, the config argument
Writer == 1                              \* BS_WRITER

pushBack(b, n, config) ==
  [b EXCEPT !.ValidBits = UINT(IF config = Reader THEN @ + n ELSE @ - n),
            !.BitNdx = (@ - n) % bufBits]

pushForward(b, n, config) ==
  [b EXCEPT !.ValidBits = UINT(IF config = Reader THEN @ - n ELSE @ + n),
            !.BitNdx = (@ + n) % bufBits]

getFreeBits(b) == INT(UINT(bufBits - b.ValidBits))

(* FDK_Feed: how many of the offered bytes fit, and the buffer that has     *)
(* taken the first noOfBytes of them (the split at the end of the memory    *)
(* is the modulo).                                                          *)
FeedBytes_AnyFit(b, offered) == Smaller(bufSize, offered)   \* mutant: no limit

FeedBytes(b, offered) ==
  Smaller(Smaller(bufBits, Larger(0, bufBits - INT(b.ValidBits))) \div ByteBits,
          offered)

(* Mutant: the next feed starts where this one started.                     *)
Feed_KeepsOffset(b, bits) ==
  LET n     == Len(bits)
      at(c) == ((c - b.ReadOffset * ByteBits) % bufBits) + 1
  IN  [b EXCEPT
        !.Buffer = [c \in Cells |-> IF at(c) <= n THEN bits[at(c)] ELSE @[c]],
        !.ValidBits = UINT(@ + n)]

Feed(b, bits) ==
  LET n     == Len(bits)
      at(c) == ((c - b.ReadOffset * ByteBits) % bufBits) + 1
  IN  [b EXCEPT
        !.Buffer = [c \in Cells |-> IF at(c) <= n THEN bits[at(c)] ELSE @[c]],
        !.ValidBits = UINT(@ + n),
        !.ReadOffset = (@ + n \div ByteBits) % bufSize]

(* FDK_Fetch: the first noOfBytes bytes from WriteOffset on leave the ring. *)
FetchBytes(b, room) == Smaller(b.ValidBits \div ByteBits, room)

FetchedBits(b, bytes) ==
  [i \in 1 .. bytes * ByteBits |->
     b.Buffer[(b.WriteOffset * ByteBits + i - 1) % bufBits]]

Fetch(b, bytes) ==
  [b EXCEPT !.ValidBits = UINT(@ - bytes * ByteBits),
            !.WriteOffset = (@ + bytes) % bufSize]
=============================================================================
