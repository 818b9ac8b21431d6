-------------------------- MODULE MCTransportDec --------------------------
(***************************************************************************)
(* ADTS streams for TransportDec, put together from pieces: frames, other  *)
(* bytes, and headers that other bytes happen to spell.                    *)
(***************************************************************************)
EXTENDS TransportDec

Blank == [header |-> FALSE, blocks |-> <<>>, broken |-> {}, bytes |-> 0]

Noise(n) == [Blank EXCEPT !.bytes = n]

HeaderOf(crc, blocks, length, status) ==
  [crc |-> crc, blocks |-> blocks, frame_length |-> length, status |-> status]

Sum(seq) == FoldLeft(+, 0, seq)

FrameLength(crc, blocks) == HeaderBits(HeaderOf(crc, blocks, 0, "good")) \div 8 + Sum(blocks)

(* A frame; broken are the numbers of its damaged blocks.                   *)
Damaged(crc, blocks, broken) ==
  [header |-> TRUE, h |-> HeaderOf(crc, blocks, FrameLength(crc, blocks), "good"),
   blocks |-> blocks, broken |-> broken, bytes |-> FrameLength(crc, blocks)]
Frame(crc, blocks) == Damaged(crc, blocks, {})

(* Other bytes that start with what looks like a header.                    *)
Fake(h, bytes) == [Blank EXCEPT !.bytes = bytes, !.header = TRUE] @@ [h |-> h]

(* The stream of a sequence of pieces; frames starting in lost cannot be    *)
(* found behind what precedes them.                                         *)
StreamOf(pieces, lost) ==
  LET n == Len(pieces)
      At[i \in 1 .. n + 1] ==
        IF i = 1 THEN 0 ELSE At[i - 1] + 8 * pieces[i - 1].bytes
      First(i) == At[i] + HeaderBits(pieces[i].h)
      BlockAt(i, k) == First(i) + 8 * Sum(SubSeq(pieces[i].blocks, 1, k - 1))
      heads == {i \in 1 .. n : pieces[i].header}
      frames == {i \in heads : pieces[i].blocks # <<>>}
      blocks == UNION {{<<i, k>> : k \in DOMAIN pieces[i].blocks} : i \in frames}
      starts == {BlockAt(b[1], b[2]) : b \in blocks}
      Which(u) == CHOOSE b \in blocks : BlockAt(b[1], b[2]) = u
  IN  [size |-> At[n + 1],
       headers |-> [q \in {At[i] : i \in heads} |->
                      pieces[CHOOSE i \in heads : At[i] = q].h],
       blockEnd |-> [u \in starts |->
                      u + 8 * pieces[Which(u)[1]].blocks[Which(u)[2]]],
       broken |-> {u \in starts : Which(u)[2] \in pieces[Which(u)[1]].broken},
       units |-> SetToSortSeq({u \in starts : Which(u)[1] \notin lost}, <),
       opener |-> [u \in starts |-> At[Which(u)[1]]]]

(* Frames without and with CRC, of one, two and three blocks, without a gap.*)
CleanStreams ==
  {StreamOf(<<Frame(FALSE, <<3>>), Frame(TRUE, <<2>>)>>, {}),
   StreamOf(<<Frame(TRUE, <<3, 4>>), Frame(FALSE, <<2>>), Frame(TRUE, <<3>>)>>, {}),
   StreamOf(<<Frame(FALSE, <<2, 3, 2>>), Frame(TRUE, <<4>>)>>, {})}

(* Noise and damage of every kind the search has to get over.               *)
DamagedStreams ==
  {StreamOf(<<Noise(3), Frame(FALSE, <<2>>), Noise(2), Frame(TRUE, <<3>>), Noise(1)>>, {}),
   StreamOf(<<Fake(HeaderOf(FALSE, <<1>>, 9, "unsupported"), 8), Frame(TRUE, <<2>>),
              Fake(HeaderOf(TRUE, <<1, 1>>, 10, "corrupt"), 9), Frame(FALSE, <<3>>)>>, {}),
   StreamOf(<<Frame(FALSE, <<3>>), Fake(HeaderOf(FALSE, <<1>>, 40, "good"), 7),
              Frame(TRUE, <<2>>), Frame(FALSE, <<2>>)>>, {}),
   StreamOf(<<Frame(TRUE, <<3>>), Fake(HeaderOf(FALSE, <<1>>, 7, "good"), 7),
              Fake(HeaderOf(TRUE, <<1>>, 10, "refused"), 10), Frame(FALSE, <<2>>)>>, {}),
   StreamOf(<<Damaged(TRUE, <<2, 3>>, {1, 2}), Damaged(TRUE, <<3>>, {1}),
              Frame(FALSE, <<4>>)>>, {}),
   StreamOf(<<Damaged(FALSE, <<3>>, {1}), Frame(TRUE, <<2>>), Frame(FALSE, <<2>>)>>, {}),
   StreamOf(<<Fake(HeaderOf(FALSE, <<2>>, 12, "good"), 8), Frame(TRUE, <<2>>),
              Frame(FALSE, <<3>>)>>, {2})}

(* A damaged frame without CRC, and frames behind it.                       *)
OverrunStreams ==
  {StreamOf(<<Damaged(FALSE, <<3>>, {1}), Frame(c, <<2>>), Frame(c, <<3>>)>>, {}) :
     c \in BOOLEAN}

AllStreams == CleanStreams \cup DamagedStreams

ShortStreams ==
  {StreamOf(<<Frame(TRUE, <<3, 4>>)>>, {}),
   StreamOf(<<Frame(FALSE, <<2, 3>>)>>, {})}

GapStreams ==
  {StreamOf(<<Frame(c, <<2>>), Noise(1), Frame(c, <<3>>)>>, {}) : c \in BOOLEAN}

(* The streams meet what the theorems on delivery ask of them.              *)
ASSUME StreamsSentInOrder == \A s \in Streams : SentInOrder(s)
ASSUME StreamsFindable == \A s \in Streams : Findable(s)
=============================================================================
