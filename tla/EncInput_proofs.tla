--------------------------- MODULE EncInput_proofs ---------------------------
(***************************************************************************)
(* Theorems about EncInput for every set of codecs, frame lengths, delays  *)
(* and numbers of samples per call: type correctness, the core gets each   *)
(* sample once and in order, metadata that has begun is closed and goes    *)
(* out with the samples it belongs to, and all samples are coded when      *)
(* flushing ends.                                                          *)
(***************************************************************************)
EXTENDS EncInput, ModuloFacts, SequenceTheorems, FiniteSetTheorems, WellFoundedInduction, TLAPS

-----------------------------------------------------------------------------
(* Sequences                                                                *)
LEMMA FinalFacts ==
  ASSUME NEW S, NEW s \in Seq(S), NEW n \in 0 .. Len(s)
  PROVE  /\ Final(n, s) \in Seq(S) /\ Len(Final(n, s)) = n
         /\ \A i \in 1 .. n : Final(n, s)[i] = s[Len(s) - n + i]
<1>1. Len(s) \in Nat
  BY LenProperties
<1>2. \A i \in Len(s) - n + 1 .. Len(s) : s[i] \in S
  BY <1>1, ElementOfSeq
<1>3. /\ SubSeq(s, Len(s) - n + 1, Len(s)) \in Seq(S)
      /\ Len(SubSeq(s, Len(s) - n + 1, Len(s))) =
           IF Len(s) - n + 1 <= Len(s) THEN Len(s) - (Len(s) - n + 1) + 1 ELSE 0
      /\ \A i \in 1 .. Len(s) - (Len(s) - n + 1) + 1 :
           SubSeq(s, Len(s) - n + 1, Len(s))[i] = s[Len(s) - n + 1 + i - 1]
  BY <1>1, <1>2, SubSeqProperties
<1> QED BY <1>1, <1>3 DEF Final

LEMMA PartFacts ==
  ASSUME NEW S, NEW s \in Seq(S), NEW m \in 1 .. Len(s) + 1, NEW n \in m - 1 .. Len(s)
  PROVE  /\ SubSeq(s, m, n) \in Seq(S) /\ Len(SubSeq(s, m, n)) = n - m + 1
         /\ \A i \in 1 .. n - m + 1 : SubSeq(s, m, n)[i] = s[m + i - 1]
<1>1. Len(s) \in Nat
  BY LenProperties
<1>2. \A i \in m .. n : s[i] \in S
  BY <1>1, ElementOfSeq
<1> QED BY <1>1, <1>2, SubSeqProperties

(* What is taken away at the front leaves the end.                          *)
LEMMA FinalIsRest ==
  ASSUME NEW S, NEW s \in Seq(S), NEW n \in 0 .. Len(s)
  PROVE  SubSeq(s, n + 1, Len(s)) = Final(Len(s) - n, s)
<1>1. Len(s) \in Nat
  BY LenProperties
<1>2. Len(s) - (Len(s) - n) + 1 = n + 1
  BY <1>1
<1> QED BY <1>2 DEF Final

LEMMA FinalOfAll ==
  ASSUME NEW S, NEW s \in Seq(S)
  PROVE  Final(Len(s), s) = s /\ Final(0, s) = <<>>
<1>1. Len(s) \in Nat
  BY LenProperties
<1>2. Final(Len(s), s) = s
  <2>1. SubSeq(s, 1, Len(s)) = s
    BY SubSeqFull
  <2>2. Len(s) - Len(s) + 1 = 1
    BY <1>1
  <2> QED BY <2>1, <2>2 DEF Final
<1>3. Final(0, s) = <<>>
  <2>1. Final(0, s) \in Seq(S) /\ Len(Final(0, s)) = 0
    BY <1>1, FinalFacts
  <2> QED BY <2>1, EmptySeq
<1> QED BY <1>2, <1>3

(* The end of a concatenation is that of its second part, if it is long     *)
(* enough, and all of it with the end of the first one, if it is not.       *)
LEMMA FinalOfConcat ==
  ASSUME NEW S, NEW s \in Seq(S), NEW t \in Seq(S)
  PROVE  /\ \A n \in 0 .. Len(t) : Final(n, s \o t) = Final(n, t)
         /\ \A n \in 0 .. Len(s) : Final(n + Len(t), s \o t) = Final(n, s) \o t
<1> DEFINE u == s \o t
<1>1. /\ Len(s) \in Nat /\ Len(t) \in Nat
      /\ u \in Seq(S) /\ Len(u) = Len(s) + Len(t)
      /\ \A i \in 1 .. Len(s) + Len(t) :
           u[i] = IF i <= Len(s) THEN s[i] ELSE t[i - Len(s)]
  BY LenProperties, ConcatProperties
<1> HIDE DEF u
<1>2. ASSUME NEW n \in 0 .. Len(t)
      PROVE  Final(n, u) = Final(n, t)
  <2>1. /\ Final(n, u) \in Seq(S) /\ Len(Final(n, u)) = n
        /\ \A i \in 1 .. n : Final(n, u)[i] = u[Len(u) - n + i]
    <3>1. n \in 0 .. Len(u)
      BY <1>1
    <3> QED BY <1>1, <3>1, FinalFacts
  <2>2. /\ Final(n, t) \in Seq(S) /\ Len(Final(n, t)) = n
        /\ \A i \in 1 .. n : Final(n, t)[i] = t[Len(t) - n + i]
    BY FinalFacts
  <2>3. ASSUME NEW i \in 1 .. n
        PROVE  Final(n, u)[i] = Final(n, t)[i]
    <3>1. PICK k \in Int : k = Len(u) - n + i
      BY <1>1
    <3>2. k \in 1 .. Len(s) + Len(t) /\ ~(k <= Len(s)) /\ k - Len(s) = Len(t) - n + i
      BY <1>1, <3>1
    <3>3. u[k] = t[k - Len(s)]
      BY <1>1, <3>2
    <3> QED BY <2>1, <2>2, <3>1, <3>2, <3>3
  <2> QED BY <2>1, <2>2, <2>3, SeqEqual
<1>3. ASSUME NEW n \in 0 .. Len(s)
      PROVE  Final(n + Len(t), u) = Final(n, s) \o t
  <2> DEFINE f == Final(n, s)
             v == f \o t
  <2>1. /\ Final(n + Len(t), u) \in Seq(S)
        /\ Len(Final(n + Len(t), u)) = n + Len(t)
        /\ \A i \in 1 .. n + Len(t) : Final(n + Len(t), u)[i] =
             u[Len(u) - (n + Len(t)) + i]
    <3>1. n + Len(t) \in 0 .. Len(u)
      BY <1>1
    <3> QED BY <1>1, <3>1, FinalFacts
  <2>2. /\ f \in Seq(S) /\ Len(f) = n
        /\ \A i \in 1 .. n : f[i] = s[Len(s) - n + i]
    BY FinalFacts
  <2> HIDE DEF f
  <2>3. /\ v \in Seq(S) /\ Len(v) = n + Len(t)
        /\ \A i \in 1 .. n + Len(t) : v[i] =
             IF i <= n THEN f[i] ELSE t[i - n]
    BY <2>2, ConcatProperties
  <2>4. ASSUME NEW i \in 1 .. n + Len(t)
        PROVE  Final(n + Len(t), u)[i] = v[i]
    <3>1. PICK k \in Int : k = Len(s) - n + i
      <4>1. Len(s) - n + i \in Int
        BY <1>1
      <4> QED BY <4>1
    <3>2. Final(n + Len(t), u)[i] = u[k]
      <4>1. k = Len(u) - (n + Len(t)) + i
        BY <1>1, <3>1
      <4> QED BY <2>1, <4>1
    <3>3. CASE i <= n
      <4>1. k \in 1 .. Len(s) + Len(t) /\ k <= Len(s) /\ i \in 1 .. n
        BY <1>1, <3>1, <3>3
      <4>2. u[k] = s[k]
        BY <1>1, <4>1
      <4>3. f[i] = s[k]
        BY <2>2, <3>1, <4>1
      <4> QED BY <2>3, <3>2, <3>3, <4>2, <4>3
    <3>4. CASE ~(i <= n)
      <4>1. k \in 1 .. Len(s) + Len(t) /\ ~(k <= Len(s)) /\ k - Len(s) = i - n
        BY <1>1, <3>1, <3>4
      <4>2. u[k] = t[i - n]
        BY <1>1, <4>1
      <4> QED BY <2>3, <3>2, <3>4, <4>2
    <3> QED BY <3>3, <3>4
  <2>5. Final(n + Len(t), u) = v
    BY <2>1, <2>3, <2>4, SeqEqual
  <2> QED BY <2>5 DEF f
<1> QED BY <1>2, <1>3 DEF u

(* The end of an end                                                        *)
LEMMA FinalOfFinal ==
  ASSUME NEW S, NEW s \in Seq(S), NEW n \in 0 .. Len(s), NEW k \in 0 .. n
  PROVE  Final(k, Final(n, s)) = Final(k, s)
<1>1. Len(s) \in Nat
  BY LenProperties
<1> DEFINE f == Final(n, s)
<1>2. /\ f \in Seq(S) /\ Len(f) = n
      /\ \A i \in 1 .. n : f[i] = s[Len(s) - n + i]
  BY FinalFacts
<1> HIDE DEF f
<1>3. /\ Final(k, s) \in Seq(S) /\ Len(Final(k, s)) = k
      /\ \A i \in 1 .. k : Final(k, s)[i] = s[Len(s) - k + i]
  BY <1>1, FinalFacts
<1>4. /\ Final(k, f) \in Seq(S) /\ Len(Final(k, f)) = k
      /\ \A i \in 1 .. k : Final(k, f)[i] = f[n - k + i]
  BY <1>2, FinalFacts
<1>5. ASSUME NEW i \in 1 .. k
      PROVE  Final(k, f)[i] = Final(k, s)[i]
  <2>1. n - k + i \in 1 .. n /\ Len(s) - n + (n - k + i) = Len(s) - k + i
    BY <1>1
  <2> QED BY <1>2, <1>3, <1>4, <2>1
<1>6. Final(k, f) = Final(k, s)
  BY <1>3, <1>4, <1>5, SeqEqual
<1> QED BY <1>6 DEF f

(* The beginning of a concatenation and of a beginning                      *)
LEMMA FrontFacts ==
  ASSUME NEW S, NEW s \in Seq(S), NEW n \in 0 .. Len(s), NEW k \in 0 .. n
  PROVE  /\ SubSeq(s, 1, n) \in Seq(S) /\ Len(SubSeq(s, 1, n)) = n
         /\ SubSeq(SubSeq(s, 1, n), 1, k) = SubSeq(s, 1, k)
         /\ SubSeq(s, 1, n) \o SubSeq(s, n + 1, Len(s)) = s
<1>1. Len(s) \in Nat
  BY LenProperties
<1>2. /\ SubSeq(s, 1, n) \in Seq(S) /\ Len(SubSeq(s, 1, n)) = n
      /\ \A i \in 1 .. n : SubSeq(s, 1, n)[i] = s[i]
  <2>1. 1 \in 1 .. Len(s) + 1 /\ n \in 1 - 1 .. Len(s)
    BY <1>1
  <2> QED BY <2>1, PartFacts
<1>3. /\ SubSeq(s, 1, k) \in Seq(S) /\ Len(SubSeq(s, 1, k)) = k
      /\ \A i \in 1 .. k : SubSeq(s, 1, k)[i] = s[i]
  <2>1. 1 \in 1 .. Len(s) + 1 /\ k \in 1 - 1 .. Len(s)
    BY <1>1
  <2> QED BY <2>1, PartFacts
<1>4. /\ SubSeq(SubSeq(s, 1, n), 1, k) \in Seq(S)
      /\ Len(SubSeq(SubSeq(s, 1, n), 1, k)) = k
      /\ \A i \in 1 .. k : SubSeq(SubSeq(s, 1, n), 1, k)[i] = SubSeq(s, 1, n)[i]
  <2>1. 1 \in 1 .. n + 1 /\ k \in 1 - 1 .. n
    BY <1>1
  <2> QED BY <1>2, <2>1, PartFacts
<1>5. SubSeq(SubSeq(s, 1, n), 1, k) = SubSeq(s, 1, k)
  <2>1. \A i \in 1 .. k : SubSeq(SubSeq(s, 1, n), 1, k)[i] = SubSeq(s, 1, k)[i]
    BY <1>2, <1>3, <1>4
  <2> QED BY <1>3, <1>4, <2>1, SeqEqual
<1>6. SubSeq(s, 1, n) \o SubSeq(s, n + 1, Len(s)) = SubSeq(s, 1, Len(s))
  <2>1. 1 \in 1 .. Len(s) + 1 /\ n \in 1 - 1 .. Len(s) /\ Len(s) \in n .. Len(s)
    BY <1>1
  <2> QED BY <2>1, ConcatAdjacentSubSeq
<1>7. SubSeq(s, 1, Len(s)) = s
  BY SubSeqFull
<1> QED BY <1>2, <1>5, <1>6, <1>7

(* A first part is the beginning of the whole.                              *)
LEMMA FrontOfConcat ==
  ASSUME NEW S, NEW s \in Seq(S), NEW t \in Seq(S)
  PROVE  SubSeq(s \o t, 1, Len(s)) = s
<1> DEFINE u == s \o t
<1>1. /\ Len(s) \in Nat /\ Len(t) \in Nat
      /\ u \in Seq(S) /\ Len(u) = Len(s) + Len(t)
      /\ \A i \in 1 .. Len(s) + Len(t) :
           u[i] = IF i <= Len(s) THEN s[i] ELSE t[i - Len(s)]
  BY LenProperties, ConcatProperties
<1> HIDE DEF u
<1>2. /\ SubSeq(u, 1, Len(s)) \in Seq(S) /\ Len(SubSeq(u, 1, Len(s))) = Len(s)
      /\ \A i \in 1 .. Len(s) : SubSeq(u, 1, Len(s))[i] = u[i]
  <2>1. 1 \in 1 .. Len(u) + 1 /\ Len(s) \in 1 - 1 .. Len(u)
    BY <1>1
  <2> QED BY <1>1, <2>1, PartFacts
<1>3. \A i \in 1 .. Len(s) : SubSeq(u, 1, Len(s))[i] = s[i]
  BY <1>1, <1>2
<1>4. SubSeq(u, 1, Len(s)) = s
  BY <1>2, <1>3, SeqEqual
<1> QED BY <1>4 DEF u

-----------------------------------------------------------------------------
(* Samples                                                                  *)
LEMMA SampleFacts ==
  ASSUME NEW n \in Nat
  PROVE  /\ Blanks(n) \in Seq(Samples) /\ Len(Blanks(n)) = n
         /\ \A real \in BOOLEAN : time \in Nat =>
              Fed(n, real) \in Seq(Samples) /\ Len(Fed(n, real)) = n
         /\ \A t \in Nat, k \in Nat : Before(t, k) \in 0 .. Cycle - 1
         /\ \A t \in Nat : (t + n) % Cycle \in 0 .. Cycle - 1
<1>1. Cycle \in Nat \ {0}
  BY EncBounds
<1>2. \A x \in Int : x % Cycle \in 0 .. Cycle - 1
  BY <1>1
<1>3. Blank \in Samples
  BY <1>1 DEF Blank, Samples
<1>4. Blanks(n) \in [1 .. n -> Samples]
  BY <1>3 DEF Blanks
<1>5. ASSUME NEW real \in BOOLEAN, time \in Nat
      PROVE  Fed(n, real) \in [1 .. n -> Samples]
  <2>1. ASSUME NEW i \in 1 .. n
        PROVE  [real |-> real, at |-> (time + i - 1) % Cycle] \in Samples
    <3>1. time + i - 1 \in Int
      BY <1>5
    <3>2. (time + i - 1) % Cycle \in 0 .. Cycle
      BY <1>1, <1>2, <3>1
    <3> QED BY <3>2 DEF Samples
  <2> QED BY <2>1 DEF Fed
<1>6. \A f \in [1 .. n -> Samples] : f \in Seq(Samples) /\ Len(f) = n
  OBVIOUS
<1>7. \A t \in Nat, k \in Nat : Before(t, k) \in 0 .. Cycle - 1
  BY <1>2 DEF Before
<1>8. \A t \in Nat : (t + n) % Cycle \in 0 .. Cycle - 1
  BY <1>2
<1>9. Blanks(n) \in Seq(Samples) /\ Len(Blanks(n)) = n
  BY <1>4, <1>6
<1>10. \A real \in BOOLEAN : time \in Nat =>
         Fed(n, real) \in Seq(Samples) /\ Len(Fed(n, real)) = n
  BY <1>5, <1>6
<1> QED BY <1>7, <1>8, <1>9, <1>10

-----------------------------------------------------------------------------
(* The delays of FDK_MetadataEnc_Init                                       *)
LEMMA LeastElement ==
  ASSUME NEW S \in SUBSET Nat, S # {}
  PROVE  \E x \in S : \A y \in S : x <= y
<1>1. \E x \in S : \A y \in S : ~(<<y, x>> \in OpToRel(<, Nat))
  BY NatLessThanWellFounded, WFMin
<1>2. PICK x \in S : \A y \in S : ~(<<y, x>> \in OpToRel(<, Nat))
  BY <1>1
<1>3. \A y \in S : ~(y < x)
  BY <1>2 DEF OpToRel
<1> QED BY <1>3

LEMMA DelayFacts ==
  ASSUME NEW delay \in Nat \ {0}, NEW frame \in Nat \ {0}
  PROVE  /\ MetaFrames(delay, frame) \in Nat
         /\ MetaFrames(delay, frame) > 0 => frame * MetaFrames(delay, frame) < delay
         /\ AudioDelay(delay, frame) \in 0 .. frame - 1
<1> DEFINE Covers(n) == delay <= frame * (n + 1)
           S == {n \in 0 .. delay : Covers(n)}
<1>1. delay \in S
  <2>1. frame * (delay + 1) >= delay
    <3>1. \A a \in Nat : frame * a >= a
      <4>1. ASSUME NEW a \in Nat PROVE (frame - 1) * a >= 0
        BY Z3
      <4> QED BY <4>1, Z3
    <3> QED BY <3>1
  <2> QED BY <2>1
<1>2. PICK n \in S : \A m \in S : n <= m
  <2>1. S \in SUBSET Nat /\ S # {}
    BY <1>1
  <2> QED BY <2>1, LeastElement
<1>3. n > 0 => delay > frame * n
  <2> SUFFICES ASSUME n > 0, ~(delay > frame * n) PROVE FALSE
    OBVIOUS
  <2>1. n - 1 \in 0 .. delay /\ (n - 1) + 1 = n /\ frame * n \in Int
    OBVIOUS
  <2>2. Covers(n - 1)
    BY <2>1
  <2> QED BY <1>2, <2>1, <2>2
<1>4. \E k \in 0 .. delay : /\ delay <= frame * (k + 1)
                            /\ k > 0 => delay > frame * k
  BY <1>3
<1> DEFINE q == MetaFrames(delay, frame)
<1>5. /\ q \in 0 .. delay /\ delay <= frame * (q + 1)
      /\ q > 0 => delay > frame * q
  BY <1>4 DEF MetaFrames
<1> HIDE DEF q
<1>6. frame * (q + 1) = frame * q + frame /\ frame * q \in Int
  BY <1>5, Z3
<1>7. q = 0 => frame * q = 0
  BY <1>5
<1>8. frame * (q + 1) - delay \in 0 .. frame - 1
  BY <1>5, <1>6, <1>7
<1> QED BY <1>5, <1>8 DEF q, AudioDelay

LEMMA LineFacts ==
  ASSUME NEW p \in MetaSettings
  PROVE  /\ MetaFrames(CoreDelay[p], p[2]) \in Lines
         /\ AudioDelay(CoreDelay[p], p[2]) \in 0 .. p[2] - 1
         /\ p[2] \in Nat \ {0} /\ CoreDelay[p] \in Nat \ {0}
<1>1. p[2] \in Nat \ {0}
  BY EncSettings DEF MetaSettings
<1>2. DelayFrames \in Nat /\ CoreDelay[p] \in 1 .. DelayFrames * p[2]
  BY EncDelays
<1>3. CoreDelay[p] \in Nat \ {0}
  BY <1>1, <1>2
<1> DEFINE delay == CoreDelay[p]
           frame == p[2]
           q == MetaFrames(delay, frame)
<1>4. /\ q \in Nat /\ (q > 0 => frame * q < delay)
      /\ AudioDelay(delay, frame) \in 0 .. frame - 1
  BY <1>1, <1>3, DelayFacts
<1>5. /\ frame \in Nat \ {0} /\ delay \in Nat \ {0} /\ delay <= DelayFrames * frame
      /\ DelayFrames \in Nat
  BY <1>1, <1>2, <1>3
<1> HIDE DEF q, frame, delay
<1>6. q < DelayFrames
  <2>1. CASE q > 0
    <3>1. frame * q < DelayFrames * frame
      BY <1>4, <1>5, <2>1, Z3
    <3> SUFFICES ASSUME q >= DelayFrames PROVE FALSE
      BY <1>4, <1>5
    <3>2. PICK d \in Nat : q = DelayFrames + d
      <4>1. q - DelayFrames \in Nat
        BY <1>4, <1>5
      <4> QED BY <1>4, <1>5, <4>1
    <3>3. frame * q = DelayFrames * frame + frame * d /\ frame * d >= 0
      BY <1>5, <3>2, Z3
    <3> QED BY <1>4, <1>5, <3>1, <3>3, Z3
  <2>2. CASE q = 0
    <3>1. DelayFrames # 0
      BY <1>5
    <3> QED BY <1>5, <2>2, <3>1
  <2> QED BY <1>4, <2>1, <2>2
<1> QED BY <1>1, <1>3, <1>4, <1>6, EncDelays DEF q, frame, delay, Lines

-----------------------------------------------------------------------------
(* The inductive invariant.  The metadata encoder is set up as              *)
(* FDK_MetadataEnc_Init computes it for some accepted settings.             *)
SetUp(p) ==
  /\ enc.core = CoreDelay[p] /\ enc.nSamplesToRead = p[2]
  /\ Len(meta.audio) = AudioDelay(CoreDelay[p], p[2])
  /\ meta.nMetaDataDelay = MetaFrames(CoreDelay[p], p[2])
Described == enc.metaDataAllowed => \E p \in MetaSettings : SetUp(p)

(* What the core is owed is what the delay line holds and then what the     *)
(* input buffer holds, but for the buffer that a failed call has left, and  *)
(* for a buffer of more than a frame: then only the number is right, and a  *)
(* frame later the end of it.                                               *)
InPlace ==
  /\ upset <= 1 => enc.inputBuffer = Final(nSamplesRead, owed)
  /\ upset = 0 => owed = meta.audio \o enc.inputBuffer
Ordered ==
  /\ Len(owed) = Len(meta.audio) + nSamplesRead
  /\ ~enc.metaDataAllowed => meta = Closed
  /\ InitFlags # ALL => InPlace

IInv == Type /\ Described /\ Ordered /\ InOrder

(* The types of the records                                                 *)
Settings == [codec : Codecs, granule : Granules, channels : Channels,
             metadata : BOOLEAN]
EncType ==
  [nSamplesToRead : Nat, nZerosAppended : Nat, core : Nat, nDelay : Nat,
   metaDataAllowed : BOOLEAN, inputBuffer : Seq(Samples)]
MetaType ==
  [finalize : BOOLEAN, initialize : BOOLEAN, on : BOOLEAN, nMetaDataDelay : Lines,
   channels : Channels \cup {0}, audio : Seq(Samples), line : [Lines -> Entries],
   idx : Lines]
MetaOk(e, m) ==
  /\ m \in MetaType /\ m.idx <= m.nMetaDataDelay
  /\ e.metaDataAllowed => Len(m.audio) < e.nSamplesToRead
Histories ==
  /\ result \in {"set", "refused", "returned", "flushed", "eof"}
  /\ sent \in [inOrder : BOOLEAN, aligned : BOOLEAN, ends : BOOLEAN]
  /\ time \in 0 .. Cycle - 1 /\ owed \in Seq(Samples) /\ tail \in 0 .. MaxTail
  /\ stream \in {"closed", "open", "cut"}
  /\ upset \in 0 .. 2 /\ resumed \in BOOLEAN

LEMMA TypeParts ==
  Type <=> /\ settings \in Settings /\ InitFlags \subseteq ALL
           /\ enc \in EncType /\ MetaOk(enc, meta) /\ Histories
BY DEF Type, Settings, EncType, MetaType, MetaOk, Histories

LEMMA TypePartsNext ==
  Type' <=> /\ settings' \in Settings /\ InitFlags' \subseteq ALL
            /\ enc' \in EncType /\ MetaOk(enc', meta') /\ Histories'
BY DEF Type, Settings, EncType, MetaType, MetaOk, Histories

LEMMA Nothing ==
  /\ NothingSent \in [inOrder : BOOLEAN, aligned : BOOLEAN, ends : BOOLEAN]
  /\ NothingSent.inOrder
BY DEF NothingSent

LEMMA PartOfSum ==
  \A a \in Nat, b \in Nat, c \in Nat : c = a + b => a \in 0 .. c /\ b \in 0 .. c
OBVIOUS

LEMMA SumOfThree ==
  \A a \in Nat, b \in Nat, c \in Nat : (a + b) + c = a + (b + c)
OBVIOUS

(* The lengths and types that the steps start from.                         *)
LEMMA Before1 ==
  ASSUME IInv
  PROVE  /\ enc.inputBuffer \in Seq(Samples) /\ nSamplesRead \in Nat
         /\ nSamplesRead = Len(enc.inputBuffer)
         /\ meta.audio \in Seq(Samples) /\ Len(meta.audio) \in Nat
         /\ owed \in Seq(Samples) /\ Len(owed) \in Nat
         /\ Len(owed) = Len(meta.audio) + nSamplesRead
         /\ enc.nSamplesToRead \in Nat /\ time \in Nat /\ upset \in {0, 1, 2}
<1>1. enc \in EncType /\ MetaOk(enc, meta) /\ Histories
  BY TypeParts DEF IInv
<1>2. enc.inputBuffer \in Seq(Samples) /\ enc.nSamplesToRead \in Nat
  BY <1>1 DEF EncType
<1>3. meta.audio \in Seq(Samples)
  BY <1>1 DEF MetaOk, MetaType
<1>4. owed \in Seq(Samples) /\ time \in Nat /\ upset \in {0, 1, 2}
  BY <1>1, EncBounds DEF Histories
<1>5. /\ Len(enc.inputBuffer) \in Nat /\ Len(meta.audio) \in Nat
      /\ Len(owed) \in Nat
  BY <1>2, <1>3, <1>4, LenProperties
<1> QED BY <1>2, <1>3, <1>4, <1>5 DEF IInv, Ordered, nSamplesRead

-----------------------------------------------------------------------------
(* Calls that leave the samples alone                                       *)
LEMMA LeaveStep ==
  ASSUME IInv, UNCHANGED <<enc, meta, owed, upset>>,
         settings' \in Settings, InitFlags' \subseteq ALL,
         InitFlags' # ALL => InitFlags # ALL,
         Histories', sent' = NothingSent
  PROVE  IInv'
<1>1. Type /\ Described /\ Ordered
  BY DEF IInv
<1>2. enc \in EncType /\ MetaOk(enc, meta)
  BY <1>1, TypeParts
<1>3. Type'
  BY <1>2, TypePartsNext
<1>4. Described'
  BY <1>1 DEF Described, SetUp
<1>5. Ordered'
  BY <1>1 DEF Ordered, InPlace, nSamplesRead
<1>6. InOrder'
  BY Nothing DEF InOrder
<1> QED BY <1>3, <1>4, <1>5, <1>6 DEF IInv

(* Calls that drop what is in the input buffer                              *)
LEMMA DropStep ==
  ASSUME IInv, Drop, meta' = meta,
         settings' \in Settings, InitFlags' \subseteq ALL,
         InitFlags' # ALL => InitFlags # ALL, sent' = NothingSent,
         result' = "set", UNCHANGED <<tail, stream, resumed>>
  PROVE  IInv'
<1>1. Type /\ Described /\ Ordered
  BY DEF IInv
<1>2. enc \in EncType /\ MetaOk(enc, meta) /\ Histories
  BY <1>1, TypeParts
<1>3. /\ enc.inputBuffer \in Seq(Samples) /\ nSamplesRead \in Nat
      /\ nSamplesRead = Len(enc.inputBuffer)
      /\ meta.audio \in Seq(Samples) /\ Len(meta.audio) \in Nat
      /\ owed \in Seq(Samples) /\ Len(owed) \in Nat
      /\ Len(owed) = Len(meta.audio) + nSamplesRead /\ time \in Nat
  BY Before1
<1>4. <<>> \in Seq(Samples) /\ Len(<<>>) = 0
  BY EmptySeq
<1>5. /\ enc' \in EncType /\ enc'.inputBuffer = <<>>
      /\ enc'.core = enc.core /\ enc'.nSamplesToRead = enc.nSamplesToRead
      /\ enc'.metaDataAllowed = enc.metaDataAllowed
  BY <1>2, <1>4 DEF Drop, EncType
<1>6. owed' = SubSeq(owed, 1, Len(meta.audio))
  <2>1. Len(owed) - nSamplesRead = Len(meta.audio)
    BY <1>3
  <2> QED BY <2>1 DEF Drop
<1>7. owed' \in Seq(Samples) /\ Len(owed') = Len(meta.audio)
  <2>1. Len(meta.audio) \in 0 .. Len(owed)
    BY <1>3, PartOfSum
  <2>2. 0 \in 0 .. Len(meta.audio)
    BY <1>3
  <2> QED BY <1>3, <1>6, <2>1, <2>2, FrontFacts
<1>8. Histories'
  <2>1. time' \in 0 .. Cycle - 1
    BY <1>3, SampleFacts DEF Drop
  <2> QED BY <1>2, <1>7, <2>1, Nothing DEF Histories, Drop
<1>9. Type'
  BY <1>2, <1>5, <1>8, TypePartsNext DEF MetaOk
<1>10. Described'
  BY <1>1, <1>5 DEF Described, SetUp
<1>11. nSamplesRead' = 0
  BY <1>4, <1>5 DEF nSamplesRead
<1>12. InitFlags' # ALL => InPlace'
  <2> SUFFICES ASSUME InitFlags # ALL PROVE InPlace'
    OBVIOUS
  <2>1. enc'.inputBuffer = Final(nSamplesRead', owed')
    BY <1>5, <1>7, <1>11, FinalOfAll
  <2>2. upset' = 0 => owed' = meta'.audio \o enc'.inputBuffer
    <3> SUFFICES ASSUME upset = 0 PROVE owed' = meta.audio \o <<>>
      BY <1>5 DEF Drop
    <3>1. owed = meta.audio \o enc.inputBuffer
      BY <1>1 DEF Ordered, InPlace
    <3>2. owed' = meta.audio
      BY <1>3, <1>6, <3>1, FrontOfConcat
    <3> QED BY <1>3, <3>2, ConcatEmptySeq
  <2> QED BY <2>1, <2>2 DEF InPlace
<1>13. Ordered'
  BY <1>1, <1>3, <1>5, <1>7, <1>11, <1>12 DEF Ordered
<1>14. InOrder'
  BY Nothing DEF InOrder
<1> QED BY <1>9, <1>10, <1>13, <1>14 DEF IInv

-----------------------------------------------------------------------------
(* Not enough for a frame                                                   *)
LEMMA AcceptStep ==
  ASSUME IInv, NEW n \in Nat, Accept(n)
  PROVE  IInv'
<1> DEFINE fed == Fed(n, TRUE)
<1>1. Type /\ Described /\ Ordered
  BY DEF IInv
<1>2. enc \in EncType /\ MetaOk(enc, meta) /\ Histories /\ settings \in Settings
  BY <1>1, TypeParts
<1>3. /\ enc.inputBuffer \in Seq(Samples) /\ nSamplesRead \in Nat
      /\ nSamplesRead = Len(enc.inputBuffer)
      /\ meta.audio \in Seq(Samples) /\ Len(meta.audio) \in Nat
      /\ owed \in Seq(Samples) /\ Len(owed) \in Nat
      /\ Len(owed) = Len(meta.audio) + nSamplesRead /\ time \in Nat
  BY Before1
<1>4. fed \in Seq(Samples) /\ Len(fed) = n
  BY <1>3, SampleFacts
<1>5. /\ InitFlags = {} /\ InitFlags' = InitFlags
      /\ enc' = [enc EXCEPT !.inputBuffer = @ \o fed]
      /\ owed' = owed \o fed /\ time' = (time + n) % Cycle
      /\ resumed' = Resumed(n) /\ result' = "returned" /\ sent' = NothingSent
      /\ UNCHANGED <<settings, meta, tail, stream, upset>>
  BY DEF Accept
<1> HIDE DEF fed
<1>6. /\ enc.inputBuffer \o fed \in Seq(Samples)
      /\ Len(enc.inputBuffer \o fed) = nSamplesRead + n
      /\ owed' \in Seq(Samples) /\ Len(owed') = Len(owed) + n
  BY <1>3, <1>4, <1>5, ConcatProperties
<1>7. /\ enc' \in EncType /\ enc'.inputBuffer = enc.inputBuffer \o fed
      /\ enc'.core = enc.core /\ enc'.nSamplesToRead = enc.nSamplesToRead
      /\ enc'.metaDataAllowed = enc.metaDataAllowed
  BY <1>2, <1>5, <1>6 DEF EncType
<1>8. resumed' \in BOOLEAN
  BY <1>5, Zenon DEF Resumed
<1>9. Histories'
  <2>1. time' \in 0 .. Cycle - 1
    BY <1>3, <1>5, SampleFacts
  <2> QED BY <1>2, <1>5, <1>6, <1>8, <2>1, Nothing DEF Histories
<1>10. Type'
  BY <1>2, <1>5, <1>7, <1>9, TypePartsNext DEF MetaOk
<1>11. Described'
  BY <1>1, <1>5, <1>7 DEF Described, SetUp
<1>12. nSamplesRead' = nSamplesRead + n
  BY <1>6, <1>7 DEF nSamplesRead
<1>13. InPlace
  <2>1. InitFlags # ALL
    BY <1>5 DEF ALL
  <2> QED BY <1>1, <2>1 DEF Ordered
<1>14. InPlace'
  <2>1. upset <= 1 => enc'.inputBuffer = Final(nSamplesRead + n, owed')
    <3> SUFFICES ASSUME upset <= 1 PROVE enc'.inputBuffer = Final(nSamplesRead + n, owed')
      OBVIOUS
    <3>1. nSamplesRead \in 0 .. Len(owed)
      BY <1>3, PartOfSum
    <3>2. Final(nSamplesRead + n, owed \o fed) = Final(nSamplesRead, owed) \o fed
      BY <1>3, <1>4, <3>1, FinalOfConcat
    <3> QED BY <1>5, <1>7, <1>13, <3>2 DEF InPlace
  <2>2. upset = 0 => owed' = meta.audio \o enc'.inputBuffer
    <3> SUFFICES ASSUME upset = 0 PROVE owed' = meta.audio \o enc'.inputBuffer
      OBVIOUS
    <3>1. owed = meta.audio \o enc.inputBuffer
      BY <1>13 DEF InPlace
    <3>2. (meta.audio \o enc.inputBuffer) \o fed = meta.audio \o (enc.inputBuffer \o fed)
      <4> DEFINE a == meta.audio
                 b == enc.inputBuffer
      <4>1. a \in Seq(Samples) /\ b \in Seq(Samples) /\ fed \in Seq(Samples)
        BY <1>3, <1>4
      <4> HIDE DEF a, b
      <4>2. (a \o b) \o fed = a \o (b \o fed)
        BY <4>1, ConcatAssociative
      <4> QED BY <4>2 DEF a, b
    <3> QED BY <1>5, <1>7, <3>1, <3>2
  <2> QED BY <1>5, <1>12, <2>1, <2>2 DEF InPlace
<1>15. Ordered'
  <2>1. Len(owed') = Len(meta'.audio) + nSamplesRead'
    <3>1. Len(meta'.audio) = Len(meta.audio)
      BY <1>5
    <3>2. Len(owed') = (Len(meta.audio) + nSamplesRead) + n
      BY <1>3, <1>6
    <3>3. (Len(meta.audio) + nSamplesRead) + n = Len(meta.audio) + (nSamplesRead + n)
      BY <1>3, SumOfThree
    <3> QED BY <1>12, <3>1, <3>2, <3>3, Zenon
  <2>2. ~enc'.metaDataAllowed => meta' = Closed
    BY <1>1, <1>5, <1>7 DEF Ordered
  <2> QED BY <1>14, <2>1, <2>2 DEF Ordered
<1>16. InOrder'
  BY <1>5, Nothing DEF InOrder
<1> QED BY <1>10, <1>11, <1>15, <1>16 DEF IInv

-----------------------------------------------------------------------------
(* One frame of coding: a is what the delay line holds, b the filled input  *)
(* buffer, d what the core is owed.                                         *)
FrameParts(a, b, d, F, buffer, rest) ==
  /\ buffer \in Seq(Samples) /\ Len(buffer) = Len(b)
  /\ SubSeq(buffer, 1, F) \in Seq(Samples) /\ Len(SubSeq(buffer, 1, F)) = F
  /\ SubSeq(buffer, 1, Len(buffer) - F) \in Seq(Samples)
  /\ Len(SubSeq(buffer, 1, Len(buffer) - F)) = Len(b) - F
  /\ rest \in Seq(Samples) /\ Len(rest) = Len(a)
  /\ SubSeq(d, F + 1, Len(d)) \in Seq(Samples)
  /\ Len(SubSeq(d, F + 1, Len(d))) = Len(a) + (Len(b) - F)
  /\ d = a \o b => SubSeq(buffer, 1, F) = SubSeq(d, 1, F)
  /\ Len(b) = F => SubSeq(buffer, 1, Len(buffer) - F) = <<>>
  /\ Len(b) = F /\ Final(Len(b), d) = b => SubSeq(d, F + 1, Len(d)) = rest

LEMMA FrameOrder ==
  ASSUME NEW a \in Seq(Samples), NEW b \in Seq(Samples), NEW d \in Seq(Samples), NEW F \in Nat,
         Len(a) <= F, F <= Len(b), Len(d) = Len(a) + Len(b),
         NEW buffer, buffer = SubSeq(a \o b, 1, Len(b)),
         NEW rest, rest = Final(Len(a), a \o b)
  PROVE  FrameParts(a, b, d, F, buffer, rest)
<1> DEFINE w == a \o b
<1>1. /\ Len(a) \in Nat /\ Len(b) \in Nat /\ Len(d) \in Nat
      /\ w \in Seq(Samples) /\ Len(w) = Len(a) + Len(b)
  BY LenProperties, ConcatProperties
<1>2. buffer = SubSeq(w, 1, Len(b)) /\ rest = Final(Len(a), w)
  OBVIOUS
<1> HIDE DEF w
<1>3. Len(b) \in 0 .. Len(w) /\ Len(a) \in 0 .. Len(w) /\ F \in 0 .. Len(b)
  BY <1>1
<1>4. buffer \in Seq(Samples) /\ Len(buffer) = Len(b)
  BY <1>1, <1>2, <1>3, FrontFacts
<1>5. SubSeq(buffer, 1, F) = SubSeq(w, 1, F)
  BY <1>1, <1>2, <1>3, FrontFacts
<1>6. SubSeq(buffer, 1, F) \in Seq(Samples) /\ Len(SubSeq(buffer, 1, F)) = F
  <2>1. F \in 0 .. Len(buffer) /\ 0 \in 0 .. F
    BY <1>3, <1>4
  <2> QED BY <1>4, <2>1, FrontFacts
<1>7. /\ SubSeq(buffer, 1, Len(buffer) - F) \in Seq(Samples)
      /\ Len(SubSeq(buffer, 1, Len(buffer) - F)) = Len(b) - F
  <2>1. Len(buffer) - F \in 0 .. Len(buffer) /\ 0 \in 0 .. Len(buffer) - F
    BY <1>1, <1>3, <1>4
  <2>2. /\ SubSeq(buffer, 1, Len(buffer) - F) \in Seq(Samples)
        /\ Len(SubSeq(buffer, 1, Len(buffer) - F)) = Len(buffer) - F
    BY <1>4, <2>1, FrontFacts
  <2> QED BY <1>4, <2>2
<1>8. rest \in Seq(Samples) /\ Len(rest) = Len(a)
  BY <1>1, <1>2, <1>3, FinalFacts
<1>9. /\ F \in 0 .. Len(d) /\ Len(d) - F \in 0 .. Len(d)
      /\ SubSeq(d, F + 1, Len(d)) = Final(Len(d) - F, d)
      /\ Len(d) - F = Len(a) + (Len(b) - F)
  <2>1. F \in 0 .. Len(d) /\ Len(d) - F \in 0 .. Len(d)
    BY <1>1
  <2>2. SubSeq(d, F + 1, Len(d)) = Final(Len(d) - F, d)
    BY <2>1, FinalIsRest
  <2>3. Len(d) - F = Len(a) + (Len(b) - F)
    BY <1>1
  <2> QED BY <2>1, <2>2, <2>3
<1>10. /\ SubSeq(d, F + 1, Len(d)) \in Seq(Samples)
       /\ Len(SubSeq(d, F + 1, Len(d))) = Len(a) + (Len(b) - F)
  BY <1>9, FinalFacts
<1>11. Len(b) = F => SubSeq(buffer, 1, Len(buffer) - F) = <<>>
  BY <1>4, <1>7, EmptySeq
<1>12. ASSUME Len(b) = F, Final(Len(b), d) = b
       PROVE  SubSeq(d, F + 1, Len(d)) = rest
  <2>1. Len(d) - F = Len(a) /\ Len(b) \in 0 .. Len(d) /\ Len(a) \in 0 .. Len(b)
    BY <1>1, <1>12
  <2>2. Final(Len(a), Final(Len(b), d)) = Final(Len(a), d)
    BY <2>1, FinalOfFinal
  <2>3. Final(Len(a), a \o b) = Final(Len(a), b)
    BY <2>1, FinalOfConcat
  <2> QED BY <1>9, <1>12, <2>1, <2>2, <2>3
<1>13. d = a \o b => SubSeq(buffer, 1, F) = SubSeq(d, 1, F)
  BY <1>5 DEF w
<1> QED BY <1>4, <1>6, <1>7, <1>8, <1>10, <1>11, <1>12, <1>13 DEF FrameParts

(* A frame of metadata keeps the line and its index in range.               *)
LEMMA ProcessedFacts ==
  ASSUME NEW m \in MetaType, m.idx <= m.nMetaDataDelay, NEW at \in 0 .. Cycle,
         NEW buffer, Remaining(m, buffer) \in Seq(Samples)
  PROVE  /\ Processed(m, at, buffer) \in MetaType
         /\ Processed(m, at, buffer).idx <= Processed(m, at, buffer).nMetaDataDelay
         /\ Processed(m, at, buffer).nMetaDataDelay = m.nMetaDataDelay
         /\ Processed(m, at, buffer).audio = Remaining(m, buffer)
<1>1. DelayFrames \in Nat /\ Cycle \in Nat
  BY EncDelays, EncBounds
<1>2. /\ m.finalize \in BOOLEAN /\ m.initialize \in BOOLEAN /\ m.on \in BOOLEAN
      /\ m.nMetaDataDelay \in Lines /\ m.idx \in Lines /\ m.line \in [Lines -> Entries]
      /\ m.channels \in Channels \cup {0}
  BY DEF MetaType
<1>3. NotWritten \in Entries /\ Entry(m, at) \in Entries
  <2>1. \A kind \in {"submitted", "closing"} : [kind |-> kind, at |-> at] \in Entries
    BY DEF Entries
  <2>2. NotWritten \in Entries
    BY <1>1 DEF Entries, NotWritten
  <2> QED BY <2>1, <2>2 DEF Entry
<1>4. \A entry \in Entries : [entry EXCEPT !.at = Cycle] \in Entries
  BY <1>1 DEF Entries
<1>5. Filled(m, Entry(m, at)) \in [Lines -> Entries]
  BY <1>2, <1>3, <1>4 DEF Filled
<1>6. Advance(m) \in Lines /\ Advance(m) <= m.nMetaDataDelay
  BY <1>1, <1>2 DEF Advance, Lines
<1> DEFINE f == m.finalize /\ ~Closing(m)
           i == m.initialize /\ ~m.on
<1>7. f \in BOOLEAN /\ i \in BOOLEAN
  BY Zenon
<1>8. Processed(m, at, buffer) =
        [m EXCEPT !.finalize = f, !.initialize = i, !.line = Filled(m, Entry(m, at)),
                  !.idx = Advance(m), !.audio = Remaining(m, buffer)]
  BY DEF Processed
<1> HIDE DEF f, i
<1>9. Processed(m, at, buffer) =
        [finalize |-> f, initialize |-> i, on |-> m.on,
         nMetaDataDelay |-> m.nMetaDataDelay, channels |-> m.channels,
         audio |-> Remaining(m, buffer), line |-> Filled(m, Entry(m, at)),
         idx |-> Advance(m)]
  BY <1>8 DEF MetaType
<1>10. Processed(m, at, buffer) \in MetaType
  BY <1>2, <1>5, <1>6, <1>7, <1>9 DEF MetaType
<1> QED BY <1>6, <1>9, <1>10

LEMMA TailFacts ==
  ASSUME NEW coded \in Seq(Samples), tail \in 0 .. MaxTail
  PROVE  TailAfter(coded) \in 0 .. MaxTail
<1> DEFINE reals == {i \in DOMAIN coded : coded[i].real}
           after == {i \in DOMAIN coded : \A r \in reals : i > r}
<1>1. Len(coded) \in Nat /\ DOMAIN coded = 1 .. Len(coded) /\ MaxTail \in Nat
  BY LenProperties, EncBounds
<1>2. IsFiniteSet(1 .. Len(coded))
  BY <1>1, FS_Interval
<1>3. IsFiniteSet(after)
  <2>1. after \subseteq 1 .. Len(coded)
    BY <1>1
  <2> QED BY <1>2, <2>1, FS_Subset
<1>4. Cardinality(after) \in Nat
  BY <1>3, FS_CardinalityType
<1> DEFINE c == Cardinality(after)
           more == IF reals = {} THEN tail ELSE 0
<1>5. more \in Nat
  BY <1>1
<1>6. TailAfter(coded) = Lesser(MaxTail, c + more)
  BY DEF TailAfter
<1> HIDE DEF c, more
<1>7. c \in Nat
  BY <1>4 DEF c
<1> QED BY <1>1, <1>5, <1>6, <1>7 DEF Lesser

LEMMA SumOfTwo ==
  \A a \in Nat, b \in Nat : a + b \in Nat
OBVIOUS

LEMMA UpsetFacts ==
  \A u \in {0, 1, 2} : Larger(0, u - 1) \in {0, 1} /\ (Larger(0, u - 1) = 0 => u <= 1)
BY DEF Larger

LEMMA Filling ==
  /\ \A F \in Nat, r \in Nat, n \in Nat :
       r + n >= F => /\ Larger(0, Lesser(n, F - r)) \in Nat
                     /\ r + Larger(0, Lesser(n, F - r)) >= F
  /\ \A F \in Nat, r \in Nat :
       Larger(0, F - r) \in Nat /\ r + Larger(0, F - r) >= F
BY DEF Larger, Lesser

(* The samples that fill a frame make it a whole one.                       *)
LEMMA FrameFilled ==
  ASSUME IInv, NEW n \in Offers \cup {0, -1}, NEW fate, EncodeFrame(n, fate),
         NEW new, new = IF n = -1 THEN Zeros ELSE Accepts(n)
  PROVE  /\ new \in Nat /\ nSamplesRead + new >= enc.nSamplesToRead
         /\ Appended(new) \in Nat
<1>1. enc.nSamplesToRead \in Nat /\ nSamplesRead \in Nat
  BY Before1
<1>2. enc.nZerosAppended \in Nat
  BY TypeParts DEF IInv, EncType
<1>3. CASE n = -1
  <2>1. new = Larger(0, enc.nSamplesToRead - nSamplesRead)
    BY <1>3 DEF Zeros
  <2>2. new \in Nat /\ nSamplesRead + new >= enc.nSamplesToRead
    BY <1>1, <2>1, Filling
  <2> QED BY <1>2, <2>2, SumOfTwo DEF Appended
<1>4. CASE n # -1
  <2>1. n \in Nat
    BY <1>4, EncBounds
  <2>2. new = Larger(0, Lesser(n, enc.nSamplesToRead - nSamplesRead))
    BY <1>4 DEF Accepts
  <2>3. nSamplesRead + n >= enc.nSamplesToRead
    BY <1>4 DEF EncodeFrame
  <2>4. new \in Nat /\ nSamplesRead + new >= enc.nSamplesToRead
    BY <1>1, <2>1, <2>2, <2>3 DEF Larger, Lesser
  <2> QED BY <1>2, <2>4, SumOfTwo DEF Appended
<1> QED BY <1>3, <1>4

LEMMA EncodeStep ==
  ASSUME IInv, NEW n \in Offers \cup {0, -1}, NEW fate \in {"ok", "coding", "output"},
         EncodeFrame(n, fate)
  PROVE  IInv'
<1> DEFINE flushing == n = -1
           new      == IF n = -1 THEN Zeros ELSE Accepts(n)
           fed      == Fed(new, ~flushing)
           filled   == enc.inputBuffer \o fed
           at       == Before(time, nSamplesRead)
           delayed  == enc.metaDataAllowed
           m        == IF delayed THEN Processed(meta, at, filled) ELSE meta
           buffer   == IF delayed THEN Compensated(meta, filled) ELSE filled
           coded    == SubSeq(buffer, 1, enc.nSamplesToRead)
           left     == SubSeq(buffer, 1, Len(buffer) - enc.nSamplesToRead)
           due      == owed \o fed
           cut      == SubSeq(due, enc.nSamplesToRead + 1, Len(due))
           payload  == IF delayed THEN m.line[m.idx] ELSE NotWritten
<1>1. Type /\ Described /\ Ordered
  BY DEF IInv
<1>2. enc \in EncType /\ MetaOk(enc, meta) /\ Histories /\ settings \in Settings
  BY <1>1, TypeParts
<1>3. /\ enc.inputBuffer \in Seq(Samples) /\ nSamplesRead \in Nat
      /\ nSamplesRead = Len(enc.inputBuffer)
      /\ meta.audio \in Seq(Samples) /\ Len(meta.audio) \in Nat
      /\ owed \in Seq(Samples) /\ Len(owed) \in Nat
      /\ Len(owed) = Len(meta.audio) + nSamplesRead
      /\ enc.nSamplesToRead \in Nat /\ time \in Nat /\ upset \in {0, 1, 2}
  BY Before1
<1>4. /\ InitFlags = {}
      /\ enc' = [enc EXCEPT !.inputBuffer = IF fate = "coding" THEN buffer ELSE left,
                            !.nZerosAppended = IF flushing THEN Appended(new) ELSE @]
      /\ meta' = m
      /\ InitFlags' = IF fate = "ok" THEN {} ELSE ALL
      /\ result' = IF flushing /\ fate = "ok" THEN "flushed" ELSE "returned"
      /\ time' = (time + new) % Cycle
      /\ owed' = IF fate = "coding" THEN due ELSE cut
      /\ tail' = IF fate = "coding" THEN tail ELSE TailAfter(coded)
      /\ sent' = [inOrder |-> upset > 0 \/ coded = SubSeq(due, 1, enc.nSamplesToRead),
                  aligned |-> upset > 0 \/ AlignedWith(coded, payload),
                  ends    |-> stream = "open" => payload.kind # "none"]
      /\ stream' = IF fate = "ok" THEN After(payload.kind, m) ELSE "cut"
      /\ upset' = IF Len(filled) > enc.nSamplesToRead THEN 2
                  ELSE IF fate = "coding" THEN upset
                  ELSE Larger(0, upset - 1)
      /\ resumed' = Resumed(IF flushing THEN 0 ELSE new)
      /\ UNCHANGED settings
  BY DEF EncodeFrame
<1>5. new \in Nat /\ nSamplesRead + new >= enc.nSamplesToRead /\ Appended(new) \in Nat
  BY FrameFilled
<1>6. fed \in Seq(Samples) /\ Len(fed) = new
  <2>1. (~flushing) \in BOOLEAN
    OBVIOUS
  <2> HIDE DEF new, flushing
  <2> QED BY <1>3, <1>5, <2>1, SampleFacts
<1> HIDE DEF fed, new
<1>7. filled \in Seq(Samples) /\ Len(filled) = nSamplesRead + new
  BY <1>3, <1>6, ConcatProperties
<1>8. due \in Seq(Samples) /\ Len(due) = Len(owed) + new
  BY <1>3, <1>6, ConcatProperties
<1>9. InPlace
  <2>1. InitFlags # ALL
    BY <1>4 DEF ALL
  <2> QED BY <1>1, <2>1 DEF Ordered
<1>10. upset <= 1 => Final(Len(filled), due) = filled
  <2> SUFFICES ASSUME upset <= 1 PROVE Final(Len(filled), due) = filled
    OBVIOUS
  <2>1. nSamplesRead \in 0 .. Len(owed)
    BY <1>3, PartOfSum
  <2>2. Final(nSamplesRead + new, owed \o fed) = Final(nSamplesRead, owed) \o fed
    BY <1>3, <1>6, <2>1, FinalOfConcat
  <2> QED BY <1>7, <1>9, <2>2 DEF InPlace
<1>11. upset = 0 => due = meta.audio \o filled
  <2> SUFFICES ASSUME upset = 0 PROVE due = meta.audio \o filled
    OBVIOUS
  <2> DEFINE a == meta.audio
             b == enc.inputBuffer
  <2>1. a \in Seq(Samples) /\ b \in Seq(Samples)
    BY <1>3
  <2>2. owed = a \o b
    BY <1>9 DEF InPlace
  <2> HIDE DEF a, b
  <2>3. (a \o b) \o fed = a \o (b \o fed)
    BY <1>6, <2>1, ConcatAssociative
  <2> QED BY <2>2, <2>3 DEF a, b
<1> HIDE DEF filled, due
<1>12. /\ buffer = SubSeq(meta.audio \o filled, 1, Len(filled))
       /\ m.audio = Final(Len(meta.audio), meta.audio \o filled)
       /\ m \in MetaType /\ m.idx <= m.nMetaDataDelay
       /\ m.nMetaDataDelay = meta.nMetaDataDelay
       /\ ~delayed => m = meta
  <2>1. CASE delayed
    <3>1. /\ meta.audio \o filled \in Seq(Samples)
          /\ Len(meta.audio) \in 0 .. Len(meta.audio \o filled)
      <4>1. /\ meta.audio \o filled \in Seq(Samples)
            /\ Len(meta.audio \o filled) = Len(meta.audio) + Len(filled)
        BY <1>3, <1>7, ConcatProperties
      <4>2. Len(filled) \in Nat
        BY <1>7, LenProperties
      <4>3. Len(meta.audio \o filled) \in Nat
        BY <4>1, LenProperties
      <4> QED BY <1>3, <4>1, <4>2, <4>3, PartOfSum
    <3>2. Remaining(meta, filled) \in Seq(Samples)
      BY <3>1, FinalFacts DEF Remaining
    <3>3. at \in 0 .. Cycle
      <4>1. at \in 0 .. Cycle - 1
        BY <1>3, SampleFacts
      <4> QED BY <4>1, EncBounds
    <3>4. meta \in MetaType /\ meta.idx <= meta.nMetaDataDelay
      BY <1>2 DEF MetaOk
    <3> HIDE DEF at
    <3> QED BY <2>1, <3>2, <3>3, <3>4, ProcessedFacts DEF Compensated, Remaining
  <2>2. CASE ~delayed
    <3>1. meta.audio = <<>>
      BY <1>1, <2>2 DEF Ordered, Closed
    <3>2. meta.audio \o filled = filled /\ Len(meta.audio) = 0
      BY <1>7, <3>1, ConcatEmptySeq, EmptySeq
    <3>3. SubSeq(filled, 1, Len(filled)) = filled /\ Final(0, filled) = <<>>
      BY <1>7, SubSeqFull, FinalOfAll
    <3>4. meta \in MetaType /\ meta.idx <= meta.nMetaDataDelay
      BY <1>2 DEF MetaOk
    <3> QED BY <2>2, <3>1, <3>2, <3>3, <3>4
  <2> QED BY <2>1, <2>2
<1>13. /\ Len(meta.audio) <= enc.nSamplesToRead /\ enc.nSamplesToRead <= Len(filled)
       /\ Len(due) = Len(meta.audio) + Len(filled)
  <2>1. Len(meta.audio) <= enc.nSamplesToRead
    <3>1. CASE delayed
      BY <1>2, <1>3, <3>1 DEF MetaOk
    <3>2. CASE ~delayed
      <4>1. meta.audio = <<>>
        BY <1>1, <3>2 DEF Ordered, Closed
      <4> QED BY <1>3, <4>1, EmptySeq
    <3> QED BY <3>1, <3>2
  <2>2. enc.nSamplesToRead <= Len(filled)
    BY <1>5, <1>7
  <2>3. Len(due) = Len(meta.audio) + Len(filled)
    <3>1. Len(due) = (Len(meta.audio) + nSamplesRead) + new
      BY <1>3, <1>8
    <3>2. (Len(meta.audio) + nSamplesRead) + new = Len(meta.audio) + (nSamplesRead + new)
      BY <1>3, <1>5, SumOfThree
    <3> QED BY <1>7, <3>1, <3>2, Zenon
  <2> QED BY <2>1, <2>2, <2>3
<1>14. /\ buffer \in Seq(Samples) /\ Len(buffer) = Len(filled)
       /\ coded \in Seq(Samples) /\ left \in Seq(Samples)
       /\ Len(left) = Len(filled) - enc.nSamplesToRead
       /\ m.audio \in Seq(Samples) /\ Len(m.audio) = Len(meta.audio)
       /\ cut \in Seq(Samples)
       /\ Len(cut) = Len(meta.audio) + (Len(filled) - enc.nSamplesToRead)
       /\ due = meta.audio \o filled => coded = SubSeq(due, 1, enc.nSamplesToRead)
       /\ Len(filled) = enc.nSamplesToRead => left = <<>>
       /\ Len(filled) = enc.nSamplesToRead /\ Final(Len(filled), due) = filled =>
            cut = m.audio
  <2> DEFINE b == buffer
             r == m.audio
             a == meta.audio
             F == enc.nSamplesToRead
  <2>1. b = SubSeq(meta.audio \o filled, 1, Len(filled))
    BY <1>12
  <2>2. r = Final(Len(meta.audio), meta.audio \o filled)
    BY <1>12
  <2>3. /\ a \in Seq(Samples) /\ F \in Nat /\ Len(a) <= F
        /\ F <= Len(filled) /\ Len(due) = Len(a) + Len(filled)
        /\ filled \in Seq(Samples) /\ due \in Seq(Samples)
    BY <1>3, <1>7, <1>8, <1>13
  <2> HIDE DEF b, r, a, F
  <2>4. b = SubSeq(a \o filled, 1, Len(filled)) /\ r = Final(Len(a), a \o filled)
    BY <2>1, <2>2 DEF a
  <2>5. FrameParts(a, filled, due, F, b, r)
    BY <2>3, <2>4, FrameOrder
  <2> QED BY <2>5 DEF FrameParts, b, r, a, F
<1> DEFINE kept == IF fate = "coding" THEN buffer ELSE left
<1>15. kept \in Seq(Samples)
  BY <1>14
<1>16. /\ enc' \in EncType /\ enc'.inputBuffer = kept
       /\ enc'.core = enc.core /\ enc'.nSamplesToRead = enc.nSamplesToRead
       /\ enc'.metaDataAllowed = enc.metaDataAllowed
  <2> DEFINE z == IF flushing THEN Appended(new) ELSE enc.nZerosAppended
  <2>1. z \in Nat
    BY <1>2, <1>5 DEF EncType
  <2>2. enc' = [enc EXCEPT !.inputBuffer = kept, !.nZerosAppended = z]
    BY <1>4
  <2> HIDE DEF z, kept
  <2> QED BY <1>2, <1>15, <2>1, <2>2 DEF EncType
<1>17. owed' \in Seq(Samples)
  BY <1>4, <1>8, <1>14
<1> DEFINE ordered == upset > 0 \/ coded = SubSeq(due, 1, enc.nSamplesToRead)
           aligned == upset > 0 \/ AlignedWith(coded, payload)
           ends    == stream = "open" => payload.kind # "none"
<1>18. sent' = [inOrder |-> ordered, aligned |-> aligned, ends |-> ends]
  BY <1>4
<1>19. ordered \in BOOLEAN /\ aligned \in BOOLEAN /\ ends \in BOOLEAN
  BY Zenon DEF AlignedWith
<1>20. ordered
  <2>1. CASE upset = 0
    BY <1>11, <1>14, <2>1
  <2>2. CASE upset # 0
    <3>1. upset > 0
      BY <1>3, <2>2
    <3> QED BY <3>1
  <2> QED BY <2>1, <2>2
<1>21. tail' \in 0 .. MaxTail
  <2>1. tail \in 0 .. MaxTail
    BY <1>2 DEF Histories
  <2> HIDE DEF coded
  <2> QED BY <1>4, <1>14, <2>1, TailFacts
<1>22. stream' \in {"closed", "open", "cut"}
  <2> HIDE DEF payload, m
  <2> QED BY <1>4 DEF After
<1>23. /\ upset' \in 0 .. 2
       /\ Len(filled) = enc.nSamplesToRead /\ upset' = 0 /\ fate # "coding" => upset <= 1
       /\ Len(filled) # enc.nSamplesToRead => upset' = 2
  <2>1. Larger(0, upset - 1) \in {0, 1} /\ (Larger(0, upset - 1) = 0 => upset <= 1)
    BY <1>3, UpsetFacts
  <2>2. Len(filled) > enc.nSamplesToRead \/ Len(filled) = enc.nSamplesToRead
    <3>1. enc.nSamplesToRead \in Nat /\ Len(filled) \in Nat
      BY <1>3, <1>7, LenProperties
    <3> QED BY <1>13, <3>1
  <2> QED BY <1>3, <1>4, <2>1, <2>2
<1> HIDE DEF ordered, aligned, ends
<1>24. Histories'
  <2>1. time' \in 0 .. Cycle - 1
    BY <1>3, <1>4, <1>5, SampleFacts
  <2>2. resumed' \in BOOLEAN
    BY <1>4, Zenon DEF Resumed
  <2>3. sent' \in [inOrder : BOOLEAN, aligned : BOOLEAN, ends : BOOLEAN]
    BY <1>18, <1>19
  <2>4. result' \in {"set", "refused", "returned", "flushed", "eof"}
    BY <1>4
  <2> QED BY <1>17, <1>21, <1>22, <1>23, <2>1, <2>2, <2>3, <2>4 DEF Histories
<1>25. InitFlags' \subseteq ALL
  BY <1>4
<1> HIDE DEF m, kept, cut, left, buffer
<1>26. MetaOk(enc', meta')
  BY <1>2, <1>4, <1>12, <1>14, <1>16 DEF MetaOk
<1>27. Type'
  BY <1>2, <1>4, <1>16, <1>24, <1>25, <1>26, TypePartsNext
<1>28. Described'
  BY <1>1, <1>4, <1>12, <1>14, <1>16 DEF Described, SetUp
<1>29. nSamplesRead' = Len(kept)
  BY <1>16 DEF nSamplesRead
<1>30. Len(owed') = Len(meta'.audio) + nSamplesRead'
  BY <1>4, <1>13, <1>14, <1>29 DEF kept
<1>31. InitFlags' # ALL => InPlace'
  <2> SUFFICES ASSUME fate = "ok" PROVE InPlace'
    BY <1>4
  <2>1. CASE Len(filled) = enc.nSamplesToRead
    <3>1. kept = <<>> /\ owed' = cut
      BY <1>4, <1>14, <2>1 DEF kept
    <3>2. enc'.inputBuffer = Final(nSamplesRead', owed')
      BY <1>16, <1>17, <1>29, <3>1, FinalOfAll, EmptySeq
    <3>3. upset' = 0 => owed' = meta'.audio \o enc'.inputBuffer
      <4> SUFFICES ASSUME upset' = 0 PROVE owed' = m.audio \o <<>>
        BY <1>4, <1>16, <3>1
      <4>1. upset <= 1
        BY <1>23, <2>1
      <4>2. cut = m.audio
        BY <1>10, <1>14, <2>1, <4>1
      <4> QED BY <1>14, <3>1, <4>2, ConcatEmptySeq
    <3> QED BY <3>2, <3>3 DEF InPlace
  <2>2. CASE Len(filled) # enc.nSamplesToRead
    <3>1. upset' = 2
      BY <1>23, <2>2
    <3>2. ~(upset' <= 1) /\ upset' # 0
      BY <3>1
    <3> QED BY <3>2 DEF InPlace
  <2> QED BY <2>1, <2>2
<1>32. ~enc'.metaDataAllowed => meta' = Closed
  BY <1>1, <1>4, <1>12, <1>16 DEF Ordered
<1>33. Ordered'
  BY <1>30, <1>31, <1>32 DEF Ordered
<1>34. InOrder'
  BY <1>18, <1>20 DEF InOrder
<1> QED BY <1>27, <1>28, <1>33, <1>34 DEF IInv

-----------------------------------------------------------------------------
(* FDK_MetadataEnc_Init sets the metadata up as its arguments describe: the *)
(* line for audio is long enough, its index in range of the one for         *)
(* metadata, which EncDelays is needed for when neither is reset.           *)
LEMMA MetaInitFacts ==
  ASSUME IInv, NEW p \in MetaSettings,
         NEW m, m = MetaInit(meta, p[2], CoreDelay[p])
  PROVE  /\ m \in MetaType /\ m.idx <= m.nMetaDataDelay
         /\ Len(m.audio) = AudioDelay(CoreDelay[p], p[2])
         /\ m.nMetaDataDelay = MetaFrames(CoreDelay[p], p[2])
         /\ LinesReset(meta, p[2], CoreDelay[p]) => m.audio = Blanks(Len(m.audio))
         /\ ~LinesReset(meta, p[2], CoreDelay[p]) => m.audio = meta.audio
<1> DEFINE reset == LinesReset(meta, p[2], CoreDelay[p])
           delay == AudioDelay(CoreDelay[p], p[2])
           frames == MetaFrames(CoreDelay[p], p[2])
           final == ~reset /\ Finalizes(meta, settings.metadata)
           audio == IF reset THEN Blanks(delay) ELSE meta.audio
           line == IF reset \/ (~meta.on /\ settings.metadata)
                     THEN [i \in Lines |-> NotWritten] ELSE meta.line
           idx == IF reset THEN 0 ELSE meta.idx
<1>1. Type /\ Described /\ Ordered
  BY DEF IInv
<1>2. settings \in Settings /\ MetaOk(enc, meta)
  BY <1>1, TypeParts
<1>3. meta \in MetaType /\ meta.idx <= meta.nMetaDataDelay
  BY <1>2 DEF MetaOk
<1>4. /\ meta.idx \in Lines /\ meta.line \in [Lines -> Entries]
      /\ meta.audio \in Seq(Samples) /\ meta.on \in BOOLEAN
  BY <1>3 DEF MetaType
<1>5. settings.metadata \in BOOLEAN /\ settings.channels \in Channels
  BY <1>2 DEF Settings
<1>6. /\ frames \in Lines /\ delay \in Nat /\ DelayFrames \in Nat
  BY LineFacts, EncDelays DEF MetaSettings
<1>7. m = [finalize |-> final, initialize |-> reset, on |-> settings.metadata,
           nMetaDataDelay |-> frames, channels |-> settings.channels,
           audio |-> audio, line |-> line, idx |-> idx]
  BY DEF MetaInit
<1>8. final \in BOOLEAN /\ reset \in BOOLEAN
  BY Zenon DEF LinesReset
<1>9. ~reset => Len(meta.audio) = delay
  BY DEF LinesReset
<1> HIDE DEF reset, delay, frames, final
<1>10. audio \in Seq(Samples) /\ Len(audio) = delay
  BY <1>4, <1>6, <1>9, SampleFacts
<1>11. line \in [Lines -> Entries]
  <2>1. NotWritten \in Entries
    BY EncBounds DEF NotWritten, Entries
  <2> QED BY <1>4, <2>1
<1>12. 0 \in Lines /\ 0 <= frames
  BY <1>6 DEF Lines
<1>13. idx \in Lines /\ idx <= frames
  <2>1. CASE reset
    BY <1>12, <2>1
  <2>2. CASE ~reset /\ enc.metaDataAllowed
    <3>1. PICK q \in MetaSettings : SetUp(q)
      BY <1>1, <2>2 DEF Described
    <3>2. AudioDelay(CoreDelay[q], q[2]) = AudioDelay(CoreDelay[p], p[2])
      BY <1>9, <2>2, <3>1 DEF SetUp, delay
    <3>3. MetaFrames(CoreDelay[q], q[2]) = frames
      BY <3>2, EncDelays DEF frames
    <3> QED BY <1>3, <1>4, <2>2, <3>1, <3>3 DEF SetUp
  <2>3. CASE ~reset /\ ~enc.metaDataAllowed
    <3>1. meta.idx = 0
      BY <1>1, <2>3 DEF Ordered, Closed
    <3> QED BY <1>12, <2>3, <3>1
  <2> QED BY <2>1, <2>2, <2>3
<1> HIDE DEF line, idx
<1>14. m \in MetaType /\ m.idx <= m.nMetaDataDelay
  <2> HIDE DEF audio
  <2> QED BY <1>5, <1>6, <1>7, <1>8, <1>10, <1>11, <1>13 DEF MetaType
<1>15. /\ Len(m.audio) = delay /\ m.nMetaDataDelay = frames
       /\ reset => m.audio = Blanks(Len(m.audio))
       /\ ~reset => m.audio = meta.audio
  BY <1>7, <1>10
<1> QED BY <1>14, <1>15 DEF reset, delay, frames

(* What there is of metadata after an initialisation.                       *)
Inits(e) == e.metaDataAllowed /\ InitFlags \cap {"config", "states"} # {}
Resets(e) == Inits(e) /\ LinesReset(meta, e.nSamplesToRead, e.core)
MetaThen(e) ==
  IF Inits(e) THEN MetaInit(meta, e.nSamplesToRead, e.core)
  ELSE IF e.metaDataAllowed THEN meta ELSE Closed
Held(e, m) ==
  IF ~e.metaDataAllowed THEN <<>>
  ELSE IF Resets(e) THEN Blanks(Len(m.audio))
  ELSE SubSeq(owed, 1, Len(owed) - nSamplesRead)

LEMMA InitEncFacts ==
  ASSUME IInv, AcceptedSettings, NEW e, e = InitEnc
  PROVE  /\ e \in EncType /\ Len(e.inputBuffer) = nSamplesRead
         /\ InitFlags = ALL => e.inputBuffer = Blanks(nSamplesRead)
         /\ InitFlags # ALL => e.inputBuffer = enc.inputBuffer
         /\ e.metaDataAllowed /\ Inits(e) =>
              \E p \in MetaSettings : e.core = CoreDelay[p] /\ e.nSamplesToRead = p[2]
         /\ ~("config" \in InitFlags) =>
              /\ e.core = enc.core /\ e.nSamplesToRead = enc.nSamplesToRead
              /\ e.metaDataAllowed = enc.metaDataAllowed
<1> DEFINE config == "config" \in InitFlags
           buffer == IF InitFlags = ALL THEN Blanks(nSamplesRead) ELSE enc.inputBuffer
           allowed == IF config THEN settings.codec \in WithMetadata
                      ELSE enc.metaDataAllowed
           core == IF config THEN Core(settings.codec, settings.granule) ELSE enc.core
           frame == IF config THEN settings.granule ELSE enc.nSamplesToRead
           p == <<settings.codec, settings.granule>>
<1>1. Type /\ Described
  BY DEF IInv
<1>2. enc \in EncType /\ settings \in Settings
  BY <1>1, TypeParts
<1>3. settings.codec \in Codecs /\ settings.granule \in Granules
  BY <1>2 DEF Settings
<1>4. p \in Codecs \X Granules /\ p[1] = settings.codec /\ p[2] = settings.granule
  BY <1>3
<1>5. Core(settings.codec, settings.granule) = CoreDelay[p]
  BY DEF Core
<1>6. CoreDelay[p] \in Nat /\ settings.granule \in Nat
  BY <1>3, <1>4, EncSettings
<1>7. /\ enc.inputBuffer \in Seq(Samples) /\ nSamplesRead \in Nat
      /\ nSamplesRead = Len(enc.inputBuffer)
  BY Before1
<1>8. buffer \in Seq(Samples) /\ Len(buffer) = nSamplesRead
  BY <1>7, SampleFacts
<1>9. allowed \in BOOLEAN
  <2>1. enc.metaDataAllowed \in BOOLEAN
    BY <1>2 DEF EncType
  <2>2. (settings.codec \in WithMetadata) \in BOOLEAN
    OBVIOUS
  <2> QED BY <2>1, <2>2, Zenon
<1>10. core \in Nat /\ frame \in Nat
  BY <1>2, <1>5, <1>6 DEF EncType
<1>11. e = [enc EXCEPT !.nSamplesToRead = frame, !.core = core,
                       !.metaDataAllowed = allowed, !.nZerosAppended = 0,
                       !.inputBuffer = buffer]
  BY DEF InitEnc
<1> HIDE DEF buffer, allowed, core, frame
<1>12. /\ e \in EncType /\ e.inputBuffer = buffer /\ e.core = core
       /\ e.nSamplesToRead = frame /\ e.metaDataAllowed = allowed
  <2>1. e = [nSamplesToRead |-> frame, nZerosAppended |-> 0, core |-> core,
             nDelay |-> enc.nDelay, metaDataAllowed |-> allowed,
             inputBuffer |-> buffer]
    BY <1>2, <1>11 DEF EncType
  <2>2. enc.nDelay \in Nat
    BY <1>2 DEF EncType
  <2> QED BY <1>8, <1>9, <1>10, <2>1, <2>2 DEF EncType
<1>13. ASSUME e.metaDataAllowed, Inits(e)
       PROVE  \E q \in MetaSettings : e.core = CoreDelay[q] /\ e.nSamplesToRead = q[2]
  <2>1. CASE config
    <3>1. p \in MetaSettings
      BY <1>3, <1>4, <1>12, <1>13, <2>1 DEF MetaSettings, AcceptedSettings, allowed
    <3>2. e.core = CoreDelay[p] /\ e.nSamplesToRead = p[2]
      BY <1>4, <1>5, <1>12, <2>1 DEF core, frame
    <3> QED BY <3>1, <3>2
  <2>2. CASE ~config
    <3>1. enc.metaDataAllowed
      BY <1>12, <1>13, <2>2 DEF allowed
    <3>2. PICK q \in MetaSettings : SetUp(q)
      BY <1>1, <3>1 DEF Described
    <3> QED BY <1>12, <2>2, <3>2 DEF SetUp, core, frame
  <2> QED BY <2>1, <2>2
<1> QED BY <1>8, <1>12, <1>13 DEF buffer, allowed, core, frame

LEMMA MetaThenFacts ==
  ASSUME IInv, AcceptedSettings, InitFlags # {}, NEW e, e = InitEnc,
         NEW m, m = MetaThen(e)
  PROVE  /\ MetaOk(e, m)
         /\ e.metaDataAllowed => \E p \in MetaSettings :
              /\ e.core = CoreDelay[p] /\ e.nSamplesToRead = p[2]
              /\ Len(m.audio) = AudioDelay(CoreDelay[p], p[2])
              /\ m.nMetaDataDelay = MetaFrames(CoreDelay[p], p[2])
         /\ ~e.metaDataAllowed => m = Closed
         /\ Resets(e) => m.audio = Blanks(Len(m.audio))
         /\ ~Resets(e) /\ e.metaDataAllowed => m.audio = meta.audio
<1>1. Type /\ Described /\ Ordered
  BY DEF IInv
<1>2. MetaOk(enc, meta)
  BY <1>1, TypeParts
<1>3. CASE ~e.metaDataAllowed
  <2>1. m = Closed /\ ~Resets(e)
    BY <1>3 DEF MetaThen, Inits, Resets
  <2>2. Closed \in MetaType /\ Closed.idx <= Closed.nMetaDataDelay
    <3>1. 0 \in Lines
      BY EncDelays DEF Lines
    <3>2. NotWritten \in Entries
      BY EncBounds DEF NotWritten, Entries
    <3>3. <<>> \in Seq(Samples)
      BY EmptySeq
    <3> QED BY <3>1, <3>2, <3>3 DEF Closed, MetaType
  <2> QED BY <1>3, <2>1, <2>2 DEF MetaOk
<1>4. CASE Inits(e)
  <2>1. e.metaDataAllowed
    BY <1>4 DEF Inits
  <2>2. PICK p \in MetaSettings : e.core = CoreDelay[p] /\ e.nSamplesToRead = p[2]
    BY <1>4, <2>1, InitEncFacts
  <2>3. m = MetaInit(meta, p[2], CoreDelay[p])
    BY <1>4, <2>2 DEF MetaThen
  <2>4. /\ m \in MetaType /\ m.idx <= m.nMetaDataDelay
        /\ Len(m.audio) = AudioDelay(CoreDelay[p], p[2])
        /\ m.nMetaDataDelay = MetaFrames(CoreDelay[p], p[2])
        /\ Resets(e) => m.audio = Blanks(Len(m.audio))
        /\ ~Resets(e) => m.audio = meta.audio
    BY <1>4, <2>2, <2>3, MetaInitFacts DEF Resets
  <2>5. Len(m.audio) < e.nSamplesToRead
    BY <2>2, <2>4, LineFacts
  <2> QED BY <2>1, <2>2, <2>4, <2>5 DEF MetaOk
<1>5. CASE e.metaDataAllowed /\ ~Inits(e)
  <2>1. m = meta /\ ~Resets(e)
    BY <1>5 DEF MetaThen, Resets
  <2>2. ~("config" \in InitFlags)
    BY <1>5 DEF Inits
  <2>3. /\ e.core = enc.core /\ e.nSamplesToRead = enc.nSamplesToRead
        /\ enc.metaDataAllowed
    BY <1>5, <2>2, InitEncFacts
  <2>4. PICK p \in MetaSettings : SetUp(p)
    BY <1>1, <2>3 DEF Described
  <2> QED BY <1>2, <1>5, <2>1, <2>3, <2>4 DEF MetaOk, SetUp
<1> QED BY <1>3, <1>4, <1>5

LEMMA InitialiseStep ==
  ASSUME IInv, Initialise
  PROVE  IInv'
<1> DEFINE e == InitEnc
           m == MetaThen(e)
           r == nSamplesRead
           delay == InitDelay(IF Inits(e) THEN Len(m.audio) ELSE 0)
           head == Held(e, m)
           rest == IF InitFlags = ALL THEN Blanks(r) ELSE Final(r, owed)
<1>1. Type /\ Described /\ Ordered
  BY DEF IInv
<1>2. enc \in EncType /\ Histories /\ settings \in Settings /\ InitFlags \subseteq ALL
  BY <1>1, TypeParts
<1>3. /\ enc.inputBuffer \in Seq(Samples) /\ r \in Nat
      /\ r = Len(enc.inputBuffer)
      /\ meta.audio \in Seq(Samples) /\ Len(meta.audio) \in Nat
      /\ owed \in Seq(Samples) /\ Len(owed) \in Nat
      /\ Len(owed) = Len(meta.audio) + r /\ upset \in {0, 1, 2}
  BY Before1
<1>4. /\ InitFlags # {} /\ AcceptedSettings
      /\ enc' = [e EXCEPT !.nDelay = delay]
      /\ meta' = m /\ InitFlags' = {} /\ owed' = head \o rest
      /\ tail' = IF "states" \in InitFlags THEN MaxTail ELSE tail
      /\ stream' = IF Discards(e, m) THEN "cut" ELSE stream
      /\ resumed' = FALSE /\ result' = "returned" /\ sent' = NothingSent
      /\ UNCHANGED <<settings, time, upset>>
  BY DEF Initialise, InitOwed, Held, MetaThen, Inits, Resets
<1> HIDE DEF e, m, head, delay
<1>5. /\ e \in EncType /\ Len(e.inputBuffer) = r
      /\ InitFlags = ALL => e.inputBuffer = Blanks(r)
      /\ InitFlags # ALL => e.inputBuffer = enc.inputBuffer
  BY <1>4, InitEncFacts DEF e
<1>6. /\ MetaOk(e, m)
      /\ e.metaDataAllowed => \E p \in MetaSettings :
           /\ e.core = CoreDelay[p] /\ e.nSamplesToRead = p[2]
           /\ Len(m.audio) = AudioDelay(CoreDelay[p], p[2])
           /\ m.nMetaDataDelay = MetaFrames(CoreDelay[p], p[2])
      /\ ~e.metaDataAllowed => m = Closed
      /\ Resets(e) => m.audio = Blanks(Len(m.audio))
      /\ ~Resets(e) /\ e.metaDataAllowed => m.audio = meta.audio
  BY <1>4, MetaThenFacts DEF e, m
<1>7. m.audio \in Seq(Samples) /\ Len(m.audio) \in Nat
  <2>1. m.audio \in Seq(Samples)
    BY <1>6 DEF MetaOk, MetaType
  <2> QED BY <2>1, LenProperties
<1>8. delay \in Nat
  <2>1. enc.nDelay \in Nat /\ Core(settings.codec, settings.granule) \in Nat
    <3>1. <<settings.codec, settings.granule>> \in Codecs \X Granules
      BY <1>2 DEF Settings
    <3> QED BY <1>2, <3>1, EncSettings DEF EncType, Core
  <2>2. (IF Inits(e) THEN Len(m.audio) ELSE 0) \in Nat
    BY <1>7
  <2> QED BY <2>1, <2>2 DEF delay, InitDelay
<1>9. /\ enc' \in EncType /\ enc'.inputBuffer = e.inputBuffer
      /\ enc'.core = e.core /\ enc'.nSamplesToRead = e.nSamplesToRead
      /\ enc'.metaDataAllowed = e.metaDataAllowed
  BY <1>4, <1>5, <1>8 DEF EncType
<1>10. head \in Seq(Samples) /\ Len(head) = Len(m.audio)
  <2>1. CASE ~e.metaDataAllowed
    BY <1>6, <1>7, <2>1, EmptySeq DEF Closed, head, Held
  <2>2. CASE e.metaDataAllowed /\ Resets(e)
    BY <1>6, <1>7, <2>2, SampleFacts DEF head, Held
  <2>3. CASE e.metaDataAllowed /\ ~Resets(e)
    <3>1. head = SubSeq(owed, 1, Len(meta.audio))
      <4>1. Len(owed) - r = Len(meta.audio)
        BY <1>3
      <4> QED BY <2>3, <4>1 DEF head, Held
    <3>2. Len(meta.audio) \in 0 .. Len(owed) /\ 0 \in 0 .. Len(meta.audio)
      <4>1. Len(meta.audio) \in 0 .. Len(owed)
        BY <1>3, PartOfSum
      <4>2. \A k \in Nat : 0 \in 0 .. k
        OBVIOUS
      <4> QED BY <1>3, <4>1, <4>2
    <3>3. /\ SubSeq(owed, 1, Len(meta.audio)) \in Seq(Samples)
          /\ Len(SubSeq(owed, 1, Len(meta.audio))) = Len(meta.audio)
      BY <1>3, <3>2, FrontFacts
    <3> QED BY <1>6, <2>3, <3>1, <3>3
  <2> QED BY <2>1, <2>2, <2>3
<1>11. rest \in Seq(Samples) /\ Len(rest) = r
  <2>1. r \in 0 .. Len(owed)
    BY <1>3, PartOfSum
  <2>2. Final(r, owed) \in Seq(Samples) /\ Len(Final(r, owed)) = r
    BY <1>3, <2>1, FinalFacts
  <2>3. Blanks(r) \in Seq(Samples) /\ Len(Blanks(r)) = r
    BY <1>3, SampleFacts
  <2> QED BY <2>2, <2>3
<1>12. upset <= 1 => e.inputBuffer = rest
  <2>1. CASE InitFlags = ALL
    BY <1>5, <2>1
  <2>2. CASE InitFlags # ALL
    BY <1>1, <1>5, <2>2 DEF Ordered, InPlace
  <2> QED BY <2>1, <2>2
<1>13. upset = 0 => head = m.audio
  <2>1. CASE ~e.metaDataAllowed
    BY <1>6, <2>1 DEF Closed, head, Held
  <2>2. CASE e.metaDataAllowed /\ Resets(e)
    BY <1>6, <2>2 DEF head, Held
  <2>3. CASE e.metaDataAllowed /\ ~Resets(e)
    <3> SUFFICES ASSUME upset = 0 PROVE head = m.audio
      OBVIOUS
    <3>1. InitFlags # ALL
      <4> SUFFICES ASSUME InitFlags = ALL PROVE Resets(e)
        BY <2>3
      <4>1. "states" \in InitFlags
        BY DEF ALL
      <4> QED BY <2>3, <4>1 DEF Resets, Inits, LinesReset
    <3>2. owed = meta.audio \o enc.inputBuffer
      BY <1>1, <3>1 DEF Ordered, InPlace
    <3>3. head = SubSeq(owed, 1, Len(meta.audio))
      <4>1. Len(owed) - r = Len(meta.audio)
        BY <1>3
      <4> QED BY <2>3, <4>1 DEF head, Held
    <3>4. head = meta.audio
      BY <1>3, <3>2, <3>3, FrontOfConcat
    <3> QED BY <1>6, <2>3, <3>4
  <2> QED BY <2>1, <2>2, <2>3
<1> HIDE DEF rest
<1>14. owed' \in Seq(Samples) /\ Len(owed') = Len(m.audio) + r
  <2>1. head \o rest \in Seq(Samples) /\ Len(head \o rest) = Len(head) + Len(rest)
    BY <1>10, <1>11, ConcatProperties
  <2> QED BY <1>4, <1>10, <1>11, <2>1
<1>15. Type'
  <2>1. Histories'
    <3>1. tail' \in 0 .. MaxTail
      BY <1>2, <1>4, EncBounds DEF Histories
    <3>2. stream' \in {"closed", "open", "cut"}
      BY <1>2, <1>4 DEF Histories
    <3> QED BY <1>2, <1>4, <1>14, <3>1, <3>2, Nothing DEF Histories
  <2>2. MetaOk(enc', meta')
    BY <1>4, <1>6, <1>9 DEF MetaOk
  <2>3. InitFlags' \subseteq ALL
    BY <1>4
  <2> QED BY <1>2, <1>4, <1>9, <2>1, <2>2, <2>3, TypePartsNext
<1>16. Described'
  BY <1>4, <1>6, <1>9 DEF Described, SetUp
<1>17. nSamplesRead' = r
  BY <1>5, <1>9 DEF nSamplesRead
<1>18. InPlace'
  <2>1. upset <= 1 => enc'.inputBuffer = Final(r, owed')
    <3> SUFFICES ASSUME upset <= 1 PROVE enc'.inputBuffer = Final(r, owed')
      OBVIOUS
    <3>1. Final(r, head \o rest) = Final(r, rest)
      <4>1. r \in 0 .. Len(rest)
        BY <1>3, <1>11
      <4> QED BY <1>10, <1>11, <4>1, FinalOfConcat
    <3>2. Final(r, rest) = rest
      BY <1>11, FinalOfAll
    <3> QED BY <1>4, <1>9, <1>12, <3>1, <3>2
  <2>2. upset = 0 => owed' = m.audio \o enc'.inputBuffer
    <3> SUFFICES ASSUME upset = 0 PROVE owed' = m.audio \o enc'.inputBuffer
      OBVIOUS
    <3>1. upset <= 1
      BY <1>3
    <3> QED BY <1>4, <1>9, <1>12, <1>13, <3>1
  <2> QED BY <1>4, <1>17, <2>1, <2>2 DEF InPlace
<1>19. Ordered'
  BY <1>4, <1>6, <1>9, <1>14, <1>17, <1>18 DEF Ordered
<1>20. InOrder'
  BY <1>4, Nothing DEF InOrder
<1> QED BY <1>15, <1>16, <1>19, <1>20 DEF IInv

LEMMA RefuseStep ==
  ASSUME IInv, Refuse
  PROVE  IInv'
<1>1. Type /\ Described /\ Ordered
  BY DEF IInv
<1>2. /\ enc \in EncType /\ MetaOk(enc, meta) /\ Histories
      /\ settings \in Settings /\ InitFlags \subseteq ALL
  BY <1>1, TypeParts
<1>3. /\ enc' \in EncType /\ enc'.inputBuffer = enc.inputBuffer
      /\ enc'.core = enc.core /\ enc'.nSamplesToRead = enc.nSamplesToRead
      /\ enc'.metaDataAllowed = enc.metaDataAllowed
  BY <1>2 DEF EncType, Refuse
<1>4. Histories'
  BY <1>2, Nothing DEF Histories, Refuse
<1>5. Type'
  BY <1>2, <1>3, <1>4, TypePartsNext DEF Refuse, MetaOk
<1>6. Described'
  BY <1>1, <1>3 DEF Described, SetUp, Refuse
<1>7. Ordered'
  BY <1>1, <1>3 DEF Ordered, InPlace, nSamplesRead, Refuse
<1>8. InOrder'
  BY Nothing DEF InOrder, Refuse
<1> QED BY <1>5, <1>6, <1>7, <1>8 DEF IInv

LEMMA EndOfFileStep ==
  ASSUME IInv, EndOfFile
  PROVE  IInv'
<1>1. Histories /\ settings \in Settings /\ InitFlags \subseteq ALL
  BY TypeParts DEF IInv
<1>2. Histories'
  BY <1>1, Nothing DEF Histories, EndOfFile
<1> QED BY <1>1, <1>2, LeaveStep DEF EndOfFile

-----------------------------------------------------------------------------
(* aacEncoder_SetParam                                                      *)
LEMMA SetStep ==
  ASSUME IInv, NEW flags \in SUBSET ALL, Set(flags), settings' \in Settings,
         Drop \/ UNCHANGED <<enc, owed, time, upset>>
  PROVE  IInv'
<1>1. Histories /\ InitFlags \subseteq ALL
  BY TypeParts DEF IInv
<1>2. /\ InitFlags' \subseteq ALL /\ (InitFlags' # ALL => InitFlags # ALL)
      /\ meta' = meta /\ result' = "set" /\ sent' = NothingSent
      /\ UNCHANGED <<tail, stream, resumed>>
  BY <1>1 DEF Set
<1>3. CASE Drop
  BY <1>2, <1>3, DropStep
<1>4. CASE UNCHANGED <<enc, owed, time, upset>>
  <2>1. Histories'
    BY <1>1, <1>2, <1>4, Nothing DEF Histories
  <2> QED BY <1>2, <1>4, <2>1, LeaveStep
<1> QED BY <1>3, <1>4

LEMMA ControlStep ==
  ASSUME IInv, NEW flags \in SUBSET ALL, ControlState(flags)
  PROVE  IInv'
<1>1. Histories /\ InitFlags \subseteq ALL /\ settings \in Settings
  BY TypeParts DEF IInv
<1>2. /\ InitFlags' \subseteq ALL /\ (InitFlags' # ALL => InitFlags # ALL)
      /\ result' = "set" /\ sent' = NothingSent
      /\ UNCHANGED <<settings, meta, tail, stream, resumed>>
  BY DEF ControlState, ALL
<1>3. CASE Drop
  BY <1>1, <1>2, <1>3, DropStep
<1>4. CASE UNCHANGED <<enc, owed, time, upset>>
  <2>1. Histories'
    BY <1>1, <1>2, <1>4, Nothing DEF Histories
  <2> QED BY <1>1, <1>2, <1>4, <2>1, LeaveStep
<1>5. Drop \/ UNCHANGED <<enc, owed, time, upset>>
  BY DEF ControlState
<1> QED BY <1>3, <1>4, <1>5

LEMMA InitInv == Init => IInv
<1> SUFFICES ASSUME Init PROVE IInv
  OBVIOUS
<1>1. <<>> \in Seq(Samples) /\ Len(<<>>) = 0
  BY EmptySeq
<1>2. /\ settings \in Settings /\ InitFlags = ALL
      /\ enc = [nSamplesToRead |-> 0, nZerosAppended |-> 0, core |-> 0, nDelay |-> 0,
                metaDataAllowed |-> FALSE, inputBuffer |-> <<>>]
      /\ meta = Closed /\ result = "set" /\ sent = NothingSent /\ time = 0
      /\ owed = <<>> /\ tail = MaxTail /\ stream = "closed" /\ upset = 0
      /\ resumed = FALSE
  BY DEF Init, Settings
<1>3. enc \in EncType
  BY <1>1, <1>2 DEF EncType
<1>4. MetaOk(enc, meta)
  <2>1. 0 \in Lines
    BY EncDelays DEF Lines
  <2>2. NotWritten \in Entries
    BY EncBounds DEF NotWritten, Entries
  <2>3. Closed \in MetaType /\ Closed.idx <= Closed.nMetaDataDelay
    BY <1>1, <2>1, <2>2 DEF Closed, MetaType
  <2> QED BY <1>2, <2>3 DEF MetaOk
<1>5. Histories
  <2>1. 0 \in 0 .. Cycle - 1 /\ MaxTail \in 0 .. MaxTail
    BY EncBounds
  <2>2. sent \in [inOrder : BOOLEAN, aligned : BOOLEAN, ends : BOOLEAN]
    BY <1>2, Nothing
  <2>3. time \in 0 .. Cycle - 1 /\ tail \in 0 .. MaxTail /\ owed \in Seq(Samples)
    BY <1>1, <1>2, <2>1
  <2>4. upset \in 0 .. 2 /\ resumed \in BOOLEAN
    <3>1. 0 \in 0 .. 2 /\ FALSE \in BOOLEAN
      OBVIOUS
    <3>2. upset = 0 /\ resumed = FALSE
      BY <1>2
    <3> QED BY <3>1, <3>2
  <2> QED BY <1>2, <2>2, <2>3, <2>4 DEF Histories
<1>6. Type
  BY <1>2, <1>3, <1>4, <1>5, TypeParts
<1>7. Described
  BY <1>2 DEF Described
<1>8. Ordered
  <2>1. Len(meta.audio) = 0 /\ nSamplesRead = 0 /\ Len(owed) = 0
    BY <1>1, <1>2 DEF Closed, nSamplesRead
  <2> QED BY <1>2, <2>1 DEF Ordered
<1>9. InOrder
  BY <1>2, Nothing DEF InOrder
<1> QED BY <1>6, <1>7, <1>8, <1>9 DEF IInv

LEMMA NextInv == IInv /\ [Next]_vars => IInv'
<1> SUFFICES ASSUME IInv, [Next]_vars PROVE IInv'
  OBVIOUS
<1>1. settings \in Settings
  BY TypeParts DEF IInv
<1>2. \A flags : flags \in {{"config", "states", "transport"}, {"config", "transport"},
                            {"config"}, {"transport"}, ALL, {"states"}, {"inbuffer"}} =>
        flags \in SUBSET ALL
  BY DEF ALL
<1>3. ASSUME NEW codec \in Codecs, SetCodec(codec) PROVE IInv'
  <2>1. settings' \in Settings
    BY <1>1, <1>3 DEF SetCodec, Settings
  <2> QED BY <1>2, <1>3, <2>1, SetStep DEF SetCodec
<1>4. ASSUME NEW granule \in Granules, SetGranule(granule) PROVE IInv'
  <2>1. settings' \in Settings
    BY <1>1, <1>4 DEF SetGranule, Settings
  <2> QED BY <1>2, <1>4, <2>1, SetStep DEF SetGranule
<1>5. ASSUME NEW channels \in Channels, SetChannels(channels) PROVE IInv'
  <2>1. settings' \in Settings
    BY <1>1, <1>5 DEF SetChannels, Settings
  <2>2. {"config", "transport"} \cup (IF channels \in Seamless THEN {} ELSE {"states"})
          \in SUBSET ALL
    BY DEF ALL
  <2> QED BY <1>5, <2>1, <2>2, SetStep DEF SetChannels
<1>6. CASE SetSampleRate
  BY <1>1, <1>2, <1>6, SetStep DEF SetSampleRate
<1>7. CASE SetMetadata
  <2>1. settings' \in Settings
    BY <1>1, <1>7 DEF SetMetadata, Settings
  <2> QED BY <1>2, <1>7, <2>1, SetStep DEF SetMetadata
<1>8. ASSUME NEW flags \in {{"transport"}, {"config", "transport"}}, SetOther(flags)
      PROVE  IInv'
  BY <1>1, <1>2, <1>8, SetStep DEF SetOther
<1>9. ASSUME NEW flags \in {ALL, {"states"}, {"inbuffer"}}, ControlState(flags)
      PROVE  IInv'
  BY <1>2, <1>9, ControlStep
<1>10. ASSUME NEW n \in Offers, Accept(n) PROVE IInv'
  <2>1. n \in Nat
    BY EncBounds
  <2> QED BY <1>10, <2>1, AcceptStep
<1>11. CASE UNCHANGED vars
  <2>1. Type' /\ Described' /\ Ordered' /\ InOrder'
    BY <1>11 DEF vars, IInv, Type, Described, SetUp, Ordered, InPlace, InOrder,
                 nSamplesRead
  <2> QED BY <2>1 DEF IInv
<1> QED BY <1>3, <1>4, <1>5, <1>6, <1>7, <1>8, <1>9, <1>10, <1>11, InitialiseStep,
           RefuseStep, EndOfFileStep, EncodeStep DEF Next

THEOREM Invariant == Spec => []IInv
BY InitInv, NextInv, PTL DEF Spec

(* The state of the encoder's input side keeps its type whatever the        *)
(* parameters and the calls: the delay line for audio is shorter than the   *)
(* frame, as the buffer of CompensateAudioDelay has to be, and the index    *)
(* into the one for metadata does not pass its delay.                       *)
THEOREM TypeCorrect == Spec => []Type
BY Invariant, PTL DEF IInv

(* The core gets each sample once and in the order of the input, for every  *)
(* set of codecs, frame lengths and delays, through changes of parameters,  *)
(* initialisations and failed calls; frames that are upset by a frame       *)
(* length shorter than the buffer are left out.                             *)
THEOREM InOrderTheorem == Spec => []InOrder
BY Invariant, PTL DEF IInv

-----------------------------------------------------------------------------
(* Metadata.                                                                *)

(* The line for metadata is a ring: the entry behind the one written last   *)
(* goes out next.  Behind an entry as submitted there is another one, or    *)
(* one will be written; once metadata has gone out that holds for the entry *)
(* that goes out next.                                                      *)
Succ(m, k) == IF k + 1 > m.nMetaDataDelay THEN 0 ELSE k + 1
MetaDue(m) == m.on \/ m.finalize
Linked(m) ==
  \A k \in 0 .. m.nMetaDataDelay :
    k # m.idx /\ m.line[k].kind = "submitted" =>
      IF Succ(m, k) = m.idx THEN MetaDue(m) ELSE m.line[Succ(m, k)].kind # "none"
NextReady(m) ==
  /\ m.line[Succ(m, m.idx)].kind # "none"
  /\ Succ(m, m.idx) = m.idx => MetaDue(m)

InLine ==
  /\ stream # "cut" \/ meta.on => Linked(meta)
  /\ stream = "open" => enc.metaDataAllowed /\ NextReady(meta)

MInv == IInv /\ InLine /\ MetadataEnds

(* The ring                                                                 *)
LEMMA SuccFacts ==
  ASSUME NEW m \in MetaType, m.idx <= m.nMetaDataDelay
  PROVE  /\ DelayFrames \in Nat /\ m.idx \in 0 .. m.nMetaDataDelay
         /\ m.nMetaDataDelay \in Nat
         /\ 0 .. m.nMetaDataDelay \subseteq Lines
         /\ \A k \in 0 .. m.nMetaDataDelay : Succ(m, k) \in 0 .. m.nMetaDataDelay
         /\ \A k, l \in 0 .. m.nMetaDataDelay : Succ(m, k) = Succ(m, l) => k = l
         /\ Advance(m) = Succ(m, m.idx)
<1>1. DelayFrames \in Nat
  BY EncDelays
<1>2. m.idx \in Lines /\ m.nMetaDataDelay \in Lines
  BY DEF MetaType
<1>3. m.idx \in Nat /\ m.nMetaDataDelay \in Nat /\ m.nMetaDataDelay < DelayFrames
  BY <1>1, <1>2 DEF Lines
<1> QED BY <1>1, <1>3 DEF Lines, Succ, Advance

(* One frame of metadata.                                                   *)
LEMMA FrameOfMetadata ==
  ASSUME NEW m \in MetaType, m.idx <= m.nMetaDataDelay, NEW at, NEW buffer,
         NEW n, n = Processed(m, at, buffer)
  PROVE  /\ n.on = m.on /\ n.idx = Succ(m, m.idx)
         /\ n.nMetaDataDelay = m.nMetaDataDelay
         /\ n.line[m.idx].kind = "submitted" => m.on
         /\ MetaDue(m) => n.line[m.idx].kind # "none"
         /\ \A k \in 0 .. m.nMetaDataDelay : k # m.idx =>
              IF m.initialize /\ m.on THEN n.line[k].kind # "none"
              ELSE n.line[k] = m.line[k]
<1>1. /\ m.idx \in 0 .. m.nMetaDataDelay /\ 0 .. m.nMetaDataDelay \subseteq Lines
      /\ Advance(m) = Succ(m, m.idx)
  BY SuccFacts
<1>2. m = [finalize |-> m.finalize, initialize |-> m.initialize, on |-> m.on,
           nMetaDataDelay |-> m.nMetaDataDelay, channels |-> m.channels,
           audio |-> m.audio, line |-> m.line, idx |-> m.idx]
  BY DEF MetaType
<1> DEFINE line == Filled(m, Entry(m, at))
<1>3. n.on = m.on /\ n.idx = Advance(m) /\ n.nMetaDataDelay = m.nMetaDataDelay
      /\ n.line = line
  BY <1>2 DEF Processed
<1>4. /\ line[m.idx] = Entry(m, at)
      /\ \A k \in 0 .. m.nMetaDataDelay : k # m.idx =>
           line[k] = IF m.initialize /\ m.on THEN [Entry(m, at) EXCEPT !.at = Cycle]
                     ELSE m.line[k]
  BY <1>1 DEF Filled
<1>5. m.on => Entry(m, at) = [kind |-> "submitted", at |-> at]
  BY DEF Entry
<1>6. ~m.on => Entry(m, at) = IF m.finalize THEN [kind |-> "closing", at |-> at]
                              ELSE NotWritten
  BY DEF Entry, Closing
<1>7. m.on => [Entry(m, at) EXCEPT !.at = Cycle].kind = "submitted"
  BY <1>5
<1> HIDE DEF line
<1> QED BY <1>1, <1>3, <1>4, <1>5, <1>6, <1>7 DEF MetaDue, NotWritten

LEMMA LinkedFrame ==
  ASSUME NEW m \in MetaType, m.idx <= m.nMetaDataDelay, NEW at, NEW buffer,
         NEW n, n = Processed(m, at, buffer), Linked(m)
  PROVE  /\ n.line[n.idx].kind = "submitted" => NextReady(n)
         /\ Linked(n)
<1> DEFINE D == m.nMetaDataDelay
           next == Succ(m, m.idx)
<1>1. /\ n.on = m.on /\ n.idx = next /\ n.nMetaDataDelay = D
      /\ n.line[m.idx].kind = "submitted" => m.on
      /\ MetaDue(m) => n.line[m.idx].kind # "none"
      /\ \A k \in 0 .. D : k # m.idx =>
           IF m.initialize /\ m.on THEN n.line[k].kind # "none"
           ELSE n.line[k] = m.line[k]
  BY FrameOfMetadata
<1>2. /\ m.idx \in 0 .. D /\ next \in 0 .. D
      /\ \A k \in 0 .. D : Succ(m, k) \in 0 .. D
      /\ \A k, l \in 0 .. D : Succ(m, k) = Succ(m, l) => k = l
  BY SuccFacts
<1>3. \A k : Succ(n, k) = Succ(m, k)
  BY <1>1 DEF Succ
(* What follows an entry of the line is there after the frame.              *)
<1>4. ASSUME NEW k \in 0 .. D, n.line[k].kind = "submitted", k # m.idx
      PROVE  n.line[Succ(m, k)].kind # "none"
  <2>1. CASE m.on
    <3>1. CASE Succ(m, k) = m.idx
      BY <1>1, <2>1, <3>1 DEF MetaDue
    <3>2. CASE Succ(m, k) # m.idx /\ m.initialize
      BY <1>1, <1>2, <2>1, <3>2
    <3>3. CASE Succ(m, k) # m.idx /\ ~m.initialize
      <4>1. m.line[k].kind = "submitted" /\ n.line[Succ(m, k)] = m.line[Succ(m, k)]
        BY <1>1, <1>2, <1>4, <3>3
      <4> QED BY <1>4, <3>3, <4>1 DEF Linked
    <3> QED BY <3>1, <3>2, <3>3
  <2>2. CASE ~m.on
    <3>1. m.line[k].kind = "submitted"
      BY <1>1, <1>4, <2>2
    <3>2. IF Succ(m, k) = m.idx THEN MetaDue(m) ELSE m.line[Succ(m, k)].kind # "none"
      BY <1>4, <3>1 DEF Linked
    <3> QED BY <1>1, <1>2, <2>2, <3>2
  <2> QED BY <2>1, <2>2
<1>5. Linked(n)
  <2> SUFFICES ASSUME NEW k \in 0 .. D, k # n.idx, n.line[k].kind = "submitted"
      PROVE  IF Succ(m, k) = n.idx THEN MetaDue(n) ELSE n.line[Succ(m, k)].kind # "none"
    BY <1>1, <1>3 DEF Linked
  <2>1. CASE k = m.idx
    BY <1>1, <2>1 DEF MetaDue
  <2>2. CASE k # m.idx
    <3>1. Succ(m, k) # n.idx
      BY <1>1, <1>2, <2>2
    <3> QED BY <1>4, <2>2, <3>1
  <2> QED BY <2>1, <2>2
<1>6. ASSUME n.line[n.idx].kind = "submitted"
      PROVE  NextReady(n)
  <2>1. CASE next = m.idx
    <3>1. m.on
      BY <1>1, <1>6, <2>1
    <3> QED BY <1>1, <1>3, <1>6, <2>1, <3>1 DEF NextReady, MetaDue
  <2>2. CASE next # m.idx
    <3>1. n.line[Succ(m, next)].kind # "none"
      BY <1>1, <1>2, <1>4, <1>6, <2>2
    <3>2. Succ(m, next) # next
      BY <1>2, <2>2
    <3> QED BY <1>1, <1>3, <3>1, <3>2 DEF NextReady
  <2> QED BY <2>1, <2>2
<1> QED BY <1>5, <1>6

(* The payload that goes out is there when the stream is open.              *)
LEMMA PayloadReady ==
  ASSUME NEW m \in MetaType, m.idx <= m.nMetaDataDelay, NEW at, NEW buffer,
         NEW n, n = Processed(m, at, buffer), NextReady(m)
  PROVE  n.line[n.idx].kind # "none"
<1>1. /\ n.idx = Succ(m, m.idx)
      /\ MetaDue(m) => n.line[m.idx].kind # "none"
      /\ \A k \in 0 .. m.nMetaDataDelay : k # m.idx =>
           IF m.initialize /\ m.on THEN n.line[k].kind # "none"
           ELSE n.line[k] = m.line[k]
  BY FrameOfMetadata
<1>2. m.idx \in 0 .. m.nMetaDataDelay /\ Succ(m, m.idx) \in 0 .. m.nMetaDataDelay
  BY SuccFacts
<1> QED BY <1>1, <1>2 DEF NextReady

(* With nothing in the line nothing is missing.                             *)
LEMMA EmptyIsLinked ==
  ASSUME NEW m, \A k \in 0 .. m.nMetaDataDelay : m.line[k].kind = "none"
  PROVE  Linked(m)
BY DEF Linked

LEMMA EncodeKeepsLine ==
  ASSUME MInv, NEW n \in Offers \cup {0, -1}, NEW fate \in {"ok", "coding", "output"},
         EncodeFrame(n, fate)
  PROVE  InLine' /\ MetadataEnds'
<1> DEFINE flushing == n = -1
           new      == IF n = -1 THEN Zeros ELSE Accepts(n)
           filled   == enc.inputBuffer \o Fed(new, ~flushing)
           at       == Before(time, nSamplesRead)
           delayed  == enc.metaDataAllowed
           m        == IF delayed THEN Processed(meta, at, filled) ELSE meta
           payload  == IF delayed THEN m.line[m.idx] ELSE NotWritten
<1>1. /\ meta' = m /\ enc'.metaDataAllowed = enc.metaDataAllowed
      /\ sent'.ends = (stream = "open" => payload.kind # "none")
      /\ stream' = IF fate = "ok" THEN After(payload.kind, m) ELSE "cut"
  <2>1. enc \in EncType
    BY TypeParts DEF MInv, IInv
  <2> QED BY <2>1 DEF EncodeFrame, EncType
<1>2. /\ meta \in MetaType /\ meta.idx <= meta.nMetaDataDelay
      /\ stream \in {"closed", "open", "cut"}
      /\ ~enc.metaDataAllowed => meta = Closed
  BY TypeParts DEF MInv, IInv, MetaOk, Histories, Ordered
<1>3. InLine
  BY DEF MInv
<1>4. NotWritten.kind = "none"
  BY DEF NotWritten
<1>5. MetadataEnds'
  <2>1. CASE stream = "open"
    <3>1. delayed /\ NextReady(meta)
      BY <1>3, <2>1 DEF InLine
    <3>2. payload.kind # "none"
      BY <1>2, <3>1, PayloadReady
    <3> QED BY <1>1, <3>2 DEF MetadataEnds
  <2>2. CASE stream # "open"
    BY <1>1, <2>2 DEF MetadataEnds
  <2> QED BY <2>1, <2>2
<1> HIDE DEF filled, at
<1>6. CASE ~delayed
  <2>1. meta' = Closed /\ payload.kind = "none"
    BY <1>1, <1>2, <1>4, <1>6
  <2>2. Linked(meta')
    <3>1. 0 \in Lines
      BY EncDelays DEF Lines
    <3>2. \A k \in 0 .. Closed.nMetaDataDelay : Closed.line[k].kind = "none"
      BY <1>4, <3>1 DEF Closed
    <3> QED BY <2>1, <3>2, EmptyIsLinked
  <2>3. stream' # "open"
    BY <1>1, <2>1 DEF After
  <2> QED BY <1>5, <2>2, <2>3 DEF InLine
<1>7. CASE delayed
  <2>1. m = Processed(meta, at, filled) /\ payload = m.line[m.idx]
    BY <1>7
  <2> HIDE DEF m
  <2>2. m.on = meta.on /\ m.nMetaDataDelay = meta.nMetaDataDelay
    BY <1>2, <2>1, FrameOfMetadata
  <2>3. CASE stream # "cut" \/ meta.on
    <3>1. Linked(meta)
      BY <1>3, <2>3 DEF InLine
    <3>2. Linked(m) /\ (m.line[m.idx].kind = "submitted" => NextReady(m))
      BY <1>2, <2>1, <3>1, LinkedFrame
    <3>3. stream' = "open" => payload.kind = "submitted"
      BY <1>1 DEF After
    <3> QED BY <1>1, <1>5, <1>7, <2>1, <3>2, <3>3 DEF InLine
  <2>4. CASE stream = "cut" /\ ~meta.on
    <3>1. stream' # "open" /\ (stream' # "cut" => \A l \in Lines : m.line[l].kind = "none")
      BY <1>1, <2>2, <2>4 DEF After
    <3>2. 0 .. m.nMetaDataDelay \subseteq Lines
      BY <1>2, <2>2, SuccFacts
    <3>3. stream' # "cut" => Linked(m)
      BY <3>1, <3>2, EmptyIsLinked
    <3> QED BY <1>1, <1>5, <2>2, <2>4, <3>1, <3>3 DEF InLine
  <2> QED BY <1>2, <2>3, <2>4
<1> QED BY <1>6, <1>7

(* The line after an initialisation: empty, or as it was, for frames of the *)
(* same length.                                                             *)
LineEmpty(m) == \A k \in Lines : m.line[k] = NotWritten
LineKept(m) ==
  /\ m.line = meta.line /\ m.idx = meta.idx
  /\ m.nMetaDataDelay = meta.nMetaDataDelay
  /\ \/ m.on = meta.on /\ m.finalize = meta.finalize
     \/ MetaDue(m) /\ meta.on
     \/ ~meta.on /\ ~m.on

LEMMA LineThen ==
  ASSUME IInv, AcceptedSettings, InitFlags # {}, NEW e, e = InitEnc,
         NEW m, m = MetaThen(e)
  PROVE  \/ LineEmpty(m)
         \/ /\ LineKept(m) /\ "states" \notin InitFlags
            /\ e.metaDataAllowed /\ enc.metaDataAllowed
            /\ e.nSamplesToRead = enc.nSamplesToRead
<1>1. Described /\ meta \in MetaType /\ (~enc.metaDataAllowed => meta = Closed)
  BY TypeParts DEF IInv, MetaOk, Ordered
<1>2. /\ m \in MetaType /\ m.idx <= m.nMetaDataDelay
      /\ ~e.metaDataAllowed => m = Closed
  BY MetaThenFacts DEF MetaOk
<1>4. m.line = [i \in Lines |-> NotWritten] => LineEmpty(m)
  BY DEF LineEmpty
<1>5. CASE ~e.metaDataAllowed
  <2>1. m.line = [i \in Lines |-> NotWritten]
    BY <1>2, <1>5 DEF Closed
  <2> QED BY <1>4, <2>1
<1>6. CASE e.metaDataAllowed /\ ~Inits(e)
  <2>1. m = meta
    BY <1>6 DEF MetaThen
  <2>2. "states" \notin InitFlags /\ "config" \notin InitFlags
    BY <1>6 DEF Inits
  <2>3. enc.metaDataAllowed /\ e.nSamplesToRead = enc.nSamplesToRead
    BY <1>6, <2>2, InitEncFacts
  <2> QED BY <1>6, <2>1, <2>2, <2>3 DEF LineKept
<1>7. CASE Inits(e)
  <2>1. PICK p \in MetaSettings : e.core = CoreDelay[p] /\ e.nSamplesToRead = p[2]
    BY <1>7, InitEncFacts DEF Inits
  <2>2. m = MetaInit(meta, p[2], CoreDelay[p])
    BY <1>7, <2>1 DEF MetaThen
  <2>3. m.nMetaDataDelay = MetaFrames(CoreDelay[p], p[2])
    BY <2>1, <2>2, MetaInitFacts
  <2> DEFINE reset == LinesReset(meta, p[2], CoreDelay[p])
  <2>4. /\ m.finalize = (~reset /\ Finalizes(meta, settings.metadata))
        /\ m.on = settings.metadata
        /\ m.line = IF reset \/ (~meta.on /\ settings.metadata)
                      THEN [i \in Lines |-> NotWritten] ELSE meta.line
        /\ m.idx = IF reset THEN 0 ELSE meta.idx
    BY <2>2 DEF MetaInit
  <2>5. ~reset => Len(meta.audio) = AudioDelay(CoreDelay[p], p[2])
    BY DEF LinesReset
  <2> HIDE DEF reset
  <2>6. CASE reset \/ (~meta.on /\ settings.metadata)
    BY <1>4, <2>4, <2>6
  <2>7. CASE ~enc.metaDataAllowed
    <3>1. meta.line = [i \in Lines |-> NotWritten]
      BY <1>1, <2>7 DEF Closed
    <3> QED BY <1>4, <2>4, <3>1
  <2>8. CASE ~reset /\ ~(~meta.on /\ settings.metadata) /\ enc.metaDataAllowed
    <3>1. PICK q \in MetaSettings : SetUp(q)
      BY <1>1, <2>8 DEF Described
    <3>2. AudioDelay(CoreDelay[q], q[2]) = AudioDelay(CoreDelay[p], p[2])
      BY <2>5, <2>8, <3>1 DEF SetUp
    <3>3. m.nMetaDataDelay = meta.nMetaDataDelay
      BY <2>3, <3>1, <3>2, EncDelays DEF SetUp
    <3>4. m.on \/ m.finalize \/ ~meta.on
      BY <2>4, <2>8 DEF Finalizes
    <3>5. ~meta.on => ~m.on
      BY <2>4, <2>8
    <3>6. e.nSamplesToRead = enc.nSamplesToRead
      BY <2>1, <3>1, <3>2, EncDelays DEF SetUp
    <3>7. "states" \notin InitFlags
      BY <2>8 DEF reset, LinesReset
    <3> QED BY <1>7, <2>4, <2>8, <3>3, <3>4, <3>5, <3>6, <3>7
            DEF LineKept, MetaDue, Inits
  <2> QED BY <2>6, <2>7, <2>8
<1> QED BY <1>5, <1>6, <1>7 DEF Inits

LEMMA InitialiseKeepsLine ==
  ASSUME MInv, Initialise
  PROVE  InLine' /\ MetadataEnds'
<1> DEFINE e == InitEnc
           m == MetaThen(e)
           delay == InitDelay(IF Inits(e) THEN Len(m.audio) ELSE 0)
<1>1. /\ InitFlags # {} /\ AcceptedSettings
      /\ enc' = [e EXCEPT !.nDelay = delay] /\ meta' = m
      /\ stream' = IF Discards(e, m) THEN "cut" ELSE stream
      /\ sent' = NothingSent
  BY DEF Initialise, MetaThen, Inits
<1>2. MetadataEnds'
  BY <1>1 DEF MetadataEnds, NothingSent
<1>3. meta \in MetaType /\ meta.idx <= meta.nMetaDataDelay /\ InLine
  BY TypeParts DEF MInv, IInv, MetaOk
<1>4. e \in EncType
  BY <1>1, InitEncFacts DEF MInv
<1>5. LineEmpty(m) \/ (LineKept(m) /\ e.metaDataAllowed)
  BY <1>1, LineThen DEF MInv
<1>6. MetaOk(e, m)
  BY <1>1, MetaThenFacts DEF MInv
<1>7. enc'.metaDataAllowed = e.metaDataAllowed
  BY <1>1, <1>4 DEF EncType
<1> HIDE DEF e, m, delay
<1>8. /\ meta.idx \in 0 .. meta.nMetaDataDelay
      /\ 0 .. meta.nMetaDataDelay \subseteq Lines
      /\ 0 .. m.nMetaDataDelay \subseteq Lines
      /\ \A k \in 0 .. meta.nMetaDataDelay : Succ(meta, k) \in 0 .. meta.nMetaDataDelay
  BY <1>3, <1>6, SuccFacts DEF MetaOk
<1>9. CASE LineEmpty(m)
  <2>1. Linked(m)
    BY <1>8, <1>9, EmptyIsLinked DEF LineEmpty, NotWritten
  <2>2. CASE stream = "open"
    <3>1. meta.line[Succ(meta, meta.idx)].kind # "none"
      BY <1>3, <2>2 DEF InLine, NextReady
    <3>2. Discards(e, m)
      BY <1>8, <1>9, <3>1 DEF LineEmpty, Discards, NotWritten
    <3>3. stream' = "cut"
      BY <1>1, <3>2
    <3> QED BY <1>1, <1>2, <2>1, <3>3 DEF InLine
  <2>3. CASE stream # "open"
    BY <1>1, <1>2, <2>1, <2>3 DEF InLine
  <2> QED BY <2>2, <2>3
<1>10. CASE LineKept(m) /\ e.metaDataAllowed
  <2>1. \A k : Succ(m, k) = Succ(meta, k)
    BY <1>10 DEF LineKept, Succ
  <2>2. ~meta.on /\ stream' # "cut" => ~MetaDue(meta) /\ stream = stream'
    BY <1>1 DEF MetaDue, Discards
  <2>3. ~meta.on => ~m.on \/ (m.on = meta.on /\ m.finalize = meta.finalize)
    BY <1>10 DEF LineKept
  <2>4. stream' # "cut" \/ m.on => Linked(m)
    <3> SUFFICES ASSUME stream' # "cut" \/ m.on PROVE Linked(m)
      OBVIOUS
    <3>1. Linked(meta) /\ (MetaDue(meta) => MetaDue(m))
      BY <1>1, <1>3, <1>10, <2>2 DEF InLine, LineKept, MetaDue
    <3> QED BY <1>10, <2>1, <3>1 DEF Linked, LineKept
  <2>5. stream' = "open" => NextReady(m)
    <3> SUFFICES ASSUME stream' = "open" PROVE NextReady(m)
      OBVIOUS
    <3>1. NextReady(meta) /\ (MetaDue(meta) => MetaDue(m))
      BY <1>1, <1>3, <1>10, <2>2 DEF InLine, LineKept, MetaDue
    <3> QED BY <1>10, <2>1, <3>1 DEF NextReady, LineKept
  <2> QED BY <1>1, <1>2, <1>7, <1>10, <2>4, <2>5 DEF InLine
<1> QED BY <1>5, <1>9, <1>10

(* All other steps leave the line alone.                                    *)
LEMMA OthersKeepLine ==
  ASSUME MInv, meta' = meta, stream' = stream,
         enc'.metaDataAllowed = enc.metaDataAllowed,
         sent' = NothingSent \/ sent' = sent
  PROVE  InLine' /\ MetadataEnds'
<1>1. InLine'
  BY DEF MInv, InLine, Linked, NextReady, Succ, MetaDue
<1>2. MetadataEnds'
  BY DEF MInv, MetadataEnds, NothingSent
<1> QED BY <1>1, <1>2

LEMMA NextKeepsLine ==
  ASSUME MInv, [Next]_vars
  PROVE  InLine' /\ MetadataEnds'
<1>1. enc \in EncType
  BY TypeParts DEF MInv, IInv
<1>2. Drop => enc'.metaDataAllowed = enc.metaDataAllowed
  BY <1>1 DEF Drop, EncType
<1>3. ASSUME NEW flags, Set(flags), Drop \/ UNCHANGED enc
      PROVE  InLine' /\ MetadataEnds'
  BY <1>2, <1>3, OthersKeepLine DEF Set
<1>4. ASSUME NEW codec \in Codecs, SetCodec(codec) PROVE InLine' /\ MetadataEnds'
  BY <1>3, <1>4 DEF SetCodec
<1>5. ASSUME NEW granule \in Granules, SetGranule(granule) PROVE InLine' /\ MetadataEnds'
  BY <1>3, <1>5 DEF SetGranule
<1>6. ASSUME NEW channels \in Channels, SetChannels(channels)
      PROVE  InLine' /\ MetadataEnds'
  BY <1>3, <1>6 DEF SetChannels
<1>7. CASE SetSampleRate
  BY <1>3, <1>7 DEF SetSampleRate
<1>8. CASE SetMetadata
  BY <1>3, <1>8 DEF SetMetadata
<1>9. ASSUME NEW flags \in {{"transport"}, {"config", "transport"}}, SetOther(flags)
      PROVE  InLine' /\ MetadataEnds'
  BY <1>3, <1>9 DEF SetOther
<1>10. ASSUME NEW flags \in {ALL, {"states"}, {"inbuffer"}}, ControlState(flags)
       PROVE  InLine' /\ MetadataEnds'
  BY <1>2, <1>10, OthersKeepLine DEF ControlState
<1>11. CASE Refuse
  <2>1. enc'.metaDataAllowed = enc.metaDataAllowed
    BY <1>1, <1>11 DEF Refuse, EncType
  <2> QED BY <1>11, <2>1, OthersKeepLine DEF Refuse
<1>12. ASSUME NEW n \in Offers, Accept(n) PROVE InLine' /\ MetadataEnds'
  <2>1. enc'.metaDataAllowed = enc.metaDataAllowed
    BY <1>1, <1>12 DEF Accept, EncType
  <2> QED BY <1>12, <2>1, OthersKeepLine DEF Accept
<1>13. CASE EndOfFile
  BY <1>13, OthersKeepLine DEF EndOfFile
<1>14. CASE UNCHANGED vars
  BY <1>14, OthersKeepLine DEF vars
<1> QED BY <1>4, <1>5, <1>6, <1>7, <1>8, <1>9, <1>10, <1>11, <1>12, <1>13, <1>14,
           EncodeKeepsLine, InitialiseKeepsLine DEF Next

LEMMA InitInLine == Init => InLine /\ MetadataEnds
<1> SUFFICES ASSUME Init PROVE InLine /\ MetadataEnds
  OBVIOUS
<1>1. meta = Closed /\ stream = "closed" /\ sent = NothingSent
  BY DEF Init
<1>2. 0 \in Lines /\ NotWritten.kind = "none"
  BY EncDelays DEF Lines, NotWritten
<1>3. \A k \in 0 .. Closed.nMetaDataDelay : Closed.line[k].kind = "none"
  BY <1>2 DEF Closed
<1>4. Linked(meta)
  BY <1>1, <1>3, EmptyIsLinked
<1> QED BY <1>1, <1>4 DEF InLine, MetadataEnds, NothingSent

(* Metadata that has begun goes out with every frame until it is closed,    *)
(* for every delay of it, through changes of the parameters and             *)
(* initialisations that keep the line; an initialisation, a failed frame or *)
(* switching on again may cut it, which leaves out the frames behind.       *)
THEOREM MetadataEndsTheorem == Spec => []MetadataEnds
<1>1. Init => MInv
  BY InitInv, InitInLine DEF MInv
<1>2. MInv /\ [Next]_vars => MInv'
  BY NextInv, NextKeepsLine DEF MInv
<1>3. MInv => MetadataEnds
  BY DEF MInv
<1> QED BY <1>1, <1>2, <1>3, PTL DEF Spec
-----------------------------------------------------------------------------
(* Flushing.                                                                *)

(* The zeros to be appended cover the look-ahead of the core and what the   *)
(* delay line for audio holds; once some have been appended the input       *)
(* buffer is empty, and what the line holds ends with them; those that have *)
(* left it have been coded.                                                 *)
DelayCovered ==
  /\ "config" \in InitFlags \/ (enc.core > 0 /\ enc.nSamplesToRead > 0)
  /\ enc.core <= MaxTail
  /\ enc.nDelay >= enc.core + Len(meta.audio)
EndsSilent(n, s) == \A i \in 1 .. Len(s) : i > Len(s) - n => ~s[i].real
TailCovers(n, t) == n > 0 => t >= Lesser(MaxTail, n)
ZerosLast ==
  InitFlags = {} /\ ~resumed /\ enc.nZerosAppended > 0 =>
    /\ nSamplesRead = 0
    /\ EndsSilent(enc.nZerosAppended, meta.audio)
    /\ TailCovers(enc.nZerosAppended - Len(meta.audio), tail)

FlushInv == IInv /\ DelayCovered /\ ZerosLast /\ FlushedOut

(* The frame w[1 .. F] is coded when z zeros have been appended before and  *)
(* new ones now: the zeros stay last.                                       *)
LEMMA SilentConcat ==
  ASSUME NEW a \in Seq(Samples), NEW b \in Seq(Samples), NEW z \in Nat,
         NEW new \in 1 .. Len(b), EndsSilent(new, b),
         z > 0 => new = Len(b) /\ EndsSilent(z, a)
  PROVE  EndsSilent(z + new, a \o b)
<1>1. /\ Len(a) \in Nat /\ Len(b) \in Nat /\ Len(a \o b) = Len(a) + Len(b)
      /\ \A i \in 1 .. Len(a) + Len(b) :
           (a \o b)[i] = IF i <= Len(a) THEN a[i] ELSE b[i - Len(a)]
  BY LenProperties, ConcatProperties
<1> SUFFICES ASSUME NEW i \in 1 .. Len(a) + Len(b), i > Len(a) + Len(b) - (z + new)
             PROVE  ~(a \o b)[i].real
  BY <1>1 DEF EndsSilent
<1>2. CASE i <= Len(a)
  <2>1. z > 0 /\ i \in 1 .. Len(a)
    BY <1>1, <1>2
  <2>2. i > Len(a) - z
    BY <1>1, <2>1
  <2>3. ~a[i].real
    BY <2>1, <2>2 DEF EndsSilent
  <2> QED BY <1>1, <1>2, <2>3
<1>3. CASE ~(i <= Len(a))
  <2>1. i - Len(a) \in 1 .. Len(b) /\ i - Len(a) > Len(b) - new
    BY <1>1, <1>3
  <2>2. ~b[i - Len(a)].real
    BY <2>1 DEF EndsSilent
  <2> QED BY <1>1, <1>3, <2>2
<1> QED BY <1>2, <1>3

LEMMA SilentFinal ==
  ASSUME NEW s \in Seq(Samples), NEW k \in 0 .. Len(s), NEW n \in Nat, EndsSilent(n, s)
  PROVE  EndsSilent(n, Final(k, s))
<1>1. /\ Len(s) \in Nat /\ Len(Final(k, s)) = k
      /\ \A i \in 1 .. k : Final(k, s)[i] = s[Len(s) - k + i]
  BY FinalFacts, LenProperties
<1> SUFFICES ASSUME NEW i \in 1 .. k, i > k - n PROVE ~Final(k, s)[i].real
  BY <1>1 DEF EndsSilent
<1>2. Len(s) - k + i \in 1 .. Len(s) /\ Len(s) - k + i > Len(s) - n
  BY <1>1
<1>3. ~s[Len(s) - k + i].real
  BY <1>2 DEF EndsSilent
<1> QED BY <1>1, <1>3

(* The zeros at the end of what is coded count for the tail.                *)
LEMMA TailCounts ==
  ASSUME NEW coded \in Seq(Samples), NEW n \in Nat, EndsSilent(n, coded),
         tail \in 0 .. MaxTail, n <= Len(coded) \/ TailCovers(n - Len(coded), tail)
  PROVE  TailCovers(n, TailAfter(coded))
<1> DEFINE F == Len(coded)
           reals == {i \in DOMAIN coded : coded[i].real}
           after == {i \in DOMAIN coded : \A r \in reals : i > r}
<1>1. F \in Nat /\ DOMAIN coded = 1 .. F /\ MaxTail \in Nat
  BY LenProperties, EncBounds
<1> HIDE DEF F
<1>2. IsFiniteSet(1 .. F) /\ Cardinality(1 .. F) = F
  BY <1>1, FS_Interval
<1>3. IsFiniteSet(after)
  <2>1. after \subseteq 1 .. F
    BY <1>1
  <2> QED BY <1>2, <2>1, FS_Subset
<1> DEFINE c == Cardinality(after)
           more == IF reals = {} THEN tail ELSE 0
<1>4. TailAfter(coded) = Lesser(MaxTail, c + more)
  BY DEF TailAfter
<1>5. c \in Nat
  BY <1>3, FS_CardinalityType
<1>6. CASE reals = {}
  <2>1. after = 1 .. F
    BY <1>1, <1>6
  <2>2. c = F /\ more = tail
    BY <1>2, <1>6, <2>1
  <2>3. n <= F \/ TailCovers(n - F, tail)
    BY DEF F
  <2>4. tail \in Nat
    BY <1>1
  <2> HIDE DEF c, more, reals, after
  <2>5. CASE n <= F
    BY <1>1, <1>4, <2>2, <2>4, <2>5 DEF TailCovers, Lesser
  <2>6. CASE ~(n <= F)
    <3>1. tail >= Lesser(MaxTail, n - F)
      BY <1>1, <2>3, <2>6 DEF TailCovers
    <3> QED BY <1>1, <1>4, <2>2, <2>4, <2>6, <3>1 DEF TailCovers, Lesser
  <2> QED BY <2>5, <2>6
<1>7. CASE reals # {}
  <2>1. PICK r \in reals : TRUE
    BY <1>7
  <2>2. r \in 1 .. F /\ ~(r > F - n)
    BY <1>1, <2>1 DEF EndsSilent, F
  <2>3. CASE n = 0
    BY <2>3 DEF TailCovers
  <2>4. CASE n # 0
    <3>1. Cardinality(F - n + 1 .. F) = n
      <4>1. /\ IsFiniteSet(F - n + 1 .. F)
            /\ Cardinality(F - n + 1 .. F) =
                 IF F - n + 1 > F THEN 0 ELSE F - (F - n + 1) + 1
        BY <1>1, FS_Interval
      <4> QED BY <1>1, <2>4, <4>1
    <3>2. F - n + 1 .. F \subseteq after
      <4> SUFFICES ASSUME NEW i \in F - n + 1 .. F, NEW q \in reals
                   PROVE  i \in 1 .. F /\ i > q
        BY <1>1
      <4>1. q \in 1 .. F /\ ~(q > F - n)
        BY <1>1 DEF EndsSilent, F
      <4> QED BY <1>1, <2>2, <4>1
    <3>3. n <= c
      BY <1>3, <3>1, <3>2, FS_Subset
    <3>4. more = 0
      BY <1>7
    <3> HIDE DEF c, more
    <3> QED BY <1>1, <1>4, <1>5, <3>3, <3>4 DEF TailCovers, Lesser
  <2> QED BY <2>3, <2>4
<1> QED BY <1>6, <1>7

LEMMA FrontSilent ==
  ASSUME NEW s \in Seq(Samples), NEW F \in 0 .. Len(s), NEW n \in Nat, EndsSilent(n, s),
         n >= Len(s) - F
  PROVE  EndsSilent(n - (Len(s) - F), SubSeq(s, 1, F))
<1>1. /\ Len(s) \in Nat /\ Len(SubSeq(s, 1, F)) = F
      /\ \A i \in 1 .. F : SubSeq(s, 1, F)[i] = s[i]
  <2>1. Len(s) \in Nat
    BY LenProperties
  <2>2. 1 \in 1 .. Len(s) + 1 /\ F \in 1 - 1 .. Len(s)
    BY <2>1
  <2> QED BY <2>1, <2>2, PartFacts
<1> SUFFICES ASSUME NEW i \in 1 .. F, i > F - (n - (Len(s) - F))
             PROVE  ~SubSeq(s, 1, F)[i].real
  BY <1>1 DEF EndsSilent
<1>2. i \in 1 .. Len(s) /\ i > Len(s) - n
  BY <1>1
<1>3. ~s[i].real
  BY <1>2 DEF EndsSilent
<1> QED BY <1>1, <1>3

LEMMA FrameKeepsLength ==
  ASSUME IInv, NEW n \in Offers \cup {0, -1}, NEW fate, EncodeFrame(n, fate)
  PROVE  Len(meta'.audio) = Len(meta.audio)
<1> DEFINE new    == IF n = -1 THEN Zeros ELSE Accepts(n)
           fed    == Fed(new, ~(n = -1))
           filled == enc.inputBuffer \o fed
           at     == Before(time, nSamplesRead)
           a      == meta.audio
<1>1. /\ enc.inputBuffer \in Seq(Samples) /\ time \in Nat
      /\ a \in Seq(Samples) /\ Len(a) \in Nat
  BY Before1
<1>2. meta' = IF enc.metaDataAllowed THEN Processed(meta, at, filled) ELSE meta
  BY DEF EncodeFrame
<1>3. new \in Nat
  BY FrameFilled
<1>4. fed \in Seq(Samples)
  <2>1. (~(n = -1)) \in BOOLEAN
    OBVIOUS
  <2> HIDE DEF new
  <2> QED BY <1>1, <1>3, <2>1, SampleFacts
<1> HIDE DEF fed
<1>5. filled \in Seq(Samples) /\ Len(filled) \in Nat
  BY <1>1, <1>4, ConcatProperties, LenProperties
<1> HIDE DEF filled, at
<1>6. /\ a \o filled \in Seq(Samples)
      /\ Len(a \o filled) = Len(a) + Len(filled)
  BY <1>1, <1>5, ConcatProperties
<1>7. Len(a) \in 0 .. Len(a \o filled)
  BY <1>1, <1>5, <1>6
<1>8. Len(Remaining(meta, filled)) = Len(a)
  BY <1>6, <1>7, FinalFacts DEF Remaining
<1>9. meta \in MetaType
  BY TypeParts DEF IInv, MetaOk
<1>10. Processed(meta, at, filled).audio = Remaining(meta, filled)
  BY <1>9 DEF Processed, MetaType
<1> QED BY <1>2, <1>8, <1>10

(* A flush fills the frame with zeros and codes it.                         *)
LEMMA FlushFrame ==
  ASSUME FlushInv, EncodeFrame(-1, "ok"), ~resumed', enc'.nZerosAppended > 0
  PROVE  /\ nSamplesRead' = 0
         /\ EndsSilent(enc'.nZerosAppended, meta'.audio)
         /\ TailCovers(enc'.nZerosAppended - Len(meta'.audio), tail')
<1> DEFINE new    == Zeros
           fed    == Fed(new, FALSE)
           filled == enc.inputBuffer \o fed
           at     == Before(time, nSamplesRead)
           m      == IF enc.metaDataAllowed THEN Processed(meta, at, filled) ELSE meta
           buffer == IF enc.metaDataAllowed THEN Compensated(meta, filled) ELSE filled
           coded  == SubSeq(buffer, 1, enc.nSamplesToRead)
           left   == SubSeq(buffer, 1, Len(buffer) - enc.nSamplesToRead)
           z      == enc.nZerosAppended
           a      == meta.audio
           F      == enc.nSamplesToRead
           w      == a \o filled
<1>1. /\ IInv /\ DelayCovered /\ ZerosLast
      /\ enc \in EncType /\ MetaOk(enc, meta) /\ Histories
      /\ ~enc.metaDataAllowed => meta = Closed
  BY TypeParts DEF FlushInv, IInv, Ordered
<1>2. /\ enc.inputBuffer \in Seq(Samples) /\ nSamplesRead \in Nat
      /\ nSamplesRead = Len(enc.inputBuffer)
      /\ a \in Seq(Samples) /\ Len(a) \in Nat /\ F \in Nat /\ time \in Nat
  BY <1>1, Before1
<1>3. /\ InitFlags = {} /\ meta' = m /\ tail' = TailAfter(coded)
      /\ enc' = [enc EXCEPT !.inputBuffer = left, !.nZerosAppended = Appended(new)]
      /\ resumed' = Resumed(0)
  BY DEF EncodeFrame
<1>4. /\ enc'.inputBuffer = left /\ enc'.nZerosAppended = z + new /\ ~resumed
      /\ F > 0 /\ z \in Nat
  BY <1>1, <1>3 DEF EncType, Appended, Resumed, DelayCovered
<1>5. new \in Nat /\ nSamplesRead + new >= F
  BY <1>2, Filling DEF Zeros
<1>6. /\ fed \in Seq(Samples) /\ Len(fed) = new
      /\ \A i \in 1 .. new : ~fed[i].real
  <2>1. fed \in Seq(Samples) /\ Len(fed) = new
    <3> HIDE DEF new
    <3> QED BY <1>2, <1>5, SampleFacts
  <2>2. \A i \in 1 .. new : ~fed[i].real
    BY DEF Fed
  <2> QED BY <2>1, <2>2
<1>7. z > 0 => nSamplesRead = 0 /\ EndsSilent(z, a) /\ TailCovers(z - Len(a), tail)
  BY <1>1, <1>3, <1>4 DEF ZerosLast
<1>8. new > 0 /\ nSamplesRead + new = F /\ (z > 0 => new = F)
  <2>1. z > 0 => new = F /\ new > 0
    BY <1>2, <1>4, <1>7 DEF Zeros, Larger
  <2>2. z = 0 => new > 0
    BY <1>4, <1>5
  <2>3. new > 0 => nSamplesRead + new = F
    BY <1>2 DEF Zeros, Larger
  <2> QED BY <1>4, <2>1, <2>2, <2>3
<1> HIDE DEF new, fed
<1> HIDE DEF z, a, F
<1>9. /\ filled \in Seq(Samples) /\ Len(filled) = F
      /\ EndsSilent(new, filled)
  <2>1. /\ filled \in Seq(Samples) /\ Len(filled) = nSamplesRead + new
        /\ \A i \in 1 .. nSamplesRead + new : filled[i] =
             IF i <= nSamplesRead THEN enc.inputBuffer[i] ELSE fed[i - nSamplesRead]
    BY <1>2, <1>6, ConcatProperties
  <2>2. ASSUME NEW i \in 1 .. F, i > F - new PROVE ~filled[i].real
    <3>1. ~(i <= nSamplesRead) /\ i - nSamplesRead \in 1 .. new
      BY <1>2, <1>5, <1>8, <2>2
    <3> QED BY <1>6, <1>8, <2>1, <3>1
  <2> QED BY <1>8, <2>1, <2>2 DEF EndsSilent
<1> HIDE DEF filled, at
<1>10. Len(filled) = F /\ EndsSilent(new, filled)
  BY <1>9
<1>11. w \in Seq(Samples) /\ Len(w) = Len(a) + F
  BY <1>2, <1>9, ConcatProperties
<1>12. EndsSilent(z + new, w)
  <2>1. new \in 1 .. Len(filled) /\ (z > 0 => new = Len(filled) /\ EndsSilent(z, a))
    BY <1>2, <1>5, <1>7, <1>8, <1>9
  <2> QED BY <1>2, <1>4, <1>9, <1>10, <2>1, SilentConcat
<1>13. /\ buffer = SubSeq(w, 1, F) /\ m.audio = Final(Len(a), w)
  <2>1. CASE enc.metaDataAllowed
    <3>1. m.audio = Remaining(meta, filled)
      <4>1. meta \in MetaType
        BY <1>1 DEF MetaOk
      <4> QED BY <2>1, <4>1 DEF Processed, MetaType
    <3> QED BY <1>9, <2>1, <3>1 DEF Compensated, Remaining, a
  <2>2. CASE ~enc.metaDataAllowed
    <3>1. a = <<>>
      BY <1>1, <2>2 DEF Closed, a
    <3>2. w = filled /\ Len(a) = 0
      BY <1>9, <3>1, ConcatEmptySeq, EmptySeq
    <3>3. SubSeq(filled, 1, F) = filled /\ Final(0, filled) = <<>>
      BY <1>9, SubSeqFull, FinalOfAll
    <3> QED BY <2>2, <3>1, <3>2, <3>3 DEF a
  <2> QED BY <2>1, <2>2
<1> HIDE DEF w, buffer
<1>14. Len(a) \in 0 .. Len(w) /\ F \in 0 .. Len(w) /\ z + new \in Nat
  BY <1>2, <1>4, <1>5, <1>11
<1>15. EndsSilent(z + new, m.audio) /\ Len(m.audio) = Len(a)
  BY <1>11, <1>12, <1>13, <1>14, SilentFinal, FinalFacts
<1>16. /\ coded = SubSeq(w, 1, F) /\ coded \in Seq(Samples) /\ Len(coded) = F
       /\ left = <<>>
  <2>1. buffer \in Seq(Samples) /\ Len(buffer) = F
    BY <1>11, <1>13, <1>14, FrontFacts
  <2>2. coded = buffer
    BY <2>1, SubSeqFull DEF F
  <2>3. left = <<>>
    <3>1. Len(buffer) - F = 0
      BY <1>2, <2>1
    <3>2. 0 \in 0 .. Len(buffer)
      BY <1>2, <2>1
    <3>3. SubSeq(buffer, 1, 0) \in Seq(Samples) /\ Len(SubSeq(buffer, 1, 0)) = 0
      BY <2>1, <3>2, FrontFacts
    <3> QED BY <3>1, <3>3, EmptySeq DEF F
  <2> QED BY <1>13, <2>1, <2>2, <2>3
<1>17. TailCovers((z + new) - Len(a), tail')
  <2>1. CASE ~(z + new > Len(a))
    BY <1>2, <1>4, <1>5, <2>1 DEF TailCovers
  <2>2. CASE z + new > Len(a)
    <3> DEFINE n == (z + new) - Len(a)
    <3>1. n \in Nat /\ z + new >= Len(w) - F /\ (z + new) - (Len(w) - F) = n
      BY <1>2, <1>4, <1>5, <1>11, <2>2
    <3>2. EndsSilent(n, coded)
      <4>1. EndsSilent((z + new) - (Len(w) - F), SubSeq(w, 1, F))
        <5> DEFINE k == z + new
        <5>1. k \in Nat /\ EndsSilent(k, w) /\ k >= Len(w) - F
          BY <1>12, <1>14, <3>1
        <5> HIDE DEF k
        <5>2. EndsSilent(k - (Len(w) - F), SubSeq(w, 1, F))
          BY <1>11, <1>14, <5>1, FrontSilent
        <5> QED BY <5>2 DEF k
      <4> HIDE DEF n, coded
      <4> QED BY <1>16, <3>1, <4>1
    <3>3. n <= F \/ TailCovers(n - F, tail)
      <4>1. CASE z = 0
        BY <1>2, <1>5, <1>8, <4>1
      <4>2. CASE z > 0
        <5>1. n - F = z - Len(a)
          BY <1>2, <1>4, <1>8, <4>2
        <5> QED BY <1>7, <4>2, <5>1
      <4> QED BY <1>4, <4>1, <4>2
    <3>4. tail \in 0 .. MaxTail
      BY <1>1 DEF Histories
    <3> HIDE DEF n, coded
    <3>5. TailCovers(n, TailAfter(coded))
      BY <1>16, <3>1, <3>2, <3>3, <3>4, TailCounts
    <3> QED BY <1>3, <3>5 DEF n
  <2> QED BY <2>1, <2>2
<1>18. nSamplesRead' = 0
  BY <1>4, <1>16, EmptySeq DEF nSamplesRead
<1> HIDE DEF m
<1> QED BY <1>3, <1>4, <1>15, <1>17, <1>18

LEMMA FrameKeepsZeros ==
  ASSUME FlushInv, NEW n \in Offers \cup {0, -1}, NEW fate \in {"ok", "coding", "output"},
         EncodeFrame(n, fate)
  PROVE  ZerosLast'
<1> SUFFICES ASSUME InitFlags' = {}, ~resumed', enc'.nZerosAppended > 0
             PROVE  n = -1 /\ fate = "ok"
  BY FlushFrame DEF ZerosLast
<1>1. fate = "ok"
  BY DEF EncodeFrame, ALL
<1>2. n = -1
  <2> SUFFICES ASSUME n # -1 PROVE FALSE
    OBVIOUS
  <2>1. n \in Nat
    BY EncBounds
  <2>2. enc \in EncType /\ ZerosLast /\ DelayCovered
    BY TypeParts DEF FlushInv, IInv
  <2>3. /\ InitFlags = {} /\ nSamplesRead + n >= enc.nSamplesToRead
        /\ enc'.nZerosAppended = enc.nZerosAppended
        /\ resumed' = Resumed(Accepts(n))
    BY <2>2 DEF EncodeFrame, EncType
  <2>4. nSamplesRead = 0 /\ enc.nSamplesToRead > 0 /\ ~(Accepts(n) > 0)
    BY <2>2, <2>3 DEF ZerosLast, DelayCovered, Resumed
  <2>5. enc.nSamplesToRead \in Nat
    BY <2>2 DEF EncType
  <2> QED BY <2>1, <2>3, <2>4, <2>5 DEF Accepts, Larger, Lesser
<1> QED BY <1>1, <1>2

(* The delay is covered after an initialisation, which sums it up.          *)
LEMMA InitialiseCovers ==
  ASSUME FlushInv, Initialise
  PROVE  DelayCovered' /\ enc'.nZerosAppended = 0
<1> DEFINE e == InitEnc
           m == MetaThen(e)
           extra == IF Inits(e) THEN Len(m.audio) ELSE 0
           delay == InitDelay(extra)
           p == <<settings.codec, settings.granule>>
<1>1. /\ IInv /\ DelayCovered /\ Described /\ enc \in EncType /\ settings \in Settings
      /\ meta \in MetaType /\ (~enc.metaDataAllowed => meta = Closed)
  BY TypeParts DEF FlushInv, IInv, MetaOk, Ordered
<1>2. /\ InitFlags # {} /\ AcceptedSettings /\ InitFlags' = {} /\ meta' = m
      /\ enc' = [e EXCEPT !.nDelay = delay]
  BY DEF Initialise, MetaThen, Inits
<1>3. /\ e \in EncType /\ e.nZerosAppended = 0
      /\ "config" \in InitFlags =>
           e.core = CoreDelay[p] /\ e.nSamplesToRead = settings.granule
      /\ "config" \notin InitFlags =>
           /\ e.core = enc.core /\ e.nSamplesToRead = enc.nSamplesToRead
           /\ e.metaDataAllowed = enc.metaDataAllowed
  <2>1. e \in EncType /\ (~("config" \in InitFlags) =>
           /\ e.core = enc.core /\ e.nSamplesToRead = enc.nSamplesToRead
           /\ e.metaDataAllowed = enc.metaDataAllowed)
    BY <1>1, <1>2, InitEncFacts
  <2>2. /\ e.nZerosAppended = 0
        /\ "config" \in InitFlags =>
             e.core = CoreDelay[p] /\ e.nSamplesToRead = settings.granule
    BY <1>1 DEF InitEnc, EncType, Core
  <2> QED BY <2>1, <2>2
<1>4. p \in Codecs \X Granules /\ settings.granule \in Nat \ {0}
  BY <1>1, EncSettings DEF Settings
<1>5. CoreDelay[p] \in Nat /\ CoreDelay[p] > 0 /\ CoreDelay[p] <= MaxTail /\ MaxTail \in Nat
  BY <1>4, EncLookAhead, EncBounds
<1>6. e.core > 0 /\ e.nSamplesToRead > 0 /\ e.core <= MaxTail
  <2>1. settings.granule > 0
    BY <1>4
  <2> QED BY <1>1, <1>3, <1>5, <2>1 DEF DelayCovered
<1>7. m.audio \in Seq(Samples) /\ Len(m.audio) \in Nat
  <2>1. m.audio \in Seq(Samples)
    BY <1>1, <1>2, MetaThenFacts DEF MetaOk, MetaType
  <2> QED BY <2>1, LenProperties
<1>8. ~Inits(e) => m = IF e.metaDataAllowed THEN meta ELSE Closed
  BY DEF MetaThen
<1>9. meta.audio \in Seq(Samples) /\ Len(meta.audio) \in Nat
  BY <1>1, Before1
<1>10. Len(Closed.audio) = 0
  BY EmptySeq DEF Closed
<1>11. enc.nDelay \in Nat /\ enc.core \in Nat /\ e.core \in Nat
  BY <1>1, <1>3 DEF EncType
<1>12. delay \in Nat /\ delay >= e.core + Len(m.audio)
  <2>1. CASE "config" \in InitFlags
    <3>1. delay = extra + CoreDelay[p] /\ e.core = CoreDelay[p]
      BY <1>3, <2>1 DEF InitDelay, Core
    <3>2. Inits(e) <=> e.metaDataAllowed
      BY <2>1 DEF Inits
    <3>3. extra = Len(m.audio)
      BY <1>8, <1>10, <3>2
    <3> HIDE DEF delay, extra, m
    <3> QED BY <1>5, <1>7, <3>1, <3>3
  <2>2. CASE "config" \notin InitFlags
    <3>1. delay = extra + enc.nDelay /\ e.core = enc.core
      BY <1>3, <2>2 DEF InitDelay
    <3>2. enc.nDelay >= enc.core + Len(meta.audio)
      BY <1>1 DEF DelayCovered
    <3>3. CASE Inits(e)
      <4>1. extra = Len(m.audio)
        BY <3>3
      <4> HIDE DEF delay, extra, m, e
      <4> QED BY <1>7, <1>9, <1>11, <3>1, <3>2, <4>1
    <3>4. CASE ~Inits(e)
      <4>1. Len(m.audio) = Len(meta.audio)
        BY <1>1, <1>3, <1>8, <1>10, <2>2, <3>4
      <4>2. extra = 0
        BY <3>4
      <4> HIDE DEF delay, extra, m, e
      <4> QED BY <1>9, <1>11, <3>1, <3>2, <4>1, <4>2
    <3> QED BY <3>3, <3>4
  <2> QED BY <2>1, <2>2
<1> HIDE DEF e, m, delay
<1>13. /\ enc'.core = e.core /\ enc'.nSamplesToRead = e.nSamplesToRead
       /\ enc'.nDelay = delay /\ enc'.nZerosAppended = 0
  BY <1>2, <1>3 DEF EncType
<1> QED BY <1>2, <1>6, <1>12, <1>13 DEF DelayCovered

(* The other steps leave what is to be covered alone.                       *)
LEMMA OthersCover ==
  ASSUME FlushInv, UNCHANGED <<enc.core, enc.nSamplesToRead, enc.nDelay>>,
         Len(meta'.audio) = Len(meta.audio),
         "config" \in InitFlags => "config" \in InitFlags'
  PROVE  DelayCovered'
BY DEF FlushInv, DelayCovered

LEMMA EndIsCovered ==
  ASSUME FlushInv, EndOfFile
  PROVE  FlushedOut'
<1> SUFFICES ASSUME ~resumed, upset = 0
             PROVE  tail >= enc.core /\ \A i \in DOMAIN owed : ~owed[i].real
  BY DEF EndOfFile, FlushedOut
<1>1. /\ IInv /\ DelayCovered /\ ZerosLast /\ Ordered /\ enc \in EncType /\ Histories
  BY TypeParts DEF FlushInv, IInv
<1>2. InitFlags = {} /\ enc.nZerosAppended >= enc.nDelay
  BY DEF EndOfFile
<1>3. /\ enc.nZerosAppended \in Nat /\ enc.nDelay \in Nat /\ enc.core \in Nat
      /\ MaxTail \in Nat /\ tail \in Nat
  BY <1>1, EncBounds DEF EncType, Histories
<1>4. enc.core > 0 /\ enc.core <= MaxTail /\ enc.nDelay >= enc.core + Len(meta.audio)
  BY <1>1, <1>2 DEF DelayCovered
<1>5. /\ enc.inputBuffer \in Seq(Samples) /\ nSamplesRead = Len(enc.inputBuffer)
      /\ meta.audio \in Seq(Samples) /\ Len(meta.audio) \in Nat
  BY <1>1, Before1
<1>6. /\ nSamplesRead = 0 /\ EndsSilent(enc.nZerosAppended, meta.audio)
      /\ TailCovers(enc.nZerosAppended - Len(meta.audio), tail)
  <2>1. enc.nZerosAppended > 0
    BY <1>2, <1>3, <1>4, <1>5
  <2> QED BY <1>1, <1>2, <2>1 DEF ZerosLast
<1>7. tail >= enc.core
  <2>1. enc.nZerosAppended - Len(meta.audio) >= enc.core
    BY <1>2, <1>3, <1>4, <1>5
  <2>2. tail >= Lesser(MaxTail, enc.nZerosAppended - Len(meta.audio))
    BY <1>3, <1>4, <1>5, <1>6, <2>1 DEF TailCovers
  <2> QED BY <1>3, <1>4, <1>5, <2>1, <2>2 DEF Lesser
<1>8. owed = meta.audio
  <2>1. InitFlags # ALL
    BY <1>2 DEF ALL
  <2>2. owed = meta.audio \o enc.inputBuffer
    BY <1>1, <2>1 DEF Ordered, InPlace
  <2>3. enc.inputBuffer = <<>>
    BY <1>5, <1>6, EmptySeq
  <2> QED BY <1>5, <2>2, <2>3, ConcatEmptySeq
<1>9. \A i \in DOMAIN owed : ~owed[i].real
  <2>1. DOMAIN owed = 1 .. Len(meta.audio)
    BY <1>5, <1>8
  <2> SUFFICES ASSUME NEW i \in 1 .. Len(meta.audio) PROVE ~meta.audio[i].real
    BY <1>8, <2>1
  <2>2. i > Len(meta.audio) - enc.nZerosAppended
    BY <1>2, <1>3, <1>4, <1>5
  <2> QED BY <1>6, <2>2 DEF EndsSilent
<1> QED BY <1>7, <1>9

LEMMA NextFlushes ==
  ASSUME FlushInv, [Next]_vars
  PROVE  DelayCovered' /\ ZerosLast' /\ FlushedOut'
<1>1. /\ IInv /\ DelayCovered /\ ZerosLast /\ FlushedOut /\ enc \in EncType
  BY TypeParts DEF FlushInv, IInv
<1>2. Drop => UNCHANGED <<enc.core, enc.nSamplesToRead, enc.nDelay>>
  BY <1>1 DEF Drop, EncType
<1>3. ASSUME NEW flags, flags # {}, Set(flags), Drop \/ UNCHANGED enc
      PROVE  DelayCovered' /\ ZerosLast' /\ FlushedOut'
  <2>1. DelayCovered'
    BY <1>2, <1>3, OthersCover DEF Set
  <2>2. InitFlags' # {} /\ result' # "eof"
    BY <1>3 DEF Set
  <2> QED BY <2>1, <2>2 DEF ZerosLast, FlushedOut
<1>4. ASSUME NEW codec \in Codecs, SetCodec(codec)
      PROVE  DelayCovered' /\ ZerosLast' /\ FlushedOut'
  BY <1>3, <1>4 DEF SetCodec
<1>5. ASSUME NEW granule \in Granules, SetGranule(granule)
      PROVE  DelayCovered' /\ ZerosLast' /\ FlushedOut'
  BY <1>3, <1>5 DEF SetGranule
<1>6. ASSUME NEW channels \in Channels, SetChannels(channels)
      PROVE  DelayCovered' /\ ZerosLast' /\ FlushedOut'
  BY <1>3, <1>6 DEF SetChannels
<1>7. CASE SetSampleRate
  BY <1>3, <1>7 DEF SetSampleRate
<1>8. CASE SetMetadata
  BY <1>3, <1>8 DEF SetMetadata
<1>9. ASSUME NEW flags \in {{"transport"}, {"config", "transport"}}, SetOther(flags)
      PROVE  DelayCovered' /\ ZerosLast' /\ FlushedOut'
  BY <1>3, <1>9 DEF SetOther
<1>10. ASSUME NEW flags \in {ALL, {"states"}, {"inbuffer"}}, ControlState(flags)
       PROVE  DelayCovered' /\ ZerosLast' /\ FlushedOut'
  <2>1. /\ "config" \in InitFlags => "config" \in flags
        /\ InitFlags' = flags /\ flags # {} /\ result' = "set" /\ meta' = meta
    BY <1>10 DEF ControlState, ALL
  <2>2. UNCHANGED <<enc.core, enc.nSamplesToRead, enc.nDelay>>
    BY <1>2, <1>10 DEF ControlState
  <2>3. DelayCovered'
    BY <2>1, <2>2, OthersCover
  <2> QED BY <2>1, <2>3 DEF ZerosLast, FlushedOut
<1>11. CASE Initialise
  <2>1. DelayCovered' /\ enc'.nZerosAppended = 0
    BY <1>11, InitialiseCovers
  <2>2. result' = "returned"
    BY <1>11 DEF Initialise
  <2> QED BY <2>1, <2>2 DEF ZerosLast, FlushedOut
<1>12. CASE Refuse
  <2>1. /\ UNCHANGED <<enc.core, enc.nSamplesToRead, enc.nDelay>>
        /\ enc'.nZerosAppended = 0 /\ UNCHANGED <<meta, InitFlags>>
        /\ result' = "refused"
    BY <1>1, <1>12 DEF Refuse, EncType
  <2>2. DelayCovered'
    BY <2>1, OthersCover
  <2> QED BY <2>1, <2>2 DEF ZerosLast, FlushedOut
<1>13. ASSUME NEW n \in Offers, Accept(n)
       PROVE  DelayCovered' /\ ZerosLast' /\ FlushedOut'
  <2>1. /\ UNCHANGED <<enc.core, enc.nSamplesToRead, enc.nDelay, enc.nZerosAppended>>
        /\ UNCHANGED <<meta, InitFlags>> /\ resumed' = Resumed(n)
        /\ result' = "returned"
    BY <1>1, <1>13 DEF Accept, EncType
  <2>2. DelayCovered'
    BY <2>1, OthersCover
  <2>3. n > 0
    BY EncBounds
  <2>4. ZerosLast'
    BY <2>1, <2>3 DEF ZerosLast, Resumed
  <2> QED BY <2>1, <2>2, <2>4 DEF FlushedOut
<1>14. CASE EndOfFile
  <2>1. DelayCovered' /\ ZerosLast'
    BY <1>1, <1>14 DEF EndOfFile, DelayCovered, ZerosLast, nSamplesRead
  <2> QED BY <1>14, <2>1, EndIsCovered
<1>15. ASSUME NEW n \in Offers \cup {0, -1}, NEW fate \in {"ok", "coding", "output"},
              EncodeFrame(n, fate)
       PROVE  DelayCovered' /\ ZerosLast' /\ FlushedOut'
  <2>1. ZerosLast'
    BY <1>15, FrameKeepsZeros
  <2>2. /\ UNCHANGED <<enc.core, enc.nSamplesToRead, enc.nDelay>>
        /\ InitFlags = {} /\ result' # "eof"
    BY <1>1, <1>15 DEF EncodeFrame, EncType
  <2>3. Len(meta'.audio) = Len(meta.audio)
    BY <1>1, <1>15, FrameKeepsLength
  <2>4. DelayCovered'
    BY <2>2, <2>3, OthersCover
  <2> QED BY <2>1, <2>2, <2>4 DEF FlushedOut
<1>16. CASE UNCHANGED vars
  BY <1>1, <1>16 DEF vars, DelayCovered, ZerosLast, FlushedOut, nSamplesRead
<1> QED BY <1>4, <1>5, <1>6, <1>7, <1>8, <1>9, <1>10, <1>11, <1>12, <1>13, <1>14, <1>15,
           <1>16 DEF Next

LEMMA InitFlush == Init => DelayCovered /\ ZerosLast /\ FlushedOut
<1> SUFFICES ASSUME Init PROVE DelayCovered /\ ZerosLast /\ FlushedOut
  OBVIOUS
<1>1. InitFlags = ALL /\ "config" \in InitFlags /\ InitFlags # {} /\ result = "set"
  BY DEF Init, ALL
<1>2. enc.core = 0 /\ enc.nDelay = 0 /\ Len(meta.audio) = 0 /\ MaxTail \in Nat
  BY EmptySeq, EncBounds DEF Init, Closed
<1> QED BY <1>1, <1>2 DEF DelayCovered, ZerosLast, FlushedOut

(* When the end of the file is reported every sample fed has been coded     *)
(* with the core's look-ahead of zeros behind it, for every delay of the    *)
(* core and of the metadata, whenever the parameters have changed before,   *)
(* unless it was fed again while flushing (resumed) or a buffer of more     *)
(* than a frame is under way (upset).                                       *)
THEOREM FlushedOutTheorem == Spec => []FlushedOut
<1>1. Init => FlushInv
  BY InitInv, InitFlush DEF FlushInv
<1>2. FlushInv /\ [Next]_vars => FlushInv'
  BY NextInv, NextFlushes DEF FlushInv
<1>3. FlushInv => FlushedOut
  BY DEF FlushInv
<1> QED BY <1>1, <1>2, <1>3, PTL DEF Spec

-----------------------------------------------------------------------------
(* Metadata with its audio.                                                 *)

(* What the core is owed is as far from the next sample as its place says;  *)
(* an entry of the line for metadata is as many frames from the beginning   *)
(* of the input buffer as entries have been written since, itself counted.  *)
(* Both hold by the time alone, so that a change of the parameters that     *)
(* leaves the two lines as they are leaves them in step.                    *)
Now == Before(time, nSamplesRead)
Age(m, l) == IF l < m.idx THEN m.idx - l ELSE m.idx + (m.nMetaDataDelay + 1 - l)
OwedInTime(t, s) ==
  \A i \in 1 .. Len(s) : s[i] # Blank => s[i].at = Before(t, Len(s) - i + 1)
LineInTime(m, now, frame) ==
  \A l \in 0 .. m.nMetaDataDelay :
    m.line[l].at # Cycle => m.line[l].at = Before(now, frame * Age(m, l))

InTime ==
  /\ OwedInTime(time, owed)
  /\ enc.metaDataAllowed /\ "states" \notin InitFlags =>
       LineInTime(meta, Now, enc.nSamplesToRead)

TimeInv == IInv /\ InTime /\ MetadataWithAudio

(* Times                                                                    *)
LEMMA TimeFacts ==
  ASSUME NEW t \in Int, NEW j \in Int, NEW k \in Int
  PROVE  /\ Before(t, k) \in 0 .. Cycle - 1
         /\ Before((t + j) % Cycle, k) = Before(t, k - j)
         /\ Before(Before(t, j), k) = Before(t, j + k)
         /\ (Before(t, k) + j) % Cycle = Before(t, k - j)
<1>1. Cycle \in Nat \ {0}
  BY EncBounds
<1>2. Before(t, k) \in 0 .. Cycle - 1
  <2>1. t - k \in Int
    OBVIOUS
  <2> QED BY <1>1, <2>1, ModRange DEF Before
<1>3. ASSUME NEW x \in Int, NEW y \in Int
      PROVE  ((x % Cycle) + y) % Cycle = (x + y) % Cycle
  BY <1>1, ModPlus
<1>4. Before((t + j) % Cycle, k) = Before(t, k - j)
  <2>1. (((t + j) % Cycle) + (-k)) % Cycle = ((t + j) + (-k)) % Cycle
    BY <1>3
  <2>2. (t + j) + (-k) = t - (k - j)
    OBVIOUS
  <2>3. ((t + j) % Cycle) + (-k) = ((t + j) % Cycle) - k
    BY <1>1
  <2> QED BY <2>1, <2>2, <2>3 DEF Before
<1>5. Before(Before(t, j), k) = Before(t, j + k)
  <2>1. (((t - j) % Cycle) + (-k)) % Cycle = ((t - j) + (-k)) % Cycle
    BY <1>3
  <2>2. (t - j) + (-k) = t - (j + k)
    OBVIOUS
  <2>3. ((t - j) % Cycle) + (-k) = ((t - j) % Cycle) - k
    BY <1>1
  <2> QED BY <2>1, <2>2, <2>3 DEF Before
<1>6. (Before(t, k) + j) % Cycle = Before(t, k - j)
  <2>1. (((t - k) % Cycle) + j) % Cycle = ((t - k) + j) % Cycle
    BY <1>3
  <2>2. (t - k) + j = t - (k - j)
    OBVIOUS
  <2> QED BY <2>1, <2>2 DEF Before
<1> QED BY <1>2, <1>4, <1>5, <1>6

(* Samples fed come behind those owed.                                      *)
LEMMA FedInTime ==
  ASSUME time \in 0 .. Cycle - 1, NEW s \in Seq(Samples), OwedInTime(time, s),
         NEW n \in Nat, NEW real \in BOOLEAN
  PROVE  OwedInTime((time + n) % Cycle, s \o Fed(n, real))
<1> DEFINE fed == Fed(n, real)
           u == s \o fed
           L == Len(s)
<1>1. /\ L \in Nat /\ time \in Int /\ time \in Nat
  BY LenProperties, EncBounds
<1>2. fed \in Seq(Samples) /\ Len(fed) = n
  BY <1>1, SampleFacts
<1>3. \A i \in 1 .. n : fed[i].at = (time + i - 1) % Cycle
  BY DEF Fed
<1> HIDE DEF fed
<1>4. /\ u \in Seq(Samples) /\ Len(u) = L + n
      /\ \A i \in 1 .. L + n : u[i] = IF i <= L THEN s[i] ELSE fed[i - L]
  BY <1>2, ConcatProperties
<1> HIDE DEF u, L
<1>5. ASSUME NEW i \in 1 .. L + n, u[i] # Blank
      PROVE  u[i].at = Before((time + n) % Cycle, Len(u) - i + 1)
  <2> DEFINE k == L + n - i + 1
  <2>1. k \in Int /\ k - n = L - i + 1 /\ Len(u) - i + 1 = k
    BY <1>1, <1>4
  <2> HIDE DEF k
  <2>2. Before((time + n) % Cycle, k) = Before(time, k - n)
    <3>1. time \in Int /\ n \in Int /\ k \in Int
      BY <1>1, <2>1
    <3> QED BY <3>1, TimeFacts, Zenon
  <2>3. CASE i <= L
    <3>1. i \in 1 .. L /\ u[i] = s[i]
      BY <1>1, <1>4, <2>3
    <3>2. s[i].at = Before(time, L - i + 1)
      BY <1>5, <3>1 DEF OwedInTime, L
    <3> QED BY <2>1, <2>2, <3>1, <3>2
  <2>4. CASE ~(i <= L)
    <3>1. PICK j \in 1 .. n : j = i - L
      BY <1>1, <2>4
    <3>2. u[i] = fed[j]
      BY <1>4, <2>4, <3>1
    <3>3. time + j - 1 = time - (k - n)
      BY <1>1, <2>1, <3>1
    <3> QED BY <1>3, <2>1, <2>2, <3>2, <3>3 DEF Before
  <2> QED BY <2>3, <2>4
<1>6. OwedInTime((time + n) % Cycle, u)
  BY <1>4, <1>5 DEF OwedInTime
<1> QED BY <1>6 DEF u, fed

(* A frame is taken away at the front, the input buffer at the end.         *)
LEMMA PartsInTime ==
  ASSUME NEW t \in Int, NEW s \in Seq(Samples), OwedInTime(t, s), NEW n \in 0 .. Len(s)
  PROVE  /\ OwedInTime(t, SubSeq(s, n + 1, Len(s)))
         /\ OwedInTime(Before(t, n), SubSeq(s, 1, Len(s) - n))
<1> DEFINE L == Len(s)
           rest == SubSeq(s, n + 1, L)
           front == SubSeq(s, 1, L - n)
<1>1. L \in Nat /\ n \in Nat /\ n <= L
  BY LenProperties
<1>2. /\ Len(rest) = L - n
      /\ \A i \in 1 .. L - n : rest[i] = s[n + i]
  <2>1. n + 1 \in 1 .. L + 1 /\ L \in (n + 1) - 1 .. L
    BY <1>1
  <2>2. /\ Len(rest) = L - (n + 1) + 1
        /\ \A i \in 1 .. L - (n + 1) + 1 : rest[i] = s[(n + 1) + i - 1]
    BY <2>1, PartFacts
  <2>3. L - (n + 1) + 1 = L - n
    BY <1>1
  <2>4. \A i \in 1 .. L - n : (n + 1) + i - 1 = n + i
    BY <1>1
  <2>5. \A i \in 1 .. L - n : rest[i] = s[(n + 1) + i - 1]
    BY <2>2, <2>3
  <2>6. \A i \in 1 .. L - n : rest[i] = s[n + i]
    BY <2>4, <2>5
  <2> QED BY <2>2, <2>3, <2>6
<1>3. /\ Len(front) = L - n
      /\ \A i \in 1 .. L - n : front[i] = s[i]
  <2>1. 1 \in 1 .. L + 1 /\ L - n \in 1 - 1 .. L
    BY <1>1
  <2>2. /\ Len(front) = L - n - 1 + 1
        /\ \A i \in 1 .. L - n - 1 + 1 : front[i] = s[1 + i - 1]
    BY <2>1, PartFacts
  <2>3. L - n - 1 + 1 = L - n
    BY <1>1
  <2>4. \A i \in 1 .. L - n : 1 + i - 1 = i
    BY <1>1
  <2>5. \A i \in 1 .. L - n : front[i] = s[1 + i - 1]
    BY <2>2, <2>3
  <2>6. \A i \in 1 .. L - n : front[i] = s[i]
    BY <2>4, <2>5
  <2> QED BY <2>2, <2>3, <2>6
<1> HIDE DEF rest, front
<1>4. ASSUME NEW i \in 1 .. L - n, rest[i] # Blank
      PROVE  rest[i].at = Before(t, Len(rest) - i + 1)
  <2>1. PICK k \in 1 .. L : k = n + i
    BY <1>1
  <2>2. rest[i] = s[k] /\ L - k + 1 = Len(rest) - i + 1
    BY <1>1, <1>2, <2>1
  <2>3. s[k].at = Before(t, L - k + 1)
    BY <1>4, <2>2 DEF OwedInTime
  <2> QED BY <2>2, <2>3
<1>5. ASSUME NEW i \in 1 .. L - n, front[i] # Blank
      PROVE  front[i].at = Before(Before(t, n), Len(front) - i + 1)
  <2>1. i \in 1 .. L /\ front[i] = s[i]
    BY <1>1, <1>3
  <2>2. s[i].at = Before(t, L - i + 1)
    BY <1>5, <2>1 DEF OwedInTime
  <2>3. PICK k \in Int : k = Len(front) - i + 1 /\ n + k = L - i + 1
    BY <1>1, <1>3
  <2>4. Before(Before(t, n), k) = Before(t, n + k)
    BY <1>1, TimeFacts
  <2> QED BY <2>1, <2>2, <2>3, <2>4
<1>6. OwedInTime(t, rest)
  BY <1>2, <1>4 DEF OwedInTime
<1>7. OwedInTime(Before(t, n), front)
  BY <1>3, <1>5 DEF OwedInTime
<1> QED BY <1>6, <1>7 DEF rest, front

(* An initialisation clears samples or leaves them in their places.         *)
LEMMA JoinInTime ==
  ASSUME NEW t, NEW s \in Seq(Samples), OwedInTime(t, s),
         NEW h \in Seq(Samples), NEW q \in Seq(Samples), Len(q) <= Len(s),
         \A i \in 1 .. Len(h) :
           h[i] = Blank \/ (Len(h) + Len(q) = Len(s) /\ h[i] = s[i]),
         \A i \in 1 .. Len(q) : q[i] = Blank \/ q[i] = s[Len(s) - Len(q) + i]
  PROVE  OwedInTime(t, h \o q)
<1> DEFINE u == h \o q
<1>1. /\ Len(h) \in Nat /\ Len(q) \in Nat /\ Len(s) \in Nat
      /\ Len(u) = Len(h) + Len(q)
      /\ \A i \in 1 .. Len(h) + Len(q) :
           u[i] = IF i <= Len(h) THEN h[i] ELSE q[i - Len(h)]
  BY LenProperties, ConcatProperties
<1> HIDE DEF u
<1>2. ASSUME NEW i \in 1 .. Len(h) + Len(q), u[i] # Blank
      PROVE  u[i].at = Before(t, Len(u) - i + 1)
  <2>1. CASE i <= Len(h)
    <3>1. i \in 1 .. Len(h) /\ u[i] = h[i]
      BY <1>1, <2>1
    <3>2. Len(u) = Len(s) /\ u[i] = s[i] /\ i \in 1 .. Len(s)
      BY <1>1, <1>2, <3>1
    <3> QED BY <1>2, <3>2 DEF OwedInTime
  <2>2. CASE ~(i <= Len(h))
    <3>1. PICK j \in 1 .. Len(q) : j = i - Len(h)
      BY <1>1, <2>2
    <3>2. u[i] = q[j]
      BY <1>1, <2>2, <3>1
    <3>3. PICK k \in 1 .. Len(s) : k = Len(s) - Len(q) + j
      BY <1>1
    <3>4. u[i] = s[k]
      BY <1>2, <3>2, <3>3
    <3>5. Len(s) - k + 1 = Len(u) - i + 1
      BY <1>1, <3>1, <3>3
    <3> QED BY <1>2, <3>4, <3>5 DEF OwedInTime
  <2> QED BY <2>1, <2>2
<1>3. OwedInTime(t, u)
  BY <1>1, <1>2 DEF OwedInTime
<1> QED BY <1>3 DEF u

(* A frame of metadata makes each entry of the line a frame older, and the  *)
(* one that goes out is as old as the line is long.                         *)
LEMMA LineFrame ==
  ASSUME NEW m \in MetaType, m.idx <= m.nMetaDataDelay, NEW now \in 0 .. Cycle - 1,
         NEW frame \in Nat, LineInTime(m, now, frame), NEW buffer,
         NEW n, n = Processed(m, now, buffer)
  PROVE  /\ LineInTime(n, (now + frame) % Cycle, frame)
         /\ n.nMetaDataDelay = m.nMetaDataDelay /\ n.idx \in 0 .. m.nMetaDataDelay
         /\ Age(n, n.idx) = m.nMetaDataDelay + 1
<1> DEFINE D == m.nMetaDataDelay
           line == Filled(m, Entry(m, now))
<1>1. /\ D \in Nat /\ m.idx \in 0 .. D /\ 0 .. D \subseteq Lines
      /\ Advance(m) = IF m.idx + 1 > D THEN 0 ELSE m.idx + 1
  BY SuccFacts DEF Advance
<1>2. m = [finalize |-> m.finalize, initialize |-> m.initialize, on |-> m.on,
           nMetaDataDelay |-> m.nMetaDataDelay, channels |-> m.channels,
           audio |-> m.audio, line |-> m.line, idx |-> m.idx]
  BY DEF MetaType
<1>3. n.idx = Advance(m) /\ n.nMetaDataDelay = D /\ n.line = line
  BY <1>2 DEF Processed
<1>4. Entry(m, now).at \in {now, Cycle}
  BY DEF Entry, NotWritten
<1>5. m.on => [Entry(m, now) EXCEPT !.at = Cycle].at = Cycle
  BY DEF Entry
<1>6. /\ line[m.idx].at \in {now, Cycle}
      /\ \A k \in 0 .. D : k # m.idx => line[k].at = Cycle \/ line[k] = m.line[k]
  BY <1>1, <1>4, <1>5 DEF Filled
<1> HIDE DEF line, D
<1>7. /\ n.idx \in 0 .. D /\ Age(n, n.idx) = D + 1 /\ Age(n, m.idx) = 1
      /\ \A l \in 0 .. D : /\ Age(m, l) \in Nat
                           /\ l # m.idx => Age(n, l) = Age(m, l) + 1
  BY <1>1, <1>3 DEF Age, D
<1>8. now \in Nat /\ Cycle \in Nat \ {0}
  BY EncBounds
<1>9. ASSUME NEW l \in 0 .. D, n.line[l].at # Cycle
      PROVE  n.line[l].at = Before((now + frame) % Cycle, frame * Age(n, l))
  <2>1. CASE l = m.idx
    <3>1. n.line[l].at = now
      BY <1>3, <1>6, <1>9, <2>1
    <3>2. frame * Age(n, l) = frame
      BY <1>7, <2>1
    <3>3. Before((now + frame) % Cycle, frame) = Before(now, frame - frame)
      BY <1>8, TimeFacts
    <3>4. Before(now, frame - frame) = now
      <4>1. now % Cycle = now
        BY <1>8, ModSmall
      <4>2. now - (frame - frame) = now
        BY <1>8
      <4> QED BY <4>1, <4>2 DEF Before
    <3> QED BY <3>1, <3>2, <3>3, <3>4
  <2>2. CASE l # m.idx
    <3>1. n.line[l] = m.line[l]
      BY <1>3, <1>6, <1>9, <2>2
    <3>2. m.line[l].at = Before(now, frame * Age(m, l))
      BY <1>9, <3>1 DEF LineInTime, D
    <3>3. PICK a \in Nat : a = Age(m, l) /\ Age(n, l) = a + 1
      BY <1>7, <2>2
    <3>4. PICK x \in Int : x = frame * a
      <4>1. frame * a \in Int
        OBVIOUS
      <4> QED BY <4>1
    <3>5. frame * (a + 1) = x + frame
      BY <3>4, Z3
    <3>6. Before((now + frame) % Cycle, x + frame) = Before(now, (x + frame) - frame)
      BY <1>8, TimeFacts
    <3>7. (x + frame) - frame = x
      OBVIOUS
    <3> QED BY <3>1, <3>2, <3>3, <3>4, <3>5, <3>6, <3>7
  <2> QED BY <2>1, <2>2
<1>10. LineInTime(n, (now + frame) % Cycle, frame)
  BY <1>3, <1>9 DEF LineInTime, D
<1> QED BY <1>3, <1>7, <1>10 DEF D

LEMMA EncodeKeepsTime ==
  ASSUME TimeInv, IInv', NEW n \in Offers \cup {0, -1},
         NEW fate \in {"ok", "coding", "output"}, EncodeFrame(n, fate)
  PROVE  InTime' /\ MetadataWithAudio'
<1> DEFINE flushing == n = -1
           new      == IF n = -1 THEN Zeros ELSE Accepts(n)
           fed      == Fed(new, ~flushing)
           filled   == enc.inputBuffer \o fed
           delayed  == enc.metaDataAllowed
           m        == IF delayed THEN Processed(meta, Now, filled) ELSE meta
           buffer   == IF delayed THEN Compensated(meta, filled) ELSE filled
           coded    == SubSeq(buffer, 1, enc.nSamplesToRead)
           due      == owed \o fed
           cut      == SubSeq(due, enc.nSamplesToRead + 1, Len(due))
           payload  == IF delayed THEN m.line[m.idx] ELSE NotWritten
           F        == enc.nSamplesToRead
           D        == meta.nMetaDataDelay
           r        == nSamplesRead
<1>1. IInv /\ InTime
  BY DEF TimeInv
<1>2. /\ enc \in EncType /\ meta \in MetaType /\ meta.idx <= meta.nMetaDataDelay
      /\ time \in 0 .. Cycle - 1
  BY <1>1, TypeParts DEF IInv, MetaOk, Histories
<1>3. /\ r \in Nat /\ Len(meta.audio) \in Nat /\ F \in Nat /\ time \in Nat
      /\ owed \in Seq(Samples) /\ Len(owed) \in Nat /\ Len(owed) = Len(meta.audio) + r
      /\ enc.core \in Nat /\ upset \in {0, 1, 2}
  BY <1>1, <1>2, Before1 DEF EncType
<1>4. /\ InitFlags = {} /\ meta' = m
      /\ InitFlags' = IF fate = "ok" THEN {} ELSE ALL
      /\ time' = (time + new) % Cycle
      /\ owed' = IF fate = "coding" THEN due ELSE cut
      /\ sent'.inOrder = (upset > 0 \/ coded = SubSeq(due, 1, F))
      /\ sent'.aligned = (upset > 0 \/ AlignedWith(coded, payload))
  BY DEF EncodeFrame, Now
<1>5. enc'.nSamplesToRead = F /\ enc'.metaDataAllowed = enc.metaDataAllowed
  BY <1>2 DEF EncodeFrame, EncType
<1>6. new \in Nat /\ r + new >= F
  BY <1>1, FrameFilled
<1>7. (~flushing) \in BOOLEAN
  OBVIOUS
<1>8. OwedInTime((time + new) % Cycle, due)
  <2>1. OwedInTime(time, owed)
    BY <1>1 DEF InTime
  <2> HIDE DEF new, flushing
  <2> QED BY <1>2, <1>3, <1>6, <1>7, <2>1, FedInTime
<1>9. due \in Seq(Samples) /\ Len(due) = Len(owed) + new
  <2> HIDE DEF new, flushing
  <2>1. fed \in Seq(Samples) /\ Len(fed) = new
    BY <1>3, <1>6, <1>7, SampleFacts
  <2> HIDE DEF fed
  <2> QED BY <1>3, <2>1, ConcatProperties
<1>10. F \in 0 .. Len(due)
  <2> HIDE DEF due, new
  <2> QED BY <1>3, <1>6, <1>9
<1>11. OwedInTime(time', owed')
  <2>1. (time + new) % Cycle \in Int
    <3> HIDE DEF new
    <3> QED BY <1>3, <1>6, EncBounds
  <2> HIDE DEF due, new
  <2>2. OwedInTime((time + new) % Cycle, cut)
    BY <1>8, <1>9, <1>10, <2>1, PartsInTime
  <2> QED BY <1>4, <1>8, <2>2
<1>12. Now \in 0 .. Cycle - 1 /\ (Now + F) % Cycle = Before(time, r - F)
  <2>1. time \in Int /\ r \in Int /\ F \in Int
    BY <1>3
  <2> QED BY <2>1, TimeFacts DEF Now
<1>13. delayed => /\ LineInTime(m, (Now + F) % Cycle, F)
                  /\ m.nMetaDataDelay = D /\ m.idx \in 0 .. D
                  /\ Age(m, m.idx) = D + 1
  <2> SUFFICES ASSUME delayed
               PROVE  /\ LineInTime(m, (Now + F) % Cycle, F)
                      /\ m.nMetaDataDelay = D /\ m.idx \in 0 .. D
                      /\ Age(m, m.idx) = D + 1
    OBVIOUS
  <2>1. "states" \notin InitFlags
    BY <1>4
  <2>2. LineInTime(meta, Now, F)
    BY <1>1, <2>1 DEF InTime
  <2>3. m = Processed(meta, Now, filled)
    OBVIOUS
  <2> HIDE DEF m, filled, F
  <2>4. F \in Nat
    BY <1>3
  <2> QED BY <1>2, <1>12, <2>2, <2>3, <2>4, LineFrame
(* The next frame begins a frame later, whether it is whole or not.         *)
<1>14. fate = "ok" => Now' = (Now + F) % Cycle
  <2> SUFFICES ASSUME fate = "ok" PROVE Now' = (Now + F) % Cycle
    OBVIOUS
  <2>1. Len(meta'.audio) = Len(meta.audio)
    BY <1>1, FrameKeepsLength
  <2>2. Len(owed') = Len(meta'.audio) + nSamplesRead' /\ nSamplesRead' \in Nat
    <3>1. /\ enc'.inputBuffer \in Seq(Samples)
          /\ Len(owed') = Len(meta'.audio) + nSamplesRead'
      BY TypePartsNext DEF IInv, Ordered, EncType
    <3>2. Len(enc'.inputBuffer) \in Nat
      BY <3>1, LenProperties
    <3> QED BY <3>1, <3>2 DEF nSamplesRead
  <2>3. Len(owed') = Len(due) - F
    <3>1. owed' = cut
      BY <1>4
    <3> HIDE DEF due
    <3>2. cut = Final(Len(due) - F, due)
      BY <1>9, <1>10, FinalIsRest
    <3>3. Len(due) - F \in 0 .. Len(due)
      BY <1>10
    <3> QED BY <1>9, <3>1, <3>2, <3>3, FinalFacts
  <2> HIDE DEF due, new, r, F
  <2>4. nSamplesRead' - new = r - F
    <3>1. PICK a \in Nat, s \in Nat : a = Len(meta.audio) /\ s = nSamplesRead'
      BY <1>3, <2>2
    <3>2. a + s = ((a + r) + new) - F
      BY <1>3, <1>9, <2>1, <2>2, <2>3, <3>1
    <3>3. r \in Nat /\ new \in Nat /\ F \in Nat
      BY <1>3, <1>6
    <3>4. s - new = r - F
      BY <3>2, <3>3
    <3> QED BY <3>1, <3>4
  <2>5. Now' = Before((time + new) % Cycle, nSamplesRead')
    BY <1>4 DEF Now, Before
  <2>6. Before((time + new) % Cycle, nSamplesRead') = Before(time, nSamplesRead' - new)
    <3>1. PICK k \in Int : k = nSamplesRead'
      BY <2>2
    <3>2. time \in Int /\ new \in Int
      BY <1>3, <1>6
    <3>3. Before((time + new) % Cycle, k) = Before(time, k - new)
      BY <3>2, TimeFacts, Zenon
    <3> QED BY <3>1, <3>3
  <2> QED BY <1>12, <2>4, <2>5, <2>6 DEF r, F
<1>15. InTime'
  <2> SUFFICES ASSUME enc'.metaDataAllowed, "states" \notin InitFlags'
               PROVE  LineInTime(meta', Now', enc'.nSamplesToRead)
    BY <1>11 DEF InTime
  <2>1. fate = "ok"
    BY <1>4 DEF ALL
  <2> HIDE DEF m, F
  <2> QED BY <1>4, <1>5, <1>13, <1>14, <2>1
(* The frames that the metadata waits and the samples that the audio does   *)
(* are the delay of the core together.                                      *)
<1>16. ASSUME upset = 0, delayed, payload.at # Cycle,
              NEW i \in DOMAIN coded, coded[i] # Blank
       PROVE  coded[i].at = (payload.at + i - 1 + enc.core - enc.nSamplesToRead) % Cycle
  <2>1. coded = SubSeq(due, 1, F)
    <3>1. sent'.inOrder
      BY DEF IInv, InOrder
    <3>2. ~(upset > 0)
      BY <1>16
    <3> HIDE DEF coded, due
    <3> QED BY <1>4, <3>1, <3>2
  <2>2. i \in 1 .. F /\ coded[i] = due[i]
    <3> HIDE DEF due, coded, F
    <3>1. 1 \in 1 .. Len(due) + 1 /\ F \in 1 - 1 .. Len(due)
      BY <1>10
    <3>2. /\ coded \in Seq(Samples) /\ Len(coded) = F - 1 + 1
          /\ \A j \in 1 .. F - 1 + 1 : coded[j] = due[1 + j - 1]
      BY <1>9, <2>1, <3>1, PartFacts
    <3>3. i \in 1 .. F /\ F - 1 + 1 = F /\ 1 + i - 1 = i
      BY <1>3, <1>16, <3>2 DEF F
    <3> QED BY <3>2, <3>3
  <2>3. PICK k \in Int : /\ k = Len(due) - i + 1
                         /\ k - new = Len(meta.audio) + r - (i - 1)
    <3> HIDE DEF due, new, coded, payload, F
    <3> QED BY <1>3, <1>6, <1>9, <2>2
  <2>4. due[i].at = Before(time, k - new)
    <3>1. i \in 1 .. Len(due)
      <4> HIDE DEF due, coded, payload, F
      <4> QED BY <1>3, <1>10, <2>2
    <3>2. due[i].at = Before((time + new) % Cycle, k)
      <4> HIDE DEF due, coded, payload, new
      <4> QED BY <1>8, <1>16, <2>2, <2>3, <3>1 DEF OwedInTime
    <3>3. time \in Int /\ new \in Int
      BY <1>3, <1>6
    <3> HIDE DEF due, coded, payload, new
    <3>4. Before((time + new) % Cycle, k) = Before(time, k - new)
      BY <3>3, TimeFacts, Zenon
    <3> QED BY <3>2, <3>4
  <2>5. PICK P \in Int : P = F * (D + 1) /\ Len(meta.audio) = P - enc.core
    <3>1. PICK p \in MetaSettings : SetUp(p)
      BY <1>1, <1>16 DEF IInv, Described
    <3>2. Len(meta.audio) = F * (D + 1) - enc.core
      BY <3>1 DEF SetUp, AudioDelay
    <3>3. F * (D + 1) \in Int
      <4>1. F \in Int /\ D + 1 \in Int
        BY <1>2, <1>3, SuccFacts
      <4> QED BY <4>1
    <3> QED BY <3>2, <3>3
  <2>6. payload.at = Before(time, r + (P - F))
    <3>1. m.line[m.idx].at = Before((Now + F) % Cycle, F * Age(m, m.idx))
      <4> HIDE DEF m, F
      <4> QED BY <1>13, <1>16 DEF LineInTime
    <3>2. payload.at = Before((Now + F) % Cycle, P)
      <4> HIDE DEF m, F, D
      <4> QED BY <1>13, <1>16, <2>5, <3>1
    <3>3. (Now + F) % Cycle = Before(time, r - F)
      BY <1>12
    <3>4. Before(Before(time, r - F), P) = Before(time, (r - F) + P)
      <4>1. time \in Int /\ r - F \in Int
        BY <1>3
      <4> QED BY <4>1, TimeFacts, Zenon
    <3>5. (r - F) + P = r + (P - F)
      BY <1>3
    <3> QED BY <3>2, <3>3, <3>4, <3>5
  <2>7. PICK j \in Int : j = i - 1 + enc.core - F
    <3> HIDE DEF coded, payload, F
    <3>1. i - 1 + enc.core - F \in Int
      BY <1>3, <2>2 DEF F
    <3> QED BY <3>1
  <2>8. PICK x \in Int : x = r + (P - F)
    BY <1>3
  <2>9. (payload.at + j) % Cycle = Before(time, x - j)
    <3>1. time \in Int
      BY <1>3
    <3>2. (Before(time, x) + j) % Cycle = Before(time, x - j)
      BY <3>1, TimeFacts, Zenon
    <3> QED BY <2>6, <2>8, <3>2
  <2>10. x - j = k - new
    <3> HIDE DEF coded, payload, due, new, F, r
    <3>1. PICK a \in Int : a = Len(meta.audio)
      BY <1>3
    <3>2. a = P - enc.core /\ k - new = a + r - (i - 1)
      BY <2>3, <2>5, <3>1
    <3>3. /\ i \in Int /\ enc.core \in Int /\ F \in Int
          /\ r \in Int /\ new \in Int
      BY <1>3, <1>6, <2>2
    <3> QED BY <2>7, <2>8, <3>2, <3>3
  <2>11. payload.at + j = payload.at + i - 1 + enc.core - enc.nSamplesToRead
    <3>1. payload.at \in Int
      <4>1. time \in Int
        BY <1>3
      <4>2. Before(time, x) \in 0 .. Cycle - 1
        BY <4>1, TimeFacts
      <4> QED BY <2>6, <2>8, <4>2, EncBounds
    <3> HIDE DEF coded, payload, due, new
    <3> QED BY <1>3, <2>2, <2>7, <3>1
  <2> QED BY <2>2, <2>4, <2>9, <2>10, <2>11
<1>17. MetadataWithAudio'
  <2>1. upset = 0 \/ upset > 0
    BY <1>3
  <2>2. ASSUME upset = 0 PROVE AlignedWith(coded, payload)
    <3>1. CASE delayed
      <4> HIDE DEF coded, payload
      <4> QED BY <1>16, <2>2, <3>1 DEF AlignedWith
    <3>2. CASE ~delayed
      <4>1. payload.at = Cycle
        BY <3>2 DEF NotWritten
      <4> HIDE DEF coded, payload
      <4> QED BY <4>1 DEF AlignedWith
    <3> QED BY <3>1, <3>2
  <2> HIDE DEF coded, payload
  <2> QED BY <1>4, <2>1, <2>2 DEF MetadataWithAudio
<1> QED BY <1>15, <1>17

LEMMA InitialiseKeepsTime ==
  ASSUME TimeInv, Initialise
  PROVE  InTime' /\ MetadataWithAudio'
<1> DEFINE e == InitEnc
           m == MetaThen(e)
           r == nSamplesRead
           delay == InitDelay(IF Inits(e) THEN Len(m.audio) ELSE 0)
           head == Held(e, m)
           rest == IF InitFlags = ALL THEN Blanks(r) ELSE Final(r, owed)
<1>1. /\ InitFlags # {} /\ AcceptedSettings
      /\ enc' = [e EXCEPT !.nDelay = delay]
      /\ meta' = m /\ owed' = head \o rest /\ time' = time /\ sent' = NothingSent
  BY DEF Initialise, InitOwed, Held, MetaThen, Inits, Resets
<1>2. MetadataWithAudio'
  BY <1>1 DEF MetadataWithAudio, NothingSent
<1>3. IInv /\ InTime
  BY DEF TimeInv
<1>4. /\ r \in Nat /\ owed \in Seq(Samples) /\ Len(owed) \in Nat
      /\ Len(meta.audio) \in Nat /\ Len(owed) = Len(meta.audio) + r
  BY <1>3, Before1
<1>5. e \in EncType /\ Len(e.inputBuffer) = r
  BY <1>1, <1>3, InitEncFacts
<1>6. MetaOk(e, m)
  BY <1>1, <1>3, MetaThenFacts
<1>7. \/ LineEmpty(m)
      \/ /\ LineKept(m) /\ "states" \notin InitFlags
         /\ e.metaDataAllowed /\ enc.metaDataAllowed
         /\ e.nSamplesToRead = enc.nSamplesToRead
  BY <1>1, <1>3, LineThen
<1> HIDE DEF e, m, delay
<1>8. /\ enc'.metaDataAllowed = e.metaDataAllowed
      /\ enc'.nSamplesToRead = e.nSamplesToRead /\ enc'.inputBuffer = e.inputBuffer
  BY <1>1, <1>5 DEF EncType
<1>9. Now' = Now
  BY <1>1, <1>5, <1>8 DEF Now, Before, nSamplesRead, r
<1>10. /\ head \in Seq(Samples)
       /\ \A i \in 1 .. Len(head) :
            head[i] = Blank \/ (Len(head) + r = Len(owed) /\ head[i] = owed[i])
  <2>1. CASE ~e.metaDataAllowed
    BY <2>1, EmptySeq DEF Held
  <2>2. CASE e.metaDataAllowed /\ Resets(e)
    <3>1. head = Blanks(Len(m.audio))
      BY <2>2 DEF Held
    <3>2. Len(m.audio) \in Nat
      <4>1. m.audio \in Seq(Samples)
        BY <1>6 DEF MetaOk, MetaType
      <4> QED BY <4>1, LenProperties
    <3>3. /\ Blanks(Len(m.audio)) \in Seq(Samples)
          /\ Len(Blanks(Len(m.audio))) = Len(m.audio)
      BY <3>2, SampleFacts
    <3>4. \A i \in 1 .. Len(m.audio) : Blanks(Len(m.audio))[i] = Blank
      BY DEF Blanks
    <3> QED BY <3>1, <3>3, <3>4
  <2>3. CASE e.metaDataAllowed /\ ~Resets(e)
    <3>1. PICK k \in Nat : k = Len(meta.audio) /\ k = Len(owed) - r
      BY <1>4
    <3>2. head = SubSeq(owed, 1, k)
      BY <2>3, <3>1 DEF Held
    <3>3. 1 \in 1 .. Len(owed) + 1 /\ k \in 1 - 1 .. Len(owed)
      BY <1>4, <3>1
    <3>4. /\ SubSeq(owed, 1, k) \in Seq(Samples) /\ Len(SubSeq(owed, 1, k)) = k - 1 + 1
          /\ \A i \in 1 .. k - 1 + 1 : SubSeq(owed, 1, k)[i] = owed[1 + i - 1]
      BY <1>4, <3>3, PartFacts
    <3>5. k - 1 + 1 = k /\ \A i \in 1 .. k : 1 + i - 1 = i
      BY <3>1
    <3>6. head \in Seq(Samples) /\ Len(head) = k
      BY <3>2, <3>4, <3>5
    <3>7. \A i \in 1 .. k : head[i] = owed[1 + i - 1]
      BY <3>2, <3>4, <3>5
    <3>8. \A i \in 1 .. k : head[i] = owed[i]
      BY <3>5, <3>7
    <3>9. k + r = Len(owed)
      BY <1>4, <3>1
    <3> QED BY <3>6, <3>8, <3>9
  <2> QED BY <2>1, <2>2, <2>3
<1>11. /\ rest \in Seq(Samples) /\ Len(rest) = r
       /\ \A i \in 1 .. r : rest[i] = Blank \/ rest[i] = owed[Len(owed) - r + i]
  <2>1. r \in 0 .. Len(owed)
    BY <1>4, PartOfSum
  <2>2. /\ Final(r, owed) \in Seq(Samples) /\ Len(Final(r, owed)) = r
        /\ \A i \in 1 .. r : Final(r, owed)[i] = owed[Len(owed) - r + i]
    BY <1>4, <2>1, FinalFacts
  <2>3. Blanks(r) \in Seq(Samples) /\ Len(Blanks(r)) = r
    BY <1>4, SampleFacts
  <2>4. \A i \in 1 .. r : Blanks(r)[i] = Blank
    BY DEF Blanks
  <2> HIDE DEF r
  <2> QED BY <2>2, <2>3, <2>4
<1> HIDE DEF head, rest
<1>12. OwedInTime(time', owed')
  <2>1. OwedInTime(time, owed) /\ r <= Len(owed)
    BY <1>3, <1>4 DEF InTime
  <2>2. OwedInTime(time, head \o rest)
    BY <1>4, <1>10, <1>11, <2>1, JoinInTime
  <2> QED BY <1>1, <2>2
<1>13. enc'.metaDataAllowed => LineInTime(meta', Now', enc'.nSamplesToRead)
  <2>1. CASE LineEmpty(m)
    <3>1. m \in MetaType /\ m.idx <= m.nMetaDataDelay
      BY <1>6 DEF MetaOk
    <3>2. \A l \in 0 .. m.nMetaDataDelay : m.line[l].at = Cycle
      BY <2>1, <3>1, SuccFacts DEF LineEmpty, NotWritten
    <3> QED BY <1>1, <3>2 DEF LineInTime
  <2>2. CASE ~LineEmpty(m)
    <3>1. LineInTime(meta, Now, enc.nSamplesToRead)
      BY <1>3, <1>7, <2>2 DEF InTime
    <3>2. LineInTime(m, Now, enc.nSamplesToRead)
      BY <1>7, <2>2, <3>1 DEF LineInTime, Age, LineKept
    <3> QED BY <1>1, <1>7, <1>8, <1>9, <2>2, <3>2
  <2> QED BY <2>1, <2>2
<1> QED BY <1>2, <1>12, <1>13 DEF InTime

(* What is dropped from the input buffer is fed again later: the next frame *)
(* begins when it would have.                                               *)
LEMMA SetKeepsTime ==
  ASSUME TimeInv, Drop \/ UNCHANGED <<enc, owed, time>>, meta' = meta,
         sent' = NothingSent, "states" \in InitFlags => "states" \in InitFlags'
  PROVE  InTime' /\ MetadataWithAudio'
<1>1. IInv /\ InTime
  BY DEF TimeInv
<1>2. MetadataWithAudio'
  BY DEF MetadataWithAudio, NothingSent
<1>3. CASE UNCHANGED <<enc, owed, time>>
  <2>1. Now' = Now
    BY <1>3 DEF Now, nSamplesRead, Before
  <2> QED BY <1>1, <1>2, <1>3, <2>1 DEF InTime
<1>4. CASE Drop
  <2>1. /\ nSamplesRead \in Nat /\ owed \in Seq(Samples) /\ time \in Int
        /\ Len(owed) \in Nat /\ nSamplesRead \in 0 .. Len(owed)
    BY <1>1, Before1, PartOfSum
  <2>2. enc \in EncType
    BY <1>1, TypeParts DEF IInv
  <2>3. /\ enc'.metaDataAllowed = enc.metaDataAllowed
        /\ enc'.nSamplesToRead = enc.nSamplesToRead /\ enc'.inputBuffer = <<>>
    BY <1>4, <2>2 DEF Drop, EncType
  <2>4. /\ owed' = SubSeq(owed, 1, Len(owed) - nSamplesRead)
        /\ time' = Before(time, nSamplesRead)
    BY <1>4 DEF Drop
  <2>5. OwedInTime(time, owed)
    BY <1>1 DEF InTime
  <2>6. OwedInTime(time', owed')
    BY <2>1, <2>4, <2>5, PartsInTime
  <2>7. Now' = Now
    <3>1. nSamplesRead' = 0
      BY <2>3, EmptySeq DEF nSamplesRead
    <3>2. Now' = Before(Before(time, nSamplesRead), 0)
      BY <2>4, <3>1 DEF Now, Before
    <3>3. PICK k \in Int : k = nSamplesRead /\ k + 0 = nSamplesRead
      BY <2>1
    <3>4. Before(Before(time, k), 0) = Before(time, k + 0)
      BY <2>1, TimeFacts
    <3> QED BY <3>2, <3>3, <3>4 DEF Now
  <2> QED BY <1>1, <1>2, <2>3, <2>6, <2>7 DEF InTime
<1> QED BY <1>3, <1>4

LEMMA AcceptKeepsTime ==
  ASSUME TimeInv, NEW n \in Nat, Accept(n)
  PROVE  InTime' /\ MetadataWithAudio'
<1>1. /\ IInv /\ InTime /\ enc \in EncType /\ time \in 0 .. Cycle - 1
  BY TypeParts DEF TimeInv, IInv, Histories
<1>2. /\ enc.inputBuffer \in Seq(Samples) /\ nSamplesRead \in Nat
      /\ nSamplesRead = Len(enc.inputBuffer) /\ owed \in Seq(Samples) /\ time \in Nat
  BY <1>1, Before1
<1>3. /\ meta' = meta /\ InitFlags' = InitFlags /\ sent' = NothingSent
      /\ owed' = owed \o Fed(n, TRUE) /\ time' = (time + n) % Cycle
      /\ enc'.metaDataAllowed = enc.metaDataAllowed
      /\ enc'.nSamplesToRead = enc.nSamplesToRead
      /\ enc'.inputBuffer = enc.inputBuffer \o Fed(n, TRUE)
  BY <1>1 DEF Accept, EncType
<1>4. OwedInTime(time', owed')
  <2>1. OwedInTime(time, owed)
    BY <1>1 DEF InTime
  <2> QED BY <1>1, <1>2, <1>3, <2>1, FedInTime
<1>5. Now' = Now
  <2>1. nSamplesRead' = nSamplesRead + n
    <3>1. Fed(n, TRUE) \in Seq(Samples) /\ Len(Fed(n, TRUE)) = n
      BY <1>2, SampleFacts
    <3>2. Len(enc.inputBuffer \o Fed(n, TRUE)) = Len(enc.inputBuffer) + n
      BY <1>2, <3>1, ConcatProperties
    <3> QED BY <1>2, <1>3, <3>2 DEF nSamplesRead
  <2>2. Now' = Before((time + n) % Cycle, nSamplesRead + n)
    BY <1>3, <2>1 DEF Now, Before
  <2>3. PICK k \in Int : k = nSamplesRead + n /\ k - n = nSamplesRead
    BY <1>2
  <2>4. Before((time + n) % Cycle, k) = Before(time, k - n)
    <3>1. time \in Int /\ n \in Int
      BY <1>2
    <3> QED BY <3>1, TimeFacts, Zenon
  <2> QED BY <2>2, <2>3, <2>4 DEF Now
<1>6. MetadataWithAudio'
  BY <1>3 DEF MetadataWithAudio, NothingSent
<1> QED BY <1>1, <1>3, <1>4, <1>5, <1>6 DEF InTime

(* The other steps leave lines and times alone.                             *)
LEMMA OthersKeepTime ==
  ASSUME TimeInv, UNCHANGED <<meta, owed, time, InitFlags>>,
         UNCHANGED <<enc.metaDataAllowed, enc.nSamplesToRead, enc.inputBuffer>>,
         sent' = NothingSent \/ sent' = sent
  PROVE  InTime' /\ MetadataWithAudio'
<1>1. Now' = Now
  BY DEF Now, nSamplesRead, Before
<1>2. InTime'
  BY <1>1 DEF TimeInv, InTime
<1>3. MetadataWithAudio'
  BY DEF TimeInv, MetadataWithAudio, NothingSent
<1> QED BY <1>2, <1>3

LEMMA NextKeepsTime ==
  ASSUME TimeInv, IInv', [Next]_vars
  PROVE  InTime' /\ MetadataWithAudio'
<1>1. enc \in EncType
  BY TypeParts DEF TimeInv, IInv
<1>2. ASSUME NEW flags, Set(flags), Drop \/ UNCHANGED <<enc, owed, time>>
      PROVE  InTime' /\ MetadataWithAudio'
  BY <1>2, SetKeepsTime DEF Set
<1>3. ASSUME NEW codec \in Codecs, SetCodec(codec) PROVE InTime' /\ MetadataWithAudio'
  BY <1>2, <1>3 DEF SetCodec
<1>4. ASSUME NEW granule \in Granules, SetGranule(granule)
      PROVE  InTime' /\ MetadataWithAudio'
  BY <1>2, <1>4 DEF SetGranule
<1>5. ASSUME NEW channels \in Channels, SetChannels(channels)
      PROVE  InTime' /\ MetadataWithAudio'
  BY <1>2, <1>5 DEF SetChannels
<1>6. CASE SetSampleRate
  BY <1>2, <1>6 DEF SetSampleRate
<1>7. CASE SetMetadata
  BY <1>2, <1>7 DEF SetMetadata
<1>8. ASSUME NEW flags \in {{"transport"}, {"config", "transport"}}, SetOther(flags)
      PROVE  InTime' /\ MetadataWithAudio'
  BY <1>2, <1>8 DEF SetOther
<1>9. ASSUME NEW flags \in {ALL, {"states"}, {"inbuffer"}}, ControlState(flags)
      PROVE  InTime' /\ MetadataWithAudio'
  <2>1. "states" \in InitFlags => "states" \in InitFlags'
    BY <1>9 DEF ControlState, ALL
  <2>2. Drop \/ UNCHANGED <<enc, owed, time>>
    BY <1>9 DEF ControlState
  <2> QED BY <1>9, <2>1, <2>2, SetKeepsTime DEF ControlState
<1>10. CASE Refuse
  <2>1. UNCHANGED <<enc.metaDataAllowed, enc.nSamplesToRead, enc.inputBuffer>>
    BY <1>1, <1>10 DEF Refuse, EncType
  <2> QED BY <1>10, <2>1, OthersKeepTime DEF Refuse
<1>11. ASSUME NEW n \in Offers, Accept(n) PROVE InTime' /\ MetadataWithAudio'
  <2>1. n \in Nat
    BY EncBounds
  <2> QED BY <1>11, <2>1, AcceptKeepsTime
<1>12. CASE EndOfFile
  BY <1>12, OthersKeepTime DEF EndOfFile
<1>13. CASE UNCHANGED vars
  BY <1>13, OthersKeepTime DEF vars
<1> QED BY <1>3, <1>4, <1>5, <1>6, <1>7, <1>8, <1>9, <1>10, <1>11, <1>12, <1>13,
           EncodeKeepsTime, InitialiseKeepsTime DEF Next

LEMMA InitInTime == Init => InTime /\ MetadataWithAudio
<1> SUFFICES ASSUME Init PROVE InTime /\ MetadataWithAudio
  OBVIOUS
<1>1. owed = <<>> /\ Len(owed) = 0 /\ sent = NothingSent /\ "states" \in InitFlags
  BY EmptySeq DEF Init, ALL
<1>2. OwedInTime(time, owed)
  BY <1>1 DEF OwedInTime
<1> QED BY <1>1, <1>2 DEF InTime, MetadataWithAudio, NothingSent

(* A metadata payload goes out with the frame that begins with the samples  *)
(* it was submitted with, for every delay of the core, every frame length   *)
(* and every metadata delay that follows from them, through changes of the  *)
(* parameters, initialisations, dropped input and flushes; frames that are  *)
(* upset are left out.                                                      *)
THEOREM MetadataWithAudioTheorem == Spec => []MetadataWithAudio
<1>1. Init => TimeInv
  BY InitInv, InitInTime DEF TimeInv
<1>2. TimeInv /\ [Next]_vars => TimeInv'
  BY NextInv, NextKeepsTime DEF TimeInv
<1>3. TimeInv => MetadataWithAudio
  BY DEF TimeInv
<1> QED BY <1>1, <1>2, <1>3, PTL DEF Spec
=============================================================================
