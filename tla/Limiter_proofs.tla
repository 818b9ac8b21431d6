--------------------------- MODULE Limiter_proofs ---------------------------
(***************************************************************************)
(* Proofs about the limiter, for every attack time, number of channels,    *)
(* set of levels and thresholds.  The argument: behind the sample written  *)
(* first after a change, both rings are read backwards from their index    *)
(* and hold the samples that came in, the youngest first.                  *)
(***************************************************************************)
EXTENDS Limiter, FiniteSetTheorems, WellFoundedInduction, TLAPS

-----------------------------------------------------------------------------
(* Arithmetic.                                                              *)

LEMMA ProductMonotone ==
  ASSUME NEW a \in Nat, NEW b \in Nat, NEW c \in Nat, NEW d \in Nat,
         a <= b, c <= d
  PROVE  a * c <= b * d
<1>1. a * c <= b * c
  <2>1. (b - a) * c >= 0
    OBVIOUS
  <2> QED BY <2>1
<1>2. b * c <= b * d
  <2>1. b * (d - c) >= 0
    OBVIOUS
  <2> QED BY <2>1
<1> QED BY <1>1, <1>2

(* Slots of c channels do not overlap.                                      *)
LEMMA SlotsDisjoint ==
  ASSUME NEW a \in Nat, NEW b \in Nat, NEW c \in Nat,
         NEW j \in 0 .. c - 1, a # b
  PROVE  b * c + j \notin a * c .. a * c + c - 1
<1>0. a * c \in Nat /\ b * c \in Nat
  OBVIOUS
<1>1. CASE a < b
  <2>1. (a + 1) * c <= b * c
    BY <1>1, ProductMonotone
  <2>2. (a + 1) * c = a * c + c
    OBVIOUS
  <2> QED BY <1>0, <2>1, <2>2
<1>2. CASE b < a
  <2>1. (b + 1) * c <= a * c
    BY <1>2, ProductMonotone
  <2>2. (b + 1) * c = b * c + c
    OBVIOUS
  <2> QED BY <1>0, <2>1, <2>2
<1> QED BY <1>1, <1>2

(* The slot of a position inside the ring lies inside the buffer.           *)
LEMMA SlotInBuffer ==
  ASSUME NEW a \in Nat, NEW n \in Nat, NEW c \in Nat, NEW d \in Nat,
         NEW j \in 0 .. c - 1, a < n, c <= d
  PROVE  a * c \in Nat /\ a * c + j \in 0 .. n * d - 1
<1>0. a * c \in Nat /\ n * d \in Nat
  OBVIOUS
<1>1. (a + 1) * c <= n * d
  BY ProductMonotone
<1>2. (a + 1) * c = a * c + c
  OBVIOUS
<1> QED BY <1>0, <1>1, <1>2

-----------------------------------------------------------------------------
(* A nonempty set of values up to a bound has a largest one: the strictly   *)
(* larger values, as sets, are ordered by inclusion.                        *)
LEMMA LoudestIsLargest ==
  ASSUME NEW b \in Nat, NEW f, NEW S, S # {}, \A i \in S : f[i] \in 0 .. b
  PROVE  /\ \E i \in S : Loudest(f, S) = f[i]
         /\ \A i \in S : f[i] <= Loudest(f, S)
<1> DEFINE Above(i) == {v \in 0 .. b : v > f[i]}
           T == {Above(i) : i \in S}
           V == 0 .. b
<1>1. IsFiniteSet(V)
  BY FS_Interval
<1>2. IsWellFoundedOn(StrictSubsetOrdering(V), FiniteSubsetsOf(V))
  BY <1>1, FS_StrictSubsetOrderingWellFounded
<1>3. T \subseteq FiniteSubsetsOf(V)
  <2>1. \A i \in S : IsFiniteSet(Above(i))
    BY <1>1, FS_Subset
  <2> QED BY <2>1 DEF FiniteSubsetsOf
<1>4. T # {}
  OBVIOUS
<1>5. PICK t \in T : \A u \in T : ~ (<<u, t>> \in StrictSubsetOrdering(V))
  <2> HIDE DEF T, V
  <2> QED BY <1>2, <1>3, <1>4, WFMin, Zenon
<1>6. PICK m \in S : t = Above(m)
  OBVIOUS
<1>7. \A i \in S : f[i] <= f[m]
  <2> SUFFICES ASSUME NEW i \in S, f[i] > f[m]
               PROVE  FALSE
    OBVIOUS
  <2>1. Above(i) \subseteq Above(m)
    OBVIOUS
  <2>2. f[i] \in Above(m) /\ f[i] \notin Above(i)
    OBVIOUS
  <2>3. <<Above(i), t>> \in StrictSubsetOrdering(V)
    BY <1>6, <2>1, <2>2 DEF StrictSubsetOrdering
  <2> QED BY <1>5, <2>3
<1>8. \E v \in {f[i] : i \in S} : \A i \in S : f[i] <= v
  BY <1>7
<1> QED BY <1>8 DEF Loudest

LEMMA PeakIsLargest ==
  ASSUME NEW c \in Nat \ {0}, NEW frame \in Frames(c)
  PROVE  Peak(frame) \in 0 .. maxLevel
<1>1. DOMAIN frame # {} /\ \A i \in DOMAIN frame : frame[i] \in 0 .. maxLevel
  <2>1. DOMAIN frame = 0 .. c - 1 /\ 0 \in 0 .. c - 1
    BY DEF Frames
  <2>2. \A i \in 0 .. c - 1 : frame[i] \in Levels
    BY DEF Frames
  <2> QED BY <2>1, <2>2, LimiterLevels
<1>2. maxLevel \in Nat
  BY LimiterLevels
<1>3. \E i \in DOMAIN frame : Peak(frame) = frame[i]
  BY <1>1, <1>2, LoudestIsLargest DEF Peak
<1> QED BY <1>1, <1>3

-----------------------------------------------------------------------------
(* The sequence of recent samples after one more.                           *)
LEMMA LatestSamples ==
  ASSUME NEW S, NEW s \in Seq(S), NEW x \in S
  PROVE  LET t == Remembered(x, s)
         IN  /\ t \in Seq(S)
             /\ Len(t) \in 1 .. Len(s) + 1 /\ Len(t) <= Memory
             /\ t[1] = x
             /\ \A k \in 2 .. Len(t) : t[k] = s[k - 1]
<1> DEFINE u == <<x>> \o s
           n == IF Len(u) < Memory THEN Len(u) ELSE Memory
<1>1. u \in Seq(S) /\ Len(u) = Len(s) + 1 /\ Len(s) \in Nat
  OBVIOUS
<1>2. u[1] = x /\ \A k \in 2 .. Len(u) : u[k] = s[k - 1]
  OBVIOUS
<1>3. Memory \in Nat \ {0}
  BY LimiterSizes DEF Memory
<1>4. n \in 1 .. Len(u) /\ n <= Memory
  BY <1>1, <1>3
<1> HIDE DEF u, n
<1>5. /\ SubSeq(u, 1, n) \in Seq(S)
      /\ Len(SubSeq(u, 1, n)) = n
      /\ \A k \in 1 .. n : SubSeq(u, 1, n)[k] = u[k]
  BY <1>1, <1>4
<1>6. Remembered(x, s) = SubSeq(u, 1, n)
  BY DEF Remembered, n, u
<1>7. n <= Len(s) + 1
  BY <1>1, <1>4
<1> QED BY <1>1, <1>2, <1>4, <1>5, <1>6, <1>7

-----------------------------------------------------------------------------
(* The inductive invariant.                                                 *)

(* The position k behind the index of a ring of the given size.             *)
Behind(idx, k, size) == IF idx >= k THEN idx - k ELSE idx - k + size

(* Behind the sample written first, both indices are inside their rings.    *)
IndicesInRange ==
  recent # <<>> => maxBufIdx <= attack /\ delayBufIdx < attack

(* The ring of maxima holds the peaks, and none is above the maximum; the   *)
(* sample written first after a change is among them unless the attack time *)
(* was cut down: its entry may then lie behind the end of the window.       *)
PeaksKept ==
  \A k \in 1 .. Len(recent) :
    k <= attack + 1 /\ (k = Len(recent) => ~shrunk) =>
      LET entry == maxBuf[Behind(maxBufIdx, k, attack + 1)]
      IN  /\ Peak(recent[k]) <= entry
          /\ entry <= Larger(Peak(recent[k]), threshold)
          /\ entry <= max

(* Unless the attack time was cut down, the maximum is in the window.       *)
MaxKept ==
  ~shrunk => /\ maxBufIdx <= attack
             /\ \E i \in 0 .. attack : max <= maxBuf[i]

(* The delay line holds the samples.                                        *)
SamplesKept ==
  \A k \in 1 .. Len(recent) - 1 :
    k <= attack =>
      \A j \in 0 .. channels - 1 :
        delayBuf[Behind(delayBufIdx, k, attack) * channels + j] = recent[k][j]

IInv == /\ Type /\ IndicesInRange /\ PeaksKept /\ MaxKept
        /\ SamplesKept /\ ExactDelay

LEMMA SilentSamples ==
  ASSUME NEW c \in Nat \ {0}
  PROVE  /\ Silence(c) \in Frames(c)
         /\ Peak(Silence(c)) = 0
         /\ SilentPast(c) \in Seq(Frames(c))
         /\ Len(SilentPast(c)) = Memory
         /\ \A k \in 1 .. Memory : SilentPast(c)[k] = Silence(c)
<1>1. Silence(c) \in Frames(c)
  BY LimiterLevels DEF Silence, Frames
<1>2. Peak(Silence(c)) = 0
  <2>1. DOMAIN Silence(c) = 0 .. c - 1 /\ 0 \in 0 .. c - 1
    BY DEF Silence
  <2>2. \A i \in DOMAIN Silence(c) : Silence(c)[i] = 0
    BY DEF Silence
  <2>3. \A i \in DOMAIN Silence(c) : Silence(c)[i] \in 0 .. 0
    BY <2>2
  <2>4. DOMAIN Silence(c) # {}
    BY <2>1
  <2>5. \E i \in DOMAIN Silence(c) : Peak(Silence(c)) = Silence(c)[i]
    BY <2>3, <2>4, LoudestIsLargest DEF Peak
  <2> QED BY <2>2, <2>5
<1>3. Memory \in Nat
  BY LimiterSizes DEF Memory
<1>4. \A k \in 1 .. Memory : SilentPast(c)[k] = Silence(c)
  BY DEF SilentPast
<1>5. Len(SilentPast(c)) = Memory
  BY <1>3 DEF SilentPast
<1>6. SilentPast(c) \in Seq(Frames(c))
  BY <1>1, <1>3 DEF SilentPast
<1> QED BY <1>1, <1>2, <1>4, <1>5, <1>6

(* After a reset and at the start.                                          *)
Silent ==
  /\ Type
  /\ recent = SilentPast(channels) /\ out = Silence(channels)
  /\ max = 0 /\ maxBufIdx = 0 /\ delayBufIdx = 0
  /\ \A i \in 0 .. attack : maxBuf[i] = 0
  /\ \A i \in 0 .. attack * channels - 1 : delayBuf[i] = 0

LEMMA SilentInvariant == Silent => IInv
<1> SUFFICES ASSUME Silent PROVE IInv
  OBVIOUS
<1>0. /\ Type
      /\ recent = SilentPast(channels) /\ out = Silence(channels)
      /\ max = 0 /\ maxBufIdx = 0 /\ delayBufIdx = 0
      /\ \A i \in 0 .. attack : maxBuf[i] = 0
      /\ \A i \in 0 .. attack * channels - 1 : delayBuf[i] = 0
  BY DEF Silent
<1>1. attack \in Nat \ {0} /\ channels \in Nat \ {0} /\ attack <= maxAttack
  BY <1>0, LimiterSizes DEF Type
<1>2. threshold \in Nat
  BY <1>0, LimiterLevels DEF Type
<1>3. Len(recent) = Memory /\ Memory \in Nat /\ maxAttack + 2 = Memory
  BY <1>0, <1>1, SilentSamples, LimiterSizes DEF Memory
<1>4. \A k \in 1 .. Len(recent) : recent[k] = Silence(channels)
  BY <1>0, <1>1, <1>3, SilentSamples
<1>5. IndicesInRange
  BY <1>0, <1>1 DEF IndicesInRange
<1>6. PeaksKept
  <2> SUFFICES ASSUME NEW k \in 1 .. Len(recent), k <= attack + 1
               PROVE  LET entry == maxBuf[Behind(maxBufIdx, k, attack + 1)]
                      IN  /\ Peak(recent[k]) <= entry
                          /\ entry <= Larger(Peak(recent[k]), threshold)
                          /\ entry <= max
    BY DEF PeaksKept
  <2>1. Behind(maxBufIdx, k, attack + 1) \in 0 .. attack
    BY <1>0, <1>1 DEF Behind
  <2>2. Peak(recent[k]) = 0
    BY <1>1, <1>3, <1>4, SilentSamples
  <2> QED BY <1>0, <1>2, <2>1, <2>2 DEF Larger
<1>7. MaxKept
  BY <1>0, <1>1 DEF MaxKept
<1>8. SamplesKept
  <2> SUFFICES ASSUME NEW k \in 1 .. Len(recent) - 1, k <= attack,
                      NEW j \in 0 .. channels - 1
               PROVE  delayBuf[Behind(delayBufIdx, k, attack) * channels + j]
                        = recent[k][j]
    BY DEF SamplesKept
  <2>1. Behind(delayBufIdx, k, attack) \in 0 .. attack - 1
    BY <1>0, <1>1 DEF Behind
  <2>2. Behind(delayBufIdx, k, attack) * channels + j
          \in 0 .. attack * channels - 1
    <3> DEFINE d == Behind(delayBufIdx, k, attack)
    <3>1. d \in Nat /\ d < attack
      BY <1>1, <2>1
    <3> HIDE DEF d
    <3>2. d * channels + j \in 0 .. attack * channels - 1
      BY <1>1, <3>1, SlotInBuffer
    <3> QED BY <3>2 DEF d
  <2>3. recent[k][j] = 0
    <3>1. recent[k] = Silence(channels)
      BY <1>3, <1>4
    <3> QED BY <3>1 DEF Silence
  <2> QED BY <1>0, <2>2, <2>3
<1>9. ExactDelay
  BY <1>0, <1>1, <1>3, <1>4 DEF ExactDelay, Settled
<1> QED BY <1>0, <1>5, <1>6, <1>7, <1>8, <1>9 DEF IInv

LEMMA InitInvariant == Init => IInv
<1> SUFFICES ASSUME Init PROVE IInv
  OBVIOUS
<1>1. maxAttack \in Nat \ {0} /\ maxChannels \in Nat \ {0}
  BY LimiterSizes
<1>2. maxAttack * maxChannels \in Nat
  BY <1>1
<1>3. Type
  <2>1. attack \in 1 .. maxAttack /\ channels \in 1 .. maxChannels
    BY <1>1 DEF Init
  <2>2. max \in 0 .. maxLevel /\ threshold \in Thresholds /\ shrunk \in BOOLEAN
    BY LimiterLevels DEF Init
  <2>3. maxBuf \in [0 .. maxAttack -> 0 .. maxLevel]
    BY LimiterLevels DEF Init
  <2>4. maxBufIdx \in 0 .. maxAttack /\ delayBufIdx \in 0 .. maxAttack - 1
    BY <1>1 DEF Init
  <2>5. delayBuf \in [0 .. maxAttack * maxChannels - 1 -> Levels]
    BY LimiterLevels DEF Init
  <2>6. /\ out \in Frames(channels)
        /\ recent \in Seq(Frames(channels)) /\ Len(recent) <= Memory
    BY <1>1, SilentSamples, LimiterSizes DEF Init, Memory
  <2> QED BY <2>1, <2>2, <2>3, <2>4, <2>5, <2>6 DEF Type
<1>4. \A i \in 0 .. attack : maxBuf[i] = 0
  BY DEF Init
<1>5. \A i \in 0 .. attack * channels - 1 : delayBuf[i] = 0
  BY DEF Init
<1> QED BY <1>3, <1>4, <1>5, SilentInvariant DEF Init, Silent

-----------------------------------------------------------------------------
(* The running maximum is at least the new peak and the maximum before, or  *)
(* at least whatever is in the window; and it is the new peak, the maximum  *)
(* before (which has not been overwritten) or something in the window.      *)
LEMMA RunningMaxCovers ==
  ASSUME Type, NEW peak \in 0 .. maxLevel,
         NEW buf \in [0 .. maxAttack -> 0 .. maxLevel], NEW old \in 0 .. maxLevel
  PROVE  /\ RunningMax(peak, old, buf) \in 0 .. maxLevel
         /\ \/ /\ peak <= RunningMax(peak, old, buf)
               /\ max <= RunningMax(peak, old, buf)
            \/ \A i \in 0 .. attack : buf[i] <= RunningMax(peak, old, buf)
         /\ \/ RunningMax(peak, old, buf) = peak
            \/ old < max /\ RunningMax(peak, old, buf) = max
            \/ \E i \in 0 .. attack : RunningMax(peak, old, buf) = buf[i]
<1>1. attack \in Nat /\ attack <= maxAttack /\ max \in 0 .. maxLevel
  BY LimiterSizes DEF Type
<1>2. maxLevel \in Nat
  BY LimiterLevels
<1>3. CASE peak >= max
  BY <1>1, <1>2, <1>3 DEF RunningMax
<1>4. CASE ~(peak >= max) /\ old < max
  BY <1>1, <1>2, <1>4 DEF RunningMax
<1>5. CASE ~(peak >= max) /\ ~(old < max)
  <2> DEFINE l == Loudest(buf, 0 .. attack)
  <2>1. 0 .. attack # {} /\ \A i \in 0 .. attack : buf[i] \in 0 .. maxLevel
    <3>1. 0 \in 0 .. attack /\ 0 .. attack \subseteq 0 .. maxAttack
      BY <1>1, LimiterSizes
    <3> QED BY <3>1
  <2>2. /\ \E i \in 0 .. attack : l = buf[i]
        /\ \A i \in 0 .. attack : buf[i] <= l
    <3> DEFINE w == 0 .. attack
    <3>1. w # {} /\ \A i \in w : buf[i] \in 0 .. maxLevel
      BY <2>1
    <3> HIDE DEF w
    <3>2. /\ \E i \in w : Loudest(buf, w) = buf[i]
          /\ \A i \in w : buf[i] <= Loudest(buf, w)
      BY <1>2, <3>1, LoudestIsLargest
    <3> QED BY <3>2 DEF w
  <2>3. RunningMax(peak, old, buf) = l
    BY <1>5 DEF RunningMax
  <2> HIDE DEF l
  <2>4. l \in 0 .. maxLevel
    BY <2>1, <2>2
  <2>5. \E i \in 0 .. attack : l = buf[i]
    BY <2>2
  <2> QED BY <2>2, <2>3, <2>4, <2>5
<1> QED BY <1>3, <1>4, <1>5

(* How positions in a ring move when its index goes on by one.              *)
LEMMA RingMoves ==
  ASSUME NEW size \in Nat \ {0}, NEW idx \in 0 .. size - 1
  PROVE  LET next == Following(idx, size)
         IN  /\ next \in 0 .. size - 1
             /\ Behind(next, 1, size) = idx
             /\ \A k \in 2 .. size :
                  /\ Behind(next, k, size) = Behind(idx, k - 1, size)
                  /\ Behind(next, k, size) \in 0 .. size - 1
                  /\ Behind(next, k, size) # idx
             /\ Behind(idx, size, size) = idx
BY DEF Following, Behind

(* Which position in the ring holds the entry k ago, read the other way.    *)
LEMMA RingCovered ==
  ASSUME NEW size \in Nat \ {0}, NEW idx \in 0 .. size - 1,
         NEW i \in 0 .. size - 1
  PROVE  \E k \in 1 .. size : Behind(idx, k, size) = i
<1>1. CASE i < idx
  <2>1. idx - i \in 1 .. size /\ Behind(idx, idx - i, size) = i
    BY <1>1 DEF Behind
  <2> QED BY <2>1
<1>2. CASE i >= idx
  <2>1. idx - i + size \in 1 .. size /\ Behind(idx, idx - i + size, size) = i
    BY <1>2 DEF Behind
  <2> QED BY <2>1
<1> QED BY <1>1, <1>2

LEMMA ApplyInvariant ==
  ASSUME IInv, NEW frame \in Frames(channels), Apply(frame)
  PROVE  IInv'
<1> DEFINE peak == Larger(Peak(frame), threshold)
           first == delayBufIdx * channels
           buf == [maxBuf EXCEPT ![maxBufIdx] = peak]
           old == maxBuf[maxBufIdx]
<1>1. /\ maxBuf' = buf
      /\ max' = RunningMax(peak, old, buf)
      /\ maxBufIdx' = Following(maxBufIdx, attack + 1)
      /\ out' = [j \in 0 .. channels - 1 |-> delayBuf[first + j]]
      /\ delayBuf' = [i \in DOMAIN delayBuf |->
                        IF i \in first .. first + channels - 1
                        THEN frame[i - first] ELSE delayBuf[i]]
      /\ delayBufIdx' = Following(delayBufIdx, attack)
      /\ recent' = Remembered(frame, recent)
      /\ UNCHANGED <<attack, channels, threshold, shrunk>>
  BY Zenon DEF Apply
<1>2. /\ attack \in Nat \ {0} /\ attack <= maxAttack /\ maxAttack \in Nat \ {0}
      /\ channels \in Nat \ {0} /\ channels <= maxChannels
      /\ maxChannels \in Nat \ {0}
  BY LimiterSizes DEF IInv, Type
<1>3. /\ maxLevel \in Nat /\ threshold \in 0 .. maxLevel /\ max \in 0 .. maxLevel
      /\ maxBuf \in [0 .. maxAttack -> 0 .. maxLevel]
      /\ maxBufIdx \in 0 .. maxAttack
  BY LimiterLevels DEF IInv, Type
<1>4. /\ Peak(frame) \in 0 .. maxLevel /\ peak \in 0 .. maxLevel
      /\ old \in 0 .. maxLevel
      /\ buf \in [0 .. maxAttack -> 0 .. maxLevel]
      /\ buf[maxBufIdx] = peak
      /\ \A i \in 0 .. maxAttack : i # maxBufIdx => buf[i] = maxBuf[i]
  <2>1. Peak(frame) \in 0 .. maxLevel
    BY <1>2, PeakIsLargest
  <2>2. peak \in 0 .. maxLevel
    BY <1>3, <2>1 DEF Larger
  <2> HIDE DEF peak
  <2> QED BY <1>3, <2>1, <2>2
<1>5. /\ recent' \in Seq(Frames(channels))
      /\ Len(recent) \in Nat
      /\ Len(recent') \in 1 .. Len(recent) + 1 /\ Len(recent') <= Memory
      /\ recent'[1] = frame
      /\ \A k \in 2 .. Len(recent') : recent'[k] = recent[k - 1]
  <2>1. recent \in Seq(Frames(channels))
    BY DEF IInv, Type
  <2>2. Len(recent) \in Nat
    BY <2>1
  <2> DEFINE S == Frames(channels)
             t == Remembered(frame, recent)
  <2>3. recent \in Seq(S) /\ frame \in S
    BY <2>1
  <2> HIDE DEF S
  <2>4. /\ t \in Seq(S)
        /\ Len(t) \in 1 .. Len(recent) + 1 /\ Len(t) <= Memory
        /\ t[1] = frame
        /\ \A k \in 2 .. Len(t) : t[k] = recent[k - 1]
    BY <2>3, LatestSamples
  <2> HIDE DEF t
  <2>5. recent' = t
    BY <1>1 DEF t
  <2> QED BY <2>2, <2>4, <2>5 DEF S
<1>6. /\ max' \in 0 .. maxLevel
      /\ \/ peak <= max' /\ max <= max'
         \/ \A i \in 0 .. attack : buf[i] <= max'
      /\ \/ max' = peak
         \/ old < max /\ max' = max
         \/ \E i \in 0 .. attack : max' = buf[i]
  <2> HIDE DEF peak, buf, old
  <2>1. Type
    BY DEF IInv
  <2> QED BY <1>1, <1>4, <2>1, RunningMaxCovers
<1> HIDE DEF peak, buf, old
<1>7. maxBufIdx' \in 0 .. attack /\ delayBufIdx' \in 0 .. attack - 1
  <2>1. delayBufIdx \in 0 .. maxAttack - 1
    BY DEF IInv, Type
  <2>2. maxBufIdx' = Following(maxBufIdx, attack + 1)
    BY <1>1
  <2>3. delayBufIdx' = Following(delayBufIdx, attack)
    BY <1>1
  <2>4. maxBufIdx' \in 0 .. attack
    BY <1>2, <1>3, <2>2 DEF Following
  <2>5. delayBufIdx' \in 0 .. attack - 1
    BY <1>2, <2>1, <2>3 DEF Following
  <2> QED BY <2>4, <2>5
<1>8. IndicesInRange'
  BY <1>1, <1>2, <1>7 DEF IndicesInRange
<1>9. PeaksKept'
  <2> SUFFICES ASSUME NEW k \in 1 .. Len(recent'), k <= attack + 1,
                      k = Len(recent') => ~shrunk
               PROVE  LET entry == buf[Behind(maxBufIdx', k, attack + 1)]
                      IN  /\ Peak(recent'[k]) <= entry
                          /\ entry <= Larger(Peak(recent'[k]), threshold)
                          /\ entry <= max'
    BY <1>1 DEF PeaksKept
  <2>1. maxBufIdx \in 0 .. attack
    <3>1. CASE ~shrunk
      BY <1>2, <1>3, <3>1 DEF IInv, MaxKept
    <3>2. CASE shrunk
      <4>1. Len(recent) # 0  BY <1>5, <3>2
      <4>2. recent # <<>>  BY <4>1
      <4> QED  BY <1>2, <1>3, <4>2 DEF IInv, IndicesInRange
    <3> QED  BY <3>1, <3>2
  <2>2. CASE k = 1
    <3>1. Behind(maxBufIdx', k, attack + 1) = maxBufIdx
      BY <1>1, <1>2, <2>1, <2>2, RingMoves
    <3>2. peak <= max'
      BY <1>4, <1>6, <2>1
    <3> QED BY <1>3, <1>4, <1>5, <2>2, <3>1, <3>2 DEF peak, Larger
  <2>3. CASE k # 1
    <3> DEFINE i == Behind(maxBufIdx', k, attack + 1)
    <3>1. i = Behind(maxBufIdx, k - 1, attack + 1) /\ i \in 0 .. attack
            /\ i # maxBufIdx
      <4>1. k \in 2 .. attack + 1
        BY <1>2, <2>3
      <4>2. attack + 1 \in Nat \ {0} /\ maxBufIdx \in 0 .. (attack + 1) - 1
        BY <1>2, <2>1
      <4> DEFINE size == attack + 1
      <4>3. maxBufIdx' = Following(maxBufIdx, size)
        BY <1>1
      <4>4. k \in 2 .. size /\ size \in Nat \ {0} /\ maxBufIdx \in 0 .. size - 1
        BY <4>1, <4>2
      <4>5. size - 1 = attack
        BY <1>2
      <4> HIDE DEF size
      <4>6. /\ Behind(maxBufIdx', k, size) = Behind(maxBufIdx, k - 1, size)
            /\ Behind(maxBufIdx', k, size) \in 0 .. size - 1
            /\ Behind(maxBufIdx', k, size) # maxBufIdx
        BY <4>3, <4>4, RingMoves
      <4> QED BY <4>5, <4>6 DEF size
    <3>2. recent'[k] = recent[k - 1]
      BY <1>5, <2>3
    <3>3. /\ k - 1 \in 1 .. Len(recent) /\ k - 1 <= attack + 1
          /\ k - 1 = Len(recent) => ~shrunk
      BY <1>2, <1>5, <2>3
    <3>4. /\ Peak(recent[k - 1]) <= maxBuf[i]
          /\ maxBuf[i] <= Larger(Peak(recent[k - 1]), threshold)
          /\ maxBuf[i] <= max
      BY <3>1, <3>3 DEF IInv, PeaksKept
    <3> HIDE DEF i
    <3>5. buf[i] = maxBuf[i] /\ maxBuf[i] \in 0 .. maxLevel
      <4>1. i \in 0 .. maxAttack /\ i # maxBufIdx
        BY <1>2, <3>1
      <4> QED BY <1>3, <1>4, <4>1
    <3>6. buf[i] <= max'
      BY <1>3, <1>6, <3>1, <3>4, <3>5
    <3> QED BY <3>2, <3>4, <3>5, <3>6 DEF i
  <2> QED BY <2>2, <2>3
<1>10. MaxKept'
  <2> SUFFICES ASSUME ~shrunk
               PROVE  \E i \in 0 .. attack : max' <= buf[i]
    BY <1>1, <1>7 DEF MaxKept
  <2>1. /\ maxBufIdx \in 0 .. attack
        /\ \E i \in 0 .. attack : max <= maxBuf[i]
    BY <1>3 DEF IInv, MaxKept
  <2>2. CASE max' = peak
    BY <1>4, <2>1, <2>2
  <2>3. CASE old < max /\ max' = max
    <3>1. PICK i \in 0 .. attack : max <= maxBuf[i]
      BY <2>1
    <3>2. i # maxBufIdx
      BY <1>3, <2>3, <3>1 DEF old
    <3> QED BY <1>2, <1>4, <2>3, <3>1, <3>2
  <2>4. CASE \E i \in 0 .. attack : max' = buf[i]
    BY <1>6, <2>4
  <2> QED BY <1>6, <2>2, <2>3, <2>4
<1>11. /\ first \in Nat
       /\ \A j \in 0 .. channels - 1 : first + j \in DOMAIN delayBuf
       /\ DOMAIN delayBuf = 0 .. maxAttack * maxChannels - 1
       /\ delayBufIdx \in Nat /\ delayBufIdx < maxAttack
  <2>1. delayBufIdx \in Nat /\ delayBufIdx < maxAttack
    BY <1>2 DEF IInv, Type
  <2>2. first \in Nat
    BY <1>2, <2>1
  <2>3. DOMAIN delayBuf = 0 .. maxAttack * maxChannels - 1
    BY DEF IInv, Type
  <2>4. ASSUME NEW j \in 0 .. channels - 1
        PROVE  first + j \in 0 .. maxAttack * maxChannels - 1
    BY <1>2, <2>1, SlotInBuffer
  <2> QED BY <2>1, <2>2, <2>3, <2>4
<1>12. \A j \in 0 .. channels - 1 : delayBuf'[first + j] = frame[j]
  <2> SUFFICES ASSUME NEW j \in 0 .. channels - 1
               PROVE  delayBuf'[first + j] = frame[j]
    OBVIOUS
  <2> HIDE DEF first
  <2>1. first + j \in first .. first + channels - 1 /\ (first + j) - first = j
    BY <1>2, <1>11
  <2> QED BY <1>1, <1>11, <2>1
<1>13. ASSUME NEW i \in Nat, NEW j \in 0 .. channels - 1,
              i < maxAttack, i # delayBufIdx
       PROVE  delayBuf'[i * channels + j] = delayBuf[i * channels + j]
  <2>1. i * channels + j \in DOMAIN delayBuf
    BY <1>2, <1>11, <1>13, SlotInBuffer
  <2>2. i * channels + j \notin first .. first + channels - 1
    BY <1>2, <1>11, <1>13, SlotsDisjoint
  <2> HIDE DEF first
  <2> QED BY <1>1, <2>1, <2>2
<1>14. SamplesKept'
  <2> SUFFICES ASSUME NEW k \in 1 .. Len(recent') - 1, k <= attack,
                      NEW j \in 0 .. channels - 1
               PROVE  delayBuf'[Behind(delayBufIdx', k, attack) * channels + j]
                        = recent'[k][j]
    <3>1. attack' = attack /\ channels' = channels
      BY <1>1
    <3> QED BY <3>1 DEF SamplesKept
  <2>1. delayBufIdx \in 0 .. attack - 1
    <3>1. recent # <<>>
      BY <1>5
    <3> QED BY <1>2, <1>11, <3>1 DEF IInv, IndicesInRange
  <2>2. CASE k = 1
    <3>1. Behind(delayBufIdx', k, attack) = delayBufIdx
      BY <1>1, <1>2, <2>1, <2>2, RingMoves
    <3> QED BY <1>5, <1>12, <2>2, <3>1
  <2>3. CASE k # 1
    <3> DEFINE i == Behind(delayBufIdx', k, attack)
    <3>1. i = Behind(delayBufIdx, k - 1, attack) /\ i \in 0 .. attack - 1
            /\ i # delayBufIdx
      <4>1. k \in 2 .. attack
        BY <1>2, <2>3
      <4> QED BY <1>1, <1>2, <2>1, <4>1, RingMoves
    <3>2. recent'[k] = recent[k - 1]
      BY <1>5, <2>3
    <3>3. k - 1 \in 1 .. Len(recent) - 1 /\ k - 1 <= attack
      BY <1>2, <1>5, <2>3
    <3>4. delayBuf[i * channels + j] = recent[k - 1][j]
      BY <3>1, <3>3 DEF IInv, SamplesKept
    <3> HIDE DEF i
    <3>5. i \in Nat /\ i < maxAttack
      BY <1>2, <3>1
    <3>6. delayBuf'[i * channels + j] = delayBuf[i * channels + j]
      BY <1>13, <3>1, <3>5
    <3> QED BY <3>2, <3>4, <3>6 DEF i
  <2> QED BY <2>2, <2>3
<1>15. ExactDelay'
  <2> SUFFICES ASSUME Len(recent') > attack + 1
               PROVE  out' = recent'[attack + 1]
    BY <1>1 DEF ExactDelay, Settled
  <2>1. recent'[attack + 1] = recent[attack] /\ attack \in 1 .. Len(recent) - 1
    BY <1>2, <1>5
  <2>2. delayBufIdx \in 0 .. attack - 1
    BY <1>5, <1>11, <2>1 DEF IInv, IndicesInRange
  <2>3. Behind(delayBufIdx, attack, attack) = delayBufIdx
    BY <1>2, <2>2, RingMoves
  <2>4. \A j \in 0 .. channels - 1 : delayBuf[first + j] = recent[attack][j]
    BY <1>2, <2>1, <2>3 DEF IInv, SamplesKept
  <2>5. recent[attack] \in Frames(channels)
    <3>1. recent \in Seq(Frames(channels))
      BY DEF IInv, Type
    <3>2. attack \in 1 .. Len(recent)
      BY <1>5, <2>1
    <3> QED BY <3>1, <3>2
  <2>6. recent[attack] = [j \in 0 .. channels - 1 |-> recent[attack][j]]
    BY <2>5 DEF Frames
  <2> HIDE DEF first
  <2> QED BY <1>1, <2>1, <2>4, <2>6
<1>16. Type'
  <2>1. /\ attack' \in 1 .. maxAttack /\ channels' \in 1 .. maxChannels
        /\ threshold' \in Thresholds /\ shrunk' \in BOOLEAN
    BY <1>1 DEF IInv, Type
  <2>2. maxBuf' \in [0 .. maxAttack -> 0 .. maxLevel]
    BY <1>1, <1>4
  <2>3. maxBufIdx' \in 0 .. maxAttack /\ delayBufIdx' \in 0 .. maxAttack - 1
    BY <1>2, <1>7
  <2>4. delayBuf' \in [0 .. maxAttack * maxChannels - 1 -> Levels]
    <3> SUFFICES ASSUME NEW i \in DOMAIN delayBuf
                 PROVE  delayBuf'[i] \in Levels
      BY <1>1, <1>11
    <3>1. CASE i \in first .. first + channels - 1
      <4> HIDE DEF first
      <4>1. i - first \in 0 .. channels - 1
        BY <1>2, <1>11, <3>1
      <4>2. delayBuf'[i] = frame[i - first]
        BY <1>1, <3>1
      <4> QED BY <4>1, <4>2 DEF Frames
    <3>2. CASE i \notin first .. first + channels - 1
      <4> HIDE DEF first
      <4>1. delayBuf'[i] = delayBuf[i]
        BY <1>1, <3>2
      <4> QED BY <1>11, <4>1 DEF IInv, Type
    <3> QED BY <3>1, <3>2
  <2>5. out' \in Frames(channels')
    <3>1. \A j \in 0 .. channels - 1 : delayBuf[first + j] \in Levels
      BY <1>11 DEF IInv, Type
    <3> HIDE DEF first
    <3> QED BY <1>1, <3>1 DEF Frames
  <2>6. recent' \in Seq(Frames(channels')) /\ Len(recent') <= Memory
    BY <1>1, <1>5
  <2> QED BY <1>6, <2>1, <2>2, <2>3, <2>4, <2>5, <2>6 DEF Type
<1> QED BY <1>8, <1>9, <1>10, <1>14, <1>15, <1>16 DEF IInv

-----------------------------------------------------------------------------
(* The other steps.                                                         *)

(* A change forgets what was seen before.                                   *)
LEMMA ForgetInvariant ==
  ASSUME Forget, Type', MaxKept'
  PROVE  IInv'
<1>1. recent' = <<>> /\ Len(recent') = 0
  BY DEF Forget
<1>2. attack' \in Nat
  BY LimiterSizes DEF Type
<1>3. IndicesInRange'
  BY <1>1 DEF IndicesInRange
<1>4. PeaksKept'
  BY <1>1 DEF PeaksKept
<1>5. SamplesKept'
  BY <1>1 DEF SamplesKept
<1>6. ExactDelay'
  <2>1. ASSUME NEW a \in Nat
        PROVE  ~ (0 > a + 1)
    BY <2>1, SMT
  <2>2. ~ Settled'
    BY <1>1, <1>2, <2>1 DEF Settled
  <2> QED BY <2>2 DEF ExactDelay
<1> QED BY <1>3, <1>4, <1>5, <1>6 DEF IInv

LEMMA ForgetType ==
  ASSUME Type, Forget, channels' \in 1 .. maxChannels
  PROVE  /\ out' \in Frames(channels')
         /\ recent' \in Seq(Frames(channels')) /\ Len(recent') <= Memory
<1>1. channels' \in Nat \ {0} /\ Memory \in Nat
  BY LimiterSizes DEF Memory
<1>2. \A c \in Nat \ {0} : Silence(c) \in Frames(c)
  BY SilentSamples
<1> QED BY <1>1, <1>2 DEF Forget

LEMMA ChangeInvariant ==
  ASSUME IInv,
         \/ \E a \in 1 .. maxAttack : SetAttack(a)
         \/ \E c \in 1 .. maxChannels : SetNChannels(c)
         \/ \E t \in Thresholds : SetThreshold(t)
  PROVE  IInv'
<1>1. Forget
  BY DEF SetAttack, SetNChannels, SetThreshold
<1>2. /\ UNCHANGED <<max, maxBuf, maxBufIdx, delayBuf, delayBufIdx>>
      /\ attack' \in 1 .. maxAttack /\ channels' \in 1 .. maxChannels
      /\ threshold' \in Thresholds
      /\ shrunk' \in BOOLEAN
      /\ ~shrunk' => ~shrunk /\ attack' >= attack
  <2>1. /\ attack \in 1 .. maxAttack /\ channels \in 1 .. maxChannels
        /\ threshold \in Thresholds /\ shrunk \in BOOLEAN
    BY DEF IInv, Type
  <2>2. attack \in Nat /\ maxAttack \in Nat
    BY <2>1, LimiterSizes
  <2>3. CASE \E a \in 1 .. maxAttack : SetAttack(a)
    <3>1. PICK a \in 1 .. maxAttack : SetAttack(a)
      BY <2>3
    <3>2. /\ UNCHANGED <<max, maxBuf, maxBufIdx, delayBuf, delayBufIdx>>
          /\ attack' = a /\ UNCHANGED <<channels, threshold>>
      BY <3>1 DEF SetAttack
    <3>3. shrunk' = (shrunk \/ a < attack)
      BY <3>1 DEF SetAttack
    <3>4. shrunk' \in BOOLEAN
      BY <3>3
    <3>5. ~shrunk' => ~shrunk /\ ~(a < attack)
      BY <3>3
    <3>6. ~(a < attack) => a >= attack
      BY <2>2, <3>1
    <3> QED BY <2>1, <3>1, <3>2, <3>4, <3>5, <3>6
  <2>4. CASE \E c \in 1 .. maxChannels : SetNChannels(c)
    BY <2>1, <2>2, <2>4 DEF SetNChannels
  <2>5. CASE \E t \in Thresholds : SetThreshold(t)
    BY <2>1, <2>2, <2>5 DEF SetThreshold
  <2> QED BY <2>3, <2>4, <2>5
<1>3. Type'
  <2>1. Type
    BY DEF IInv
  <2> QED BY <1>1, <1>2, <2>1, ForgetType DEF Type
<1>4. MaxKept'
  <2> SUFFICES ASSUME ~shrunk'
               PROVE  /\ maxBufIdx <= attack'
                      /\ \E i \in 0 .. attack' : max <= maxBuf[i]
    BY <1>2 DEF MaxKept
  <2>1. /\ attack \in Nat /\ attack' \in Nat /\ attack <= attack'
        /\ maxBufIdx \in Nat
    BY <1>2, LimiterSizes DEF IInv, Type
  <2>2. maxBufIdx <= attack /\ \E i \in 0 .. attack : max <= maxBuf[i]
    BY <1>2 DEF IInv, MaxKept
  <2> QED BY <2>1, <2>2
<1> QED BY <1>1, <1>3, <1>4, ForgetInvariant

LEMMA ResetInvariant ==
  ASSUME IInv, Reset
  PROVE  IInv'
<1>1. /\ attack \in Nat \ {0} /\ attack <= maxAttack
      /\ channels \in Nat \ {0} /\ channels <= maxChannels
      /\ maxAttack \in Nat \ {0} /\ maxChannels \in Nat \ {0}
      /\ attack' = attack /\ channels' = channels /\ threshold' = threshold
  BY LimiterSizes DEF IInv, Type, Reset
<1>2. /\ recent' = SilentPast(channels') /\ out' = Silence(channels')
      /\ max' = 0 /\ maxBufIdx' = 0 /\ delayBufIdx' = 0 /\ shrunk' = FALSE
  BY <1>1 DEF Reset
<1>3. \A i \in 0 .. attack' : maxBuf'[i] = 0
  BY <1>1 DEF IInv, Type, Reset, Cleared
<1>4. \A i \in 0 .. attack' * channels' - 1 : delayBuf'[i] = 0
  <2>1. attack * channels \in Nat /\ maxAttack * maxChannels \in Nat
    BY <1>1
  <2>2. attack * channels <= maxAttack * maxChannels
    BY <1>1, ProductMonotone
  <2>3. 0 .. attack * channels - 1 \subseteq DOMAIN delayBuf
    BY <2>1, <2>2 DEF IInv, Type
  <2> QED BY <1>1, <2>1, <2>3 DEF Reset, Cleared
<1>5. Type'
  <2>1. maxBuf' \in [0 .. maxAttack -> 0 .. maxLevel]
    BY LimiterLevels DEF IInv, Type, Reset, Cleared
  <2>2. delayBuf' \in [0 .. maxAttack * maxChannels - 1 -> Levels]
    BY LimiterLevels DEF IInv, Type, Reset, Cleared
  <2>3. /\ out' \in Frames(channels')
        /\ recent' \in Seq(Frames(channels')) /\ Len(recent') <= Memory
    <3>1. Memory \in Nat
      BY <1>1 DEF Memory
    <3>2. /\ Silence(channels) \in Frames(channels)
          /\ SilentPast(channels) \in Seq(Frames(channels))
          /\ Len(SilentPast(channels)) = Memory
      BY <1>1, SilentSamples
    <3> QED BY <1>1, <1>2, <3>1, <3>2
  <2>4. attack' \in 1 .. maxAttack /\ channels' \in 1 .. maxChannels
    BY <1>1
  <2>5. threshold' \in Thresholds
    BY <1>1 DEF IInv, Type
  <2>6. /\ max' \in 0 .. maxLevel /\ maxBufIdx' \in 0 .. maxAttack
        /\ delayBufIdx' \in 0 .. maxAttack - 1
    BY <1>1, <1>2, LimiterLevels
  <2>7. shrunk' \in BOOLEAN
    BY <1>2
  <2> QED BY <2>1, <2>2, <2>3, <2>4, <2>5, <2>6, <2>7 DEF Type
<1>6. Silent'
  BY <1>2, <1>3, <1>4, <1>5 DEF Silent
<1> QED BY <1>6, SilentInvariant, PTL

LEMMA StepInvariant == IInv /\ [Next]_vars => IInv'
<1> SUFFICES ASSUME IInv, [Next]_vars
             PROVE  IInv'
  OBVIOUS
<1>1. CASE \E frame \in Frames(channels) : Apply(frame)
  BY <1>1, ApplyInvariant
<1>2. CASE \E a \in 1 .. maxAttack : SetAttack(a)
  BY <1>2, ChangeInvariant
<1>3. CASE \E c \in 1 .. maxChannels : SetNChannels(c)
  BY <1>3, ChangeInvariant
<1>4. CASE \E t \in Thresholds : SetThreshold(t)
  BY <1>4, ChangeInvariant
<1>5. CASE Reset
  BY <1>5, ResetInvariant
<1>6. CASE UNCHANGED vars
  <2>1. /\ Type' /\ IndicesInRange' /\ PeaksKept'
    BY <1>6 DEF IInv, vars, Type, IndicesInRange, PeaksKept
  <2>2. MaxKept' /\ SamplesKept' /\ ExactDelay'
    BY <1>6 DEF IInv, vars, MaxKept, SamplesKept, ExactDelay, Settled
  <2> QED BY <2>1, <2>2 DEF IInv
<1> QED BY <1>1, <1>2, <1>3, <1>4, <1>5, <1>6 DEF Next

-----------------------------------------------------------------------------
(* The inductive invariant holds of every reachable state.                  *)
THEOREM LimiterInvariant == Spec => []IInv
BY InitInvariant, StepInvariant, PTL DEF Spec

(* The indices stay inside the rings, and the levels in their range.        *)
THEOREM TypeCorrect == Spec => []Type
<1>1. IInv => Type
  BY DEF IInv
<1> QED BY <1>1, LimiterInvariant, PTL

(* The delay is exact, whatever was changed before: what comes out came in  *)
(* one attack time ago, channel by channel.                                 *)
THEOREM ExactDelayTheorem == Spec => []ExactDelay
<1>1. IInv => ExactDelay
  BY DEF IInv
<1> QED BY <1>1, LimiterInvariant, PTL

LEMMA CoveredState == IInv => PeaksCovered
<1> SUFFICES ASSUME IInv, NEW k \in 1 .. Len(recent), k <= attack + 1,
                    k = Len(recent) => ~shrunk
             PROVE  Peak(recent[k]) <= Larger(max, threshold)
  BY DEF PeaksCovered
<1>1. /\ attack \in Nat /\ attack <= maxAttack /\ max \in 0 .. maxLevel
      /\ threshold \in 0 .. maxLevel /\ maxLevel \in Nat
      /\ maxBuf \in [0 .. maxAttack -> 0 .. maxLevel]
      /\ maxBufIdx \in Nat /\ maxAttack \in Nat
  BY LimiterSizes, LimiterLevels DEF IInv, Type
<1>2. recent \in Seq(Frames(channels)) /\ channels \in Nat \ {0}
  BY LimiterSizes DEF IInv, Type
<1>3. Len(recent) \in Nat /\ recent # <<>>
  <2>1. Len(recent) \in Nat /\ Len(recent) # 0  BY <1>2
  <2> QED  BY <2>1
<1>4. maxBufIdx <= attack
  BY <1>3 DEF IInv, IndicesInRange
<1> DEFINE i == Behind(maxBufIdx, k, attack + 1)
<1>5. i \in 0 .. attack
  BY <1>1, <1>4 DEF Behind
<1>6. Peak(recent[k]) <= maxBuf[i] /\ maxBuf[i] <= max
  BY DEF IInv, PeaksKept
<1>7. Peak(recent[k]) \in 0 .. maxLevel
  BY <1>2, PeakIsLargest
<1> HIDE DEF i
<1>8. maxBuf[i] \in 0 .. maxLevel
  BY <1>1, <1>5
<1> QED BY <1>1, <1>6, <1>7, <1>8 DEF Larger

(* Whatever has come into the delay line since a change is covered by the   *)
(* maximum the gain is computed from, also the sample that came in first,   *)
(* unless the attack time was cut down since the last reset: then that one  *)
(* sample may come out uncovered, every later one may not.                  *)
THEOREM PeaksCoveredTheorem == Spec => []PeaksCovered
BY CoveredState, LimiterInvariant, PTL

LEMMA MaxState == IInv => MaxInWindowUnlessShrunk
<1> SUFFICES ASSUME IInv, ~shrunk, Settled, max > threshold
             PROVE  \E k \in 1 .. attack + 1 : max = Peak(recent[k])
  <2>1. ASSUME IInv
        PROVE  max \in Nat /\ threshold \in Nat
    BY <2>1, LimiterLevels DEF IInv, Type
  <2> QED BY <2>1 DEF MaxInWindowUnlessShrunk, MaxInWindow
<1>1. /\ attack \in Nat /\ attack <= maxAttack /\ max \in 0 .. maxLevel
      /\ threshold \in 0 .. maxLevel /\ maxLevel \in Nat
      /\ maxBuf \in [0 .. maxAttack -> 0 .. maxLevel]
      /\ maxBufIdx \in Nat /\ maxAttack \in Nat
  BY LimiterSizes, LimiterLevels DEF IInv, Type
<1>2. recent \in Seq(Frames(channels)) /\ channels \in Nat \ {0}
  BY LimiterSizes DEF IInv, Type
<1>3. Len(recent) \in Nat /\ Len(recent) > attack + 1
  BY <1>2 DEF Settled
<1>4. maxBufIdx <= attack
  BY DEF IInv, MaxKept
<1>5. PICK i \in 0 .. attack : max <= maxBuf[i]
  BY DEF IInv, MaxKept
<1>6. PICK k \in 1 .. attack + 1 : Behind(maxBufIdx, k, attack + 1) = i
  <2> DEFINE size == attack + 1
  <2>1. /\ size \in Nat \ {0} /\ maxBufIdx \in 0 .. size - 1
        /\ i \in 0 .. size - 1
    BY <1>1, <1>4, <1>5
  <2> HIDE DEF size
  <2>2. \E k \in 1 .. size : Behind(maxBufIdx, k, size) = i
    BY <2>1, RingCovered
  <2> QED BY <2>2 DEF size
<1>7. k \in 1 .. Len(recent) /\ k <= attack + 1
  BY <1>1, <1>3
<1>8. /\ Peak(recent[k]) <= maxBuf[i]
      /\ maxBuf[i] <= Larger(Peak(recent[k]), threshold)
      /\ maxBuf[i] <= max
  BY <1>6, <1>7 DEF IInv, PeaksKept
<1>9. Peak(recent[k]) \in 0 .. maxLevel
  BY <1>2, <1>7, PeakIsLargest
<1>10. maxBuf[i] \in 0 .. maxLevel
  BY <1>1, <1>5
<1>11. max = Peak(recent[k])
  BY <1>1, <1>5, <1>8, <1>9, <1>10 DEF Larger
<1> QED BY <1>11

(* Unless the attack time is cut down without a reset, the maximum is the   *)
(* peak of a sample in the window.                                          *)
THEOREM MaxInWindowTheorem == Spec => []MaxInWindowUnlessShrunk
BY MaxState, LimiterInvariant, PTL
=============================================================================
