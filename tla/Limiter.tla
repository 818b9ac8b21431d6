------------------------------ MODULE Limiter ------------------------------
(***************************************************************************)
(* The signal level limiter behind the decoder (libPCMutils/src/           *)
(* limiter.cpp): the samples are delayed by the attack time, so that the   *)
(* gain can follow the loudest sample of the attack time ahead.  The       *)
(* decoder sets the number of channels and the sampling rate before each   *)
(* block of samples, the user may set the attack time between two blocks;  *)
(* none of this resets the two rings.                                      *)
(*                                                                         *)
(* A sample is its level, after the gain per sample that DRC may add.  The *)
(* model keeps the maximum that the gain is computed from; the smoothing   *)
(* of the gain and the scaling of the samples are left out.                *)
(***************************************************************************)
EXTENDS Integers, Sequences

CONSTANTS
  maxLevel,      \* the highest level of a sample
  Levels,        \* the levels of the samples
  Thresholds,    \* the thresholds in use
  maxAttack,     \* attack of the longest attack time at the highest rate
  maxChannels

ASSUME LimiterSizes == maxAttack \in Nat \ {0} /\ maxChannels \in Nat \ {0}
ASSUME LimiterLevels == /\ maxLevel \in Nat
                        /\ Levels \subseteq 0 .. maxLevel /\ 0 \in Levels
                        /\ Thresholds \subseteq 0 .. maxLevel

VARIABLES
  attack,        \* attack time in samples
  channels, threshold,
  max,           \* the running maximum
  maxBuf, maxBufIdx,
  delayBuf, delayBufIdx,
  out,           \* history: the samples that came out last
  recent,        \* history: the samples since the last change, newest first
  shrunk         \* history: the attack time was cut down since the last reset

vars == <<attack, channels, threshold, max, maxBuf, maxBufIdx, delayBuf,
          delayBufIdx, out, recent, shrunk>>

Larger(a, b) == IF a < b THEN b ELSE a

Frames(c) == [0 .. c - 1 -> Levels]
Silence(c) == [j \in 0 .. c - 1 |-> 0]

(* The loudest element of f, a function with values in Nat.                 *)
Loudest(f, S) == CHOOSE v \in {f[i] : i \in S} : \A i \in S : f[i] <= v
Peak(frame) == Loudest(frame, DOMAIN frame)

(* As many of the last samples as the model remembers.                      *)
Memory == maxAttack + 2
SilentPast(c) == [k \in 1 .. Memory |-> Silence(c)]
Remembered(x, s) ==
  LET u == <<x>> \o s
  IN  SubSeq(u, 1, IF Len(u) < Memory THEN Len(u) ELSE Memory)

(* pcmLimiter_Create *)
Init ==
  /\ attack = maxAttack
  /\ channels = maxChannels
  /\ threshold \in Thresholds
  /\ max = 0
  /\ maxBuf = [i \in 0 .. maxAttack |-> 0] /\ maxBufIdx = 0
  /\ delayBuf = [i \in 0 .. maxAttack * maxChannels - 1 |-> 0] /\ delayBufIdx = 0
  /\ out = Silence(maxChannels)
  /\ recent = SilentPast(maxChannels)
  /\ shrunk = FALSE

Following_Late(idx, size) == IF idx + 1 > size THEN 0 ELSE idx + 1   \* mutant

(* The next position in a ring of the given size.                           *)
Following(idx, size) == IF idx + 1 >= size THEN 0 ELSE idx + 1

(* The running maximum when peak takes the place of old in buf; only when   *)
(* the maximum itself leaves the window is the window searched.             *)
RunningMax_KeepsOld(peak, old, buf) == Larger(peak, max)   \* mutant: no search

RunningMax_LeavesEarly(peak, old, buf) ==      \* mutant: the last one not seen
  IF peak >= max THEN peak
  ELSE IF old < max THEN max
  ELSE Loudest(buf, 0 .. attack - 1)

RunningMax(peak, old, buf) ==
  IF peak >= max THEN peak
  ELSE IF old < max THEN max
  ELSE Loudest(buf, 0 .. attack)

(* pcmLimiter_Apply, one sample of each channel.                            *)
Apply(frame) ==
  LET peak == Larger(Peak(frame), threshold)
      first == delayBufIdx * channels
      buf  == [maxBuf EXCEPT ![maxBufIdx] = peak]
  IN  /\ maxBuf' = buf
      /\ max' = RunningMax(peak, maxBuf[maxBufIdx], buf)
      /\ maxBufIdx' = Following(maxBufIdx, attack + 1)
      /\ out' = [j \in 0 .. channels - 1 |-> delayBuf[first + j]]
      /\ delayBuf' = [i \in DOMAIN delayBuf |->
                        IF i \in first .. first + channels - 1
                        THEN frame[i - first] ELSE delayBuf[i]]
      /\ delayBufIdx' = Following(delayBufIdx, attack)
      /\ recent' = Remembered(frame, recent)
      /\ UNCHANGED <<attack, channels, threshold, shrunk>>

(* What has been seen before a change does not count any more.              *)
Forget == recent' = <<>> /\ out' = Silence(channels')

(* pcmLimiter_SetAttack, pcmLimiter_SetSampleRate: what either changes of   *)
(* the state kept here is the attack time in samples.                       *)
SetAttack(a) ==
  /\ a # attack
  /\ attack' = a
  /\ shrunk' = (shrunk \/ a < attack)
  /\ UNCHANGED <<channels, threshold, max, maxBuf, maxBufIdx, delayBuf,
                 delayBufIdx>>
  /\ Forget

SetNChannels(c) ==
  /\ c # channels
  /\ channels' = c
  /\ UNCHANGED <<attack, threshold, max, maxBuf, maxBufIdx, delayBuf,
                 delayBufIdx, shrunk>>
  /\ Forget

SetThreshold(t) ==
  /\ t # threshold
  /\ threshold' = t
  /\ UNCHANGED <<attack, channels, max, maxBuf, maxBufIdx, delayBuf,
                 delayBufIdx, shrunk>>
  /\ Forget

(* pcmLimiter_Reset clears what the rings use at the time.                  *)
Cleared_Unchanged(buf, used) == buf            \* mutant: the rings are kept

Cleared(buf, used) == [i \in DOMAIN buf |-> IF i < used THEN 0 ELSE buf[i]]

Reset ==
  /\ maxBufIdx' = 0 /\ delayBufIdx' = 0
  /\ max' = 0
  /\ maxBuf' = Cleared(maxBuf, attack + 1)
  /\ delayBuf' = Cleared(delayBuf, attack * channels)
  /\ out' = Silence(channels)
  /\ recent' = SilentPast(channels)
  /\ shrunk' = FALSE
  /\ UNCHANGED <<attack, channels, threshold>>

Next ==
  \/ \E frame \in Frames(channels) : Apply(frame)
  \/ \E a \in 1 .. maxAttack : SetAttack(a)
  \/ \E c \in 1 .. maxChannels : SetNChannels(c)
  \/ \E t \in Thresholds : SetThreshold(t)
  \/ Reset

Spec == Init /\ [][Next]_vars

-----------------------------------------------------------------------------
Type ==
  /\ attack \in 1 .. maxAttack
  /\ channels \in 1 .. maxChannels
  /\ threshold \in Thresholds
  /\ max \in 0 .. maxLevel
  /\ maxBuf \in [0 .. maxAttack -> 0 .. maxLevel]
  /\ maxBufIdx \in 0 .. maxAttack
  /\ delayBuf \in [0 .. maxAttack * maxChannels - 1 -> Levels]
  /\ delayBufIdx \in 0 .. maxAttack - 1
  /\ out \in Frames(channels)
  /\ recent \in Seq(Frames(channels)) /\ Len(recent) <= Memory
  /\ shrunk \in BOOLEAN

(* The sample that is written first after a change may lie outside of the   *)
(* rings; behind it both rings hold what came in since.                     *)
Settled == Len(recent) > attack + 1

(* pcmLimiter_GetDelay: the delay is exact.  What comes out is what came in *)
(* attack samples ago, at the latest an attack time after a change of the   *)
(* number of channels or of the attack time, and silence after a reset.     *)
ExactDelay == Settled => out = recent[attack + 1]

(* Each sample that has come in since a change is covered by the maximum as *)
(* long as it is in the delay line, and when it comes out: the gain has the *)
(* whole attack time to get down to it.  Excepted is the first sample after *)
(* a change if the attack time was cut down since the last reset: it may be *)
(* written behind the end of the shorter window, where it is not searched.  *)
PeaksCovered ==
  \A k \in 1 .. Len(recent) :
    k <= attack + 1 /\ (k = Len(recent) => ~shrunk)
      => Peak(recent[k]) <= Larger(max, threshold)

(* The maximum is that of the window: the gain is not held down by a sample *)
(* that has left it.                                                        *)
MaxInWindow ==
  Settled => \/ max <= threshold
             \/ \E k \in 1 .. attack + 1 : max = Peak(recent[k])

(* This holds unless the attack time is cut down without a reset.           *)
MaxInWindowUnlessShrunk == ~shrunk => MaxInWindow
=============================================================================
