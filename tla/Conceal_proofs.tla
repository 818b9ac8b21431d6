--------------------------- MODULE Conceal_proofs ---------------------------
(***************************************************************************)
(* Proofs about Conceal, for every fade slope shorter than the table of    *)
(* factors, every mute release and every set of layouts.                   *)
(***************************************************************************)
EXTENDS Conceal, TLAPS, WellFoundedInduction

Fades == [cnt : Int, win : [0 .. 1 -> 0 .. 7], att : [0 .. 1 -> 0 .. 7]]

(* A slope of 31 frames would leave the table by one: with short blocks the *)
(* counter may skip the last index.                                         *)
SlopesFit ==
  numFadeOutFrames < NumFactors - 1 /\ numFadeInFrames < NumFactors - 1

----------------------------------------------------------------------------
(* What one frame of ApplyFadeOut does to the counters, for every layout.   *)
LEMMA StepBounds ==
  ASSUME NEW lay \in AllLayouts, NEW w \in 0 .. 7, NEW a \in 0 .. 7
  PROVE  LET taken == Lesser(w, lay.group - 1) + lay.windows
             turns == Lesser(a, Stride(lay) - 1) + taken \div lay.group
         IN  /\ taken % lay.group \in 0 .. 7 /\ taken % lay.group < lay.group
             /\ turns % Stride(lay) \in 0 .. 7
             /\ turns \div Stride(lay) \in 1 .. 2
<1>1. CASE lay.windows = 8
  <2>1. lay.group \in 1 .. 8
    BY <1>1 DEF AllLayouts, Long
  <2>2. CASE lay.group = 1
    BY <1>1, <2>2 DEF Stride, Larger, Lesser
  <2>3. CASE lay.group = 2
    BY <1>1, <2>3 DEF Stride, Larger, Lesser
  <2>4. CASE lay.group = 3
    BY <1>1, <2>4 DEF Stride, Larger, Lesser
  <2>5. CASE lay.group = 4
    BY <1>1, <2>5 DEF Stride, Larger, Lesser
  <2>6. CASE lay.group = 5
    BY <1>1, <2>6 DEF Stride, Larger, Lesser
  <2>7. CASE lay.group = 6
    BY <1>1, <2>7 DEF Stride, Larger, Lesser
  <2>8. CASE lay.group = 7
    BY <1>1, <2>8 DEF Stride, Larger, Lesser
  <2>9. CASE lay.group = 8
    BY <1>1, <2>9 DEF Stride, Larger, Lesser
  <2> QED BY <2>1, <2>2, <2>3, <2>4, <2>5, <2>6, <2>7, <2>8, <2>9
<1>2. CASE lay.windows # 8
  <2>1. lay.windows \in {1, 2, 4} /\ lay.group = 1
    BY <1>2 DEF AllLayouts, Long
  <2>2. CASE lay.windows = 1
    BY <2>1, <2>2 DEF Stride, Larger, Lesser
  <2>3. CASE lay.windows = 2
    BY <2>1, <2>3 DEF Stride, Larger, Lesser
  <2>4. CASE lay.windows = 4
    BY <2>1, <2>4 DEF Stride, Larger, Lesser
  <2> QED BY <2>1, <2>2, <2>3, <2>4
<1> QED BY <1>1, <1>2

(* One frame moves the counter by one or two, leaves both positions in the  *)
(* group, and keeps them in step.                                           *)
LEMMA FrameAdvances ==
  ASSUME NEW f \in Fades, NEW lay \in AllLayouts
  PROVE  LET g == ApplyFadeOut(1, ApplyFadeOut(0, f, lay), lay)
         IN  /\ g \in Fades
             /\ g.cnt - f.cnt \in 1 .. 2
             /\ \A mode \in 0 .. 1 : g.win[mode] < lay.group
             /\ f.win[0] = f.win[1] /\ f.att[0] = f.att[1] =>
                  g.win[0] = g.win[1] /\ g.att[0] = g.att[1]
<1> DEFINE W(mode) == (Lesser(f.win[mode], lay.group - 1) + lay.windows) % lay.group
           T(mode) == Lesser(f.att[mode], Stride(lay) - 1)
                        + (Lesser(f.win[mode], lay.group - 1) + lay.windows) \div lay.group
           A(mode) == T(mode) % Stride(lay)
           C == T(0) \div Stride(lay)
           g == ApplyFadeOut(1, ApplyFadeOut(0, f, lay), lay)
<1>1. \A mode \in 0 .. 1 : f.win[mode] \in 0 .. 7 /\ f.att[mode] \in 0 .. 7
  BY DEF Fades
<1>2. \A mode \in 0 .. 1 : /\ W(mode) \in 0 .. 7 /\ W(mode) < lay.group
                           /\ A(mode) \in 0 .. 7
  BY <1>1, StepBounds
<1>3. C \in 1 .. 2
  BY <1>1, StepBounds
<1>4. f.cnt \in Int
  BY DEF Fades
<1>5. /\ g.cnt = f.cnt + C
      /\ g.win = [f.win EXCEPT ![0] = W(0), ![1] = W(1)]
      /\ g.att = [f.att EXCEPT ![0] = A(0), ![1] = A(1)]
      /\ g = [cnt |-> g.cnt, win |-> g.win, att |-> g.att]
  <2> DEFINE h == ApplyFadeOut(0, f, lay)
  <2>1. h = [f EXCEPT !.win[0] = W(0), !.att[0] = A(0), !.cnt = @ + C]
    BY DEF ApplyFadeOut
  <2>2. g = [h EXCEPT !.win[1] =
                        (Lesser(h.win[1], lay.group - 1) + lay.windows) % lay.group,
                      !.att[1] =
                        (Lesser(h.att[1], Stride(lay) - 1)
                           + (Lesser(h.win[1], lay.group - 1) + lay.windows)
                               \div lay.group) % Stride(lay),
                      !.cnt = @]
    BY DEF ApplyFadeOut
  <2>3. f = [cnt |-> f.cnt, win |-> f.win, att |-> f.att]
    BY DEF Fades
  <2>4. h = [cnt |-> f.cnt + C, win |-> [f.win EXCEPT ![0] = W(0)],
             att |-> [f.att EXCEPT ![0] = A(0)]]
    <3> HIDE DEF W, A, C, h
    <3> QED BY <2>1, <2>3
  <2>5. h.win[1] = f.win[1] /\ h.att[1] = f.att[1]
    <3> HIDE DEF W, A, C, h
    <3> QED BY <2>4 DEF Fades
  <2>6. g = [h EXCEPT !.win[1] = W(1), !.att[1] = A(1), !.cnt = @]
    <3> HIDE DEF h, g
    <3> QED BY <2>2, <2>5
  <2> HIDE DEF W, A, C, h, g
  <2>7. g.cnt = h.cnt /\ g.win = [h.win EXCEPT ![1] = W(1)]
          /\ g.att = [h.att EXCEPT ![1] = A(1)]
          /\ g = [cnt |-> g.cnt, win |-> g.win, att |-> g.att]
    BY <2>4, <2>6
  <2> QED BY <2>4, <2>7
<1>6. f.win[0] = f.win[1] /\ f.att[0] = f.att[1] => W(0) = W(1) /\ A(0) = A(1)
  OBVIOUS
<1> HIDE DEF W, A, C, g
<1>7. g.win \in [0 .. 1 -> 0 .. 7] /\ g.att \in [0 .. 1 -> 0 .. 7]
  BY <1>2, <1>5 DEF Fades
<1>8. g.win[0] = W(0) /\ g.win[1] = W(1) /\ g.att[0] = A(0) /\ g.att[1] = A(1)
  BY <1>5 DEF Fades
<1>9. g.cnt \in Int /\ g.cnt - f.cnt \in 1 .. 2
  BY <1>3, <1>4, <1>5
<1>10. g \in Fades
  BY <1>5, <1>7, <1>9 DEF Fades
<1>11. \A mode \in 0 .. 1 : g.win[mode] < lay.group
  BY <1>2, <1>8
<1>12. QED
  BY <1>6, <1>8, <1>9, <1>10, <1>11 DEF g

----------------------------------------------------------------------------
(* Every nonempty set of naturals has a least element.                      *)
LEMMA LeastElement ==
  ASSUME NEW S \in SUBSET Nat, S # {}
  PROVE  \E x \in S : \A y \in S : x <= y
<1>1. \E x \in S : \A y \in S : ~(<<y, x>> \in OpToRel(<, Nat))
  BY NatLessThanWellFounded, WFMin
<1>2. PICK x \in S : \A y \in S : ~(<<y, x>> \in OpToRel(<, Nat))
  BY <1>1
<1>3. \A y \in S : ~(y < x)
  BY <1>2 DEF OpToRel
<1> QED BY <1>3

LEMMA HalfIsInt ==
  \A i \in Index : Half(i) \in Int
<1> SUFFICES ASSUME NEW i \in Index PROVE Half(i) \in Int
  OBVIOUS
<1>1. FadeFactor[i] \in 0 .. FullScale
  BY FadeFactors
<1>2. \A n \in 0 .. FullScale : n \in Int
  BY DEF FullScale
<1>3. FadeFactor[i] \in Int
  BY <1>1, <1>2
<1> QED BY <1>3 DEF Half

(* The search of findEquiFadeFrame finds the factor of act itself, or an    *)
(* equal one before it.                                                     *)
LEMMA NearestIsEqual ==
  ASSUME NEW act \in Index
  PROVE  Nearest(act) \in Index /\ Nearest(act) <= act
           /\ Half(Nearest(act)) = Half(act)
<1> DEFINE D(i) == Distance(i, act)
           First(i) == \A j \in Index :
                         IF j < i THEN D(i) < D(j) ELSE D(i) <= D(j)
           Z == {i \in Index : D(i) = 0}
<1>1. \A i \in Index : Half(i) \in Int
  BY HalfIsInt
<1>2. Reference(act) = Half(act)
  BY DEF Reference, Index, NumFactors
<1>3. \A i \in Index : D(i) \in Nat /\ (D(i) = 0 <=> Half(i) = Half(act))
  BY <1>1, <1>2 DEF Distance
<1>4. act \in Z /\ Z \in SUBSET Nat
  BY <1>3 DEF Index
<1> HIDE DEF D
<1>5. PICK z \in Z : \A y \in Z : z <= y
  BY <1>4, LeastElement
<1>6. First(z)
  BY <1>3, <1>5 DEF Index, NumFactors
<1>7. Nearest(act) \in Index /\ First(Nearest(act))
  BY <1>5, <1>6 DEF Nearest, D
<1>8. D(Nearest(act)) = 0 /\ Nearest(act) <= act
  BY <1>3, <1>4, <1>7 DEF Index, NumFactors
<1> QED BY <1>3, <1>7, <1>8

(* The index a fade-in starts from lies within the fade-in.                 *)
LEMMA FadeInIndexBound ==
  ASSUME NEW act \in Index, numFadeInFrames > 0
  PROVE  FadeInIndex(act) \in 0 .. numFadeInFrames - 1
<1> DEFINE n == Nearest(act)
<1>1. n \in Index /\ Half(n) = Half(act) /\ Half(act) \in Int
  BY NearestIsEqual, HalfIsInt
<1>2. numFadeInFrames \in Index
  BY ConcealParams
<1>3. Reference(act) = Half(act)
  BY DEF Reference, Index, NumFactors
<1> HIDE DEF n
<1>4. CASE n > numFadeInFrames
  <2>1. FadeInIndex(act) \in {numFadeInFrames - 1, numFadeInFrames - 2}
          /\ (numFadeInFrames = 1 => FadeInIndex(act) = 0)
    BY <1>2, <1>4 DEF FadeInIndex, Larger, Index, NumFactors, n
  <2> QED BY <1>2, <2>1 DEF Index, NumFactors
<1>5. CASE n <= numFadeInFrames
  <2>1. FadeInIndex(act) = IF n > 0 THEN n - 1 ELSE n
    BY <1>1, <1>2, <1>3, <1>5 DEF FadeInIndex, Index, NumFactors, n
  <2> QED BY <1>1, <1>2, <1>5, <2>1 DEF Index, NumFactors
<1> QED BY <1>1, <1>2, <1>4, <1>5 DEF Index, NumFactors

(* The index a fade-out resumes from is at most one frame further.          *)
LEMMA FadeOutIndexBound ==
  ASSUME NEW act \in Index, act < NumFactors - 1
  PROVE  FadeOutIndex(act) \in 1 .. act + 1
<1> DEFINE n == Nearest(act)
<1>1. n \in Index /\ n <= act /\ Half(n) = Half(act) /\ Half(act) \in Int
  BY NearestIsEqual, HalfIsInt
<1>2. Reference(act) = Half(act)
  BY DEF Reference, Index, NumFactors
<1> HIDE DEF n
<1>3. FadeOutIndex(act) = n + 1
  BY <1>1, <1>2 DEF FadeOutIndex, Index, NumFactors, n
<1> QED BY <1>1, <1>3 DEF Index, NumFactors

----------------------------------------------------------------------------
InStep(f) == f.win[0] = f.win[1] /\ f.att[0] = f.att[1]

LEMMA ChangedFades ==
  ASSUME NEW f \in Fades, NEW c \in Int
  PROVE  /\ [f EXCEPT !.cnt = c] \in Fades /\ [f EXCEPT !.cnt = c].cnt = c
         /\ InStep(f) => InStep([f EXCEPT !.cnt = c])
         /\ Rewound(f) \in Fades /\ Rewound(f).cnt = f.cnt /\ InStep(Rewound(f))
         /\ NoFade \in Fades /\ NoFade.cnt = 0 /\ InStep(NoFade)
<1>1. Both(0) \in [0 .. 1 -> 0 .. 7] /\ Both(0)[0] = Both(0)[1]
  BY DEF Both
<1>2. f = [cnt |-> f.cnt, win |-> f.win, att |-> f.att]
        /\ f.win \in [0 .. 1 -> 0 .. 7] /\ f.att \in [0 .. 1 -> 0 .. 7]
        /\ f.cnt \in Int
  BY DEF Fades
<1>3. [f EXCEPT !.cnt = c] = [cnt |-> c, win |-> f.win, att |-> f.att]
  BY <1>2
<1>4. Rewound(f) = [cnt |-> f.cnt, win |-> Both(0), att |-> Both(0)]
  BY DEF Rewound, NoFade
<1> QED BY <1>1, <1>2, <1>3, <1>4 DEF Fades, NoFade, InStep

(* What a fade-out frame of method Noise does.                              *)
LEMMA AttenuateStep ==
  ASSUME NEW lay \in AllLayouts, NEW f \in Fades, InStep(f), NEW state, NEW valid,
         Attenuate(state, f, valid, lay)
  PROVE  /\ concealState' = state /\ cntValidFrames' = valid
         /\ fade' \in Fades /\ InStep(fade')
         /\ fade'.cnt \in Int /\ fade'.cnt - f.cnt \in 1 .. 2
         /\ \A mode \in 0 .. 1 : fade'.win[mode] < lay.group
BY FrameAdvances DEF Attenuate, Become, InStep, Fades

(* What the state machine does with the parts of the state the proofs are   *)
(* about, whatever the method.                                              *)
Stepped(lay) ==
  /\ concealState' \in States
  /\ fade' \in Fades /\ InStep(fade')
  /\ cntValidFrames' \in Nat
  /\ FadeBounds'

LEMMA ReleaseStep ==
  ASSUME NEW f \in Fades, InStep(f), NEW valid \in Nat,
         NEW index \in 0 .. numFadeInFrames - 1, numFadeInFrames > 0,
         Release(f, valid, index)
  PROVE  /\ concealState' = "FadeIn" /\ cntValidFrames' = valid
         /\ fade' \in Fades /\ InStep(fade') /\ fade'.cnt = index
<1>1. index \in Int
  BY ConcealParams DEF Index, NumFactors
<1> QED BY <1>1, ChangedFades DEF Release, Become

(* The types of the parameters and of what a step starts from.              *)
LEMMA Parameters ==
  /\ numFadeOutFrames \in Nat /\ numFadeInFrames \in Nat
  /\ numMuteReleaseFrames \in Nat /\ RunCap \in Nat
BY ConcealParams DEF Index, NumFactors, RunCap

LEMMA Before ==
  ASSUME Inv
  PROVE  /\ fade \in Fades /\ InStep(fade) /\ fade.cnt \in Int
         /\ concealState \in States /\ cntValidFrames \in Nat
         /\ runs.good \in Nat /\ runs.lost \in Nat
<1>1. runs.good \in 0 .. RunCap /\ runs.lost \in 0 .. RunCap
  BY DEF Inv, Type
<1> QED BY <1>1, Parameters DEF Inv, Type, ModesInStep, InStep, Fades

LEMMA RunsStep ==
  ASSUME Inv, NEW frameOk \in BOOLEAN, runs' = Runs(frameOk)
  PROVE  /\ frameOk => /\ runs'.good \in 0 .. runs.good + 1 /\ runs'.lost = 0
         /\ ~frameOk => /\ runs'.good = 0 /\ runs'.lost \in 0 .. runs.lost + 1
         /\ runs' \in [good : 0 .. RunCap, lost : 0 .. RunCap]
<1>1. runs.good \in 0 .. RunCap /\ runs.lost \in 0 .. RunCap
  BY DEF Inv, Type
<1>2. Lesser(runs.good + 1, RunCap) \in 0 .. runs.good + 1
        /\ Lesser(runs.good + 1, RunCap) \in 0 .. RunCap
        /\ Lesser(runs.lost + 1, RunCap) \in 0 .. runs.lost + 1
        /\ Lesser(runs.lost + 1, RunCap) \in 0 .. RunCap /\ 0 \in 0 .. RunCap
  BY <1>1, Parameters DEF Lesser
<1> QED BY <1>2 DEF Runs

(* One frame of method Noise.                                               *)
NoiseKeeps(lay) ==
  /\ Stepped(lay)
  /\ Recovering => Recovering'
  /\ MutingNoise => MutingNoise'
  /\ concealState' \in {"Single", "FadeOut"} =>
       \A mode \in 0 .. 1 : fade'.win[mode] < lay.group

LEMMA NoiseStep ==
  ASSUME Inv, SlopesFit, NEW frameOk \in BOOLEAN, NEW lay \in AllLayouts,
         runs' = Runs(frameOk), UpdateNoise(frameOk, lay)
  PROVE  NoiseKeeps(lay)
<1> DEFINE valid == NextValid(frameOk)
           held == IF frameOk THEN Rewound(fade) ELSE fade
           less == [fade EXCEPT !.cnt = @ - 1]
           back == [NoFade EXCEPT !.cnt = FadeOutIndex(fade.cnt) - 1]
<1>a. /\ fade \in Fades /\ InStep(fade) /\ fade.cnt \in Int
      /\ concealState \in States /\ cntValidFrames \in Nat
      /\ runs.good \in Nat /\ runs.lost \in Nat
  BY Before
<1>b. /\ frameOk => /\ runs'.good \in 0 .. runs.good + 1 /\ runs'.lost = 0
      /\ ~frameOk => /\ runs'.good = 0 /\ runs'.lost \in 0 .. runs.lost + 1
  BY RunsStep
<1>c. valid \in Nat /\ (concealState # "Ok" =>
                          valid = IF frameOk THEN cntValidFrames + 1 ELSE 0)
  BY <1>a DEF NextValid
<1>d. held \in Fades /\ InStep(held) /\ held.cnt = fade.cnt
  BY <1>a, ChangedFades
<1>e. less \in Fades /\ InStep(less) /\ less.cnt = fade.cnt - 1
  BY <1>a, ChangedFades
<1>f. NoFade \in Fades /\ InStep(NoFade) /\ NoFade.cnt = 0
  BY <1>a, ChangedFades
<1>g. FadeBounds
  BY DEF Inv
<1>h. numFadeOutFrames <= NumFactors - 2 /\ numFadeInFrames <= NumFactors - 2
  BY Parameters DEF SlopesFit, NumFactors
<1> USE DEF NoiseKeeps, Stepped, FadeBounds, Recovering, MutingNoise, States, Index, NumFactors
<1>1. CASE concealState = "Ok" /\ frameOk /\ Stay
  BY <1>1, <1>a, <1>b, Parameters DEF Stay
<1>2. CASE concealState = "Ok" /\ ~frameOk /\ numFadeOutFrames > 0
             /\ Attenuate("Single", NoFade, 0, lay)
  <2>1. /\ concealState' = "Single" /\ cntValidFrames' = 0
        /\ fade' \in Fades /\ InStep(fade')
        /\ fade'.cnt \in Int /\ fade'.cnt - 0 \in 1 .. 2
        /\ \A mode \in 0 .. 1 : fade'.win[mode] < lay.group
    BY <1>2, <1>f, AttenuateStep
  <2> QED BY <1>2, <1>a, <1>b, <2>1, Parameters
<1>3. CASE concealState = "Ok" /\ ~frameOk /\ Become("Mute", NoFade, 0)
  BY <1>3, <1>a, <1>b, <1>f, Parameters DEF Become
<1>4. CASE concealState = "Single" /\ frameOk /\ Become("Ok", fade, valid)
  BY <1>4, <1>a, <1>b, <1>c, Parameters DEF Become
<1>5. CASE concealState = "Single" /\ ~frameOk /\ Become("Mute", fade, valid)
  BY <1>5, <1>a, <1>b, <1>c, Parameters DEF Become
<1>6. CASE concealState = "Single" /\ ~frameOk /\ fade.cnt < numFadeOutFrames
             /\ Attenuate("FadeOut", fade, valid, lay)
  <2>1. /\ concealState' = "FadeOut" /\ cntValidFrames' = valid
        /\ fade' \in Fades /\ InStep(fade')
        /\ fade'.cnt \in Int /\ fade'.cnt - fade.cnt \in 1 .. 2
        /\ \A mode \in 0 .. 1 : fade'.win[mode] < lay.group
    BY <1>6, <1>a, AttenuateStep
  <2> QED BY <1>6, <1>a, <1>b, <1>c, <1>g, <1>h, <2>1, Parameters DEF Released
<1>7. CASE concealState = "FadeOut" /\ Released(valid)
             /\ Release(fade, valid, FadeInIndex(fade.cnt))
  BY <1>7, <1>a, <1>b, <1>c, <1>g, ReleaseStep, FadeInIndexBound, Parameters
     DEF Released, Release, Become
<1>8. CASE concealState = "FadeOut" /\ ~Released(valid) /\ Become("Mute", held, valid)
  BY <1>8, <1>a, <1>b, <1>c, <1>d, Parameters DEF Released, Become
<1>9. CASE concealState = "FadeOut" /\ ~Released(valid)
             /\ fade.cnt < numFadeOutFrames /\ Attenuate("FadeOut", held, valid, lay)
  <2>1. /\ concealState' = "FadeOut" /\ cntValidFrames' = valid
        /\ fade' \in Fades /\ InStep(fade')
        /\ fade'.cnt \in Int /\ fade'.cnt - fade.cnt \in 1 .. 2
        /\ \A mode \in 0 .. 1 : fade'.win[mode] < lay.group
    BY <1>9, <1>d, AttenuateStep
  <2> QED BY <1>9, <1>a, <1>b, <1>c, <1>g, <1>h, <2>1, Parameters DEF Released
<1>10. CASE concealState = "Mute" /\ Released(valid)
             /\ Release(fade, valid, numFadeInFrames - 1)
  BY <1>10, <1>a, <1>b, <1>c, ReleaseStep, Parameters DEF Released, Release, Become
<1>11. CASE concealState = "Mute" /\ ~Released(valid) /\ Become("Mute", held, valid)
  BY <1>11, <1>a, <1>b, <1>c, <1>d, Parameters DEF Released, Become
<1>12. CASE concealState = "FadeIn" /\ frameOk
             /\ Become(IF less.cnt < 0 THEN "Ok" ELSE "FadeIn", less, valid)
  <2> HIDE DEF less
  <2>1. fade' = less /\ cntValidFrames' = valid
          /\ concealState' = (IF less.cnt < 0 THEN "Ok" ELSE "FadeIn")
    BY <1>12 DEF Become
  <2> HIDE DEF valid
  <2>a. /\ fade' \in Fades /\ InStep(fade') /\ fade'.cnt = fade.cnt - 1
        /\ cntValidFrames' \in Nat
        /\ runs'.good \in 0 .. runs.good + 1 /\ runs'.lost = 0
    BY <1>12, <1>b, <1>c, <1>e, <2>1
  <2>2. CASE fade.cnt = 0
    <3>1. concealState' = "Ok"
      BY <1>e, <2>1, <2>2
    <3> QED BY <1>12, <2>a, <3>1, Parameters
  <2>3. CASE fade.cnt > 0
    <3>1. concealState' = "FadeIn"
      BY <1>a, <1>e, <2>1, <2>3
    <3>2. concealState = "FadeIn" /\ fade.cnt \in 1 .. numFadeInFrames - 1
      BY <1>12, <1>a, <1>g, <2>3, Parameters
    <3>3. Stepped(lay)
      BY <2>a, <3>1, <3>2, Parameters
    <3>4. Recovering => Recovering'
      BY <1>a, <2>a, <3>1, <3>2, Parameters
    <3>5. MutingNoise => MutingNoise'
      BY <2>a, <3>1
    <3> QED BY <3>1, <3>3, <3>4, <3>5
  <2>4. fade.cnt \in Int /\ fade.cnt >= 0
    BY <1>12, <1>a, <1>g, Parameters
  <2> QED BY <2>2, <2>3, <2>4
<1>13. CASE concealState = "FadeIn" /\ ~frameOk /\ numFadeOutFrames > 0
             /\ Attenuate("FadeOut", back, valid, lay)
  <2>1. fade.cnt \in Index /\ fade.cnt < NumFactors - 1 /\ fade.cnt + 2 <= NumFactors - 1
    BY <1>13, <1>g, <1>h, Parameters
  <2>2. FadeOutIndex(fade.cnt) \in 1 .. fade.cnt + 1
    BY <2>1, FadeOutIndexBound
  <2>3. FadeOutIndex(fade.cnt) - 1 \in 0 .. fade.cnt
          /\ FadeOutIndex(fade.cnt) - 1 \in Int
    BY <2>1, <2>2
  <2> DEFINE c == FadeOutIndex(fade.cnt) - 1
  <2> HIDE DEF c
  <2>4. back \in Fades /\ InStep(back) /\ back.cnt = c
    BY <1>f, <2>3, ChangedFades DEF c
  <2> HIDE DEF back
  <2>5. /\ concealState' = "FadeOut" /\ cntValidFrames' = valid
        /\ fade' \in Fades /\ InStep(fade')
        /\ fade'.cnt \in Int /\ fade'.cnt - c \in 1 .. 2
        /\ \A mode \in 0 .. 1 : fade'.win[mode] < lay.group
    BY <1>13, <2>4, AttenuateStep
  <2>6. c \in 0 .. fade.cnt
    BY <2>3 DEF c
  <2> QED BY <1>13, <1>a, <1>b, <1>c, <2>1, <2>5, <2>6, Parameters
<1>14. CASE concealState = "FadeIn" /\ ~frameOk /\ Become("Mute", less, valid)
  BY <1>14, <1>a, <1>b, <1>c, <1>e, Parameters DEF Become
<1> QED
  BY <1>1, <1>2, <1>3, <1>4, <1>5, <1>6, <1>7, <1>8, <1>9, <1>10, <1>11, <1>12,
     <1>13, <1>14, <1>a, Parameters DEF UpdateNoise

(* One frame of method Inter.                                               *)
InterKeeps(lay) ==
  /\ Stepped(lay)
  /\ Recovering => Recovering'
  /\ MutingInter => MutingInter'
  /\ /\ numFadeInFrames < numFadeOutFrames
     /\ concealState' = "FadeOut"
     => fade'.cnt \in 0 .. numFadeOutFrames - 1

LEMMA InterStep ==
  ASSUME Inv, SlopesFit, NEW frameOk \in BOOLEAN, NEW lay \in AllLayouts,
         runs' = Runs(frameOk), UpdateInter(frameOk)
  PROVE  InterKeeps(lay)
<1> DEFINE good == Estimated(frameOk)
           valid == NextValid(good)
           more == [fade EXCEPT !.cnt = @ + 1]
           less == [fade EXCEPT !.cnt = @ - 1]
           zero == [fade EXCEPT !.cnt = 0]
           back == [fade EXCEPT !.cnt = FadeOutIndex(fade.cnt)]
<1>a. /\ fade \in Fades /\ InStep(fade) /\ fade.cnt \in Int
      /\ concealState \in States /\ cntValidFrames \in Nat
      /\ runs.good \in Nat /\ runs.lost \in Nat
  BY Before
<1>b. /\ frameOk => /\ runs'.good \in 0 .. runs.good + 1 /\ runs'.lost = 0
      /\ ~frameOk => /\ runs'.good = 0 /\ runs'.lost \in 0 .. runs.lost + 1
  BY RunsStep
<1>c. valid \in Nat /\ (concealState # "Ok" =>
                          valid = IF good THEN cntValidFrames + 1 ELSE 0)
  BY <1>a DEF NextValid
<1>d. more \in Fades /\ InStep(more) /\ more.cnt = fade.cnt + 1
  BY <1>a, ChangedFades
<1>e. less \in Fades /\ InStep(less) /\ less.cnt = fade.cnt - 1
  BY <1>a, ChangedFades
<1>f. zero \in Fades /\ InStep(zero) /\ zero.cnt = 0
  BY <1>a, ChangedFades
<1>g. FadeBounds
  BY DEF Inv
<1>h. numFadeOutFrames <= NumFactors - 2 /\ numFadeInFrames <= NumFactors - 2
  BY Parameters DEF SlopesFit, NumFactors
<1>i. (good /\ ~frameOk => runs'.lost \in 0 .. 1)
        /\ (~good => runs'.good \in 0 .. 1)
  BY <1>a, <1>b DEF Estimated, Interpolated, Inv, RunsMatch
<1> HIDE DEF more, less, zero, valid, good
<1> USE DEF InterKeeps, Stepped, FadeBounds, Recovering, MutingInter, States, Index, NumFactors
<1>1. CASE concealState = "Ok" /\ good /\ Stay
  BY <1>1, <1>a, <1>b, <1>i, Parameters DEF Stay
<1>2. CASE concealState = "Ok" /\ ~good
             /\ Become(IF numFadeOutFrames > 0 THEN "FadeOut" ELSE "Mute", zero, 0)
  <2>1. CASE numFadeOutFrames > 0
    BY <1>2, <1>a, <1>b, <1>f, <1>i, <2>1, Parameters DEF Become
  <2>2. CASE ~(numFadeOutFrames > 0)
    BY <1>2, <1>a, <1>b, <1>f, <1>i, <2>2, Parameters DEF Become
  <2> QED BY <2>1, <2>2
<1>3. CASE concealState = "Single" /\ Become("Ok", fade, valid)
  BY <1>3, <1>a, <1>b, <1>c, Parameters DEF Become
<1>4. CASE concealState = "FadeOut" /\ Released(valid)
             /\ Release(more, valid, FadeInIndex(fade.cnt))
  <2>1. good /\ valid = cntValidFrames + 1
    BY <1>4, <1>a, <1>c, Parameters DEF Released
  <2>2. CASE numFadeInFrames > 0
    <3>1. FadeInIndex(fade.cnt) \in 0 .. numFadeInFrames - 1
      BY <1>4, <1>g, <2>2, FadeInIndexBound
    <3>2. /\ concealState' = "FadeIn" /\ cntValidFrames' = valid
          /\ fade' \in Fades /\ InStep(fade') /\ fade'.cnt \in 0 .. numFadeInFrames - 1
      BY <1>4, <1>c, <1>d, <2>2, <3>1, ReleaseStep
    <3> QED BY <1>4, <1>a, <1>b, <1>c, <1>i, <2>1, <3>2, Parameters DEF Released
  <2>3. CASE ~(numFadeInFrames > 0)
    BY <1>4, <1>a, <1>b, <1>c, <1>d, <1>i, <2>1, <2>3 DEF Release, Become
  <2> QED BY <2>2, <2>3
<1>5. CASE concealState = "FadeOut" /\ ~Released(valid)
             /\ Become(IF more.cnt >= numFadeOutFrames THEN "Mute" ELSE "FadeOut",
                       more, valid)
  <2>1. CASE more.cnt >= numFadeOutFrames
    BY <1>5, <1>a, <1>b, <1>c, <1>d, <1>i, <2>1, Parameters DEF Become, Released
  <2>2. CASE ~(more.cnt >= numFadeOutFrames)
    BY <1>5, <1>a, <1>b, <1>c, <1>d, <1>g, <1>h, <1>i, <2>2, Parameters DEF Become, Released
  <2> QED BY <2>1, <2>2
<1>6. CASE concealState = "Mute" /\ Released(valid)
             /\ Release(fade, valid, numFadeInFrames - 1)
  <2>1. good /\ valid = cntValidFrames + 1
    BY <1>6, <1>a, <1>c, Parameters DEF Released
  <2>2. CASE numFadeInFrames > 0
    <3>1. /\ concealState' = "FadeIn" /\ cntValidFrames' = valid
          /\ fade' \in Fades /\ InStep(fade') /\ fade'.cnt \in 0 .. numFadeInFrames - 1
      BY <1>6, <1>a, <1>c, <2>2, Parameters, ReleaseStep
    <3> QED BY <1>6, <1>a, <1>b, <1>c, <1>i, <2>1, <3>1, Parameters DEF Released
  <2>3. CASE ~(numFadeInFrames > 0)
    BY <1>6, <1>a, <1>b, <1>c, <1>i, <2>1, <2>3 DEF Release, Become
  <2> QED BY <2>2, <2>3
<1>7. CASE concealState = "Mute" /\ ~Released(valid) /\ Become("Mute", fade, valid)
  BY <1>7, <1>a, <1>b, <1>c, <1>i, Parameters DEF Become, Released
<1>8. CASE concealState = "FadeIn" /\ (frameOk \/ prevFrameOk[2])
             /\ Become(IF less.cnt < 0 THEN "Ok" ELSE "FadeIn", less, valid)
  <2>1. runs'.lost \in 0 .. 1 /\ runs'.good \in 0 .. runs.good + 1
    BY <1>8, <1>a, <1>b DEF Inv, RunsMatch
  <2>2. fade.cnt \in 0 .. numFadeInFrames - 1
    BY <1>8, <1>g
  <2>3. fade' = less /\ cntValidFrames' = valid
          /\ concealState' = (IF less.cnt < 0 THEN "Ok" ELSE "FadeIn")
    BY <1>8 DEF Become
  <2>4. fade' \in Fades /\ InStep(fade') /\ fade'.cnt = fade.cnt - 1
          /\ cntValidFrames' \in Nat /\ concealState = "FadeIn"
    BY <1>8, <1>c, <1>e, <2>3
  <2>5. CASE fade.cnt = 0
    <3>1. concealState' = "Ok"
      BY <1>e, <2>3, <2>5
    <3> QED BY <2>1, <2>4, <3>1
  <2>6. CASE fade.cnt > 0
    <3>1. concealState' = "FadeIn"
      BY <1>a, <1>e, <2>3, <2>6
    <3>2. Stepped(lay)
      BY <2>2, <2>4, <2>6, <3>1, Parameters
    <3>3. Recovering => Recovering'
      BY <1>a, <2>1, <2>2, <2>4, <3>1, Parameters
    <3>4. MutingInter => MutingInter'
      BY <2>1, <3>1
    <3> QED BY <3>1, <3>2, <3>3, <3>4
  <2> QED BY <2>2, <2>5, <2>6, Parameters
<1>9. CASE concealState = "FadeIn" /\ ~(frameOk \/ prevFrameOk[2])
             /\ numFadeOutFrames > 0 /\ Become("FadeOut", back, valid)
  <2>1. fade.cnt \in Index /\ fade.cnt < NumFactors - 1
          /\ fade.cnt \in 0 .. numFadeInFrames - 1 /\ fade.cnt + 2 <= NumFactors - 1
    BY <1>9, <1>g, <1>h, Parameters
  <2>2. FadeOutIndex(fade.cnt) \in 1 .. fade.cnt + 1
    BY <2>1, FadeOutIndexBound
  <2> DEFINE c == FadeOutIndex(fade.cnt)
  <2> HIDE DEF c
  <2>3. c \in 1 .. fade.cnt + 1 /\ c \in Int
    BY <2>1, <2>2 DEF c
  <2>4. back \in Fades /\ InStep(back) /\ back.cnt = c
    BY <1>a, <2>3, ChangedFades DEF c
  <2> HIDE DEF back
  <2>5. ~good /\ ~frameOk /\ valid = 0
    BY <1>9, <1>c DEF good, Estimated, Interpolated
  <2>6. /\ concealState' = "FadeOut" /\ cntValidFrames' = 0
        /\ fade' \in Fades /\ InStep(fade') /\ fade'.cnt = c
    BY <1>9, <2>4, <2>5 DEF Become
  <2> QED BY <1>9, <1>a, <1>b, <2>1, <2>3, <2>5, <2>6, Parameters
<1>10. CASE concealState = "FadeIn" /\ ~(frameOk \/ prevFrameOk[2])
              /\ Become("Mute", less, valid)
  <2>1. ~good /\ ~frameOk /\ valid = 0
    BY <1>10, <1>c DEF good, Estimated, Interpolated
  <2> QED BY <1>10, <1>a, <1>b, <1>e, <2>1, Parameters DEF Become
<1> QED
  BY <1>1, <1>2, <1>3, <1>4, <1>5, <1>6, <1>7, <1>8, <1>9, <1>10
     DEF UpdateInter, good, valid, more, less, zero

----------------------------------------------------------------------------
(* One frame of any method.                                                 *)
Recovers == Running => Recovering

FrameKeeps(lay) ==
  /\ Stepped(lay)
  /\ Recovers => Recovers'
  /\ Muting => Muting'

LEMMA UpdateStep ==
  ASSUME Inv, SlopesFit, NEW frameOk \in BOOLEAN, NEW lay \in AllLayouts,
         runs' = Runs(frameOk), UpdateState(frameOk, lay),
         UNCHANGED <<method, switched>>
  PROVE  FrameKeeps(lay)
<1>1. CASE method = "Noise" /\ UpdateNoise(frameOk, lay)
  <2>1. NoiseKeeps(lay)
    BY <1>1, NoiseStep
  <2>2. Running => Running'
    BY DEF Running
  <2>3. (Recovers => Recovers') /\ (Muting => Muting')
    BY <1>1, <2>1, <2>2 DEF NoiseKeeps, Recovers, Running, Muting
  <2> QED BY <2>1, <2>3 DEF FrameKeeps, NoiseKeeps
<1>2. CASE method = "Inter" /\ UpdateInter(frameOk)
  <2>1. InterKeeps(lay)
    BY <1>2, InterStep
  <2>2. (Recovers => Recovers') /\ (Muting => Muting')
    BY <1>2, <2>1 DEF InterKeeps, Recovers, Running, Muting
  <2> QED BY <2>1, <2>2 DEF FrameKeeps, InterKeeps
<1>3. CASE method = "Mute" /\ Stay
  <2>1. fade \in Fades /\ InStep(fade) /\ concealState \in States /\ cntValidFrames \in Nat
    BY Before
  <2>2. Stepped(lay)
    BY <1>3, <2>1 DEF Inv, Stay, Stepped, FadeBounds
  <2> QED BY <1>3, <2>2 DEF FrameKeeps, Muting, Recovers, Running
<1> QED BY <1>1, <1>2, <1>3 DEF UpdateState

(* The gain of a state is one of the factors, full scale or zero.           *)
LEMMA GainInRange ==
  ASSUME SlopesFit, NEW state \in States, NEW cnt \in Int,
         state = "Single" => cnt \in 1 .. 2,
         state = "FadeOut" => cnt \in Index,
         state = "FadeIn" => cnt \in 0 .. numFadeInFrames - 1
  PROVE  /\ Gain(state, cnt) \in 0 .. FullScale
         /\ state = "Ok" => Gain(state, cnt) = FullScale
         /\ state = "Mute" => Gain(state, cnt) = 0
<1>1. \A i \in Int : i < NumFactors => FactorOrFull(i) \in 0 .. FullScale
  <2> SUFFICES ASSUME NEW i \in Int, i < NumFactors
               PROVE  FactorOrFull(i) \in 0 .. FullScale
    OBVIOUS
  <2>1. FullScale \in 0 .. FullScale
    BY DEF FullScale
  <2>2. CASE i < 0
    BY <2>1, <2>2 DEF FactorOrFull
  <2>3. CASE i >= 0
    <3>1. i \in Index
      BY <2>3 DEF Index, NumFactors
    <3>2. FactorOrFull(i) = FadeFactor[i]
      BY <2>3 DEF FactorOrFull
    <3> QED BY <3>1, <3>2, FadeFactors
  <2> QED BY <2>2, <2>3
<1>2. 0 \in 0 .. FullScale /\ FullScale \in 0 .. FullScale
  BY DEF FullScale
<1>3. CASE state = "FadeIn"
  <2>1. cnt - 1 < NumFactors /\ cnt - 1 \in Int
    BY <1>3, Parameters DEF SlopesFit, NumFactors
  <2>2. FactorOrFull(cnt - 1) \in 0 .. FullScale
    BY <1>1, <2>1
  <2> QED BY <1>3, <2>2 DEF Gain
<1>4. CASE state \in {"Single", "FadeOut"} /\ cnt + 1 <= numFadeOutFrames
  <2>1. cnt - 1 < NumFactors /\ cnt - 1 \in Int /\ cnt < NumFactors
    BY <1>4, Parameters DEF SlopesFit, NumFactors
  <2>2. FactorOrFull(cnt - 1) \in 0 .. FullScale /\ FactorOrFull(cnt) \in 0 .. FullScale
    BY <1>1, <2>1
  <2>3. ~(cnt + 1 > numFadeOutFrames)
    BY <1>4, Parameters
  <2> QED BY <1>4, <2>2, <2>3 DEF Gain
<1>5. CASE state \in {"Single", "FadeOut"} /\ ~(cnt + 1 <= numFadeOutFrames)
  <2>1. cnt + 1 > numFadeOutFrames
    BY <1>5, Parameters
  <2> QED BY <1>2, <1>5, <2>1 DEF Gain
<1>6. CASE state \in {"Ok", "Mute"}
  BY <1>2, <1>6 DEF Gain
<1> QED BY <1>3, <1>4, <1>5, <1>6 DEF States

LEMMA LayoutWindows ==
  \A lay \in AllLayouts : lay.windows \in {1, 2, 4, 8}
BY DEF AllLayouts, Long

(* One frame keeps the invariant.                                           *)
LEMMA ApplyStep ==
  ASSUME Inv, SlopesFit, NEW frameOk \in BOOLEAN, NEW new \in Layouts,
         Apply(frameOk, new)
  PROVE  Inv' /\ (Recovers => Recovers')
              /\ (Muting => Muting')
<1> DEFINE lay == IF Stored(frameOk) THEN new ELSE layout
           kept == IF Stored(frameOk) THEN [age |-> 0, windows |-> new.windows]
                                      ELSE Older
<1>1. layout \in AllLayouts /\ new \in AllLayouts /\ Long \in AllLayouts
  BY ConcealParams DEF Inv, Type, AllLayouts
<1>2. lay \in AllLayouts
  BY <1>1
<1>3. /\ UpdateState(frameOk, lay)
      /\ runs' = Runs(frameOk)
      /\ layout' \in {Long, lay}
      /\ buffer' \in {Cleared, kept}
      /\ prevFrameOk' = <<prevFrameOk[2], frameOk>>
      /\ fade_old' = Gain(concealState', fade'.cnt)
      /\ out'.applied = Applied(frameOk)
      /\ UNCHANGED <<method, switched>>
  BY DEF Apply
<1>4. FrameKeeps(lay)
  BY <1>2, <1>3, UpdateStep
<1>5. /\ concealState' \in States /\ cntValidFrames' \in Nat
      /\ fade' \in Fades /\ InStep(fade') /\ FadeBounds'
  BY <1>4 DEF FrameKeeps, Stepped
<1>6. layout' \in AllLayouts
  BY <1>1, <1>2, <1>3
<1>7. buffer' \in [age : 0 .. None, windows : {1, 2, 4, 8}]
  <2>1. MaxAge \in Nat /\ MaxAge > 2 /\ None = MaxAge + 1
    BY AgeBound DEF None
  <2>2. Cleared \in [age : 0 .. None, windows : {1, 2, 4, 8}]
    BY <2>1 DEF Cleared
  <2>3. [age |-> 0, windows |-> new.windows] \in [age : 0 .. None, windows : {1, 2, 4, 8}]
    BY <1>1, <2>1, LayoutWindows
  <2>4. buffer \in [age : 0 .. None, windows : {1, 2, 4, 8}]
    BY DEF Inv, Type
  <2>5. (IF buffer.age = None THEN None ELSE Lesser(buffer.age + 1, MaxAge)) \in 0 .. None
    BY <2>1, <2>4 DEF Lesser
  <2>6. Older \in [age : 0 .. None, windows : {1, 2, 4, 8}]
    BY <2>4, <2>5 DEF Older
  <2> QED BY <1>3, <2>2, <2>3, <2>6
<1>8. /\ fade_old' \in 0 .. FullScale
      /\ concealState' = "Ok" => fade_old' = FullScale
      /\ concealState' = "Mute" => fade_old' = 0
  BY <1>3, <1>5, GainInRange DEF FadeBounds, Fades
<1>9. out'.applied \in -1 .. 1
  BY <1>3 DEF Applied, Inv, Type, UpdateState
<1>10. prevFrameOk' \in BOOLEAN \X BOOLEAN /\ prevFrameOk'[2] = frameOk
  BY <1>3 DEF Inv, Type
<1>11. /\ runs' \in [good : 0 .. RunCap, lost : 0 .. RunCap]
       /\ IF frameOk THEN runs'.lost = 0 ELSE runs'.good = 0
  BY <1>3, RunsStep
<1>12. Type'
  BY <1>3, <1>5, <1>6, <1>7, <1>8, <1>9, <1>10, <1>11 DEF Type, Inv, Fades
<1>13. ModesInStep' /\ GainOfState' /\ RunsMatch'
  BY <1>5, <1>8, <1>10, <1>11 DEF ModesInStep, InStep, GainOfState, RunsMatch
<1> QED BY <1>4, <1>5, <1>12, <1>13 DEF Inv, FrameKeeps

----------------------------------------------------------------------------
LEMMA InitKeeps ==
  Init => Inv /\ Recovers /\ Muting
<1> SUFFICES ASSUME Init PROVE Inv /\ Recovers /\ Muting
  OBVIOUS
<1>1. NoFade \in Fades /\ InStep(NoFade)
  BY DEF NoFade, Both, Fades, InStep
<1>2. Long \in AllLayouts /\ FullScale \in 0 .. FullScale
  BY DEF AllLayouts, FullScale
<1>3. Cleared \in [age : 0 .. None, windows : {1, 2, 4, 8}]
  BY AgeBound DEF Cleared, None
<1>4. NoRuns \in [good : 0 .. RunCap, lost : 0 .. RunCap]
  BY Parameters DEF NoRuns
<1>5. Type
  <2>1. fade \in Fades /\ layout \in AllLayouts /\ fade_old \in 0 .. FullScale
          /\ buffer \in [age : 0 .. None, windows : {1, 2, 4, 8}]
          /\ runs \in [good : 0 .. RunCap, lost : 0 .. RunCap]
    BY <1>1, <1>2, <1>3, <1>4 DEF Init
  <2>2. out.applied \in -1 .. 1
    BY DEF Init, Nothing
  <2>3. method \in Methods /\ switched \in BOOLEAN /\ concealState \in States /\ cntValidFrames \in Nat
          /\ prevFrameOk \in BOOLEAN \X BOOLEAN
    BY DEF Init, States
  <2> QED BY <2>1, <2>2, <2>3 DEF Type, Fades
<1>6. ModesInStep /\ FadeBounds /\ GainOfState /\ RunsMatch
  BY <1>1 DEF Init, ModesInStep, InStep, FadeBounds, GainOfState, RunsMatch, NoRuns
<1>7. Recovers /\ Muting
  BY Parameters DEF Init, Recovers, Recovering, Muting, MutingNoise, MutingInter, NoRuns
<1> QED BY <1>5, <1>6, <1>7 DEF Inv

LEMMA NextKeeps ==
  ASSUME Inv, SlopesFit, [Next]_vars
  PROVE  Inv' /\ (Recovers => Recovers')
              /\ (Muting => Muting')
<1>1. CASE \E frameOk \in BOOLEAN, new \in Layouts :
               Allowed(method, new) /\ Apply(frameOk, new)
  BY <1>1, ApplyStep
<1>2. ASSUME NEW m \in Methods, SetMethod(m)
      PROVE  Inv' /\ (Recovers => Recovers') /\ (Muting => Muting')
  <2> USE <1>2 DEF SetMethod
  <2>1. Type' /\ ModesInStep' /\ FadeBounds' /\ GainOfState' /\ RunsMatch'
    BY DEF Inv, Type, ModesInStep, FadeBounds, GainOfState, RunsMatch
  <2>2. Running' => Running
    BY DEF Running, Inv, Type
  <2>3. (Recovers => Recovers') /\ Muting'
    BY <2>2 DEF Recovers, Recovering, Muting
  <2> QED BY <2>1, <2>3 DEF Inv
<1>3. CASE InitChannelData
  <2> USE <1>3 DEF InitChannelData
  <2>1. Init'
    BY DEF Init, Inv, Type
  <2> QED BY <2>1, InitKeeps, PTL
<1>4. CASE UNCHANGED vars
  <2> USE <1>4 DEF vars
  <2>1. Type' /\ ModesInStep' /\ FadeBounds' /\ GainOfState' /\ RunsMatch'
    BY DEF Inv, Type, ModesInStep, FadeBounds, GainOfState, RunsMatch
  <2>2. (Recovers => Recovers') /\ (Muting => Muting')
    BY DEF Recovers, Running, Recovering, Muting, MutingNoise, MutingInter
  <2> QED BY <2>1, <2>2 DEF Inv
<1> QED BY <1>1, <1>2, <1>3, <1>4 DEF Next

(* Whatever frames come, and however the user changes the method, the       *)
(* counter from which CConcealment_TDFading and findEquiFadeFrame index the *)
(* factors is inside its table, full gain goes with state Ok and silence    *)
(* with state Mute, and both positions in the window group agree.           *)
THEOREM ConcealInvariant ==
  ASSUME SlopesFit
  PROVE  Spec => []Inv
<1>1. Init => Inv
  BY InitKeeps
<1>2. Inv /\ [Next]_vars => Inv'
  BY NextKeeps
<1> QED BY <1>1, <1>2, PTL DEF Spec

(* With Noise and Inter a bounded number of good frames ends concealment,   *)
(* even if the user changes between the two among them.                     *)
THEOREM GoodFramesRecoverTheorem ==
  ASSUME SlopesFit
  PROVE  Spec => []GoodFramesRecover
<1> DEFINE J == Inv /\ Recovers
<1>1. Init => J
  BY InitKeeps
<1>2. J /\ [Next]_vars => J'
  BY NextKeeps
<1>3. J => GoodFramesRecover
  <2> SUFFICES ASSUME J, Running, runs.good > numMuteReleaseFrames + numFadeInFrames + 1
               PROVE  concealState = "Ok" /\ fade_old = FullScale
    BY DEF GoodFramesRecover
  <2>1. /\ concealState \in States /\ runs.good \in Nat /\ cntValidFrames \in Nat
        /\ fade.cnt \in Int
    BY Before
  <2>2. concealState # "Single" /\ concealState \notin {"FadeOut", "Mute"}
    BY <2>1, Parameters DEF Recovers, Recovering
  <2>3. concealState # "FadeIn"
    BY <2>1, Parameters DEF Recovers, Recovering, Inv, FadeBounds
  <2>4. concealState = "Ok"
    BY <2>1, <2>2, <2>3 DEF States
  <2> QED BY <2>4 DEF Inv, GainOfState
<1> QED BY <1>1, <1>2, <1>3, PTL DEF Spec

(* As long as the method is not changed, a bounded number of lost frames    *)
(* brings the output to silence.                                            *)
THEOREM LostFramesMuteTheorem ==
  ASSUME SlopesFit
  PROVE  Spec => []LostFramesMute
<1> DEFINE J == Inv /\ Muting
<1>1. Init => J
  BY InitKeeps
<1>2. J /\ [Next]_vars => J'
  BY NextKeeps
<1>3. J => LostFramesMute
  <2> SUFFICES ASSUME J, ~switched, method # "Mute", runs.lost > numFadeOutFrames + 1
               PROVE  concealState = "Mute" /\ fade_old = 0
    BY DEF LostFramesMute
  <2>1. concealState \in States /\ runs.lost \in Nat
    BY Before
  <2>2. method \in {"Noise", "Inter"}
    BY ConcealParams DEF Inv, Type
  <2>2a. concealState \notin {"Ok", "FadeIn", "Single", "FadeOut"}
    BY <2>1, <2>2, Parameters DEF Muting, MutingNoise, MutingInter
  <2>3. concealState = "Mute"
    BY <2>1, <2>2a DEF States
  <2> QED BY <2>3 DEF Inv, GainOfState
<1> QED BY <1>1, <1>2, <1>3, PTL DEF Spec

(* What method Noise maintains on top: the windows copied for a lost frame  *)
(* are windows of the frame.  State Single or FadeOut implies that no frame *)
(* has been stored since the offsets were computed.                         *)
THEOREM WindowInRangeTheorem ==
  ASSUME SlopesFit
  PROVE  Spec => []WindowInRange
<1> DEFINE J == Inv /\ WindowInRange
<1>1. Init => J
  BY InitKeeps DEF Init, WindowInRange
<1>2. J /\ [Next]_vars => J'
  <2> SUFFICES ASSUME J, [Next]_vars PROVE WindowInRange'
    BY NextKeeps
  <2>1. ASSUME NEW frameOk \in BOOLEAN, NEW new \in Layouts, Apply(frameOk, new)
        PROVE  WindowInRange'
    <3> DEFINE lay == IF Stored(frameOk) THEN new ELSE layout
    <3>1. lay \in AllLayouts
      BY ConcealParams DEF Inv, Type
    <3>2. CASE method # "Noise"
      BY <2>1, <3>2 DEF Apply, WindowInRange
    <3>3. CASE method = "Noise"
      <4>1. /\ UpdateNoise(frameOk, lay) /\ runs' = Runs(frameOk)
            /\ concealState' # "Mute" => layout' = lay
            /\ UNCHANGED <<method, switched>>
        BY <2>1, <3>3 DEF Apply, UpdateState
      <4>2. NoiseKeeps(lay)
        BY <3>1, <3>3, <4>1, NoiseStep
      <4>3. WindowInRange /\ ~switched /\ concealState \in {"Single", "FadeOut"} =>
              \A mode \in 0 .. 1 : fade.win[mode] < layout.group
        BY <3>3 DEF WindowInRange
      <4> QED BY <3>3, <4>1, <4>2, <4>3 DEF NoiseKeeps, WindowInRange
    <3> QED BY <3>2, <3>3
  <2>2. ASSUME NEW m \in Methods, SetMethod(m)
        PROVE  WindowInRange'
    BY <2>2 DEF SetMethod, WindowInRange
  <2>3. CASE InitChannelData
    BY <2>3 DEF InitChannelData, WindowInRange
  <2>4. CASE UNCHANGED vars
    BY <2>4 DEF vars, WindowInRange
  <2> QED BY <2>1, <2>2, <2>3, <2>4 DEF Next
<1> QED BY <1>1, <1>2, PTL DEF Spec

(* With a fade-in shorter than the fade-out, as the decoder has it, the     *)
(* assertions of CConcealment_ApplyInter on the counter hold after every    *)
(* frame, even when the method has been changed before it.                  *)
THEOREM FadeWithinSlopeTheorem ==
  ASSUME SlopesFit, numFadeInFrames < numFadeOutFrames
  PROVE  Spec => FadeWithinSlope
<1>1. Inv /\ Inv' /\ [Next]_vars => [method' = method => WithinSlope']_vars
  <2> SUFFICES ASSUME Inv, Inv', [Next]_vars, method' = method, vars' # vars
               PROVE  WithinSlope'
    OBVIOUS
  <2>1. (concealState = "FadeIn" => fade.cnt \in 0 .. numFadeInFrames - 1)'
    BY DEF Inv, FadeBounds
  <2>2. ASSUME NEW frameOk \in BOOLEAN, NEW new \in Layouts, Apply(frameOk, new)
        PROVE  WithinSlope'
    <3>1. CASE method = "Inter"
      <4> DEFINE lay == IF Stored(frameOk) THEN new ELSE layout
      <4>1. lay \in AllLayouts
        BY ConcealParams DEF Inv, Type
      <4>2. UpdateInter(frameOk) /\ runs' = Runs(frameOk)
        BY <2>2, <3>1 DEF Apply, UpdateState
      <4>3. InterKeeps(lay)
        BY <4>1, <4>2, InterStep
      <4> QED BY <2>1, <4>3 DEF InterKeeps, WithinSlope
    <3> QED BY <2>1, <3>1 DEF WithinSlope
  <2>3. ASSUME NEW m \in Methods, SetMethod(m)
        PROVE  FALSE
    BY <2>3 DEF SetMethod
  <2>4. CASE InitChannelData
    BY <2>1, <2>4 DEF InitChannelData, WithinSlope
  <2> QED BY <2>2, <2>3, <2>4 DEF Next
<1>2. Spec => []Inv
  BY ConcealInvariant
<1> QED BY <1>1, <1>2, PTL DEF Spec, FadeWithinSlope

----------------------------------------------------------------------------
(* What is in the buffer.  Under Inter, unless concealment is on, it holds  *)
(* the last frame if that was good; under Noise it has the windows of the   *)
(* layout, which are those it is rendered with.                             *)
Kept ==
  /\ ~switched /\ method = "Inter" =>
       /\ concealState # "Single"
       /\ concealState \in {"Ok", "FadeIn"} /\ prevFrameOk[2] =>
            buffer.age \in {0, None}
       /\ concealState = "FadeIn" => prevFrameOk[1] \/ prevFrameOk[2]
  /\ ~switched /\ method = "Noise" =>
       buffer.age = None \/ buffer.windows = layout.windows
Images == Kept /\ UnconcealedIsDecoded /\ WindowsFitUnlessInter

(* What a frame leaves in the buffer, and where Inter lets the state go.    *)
LEMMA KeptStep ==
  ASSUME Inv, SlopesFit, numFadeInFrames > 0, Kept, ~switched,
         NEW frameOk \in BOOLEAN, NEW new \in Layouts, Apply(frameOk, new),
         method = "Inter"
  PROVE  /\ concealState' # "Single"
         /\ concealState' \in {"Ok", "FadeIn"} => (Stored(frameOk) <=> frameOk)
         /\ concealState' = "Ok" => concealState \in {"Ok", "FadeIn"}
         /\ concealState' = "Ok" /\ ~Interpolated(frameOk) => prevFrameOk[2]
         /\ concealState' = "FadeIn" => prevFrameOk[2] \/ frameOk
<1>1. UpdateInter(frameOk) /\ concealState # "Single"
  BY DEF Apply, UpdateState, Kept
<1>2. /\ cntValidFrames \in Nat /\ concealState \in States
      /\ prevFrameOk[1] \in BOOLEAN /\ prevFrameOk[2] \in BOOLEAN
  BY DEF Inv, Type
<1>3. numFadeInFrames \in Nat /\ numMuteReleaseFrames \in Nat
  BY Parameters
<1> DEFINE good == Estimated(frameOk)
           valid == NextValid(good)
<1>4. good <=> prevFrameOk[2] \/ (prevFrameOk[1] /\ ~prevFrameOk[2] /\ frameOk)
  BY DEF Estimated, Interpolated
<1>5. ~good /\ concealState # "Ok" => valid = 0
  BY DEF NextValid
<1>6. good /\ concealState # "Ok" => valid = cntValidFrames + 1
  BY DEF NextValid
<1>7. Released(valid) <=> valid > numMuteReleaseFrames
  BY DEF Released
<1>8. Stored(frameOk) <=> frameOk /\ ~(concealState \in {"Mute", "FadeOut"}
                                         /\ cntValidFrames + 1 <= numMuteReleaseFrames)
  BY DEF Stored, MuteReleaseActive
<1> HIDE DEF good, valid
<1>9. CASE concealState = "Ok"
  <2>1. concealState' \in {"Ok", "FadeOut", "Mute"} /\ (concealState' = "Ok" => good)
    BY <1>1, <1>9 DEF UpdateInter, Stay, Become, good
  <2> QED BY <1>2, <1>4, <1>8, <1>9, <2>1 DEF Interpolated
<1>10. CASE concealState \in {"FadeOut", "Mute"} /\ Released(valid)
  <2>1. good /\ ~(cntValidFrames + 1 <= numMuteReleaseFrames)
    BY <1>2, <1>3, <1>5, <1>6, <1>7, <1>10
  <2>2. concealState' = "FadeIn"
    BY <1>1, <1>3, <1>10 DEF UpdateInter, Release, Become, good, valid
  <2> QED BY <1>2, <1>4, <1>8, <2>1, <2>2
<1>11. CASE concealState \in {"FadeOut", "Mute"} /\ ~Released(valid)
  <2>1. concealState' \in {"FadeOut", "Mute"}
    BY <1>1, <1>11 DEF UpdateInter, Become, good, valid
  <2> QED BY <2>1
<1>12. CASE concealState = "FadeIn"
  <2>1. /\ concealState' \in {"Ok", "FadeIn", "FadeOut", "Mute"}
        /\ concealState' \in {"Ok", "FadeIn"} => frameOk \/ prevFrameOk[2]
    BY <1>1, <1>12 DEF UpdateInter, Become
  <2>2. prevFrameOk[1] \/ prevFrameOk[2]
    BY <1>12 DEF Kept
  <2> QED BY <1>2, <1>8, <1>12, <2>1, <2>2 DEF Interpolated
<1> QED BY <1>1, <1>2, <1>9, <1>10, <1>11, <1>12 DEF States

LEMMA ImageStep ==
  ASSUME Inv, SlopesFit, numFadeInFrames > 0, Images,
         NEW frameOk \in BOOLEAN, NEW new \in Layouts, Apply(frameOk, new)
  PROVE  Images'
<1> DEFINE lay == IF Stored(frameOk) THEN new ELSE layout
           kept == IF Stored(frameOk) THEN [age |-> 0, windows |-> new.windows]
                                      ELSE Older
           muted == method # "Mute" /\ concealState' = "Mute"
<1>1. /\ layout' = IF muted THEN Long ELSE lay
      /\ buffer' = IF muted /\ method = "Noise" THEN Cleared ELSE kept
      /\ out' = [applied |-> Applied(frameOk), image |-> Render(frameOk, new, kept, lay)]
      /\ prevFrameOk' = <<prevFrameOk[2], frameOk>>
      /\ method' = method /\ switched' = switched
  BY DEF Apply
<1>2. /\ buffer \in [age : 0 .. None, windows : {1, 2, 4, 8}]
      /\ prevFrameOk[1] \in BOOLEAN /\ prevFrameOk[2] \in BOOLEAN
      /\ method \in {"Mute", "Noise", "Inter"} /\ concealState' \in States
  <2>1. Inv'
    BY ApplyStep
  <2> QED BY <2>1, ConcealParams DEF Inv, Type
<1>3. MaxAge \in Nat /\ MaxAge > 2 /\ None = MaxAge + 1
  BY AgeBound DEF None
<1>4. /\ Older.windows = buffer.windows
      /\ Older.age = None => buffer.age = None
      /\ buffer.age = None => Older.age = None
      /\ buffer.age = 0 => Older.age = 1
  BY <1>2, <1>3 DEF Older, Lesser
<1>5. ~switched /\ method = "Noise" => kept.age = None \/ kept.windows = lay.windows
  BY <1>4 DEF Images, Kept
<1>6. /\ out'.applied = Applied(frameOk)
      /\ out'.image = Render(frameOk, new, kept, lay)
  BY <1>1
<1>7. Cleared.age = None /\ prevFrameOk'[1] = prevFrameOk[2] /\ prevFrameOk'[2] = frameOk
  BY <1>1 DEF Cleared
<1>8. CASE switched
  BY <1>1, <1>8 DEF Images, Kept, UnconcealedIsDecoded, WindowsFitUnlessInter
<1>9. CASE ~switched /\ method = "Mute"
  <2>1. Render(frameOk, new, kept, lay)
          = IF frameOk THEN Rendered([age |-> 0, windows |-> new.windows], new.windows, FALSE)
                       ELSE Rendered(Zeros, new.windows, TRUE)
    BY <1>9 DEF Render
  <2>2. Applied(frameOk) = 0 => frameOk
    BY <1>9 DEF Applied
  <2> QED BY <1>1, <1>6, <1>7, <1>9, <2>1, <2>2
          DEF Images, Kept, UnconcealedIsDecoded, WindowsFitUnlessInter,
              WindowsFitSpectrum, Rendered, Zeros
<1>10. CASE ~switched /\ method = "Noise"
  <2> DEFINE fresh == [age |-> 0, windows |-> new.windows]
  <2>1. Render(frameOk, new, kept, lay) = RenderNoise(fresh, kept, lay)
    BY <1>10 DEF Render
  <2>2. /\ concealState' \in {"Ok", "FadeIn"} =>
             out'.image = Rendered(fresh, new.windows, FALSE)
        /\ concealState' = "Mute" => out'.image = Rendered(Zeros, 1, TRUE)
        /\ concealState' \in {"Single", "FadeOut"} =>
             out'.image = Rendered(kept, lay.windows, TRUE)
    <3>1. fresh.windows = new.windows
      OBVIOUS
    <3> HIDE DEF fresh, kept, lay
    <3> QED BY <1>6, <2>1, <3>1 DEF RenderNoise
  <2>3. Applied(frameOk) = 0 => concealState' = "Ok"
    BY <1>10 DEF Applied
  <2>4. WindowsFitSpectrum'
    BY <1>2, <1>5, <1>7, <1>10, <2>2 DEF WindowsFitSpectrum, Rendered, States, Zeros
  <2>5. UnconcealedIsDecoded'
    BY <1>1, <1>6, <1>10, <2>2, <2>3 DEF UnconcealedIsDecoded, Rendered
  <2>6. buffer'.age = None \/ buffer'.windows = layout'.windows
    BY <1>1, <1>5, <1>7, <1>10
  <2> QED BY <1>1, <1>10, <2>4, <2>5, <2>6 DEF Images, Kept, WindowsFitUnlessInter
<1>11. CASE ~switched /\ method = "Inter"
  <2>1. /\ concealState' # "Single"
        /\ concealState' \in {"Ok", "FadeIn"} => (Stored(frameOk) <=> frameOk)
        /\ concealState' = "Ok" => concealState \in {"Ok", "FadeIn"}
        /\ concealState' = "Ok" /\ ~Interpolated(frameOk) => prevFrameOk[2]
        /\ concealState' = "FadeIn" => prevFrameOk[2] \/ frameOk
    BY <1>11, KeptStep DEF Images
  <2>2. Kept'
    BY <1>1, <1>7, <1>11, <2>1 DEF Kept
  <2>3. UnconcealedIsDecoded'
    <3> SUFFICES ASSUME Applied(frameOk) = 0
        PROVE  ~out'.image.altered /\ out'.image.spectrum.age \in {1, None}
      BY <1>1, <1>6, <1>11 DEF UnconcealedIsDecoded
    <3>1. /\ ~MuteReleaseActive(frameOk) /\ concealState' = "Ok"
          /\ ~(Interpolated(frameOk) /\ Stored(frameOk))
      BY <1>11 DEF Applied
    <3>2. ~Interpolated(frameOk) /\ prevFrameOk[2]
      BY <2>1, <3>1 DEF Interpolated
    <3>3. out'.image = Rendered(Older, layout.windows,
                                ~prevFrameOk[2] \/ MuteReleaseActive(frameOk))
      BY <1>6, <1>11, <3>1, <3>2 DEF Render, RenderInter
    <3>4. buffer.age \in {0, None}
      BY <1>11, <2>1, <3>1, <3>2 DEF Images, Kept
    <3>5. Older.age \in {1, None}
      BY <1>4, <3>4
    <3>6. out'.image.spectrum = Older
      BY <3>3 DEF Rendered
    <3>7. out'.image.altered = (~prevFrameOk[2] \/ MuteReleaseActive(frameOk))
      BY <3>3 DEF Rendered
    <3>8. ~out'.image.altered
      BY <3>1, <3>2, <3>7, Zenon
    <3> QED BY <3>5, <3>6, <3>8
  <2> QED BY <1>1, <1>11, <2>2, <2>3 DEF Images, WindowsFitUnlessInter
<1> QED BY <1>2, <1>8, <1>9, <1>10, <1>11

LEMMA ImagesHold ==
  ASSUME SlopesFit, numFadeInFrames > 0
  PROVE  Spec => []Images
<1>1. Init => Images
  <2> SUFFICES ASSUME Init PROVE Images
    OBVIOUS
  <2>1. buffer.age = None /\ out.applied = 1 /\ out.image.spectrum.age = None
    BY DEF Init, Cleared, Nothing, Rendered, Zeros
  <2>2. concealState = "Ok"
    BY DEF Init
  <2> QED BY <2>1, <2>2 DEF Images, Kept, UnconcealedIsDecoded, WindowsFitUnlessInter,
                            WindowsFitSpectrum
<1>2. Inv /\ Images /\ [Next]_vars => Images'
  <2> SUFFICES ASSUME Inv, Images, [Next]_vars PROVE Images'
    OBVIOUS
  <2>1. CASE \E frameOk \in BOOLEAN, new \in Layouts :
                Allowed(method, new) /\ Apply(frameOk, new)
    BY <2>1, ImageStep
  <2>2. CASE \E m \in Methods : SetMethod(m)
    <3>1. switched'
      BY <2>2 DEF SetMethod
    <3> QED BY <3>1 DEF Images, Kept, UnconcealedIsDecoded, WindowsFitUnlessInter
  <2>3. CASE InitChannelData
    <3>1. buffer'.age = None /\ out'.applied = 1 /\ out'.image.spectrum.age = None
      BY <2>3 DEF InitChannelData, Cleared, Nothing, Rendered, Zeros
    <3>2. concealState' = "Ok"
      BY <2>3 DEF InitChannelData
    <3> QED BY <3>1, <3>2 DEF Images, Kept, UnconcealedIsDecoded,
                              WindowsFitUnlessInter, WindowsFitSpectrum
  <2>4. CASE UNCHANGED vars
    BY <2>4 DEF vars, Images, Kept, UnconcealedIsDecoded, WindowsFitUnlessInter,
                WindowsFitSpectrum
  <2> QED BY <2>1, <2>2, <2>3, <2>4 DEF Next
<1> QED BY <1>1, <1>2, ConcealInvariant, PTL DEF Spec

(* What CConcealment_Apply passes off as not concealed is the last decoded  *)
(* spectrum or, under Inter, the one before.  Without fade-in frames it is  *)
(* not: the first frame after a mute release is an old spectrum.            *)
THEOREM UnconcealedIsDecodedTheorem ==
  ASSUME SlopesFit, numFadeInFrames > 0
  PROVE  Spec => []UnconcealedIsDecoded
<1>1. Images => UnconcealedIsDecoded
  BY DEF Images
<1> QED BY <1>1, ImagesHold, PTL

(* Under every method but Inter a spectrum is rendered with the windows it  *)
(* was decoded with.                                                        *)
THEOREM WindowsFitUnlessInterTheorem ==
  ASSUME SlopesFit, numFadeInFrames > 0
  PROVE  Spec => []WindowsFitUnlessInter
<1>1. Images => WindowsFitUnlessInter
  BY DEF Images
<1> QED BY <1>1, ImagesHold, PTL

(* The indices, counters and spectra stay in their ranges.                  *)
THEOREM TypeCorrect ==
  ASSUME SlopesFit
  PROVE  Spec => []Type
<1>1. Inv => Type
  BY DEF Inv
<1> QED BY <1>1, ConcealInvariant, PTL

----------------------------------------------------------------------------
(* The gain.                                                                *)

(* findEquiFadeFrame compares half the factors: within the fade-in it must  *)
(* not take two different ones for equal.                                   *)
HalvesTell ==
  \A i, j \in 0 .. numFadeInFrames - 1 :
    Half(i) = Half(j) => FadeFactor[i] = FadeFactor[j]

(* The factors fall, from full scale.                                       *)
LEMMA FactorsFall ==
  \A i, j \in Int : i <= j /\ j < NumFactors =>
    /\ FactorOrFull(i) \in Int /\ FactorOrFull(j) \in Int
    /\ 0 <= FactorOrFull(j) /\ FactorOrFull(j) <= FactorOrFull(i)
    /\ FactorOrFull(i) <= FullScale
<1> SUFFICES ASSUME NEW i \in Int, NEW j \in Int, i <= j, j < NumFactors
             PROVE  /\ FactorOrFull(i) \in Int /\ FactorOrFull(j) \in Int
                    /\ 0 <= FactorOrFull(j) /\ FactorOrFull(j) <= FactorOrFull(i)
                    /\ FactorOrFull(i) <= FullScale
  OBVIOUS
<1>1. \A k \in Index : FadeFactor[k] \in Int /\ 0 <= FadeFactor[k]
                         /\ FadeFactor[k] <= FullScale
  <2> SUFFICES ASSUME NEW k \in Index
               PROVE  /\ FadeFactor[k] \in Int /\ 0 <= FadeFactor[k]
                      /\ FadeFactor[k] <= FullScale
    OBVIOUS
  <2>1. FadeFactor[k] \in 0 .. FullScale
    BY FadeFactors
  <2>2. \A n \in 0 .. FullScale : n \in Int /\ 0 <= n /\ n <= FullScale
    BY DEF FullScale
  <2> QED BY <2>1, <2>2
<1>2. CASE i < 0 /\ j < 0
  BY <1>2 DEF FactorOrFull, FullScale
<1>3. CASE i < 0 /\ j >= 0
  <2>1. j \in Index
    BY <1>3 DEF Index, NumFactors
  <2> QED BY <1>1, <1>3, <2>1 DEF FactorOrFull, FullScale
<1>4. CASE i >= 0
  <2>1. i \in Index /\ j \in Index /\ j >= 0
    BY <1>4 DEF Index, NumFactors
  <2>2. FadeFactor[i] >= FadeFactor[j]
    <3>1. CASE i = j
      BY <1>1, <2>1, <3>1
    <3>2. CASE i < j
      BY <2>1, <3>2, FadeFactors
    <3> QED BY <3>1, <3>2
  <2> QED BY <1>1, <1>4, <2>1, <2>2 DEF FactorOrFull
<1> QED BY <1>2, <1>3, <1>4

(* The gain a fade-out at cnt has at least, with any method.                *)
Ahead(cnt) == IF cnt + 1 > numFadeOutFrames THEN 0 ELSE FactorOrFull(cnt)

GainBound ==
  /\ concealState \in {"Single", "FadeOut"} =>
       Ahead(fade.cnt) <= fade_old /\ fade_old <= FactorOrFull(fade.cnt - 1)
  /\ concealState = "FadeIn" => fade_old = FactorOrFull(fade.cnt - 1)

LEMMA FadeInIndexBack ==
  ASSUME NEW act \in Index, numFadeInFrames > 0
  PROVE  FadeInIndex(act) \in Int /\ FadeInIndex(act) <= act
<1> DEFINE n == Nearest(act)
<1>1. n \in Int /\ n >= 0 /\ n <= act /\ act \in Int
  BY NearestIsEqual DEF Index, NumFactors
<1>2. numFadeInFrames \in Nat
  BY Parameters
<1> HIDE DEF n
<1>3. \E m \in Int : m <= n /\ FadeInIndex(act) \in {m, m - 1}
  <2>1. CASE n > numFadeInFrames
    <3>1. numFadeInFrames - 1 <= n /\ numFadeInFrames - 1 \in Int
            /\ Larger(numFadeInFrames - 1, 0) = numFadeInFrames - 1
      BY <1>1, <1>2, <2>1 DEF Larger
    <3>2. FadeInIndex(act) \in {numFadeInFrames - 1, numFadeInFrames - 1 - 1}
      BY <2>1, <3>1 DEF FadeInIndex, n
    <3> QED BY <3>1, <3>2
  <2>2. CASE ~(n > numFadeInFrames)
    BY <1>1, <2>2 DEF FadeInIndex, n
  <2> QED BY <2>1, <2>2
<1> QED BY <1>1, <1>3

LEMMA FadeOutIndexIs ==
  ASSUME NEW act \in Index, act < NumFactors - 1
  PROVE  FadeOutIndex(act) = Nearest(act) + 1
<1> DEFINE n == Nearest(act)
<1>1. n \in Index /\ n <= act /\ Half(n) = Half(act) /\ Half(act) \in Int
  BY NearestIsEqual, HalfIsInt
<1>2. Reference(act) = Half(act)
  BY DEF Reference, Index, NumFactors
<1> HIDE DEF n
<1>3. FadeOutIndex(act) = n + 1
  BY <1>1, <1>2 DEF FadeOutIndex, Index, NumFactors, n
<1> QED BY <1>3 DEF n

(* Where the state machine goes in one frame: a fade-out only goes on, a    *)
(* fade-in only back, and the turn between them is at the nearest factor.   *)
Course ==
  /\ concealState \in {"Single", "FadeOut"} /\ concealState' \in {"Single", "FadeOut"} =>
       fade'.cnt >= fade.cnt + 1 \/ (method = "Mute" /\ fade'.cnt = fade.cnt)
  /\ concealState = "FadeIn" /\ concealState' \in {"Single", "FadeOut"} =>
       fade'.cnt >= Nearest(fade.cnt) + 1
  /\ concealState = "Mute" => concealState' \notin {"Single", "FadeOut"}
  /\ concealState' = "FadeIn" =>
       \/ concealState = "Mute"
       \/ concealState \in {"FadeIn", "FadeOut"} /\ fade'.cnt <= fade.cnt

LEMMA NoiseCourse ==
  ASSUME Inv, SlopesFit, NEW frameOk \in BOOLEAN, NEW lay \in AllLayouts,
         UpdateNoise(frameOk, lay)
  PROVE  Course
<1> DEFINE valid == NextValid(frameOk)
           held == IF frameOk THEN Rewound(fade) ELSE fade
           less == [fade EXCEPT !.cnt = @ - 1]
           back == [NoFade EXCEPT !.cnt = FadeOutIndex(fade.cnt) - 1]
<1>a. /\ fade \in Fades /\ InStep(fade) /\ fade.cnt \in Int
      /\ concealState \in States /\ cntValidFrames \in Nat
  BY Before
<1>b. valid \in Nat
  BY <1>a DEF NextValid
<1>c. held \in Fades /\ InStep(held) /\ held.cnt = fade.cnt
  BY <1>a, ChangedFades
<1>d. less \in Fades /\ InStep(less) /\ less.cnt = fade.cnt - 1
  <2>1. fade.cnt - 1 \in Int
    BY <1>a
  <2> QED BY <1>a, <2>1, ChangedFades
<1> HIDE DEF valid, held, less
<1>1. CASE concealState = "Ok"
  <2>1. concealState' \in {"Ok", "Single", "Mute"}
    <3>1. CASE Stay
      BY <1>1, <3>1 DEF Stay
    <3>2. CASE Attenuate("Single", NoFade, 0, lay)
      BY <3>2 DEF Attenuate, Become
    <3>3. CASE Become("Mute", NoFade, 0)
      BY <3>3 DEF Become
    <3> QED BY <1>1, <3>1, <3>2, <3>3 DEF UpdateNoise
  <2> QED BY <1>1, <2>1 DEF Course
<1>2. CASE concealState = "Single"
  <2>1. CASE Become("Ok", fade, valid) \/ Become("Mute", fade, valid)
    BY <1>2, <2>1 DEF Become, Course
  <2>2. CASE Attenuate("FadeOut", fade, valid, lay)
    <3>1. concealState' = "FadeOut" /\ fade'.cnt \in Int /\ fade'.cnt - fade.cnt \in 1 .. 2
      BY <1>a, <2>2, AttenuateStep
    <3>2. fade'.cnt >= fade.cnt + 1
      BY <1>a, <3>1
    <3> QED BY <1>2, <3>1, <3>2 DEF Course
  <2> QED BY <1>2, <2>1, <2>2 DEF UpdateNoise, valid
<1>3. CASE concealState = "FadeOut"
  <2>1. CASE Become("Mute", held, valid)
    BY <1>3, <2>1 DEF Become, Course
  <2>2. CASE Attenuate("FadeOut", held, valid, lay)
    <3>1. concealState' = "FadeOut" /\ fade'.cnt \in Int /\ fade'.cnt - held.cnt \in 1 .. 2
      BY <1>c, <2>2, AttenuateStep
    <3>2. fade'.cnt >= fade.cnt + 1
      BY <1>a, <1>c, <3>1
    <3> QED BY <1>3, <3>1, <3>2 DEF Course
  <2>3. CASE Release(fade, valid, FadeInIndex(fade.cnt))
    <3>1. fade.cnt \in Index
      BY <1>3 DEF Inv, FadeBounds
    <3>2. CASE numFadeInFrames > 0
      <4>1. /\ FadeInIndex(fade.cnt) \in 0 .. numFadeInFrames - 1
            /\ FadeInIndex(fade.cnt) <= fade.cnt
        BY <3>1, <3>2, FadeInIndexBound, FadeInIndexBack
      <4>2. concealState' = "FadeIn" /\ fade'.cnt = FadeInIndex(fade.cnt)
        BY <1>a, <1>b, <2>3, <3>2, <4>1, ReleaseStep
      <4> QED BY <1>3, <4>1, <4>2 DEF Course
    <3>3. CASE ~(numFadeInFrames > 0)
      BY <1>3, <2>3, <3>3 DEF Release, Become, Course
    <3> QED BY <3>2, <3>3
  <2> QED BY <1>3, <2>1, <2>2, <2>3 DEF UpdateNoise, valid, held
<1>4. CASE concealState = "Mute"
  <2>1. concealState' \in {"FadeIn", "Ok", "Mute"}
    BY <1>4 DEF UpdateNoise, Release, Become
  <2> QED BY <1>4, <2>1 DEF Course
<1>5. CASE concealState = "FadeIn"
  <2>1. CASE Become(IF less.cnt < 0 THEN "Ok" ELSE "FadeIn", less, valid)
             \/ Become("Mute", less, valid)
    <3>1. concealState' \in {"Ok", "FadeIn", "Mute"} /\ fade' = less
      BY <2>1 DEF Become
    <3>2. fade'.cnt <= fade.cnt
      BY <1>a, <1>d, <3>1
    <3> QED BY <1>5, <3>1, <3>2 DEF Course
  <2>2. CASE Attenuate("FadeOut", back, valid, lay)
    <3>1. fade.cnt \in Index /\ fade.cnt < NumFactors - 1
      BY <1>5, Parameters DEF Inv, FadeBounds, SlopesFit, Index, NumFactors
    <3>2. FadeOutIndex(fade.cnt) = Nearest(fade.cnt) + 1
            /\ Nearest(fade.cnt) \in Int
      BY <3>1, FadeOutIndexIs, NearestIsEqual DEF Index
    <3>3. NoFade \in Fades /\ InStep(NoFade)
      BY <1>a, ChangedFades
    <3>4. back \in Fades /\ InStep(back) /\ back.cnt = Nearest(fade.cnt)
      <4>1. FadeOutIndex(fade.cnt) - 1 \in Int
              /\ FadeOutIndex(fade.cnt) - 1 = Nearest(fade.cnt)
        BY <3>2
      <4> QED BY <3>3, <4>1, ChangedFades
    <3> HIDE DEF back
    <3>5. concealState' = "FadeOut" /\ fade'.cnt \in Int /\ fade'.cnt - back.cnt \in 1 .. 2
      BY <2>2, <3>4, AttenuateStep
    <3>6. fade'.cnt >= Nearest(fade.cnt) + 1
      BY <3>2, <3>4, <3>5
    <3> QED BY <1>5, <3>5, <3>6 DEF Course
  <2> QED BY <1>5, <2>1, <2>2 DEF UpdateNoise, valid, less
<1> QED BY <1>a, <1>1, <1>2, <1>3, <1>4, <1>5 DEF States

LEMMA InterCourse ==
  ASSUME Inv, SlopesFit, NEW frameOk \in BOOLEAN, UpdateInter(frameOk)
  PROVE  Course
<1> DEFINE valid == NextValid(Estimated(frameOk))
           more == [fade EXCEPT !.cnt = @ + 1]
           less == [fade EXCEPT !.cnt = @ - 1]
           turn == [fade EXCEPT !.cnt = FadeOutIndex(fade.cnt)]
<1>a. /\ fade \in Fades /\ InStep(fade) /\ fade.cnt \in Int
      /\ concealState \in States /\ cntValidFrames \in Nat
  BY Before
<1>b. valid \in Nat
  BY <1>a DEF NextValid
<1>c. more \in Fades /\ InStep(more) /\ more.cnt = fade.cnt + 1
  <2>1. fade.cnt + 1 \in Int
    BY <1>a
  <2> QED BY <1>a, <2>1, ChangedFades
<1>d. less \in Fades /\ InStep(less) /\ less.cnt = fade.cnt - 1
  <2>1. fade.cnt - 1 \in Int
    BY <1>a
  <2> QED BY <1>a, <2>1, ChangedFades
<1> HIDE DEF valid, more, less, turn
<1>1. CASE concealState = "Ok"
  BY <1>1 DEF UpdateInter, Course, Stay, Become
<1>2. CASE concealState = "Single"
  BY <1>2 DEF UpdateInter, Course, Become
<1>3. CASE concealState = "FadeOut"
  <2>1. CASE Become(IF more.cnt >= numFadeOutFrames THEN "Mute" ELSE "FadeOut",
                    more, valid)
    <3>1. concealState' \in {"Mute", "FadeOut"} /\ fade' = more
      BY <2>1 DEF Become
    <3>2. fade'.cnt >= fade.cnt + 1
      BY <1>a, <1>c, <3>1
    <3> QED BY <1>3, <3>1, <3>2 DEF Course
  <2>2. CASE Release(more, valid, FadeInIndex(fade.cnt))
    <3>1. fade.cnt \in Index
      BY <1>3 DEF Inv, FadeBounds
    <3>2. CASE numFadeInFrames > 0
      <4>1. /\ FadeInIndex(fade.cnt) \in 0 .. numFadeInFrames - 1
            /\ FadeInIndex(fade.cnt) <= fade.cnt
        BY <3>1, <3>2, FadeInIndexBound, FadeInIndexBack
      <4>2. concealState' = "FadeIn" /\ fade'.cnt = FadeInIndex(fade.cnt)
        BY <1>b, <1>c, <2>2, <3>2, <4>1, ReleaseStep
      <4> QED BY <1>3, <4>1, <4>2 DEF Course
    <3>3. CASE ~(numFadeInFrames > 0)
      BY <1>3, <2>2, <3>3 DEF Release, Become, Course
    <3> QED BY <3>2, <3>3
  <2> QED BY <1>3, <2>1, <2>2 DEF UpdateInter, valid, more
<1>4. CASE concealState = "Mute"
  <2>1. concealState' \in {"FadeIn", "Ok", "Mute"}
    BY <1>4 DEF UpdateInter, Release, Become
  <2> QED BY <1>4, <2>1 DEF Course
<1>5. CASE concealState = "FadeIn"
  <2>1. CASE Become(IF less.cnt < 0 THEN "Ok" ELSE "FadeIn", less, valid)
             \/ Become("Mute", less, valid)
    <3>1. concealState' \in {"Ok", "FadeIn", "Mute"} /\ fade' = less
      BY <2>1 DEF Become
    <3>2. fade'.cnt <= fade.cnt
      BY <1>a, <1>d, <3>1
    <3> QED BY <1>5, <3>1, <3>2 DEF Course
  <2>2. CASE Become("FadeOut", turn, valid)
    <3>1. fade.cnt \in Index /\ fade.cnt < NumFactors - 1
      BY <1>5, Parameters DEF Inv, FadeBounds, SlopesFit, Index, NumFactors
    <3>2. FadeOutIndex(fade.cnt) = Nearest(fade.cnt) + 1
            /\ Nearest(fade.cnt) \in Int
      BY <3>1, FadeOutIndexIs, NearestIsEqual DEF Index
    <3>3. turn.cnt = Nearest(fade.cnt) + 1
      <4>1. FadeOutIndex(fade.cnt) \in Int
        BY <3>2
      <4> QED BY <1>a, <3>2, <4>1, ChangedFades DEF turn
    <3>4. concealState' = "FadeOut" /\ fade' = turn
      BY <2>2 DEF Become
    <3>5. fade'.cnt >= Nearest(fade.cnt) + 1
      BY <3>2, <3>3, <3>4
    <3> QED BY <1>5, <3>4, <3>5 DEF Course
  <2> QED BY <1>5, <2>1, <2>2 DEF UpdateInter, valid, less, turn
<1> QED BY <1>a, <1>1, <1>2, <1>3, <1>4, <1>5 DEF States

(* The gain of a fade-out lies between that of method Inter, which is one   *)
(* factor ahead, and that of method Noise.                                  *)
LEMMA GainBetween ==
  ASSUME NEW state \in {"Single", "FadeOut"}, NEW cnt \in Index
  PROVE  /\ Gain(state, cnt) \in Int /\ Ahead(cnt) \in Int
         /\ Ahead(cnt) <= Gain(state, cnt)
         /\ Gain(state, cnt) <= FactorOrFull(cnt - 1)
         /\ method # "Noise" => Gain(state, cnt) = Ahead(cnt)
<1>1. cnt \in Int /\ cnt - 1 \in Int /\ cnt - 1 <= cnt /\ cnt < NumFactors
  BY DEF Index, NumFactors
<1>2. /\ FactorOrFull(cnt) \in Int /\ FactorOrFull(cnt - 1) \in Int
      /\ 0 <= FactorOrFull(cnt) /\ FactorOrFull(cnt) <= FactorOrFull(cnt - 1)
  BY <1>1, FactorsFall
<1>3. CASE cnt + 1 > numFadeOutFrames
  BY <1>2, <1>3 DEF Gain, Ahead
<1>4. CASE ~(cnt + 1 > numFadeOutFrames)
  BY <1>2, <1>4 DEF Gain, Ahead
<1> QED BY <1>3, <1>4

(* A fade-out that is at least one further has at most that gain.           *)
LEMMA GainFurther ==
  ASSUME NEW state \in {"Single", "FadeOut"}, NEW cnt \in Index, NEW c \in Index,
         cnt >= c + 1
  PROVE  Gain(state, cnt) <= Ahead(c) /\ Gain(state, cnt) <= FactorOrFull(c)
<1>1. cnt \in Int /\ c \in Int /\ c <= cnt - 1 /\ cnt - 1 \in Int
        /\ cnt < NumFactors /\ cnt - 1 < NumFactors /\ c < NumFactors
        /\ numFadeOutFrames \in Int
  BY Parameters DEF Index, NumFactors
<1>2. /\ FactorOrFull(cnt - 1) \in Int /\ FactorOrFull(c) \in Int
      /\ FactorOrFull(cnt - 1) <= FactorOrFull(c) /\ 0 <= FactorOrFull(c)
      /\ 0 <= FactorOrFull(cnt - 1)
  BY <1>1, FactorsFall
<1>3. /\ Gain(state, cnt) \in Int /\ Gain(state, cnt) <= FactorOrFull(cnt - 1)
  BY GainBetween
<1>4. CASE cnt + 1 > numFadeOutFrames
  <2>1. Gain(state, cnt) = 0
    BY <1>4 DEF Gain
  <2> QED BY <1>2, <2>1 DEF Ahead
<1>5. CASE ~(cnt + 1 > numFadeOutFrames)
  <2>1. ~(c + 1 > numFadeOutFrames)
    BY <1>1, <1>5
  <2> QED BY <1>2, <1>3, <2>1 DEF Ahead
<1> QED BY <1>4, <1>5

(* One frame: the gain goes the way of the state.                           *)
GainFollows ==
  /\ concealState' \in {"Single", "FadeOut", "Mute"} => fade_old' <= fade_old
  /\ concealState' \in {"Ok", "FadeIn"} => fade_old' >= fade_old

LEMMA GainStep ==
  ASSUME Inv, Inv', SlopesFit, HalvesTell, GainBound, Course,
         fade_old' = Gain(concealState', fade'.cnt)
  PROVE  GainBound' /\ GainFollows
<1> DEFINE c == fade.cnt
           d == fade'.cnt
<1>1. /\ concealState \in States /\ concealState' \in States
      /\ fade_old \in Int /\ fade_old' \in Int
      /\ 0 <= fade_old /\ fade_old <= FullScale /\ FullScale \in Int
      /\ concealState = "Ok" => fade_old = FullScale
      /\ concealState = "Mute" => fade_old = 0
      /\ concealState' = "Ok" => fade_old' = FullScale
      /\ concealState' = "Mute" => fade_old' = 0
      /\ 0 <= fade_old' /\ fade_old' <= FullScale
  <2>1. /\ concealState \in States /\ concealState' \in States
        /\ fade_old \in 0 .. FullScale /\ fade_old' \in 0 .. FullScale
    BY DEF Inv, Type
  <2>2. FullScale \in Int
    BY DEF FullScale
  <2>3. /\ concealState = "Ok" => fade_old = FullScale
        /\ concealState = "Mute" => fade_old = 0
        /\ concealState' = "Ok" => fade_old' = FullScale
        /\ concealState' = "Mute" => fade_old' = 0
    BY DEF Inv, GainOfState
  <2> QED BY <2>1, <2>2, <2>3
<1>2. /\ concealState \in {"Single", "FadeOut"} => c \in Index
      /\ concealState = "FadeIn" =>
           c \in 0 .. numFadeInFrames - 1 /\ c \in Index /\ c < NumFactors - 1
      /\ concealState' \in {"Single", "FadeOut"} => d \in Index
      /\ concealState' = "FadeIn" =>
           d \in 0 .. numFadeInFrames - 1 /\ d \in Index /\ d < NumFactors - 1
  BY Parameters DEF Inv, FadeBounds, SlopesFit, Index, NumFactors
<1>3. \A i \in Index : i \in Int /\ i - 1 \in Int /\ i < NumFactors /\ i - 1 < NumFactors
  BY DEF Index, NumFactors
<1> HIDE DEF c, d
<1>4. CASE concealState' \in {"Ok", "Mute"}
  BY <1>1, <1>4 DEF GainBound, GainFollows
<1>5. CASE concealState' = "FadeIn"
  <2>1. fade_old' = FactorOrFull(d - 1)
    BY <1>5 DEF Gain, d
  <2>2. GainBound'
    BY <1>5, <2>1 DEF GainBound, d
  <2>3. CASE concealState = "Mute"
    BY <1>1, <1>5, <2>2, <2>3 DEF GainFollows
  <2>4. CASE concealState \in {"FadeIn", "FadeOut"} /\ d <= c
    <3>1. c \in Index /\ d \in Index
      BY <1>2, <1>5, <2>4
    <3>2. c - 1 \in Int /\ d - 1 \in Int /\ d - 1 <= c - 1 /\ c - 1 < NumFactors
      BY <1>3, <2>4, <3>1
    <3>3. /\ FactorOrFull(c - 1) <= FactorOrFull(d - 1)
          /\ FactorOrFull(c - 1) \in Int /\ FactorOrFull(d - 1) \in Int
      BY <3>2, FactorsFall
    <3>4. fade_old <= FactorOrFull(c - 1)
      BY <1>1, <2>4, <3>3 DEF GainBound, c
    <3>5. fade_old' >= fade_old
      BY <1>1, <2>1, <3>3, <3>4
    <3> QED BY <1>5, <2>2, <3>5 DEF GainFollows
  <2> QED BY <1>5, <2>3, <2>4 DEF Course, c, d
<1>6. CASE concealState' \in {"Single", "FadeOut"}
  <2>1. fade_old' = Gain(concealState', d) /\ d \in Index
    BY <1>2, <1>6 DEF d
  <2>2. GainBound'
    BY <1>6, <2>1, GainBetween DEF GainBound, d, Ahead, FactorOrFull
  <2>3. fade_old' <= fade_old
    <3>1. CASE concealState = "Ok"
      BY <1>1, <3>1
    <3>2. CASE concealState \in {"Single", "FadeOut"}
      <4>1. c \in Index /\ Ahead(c) <= fade_old
        BY <1>2, <3>2 DEF GainBound, c
      <4>2. Gain(concealState', d) <= Ahead(c)
        <5>1. CASE d >= c + 1
          BY <1>6, <2>1, <4>1, <5>1, GainFurther
        <5>2. CASE method = "Mute" /\ d = c
          <6>1. Gain(concealState', d) = Ahead(c) /\ Ahead(c) \in Int
            BY <1>6, <2>1, <5>2, GainBetween
          <6> QED BY <6>1
        <5> QED BY <1>6, <3>2, <5>1, <5>2 DEF Course, c, d
      <4>3. Ahead(c) \in Int
        BY <3>2, <4>1, GainBetween
      <4> QED BY <1>1, <2>1, <4>1, <4>2, <4>3
    <3>3. CASE concealState = "FadeIn"
      <4> DEFINE i == Nearest(c)
      <4>1. c \in 0 .. numFadeInFrames - 1 /\ c \in Index /\ d >= i + 1
        BY <1>2, <1>6, <3>3 DEF Course, c, d
      <4>2. i \in Index /\ i <= c /\ Half(i) = Half(c)
        BY <4>1, NearestIsEqual
      <4> HIDE DEF i
      <4>3. Gain(concealState', d) <= FactorOrFull(i)
        BY <1>6, <2>1, <4>1, <4>2, GainFurther
      <4>4. /\ c \in Int /\ c - 1 \in Int /\ i \in Int /\ 0 <= i /\ 0 <= c
            /\ c < NumFactors /\ c - 1 <= c /\ c - 1 < NumFactors
        BY <4>1, <4>2 DEF Index, NumFactors
      <4>5. /\ FactorOrFull(c) <= FactorOrFull(c - 1) /\ FactorOrFull(c) \in Int
            /\ FactorOrFull(c - 1) \in Int /\ FactorOrFull(i) \in Int
        BY <4>2, <4>4, FactorsFall
      <4>6. FactorOrFull(i) = FactorOrFull(c)
        <5>1. i \in 0 .. numFadeInFrames - 1
          BY <4>1, <4>2, <4>4, Parameters
        <5>2. FadeFactor[i] = FadeFactor[c]
          BY <4>1, <4>2, <5>1 DEF HalvesTell
        <5> QED BY <4>4, <5>2 DEF FactorOrFull
      <4>7. fade_old = FactorOrFull(c - 1)
        BY <3>3 DEF GainBound, c
      <4> QED BY <1>1, <2>1, <4>3, <4>5, <4>6, <4>7
    <3>4. concealState # "Mute"
      BY <1>6 DEF Course
    <3> QED BY <1>1, <3>1, <3>2, <3>3, <3>4 DEF States
  <2> QED BY <1>6, <2>2, <2>3 DEF GainFollows
<1> QED BY <1>1, <1>4, <1>5, <1>6 DEF States

LEMMA NextGain ==
  ASSUME Inv, Inv', SlopesFit, HalvesTell, GainBound, [Next]_vars
  PROVE  GainBound' /\ GainFollows
<1>1. ASSUME NEW frameOk \in BOOLEAN, NEW new \in Layouts, Apply(frameOk, new)
      PROVE  GainBound' /\ GainFollows
  <2> DEFINE lay == IF Stored(frameOk) THEN new ELSE layout
  <2>1. lay \in AllLayouts
    BY ConcealParams DEF Inv, Type
  <2>2. UpdateState(frameOk, lay) /\ fade_old' = Gain(concealState', fade'.cnt)
    BY <1>1 DEF Apply
  <2> HIDE DEF lay
  <2>3. Course
    <3>1. CASE method = "Noise" /\ UpdateNoise(frameOk, lay)
      BY <2>1, <3>1, NoiseCourse
    <3>2. CASE method = "Inter" /\ UpdateInter(frameOk)
      BY <3>2, InterCourse
    <3>3. CASE method = "Mute" /\ Stay
      <4>1. fade.cnt \in Int /\ fade' = fade /\ concealState' = concealState
        BY <3>3, Before DEF Stay
      <4>2. fade'.cnt <= fade.cnt /\ fade'.cnt = fade.cnt
        BY <4>1
      <4> QED BY <3>3, <4>1, <4>2 DEF Course
    <3> QED BY <2>2, <3>1, <3>2, <3>3 DEF UpdateState
  <2> QED BY <2>2, <2>3, GainStep
<1>2. ASSUME concealState' = concealState, fade' = fade, fade_old' = fade_old
      PROVE  GainBound' /\ GainFollows
  <2>1. fade_old \in Int
    <3>1. fade_old \in 0 .. FullScale
      BY DEF Inv, Type
    <3> QED BY ONLY <3>1 DEF FullScale
  <2> QED BY <1>2, <2>1 DEF GainBound, GainFollows, Ahead, FactorOrFull
<1>3. ASSUME NEW m \in Methods, SetMethod(m) PROVE GainBound' /\ GainFollows
  BY <1>2, <1>3 DEF SetMethod
<1>4. CASE InitChannelData
  <2>1. concealState' = "Ok" /\ fade_old' = FullScale
    BY <1>4 DEF InitChannelData
  <2>2. fade_old \in Int /\ fade_old <= FullScale /\ FullScale \in Int
    <3>1. fade_old \in 0 .. FullScale
      BY DEF Inv, Type
    <3> QED BY ONLY <3>1 DEF FullScale
  <2> QED BY <2>1, <2>2 DEF GainBound, GainFollows
<1>5. CASE UNCHANGED vars
  BY <1>2, <1>5 DEF vars
<1> QED BY <1>1, <1>3, <1>4, <1>5 DEF Next

(* The gain at the end of a frame never rises while frames are lost and     *)
(* never falls on the way back, for every slope in whose fade-in half the   *)
(* factors tell them apart, and with the method changed at any time.        *)
THEOREM GainFollowsStateTheorem ==
  ASSUME SlopesFit, HalvesTell
  PROVE  Spec => GainFollowsState
<1>1. Init => GainBound
  BY DEF Init, GainBound
<1>2. Inv /\ Inv' /\ GainBound /\ [Next]_vars => GainBound'
  BY NextGain
<1>3. Inv /\ Inv' /\ GainBound /\ [Next]_vars => [GainFollows]_vars
  BY NextGain
<1>4. Spec => []Inv
  BY ConcealInvariant
<1>5. [GainFollows]_vars =>
        [/\ concealState' \in {"Single", "FadeOut", "Mute"} => fade_old' <= fade_old
         /\ concealState' \in {"Ok", "FadeIn"} => fade_old' >= fade_old]_vars
  BY DEF GainFollows
<1> QED BY <1>1, <1>2, <1>3, <1>4, <1>5, PTL DEF Spec, GainFollowsState
=============================================================================
