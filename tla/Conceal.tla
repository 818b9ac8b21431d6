------------------------------ MODULE Conceal ------------------------------
(***************************************************************************)
(* The error concealment of one AAC channel (libAACdec/src/conceal.cpp).   *)
(* The decoder hands every frame, with its frameOk, to CConcealment_Apply, *)
(* which keeps the last good spectrum, updates the state machine and picks *)
(* the spectrum to render, and then to CConcealment_TDFading, which sets   *)
(* the gain the frame ends with.  The user may change the method between   *)
(* any two frames; the channels keep their state.                          *)
(*                                                                         *)
(* A spectrum is the number of frames since it was decoded.  The layout of *)
(* a frame is its number of windows and the length of its last window      *)
(* group: one long window, eight short ones, or the 4, 2 or 1 windows of   *)
(* an LPD frame.  ACELP frames, which have no spectrum, are left out.      *)
(***************************************************************************)
EXTENDS Integers

CONSTANTS
  Methods,               \* the concealment methods the user switches between
  Layouts,               \* the layouts of the frames that are decoded
  numFadeOutFrames,
  numFadeInFrames,
  numMuteReleaseFrames,
  FadeFactor,            \* fadeOutFactor[], and fadeInFactor[] as well
  MaxAge                 \* bound: age from which all spectra count as old

NumFactors == 32         \* CONCEAL_MAX_NUM_FADE_FACTORS
Index == 0 .. NumFactors - 1
FullScale == 32767       \* MAXVAL_SGL
Long == [windows |-> 1, group |-> 1]
AllLayouts == {Long, [windows |-> 2, group |-> 1], [windows |-> 4, group |-> 1]}
                \cup [windows : {8}, group : 1 .. 8]

(* The ranges CConcealment_SetParams accepts.                               *)
ASSUME ConcealParams ==
  /\ Methods \subseteq {"Mute", "Noise", "Inter"}
  /\ Layouts \subseteq AllLayouts
  /\ numFadeOutFrames \in Index
  /\ numFadeInFrames \in Index
  /\ numMuteReleaseFrames \in 0 .. 2 * NumFactors - 1
ASSUME FadeFactors ==
  /\ FadeFactor \in [Index -> 0 .. FullScale]
  /\ \A i, j \in Index : i < j => FadeFactor[i] >= FadeFactor[j]
ASSUME AgeBound == MaxAge \in Nat /\ MaxAge > 2

VARIABLES
  method,
  switched,      \* history: the method has been changed, and nothing reset since
  concealState,
  fade,          \* cntFadeFrames, winGrpOffset[] and attGrpOffset[]
  cntValidFrames,
  prevFrameOk,
  layout,        \* windowSequence and lastWinGrpLen
  buffer,        \* spectralCoefficient: its age and its number of windows
  fade_old,      \* the gain at the end of the last frame
  out,           \* history: what the last frame rendered
  runs           \* history: good and lost frames in a row, up to a cap

vars == <<method, switched, concealState, fade, cntValidFrames, prevFrameOk, layout,
          buffer, fade_old, out, runs>>

States == {"Ok", "Single", "FadeIn", "Mute", "FadeOut"}
None == MaxAge + 1                        \* a spectrum of zeros
Cleared == [age |-> None, windows |-> 1]
Both(v) == [mode \in 0 .. 1 |-> v]
NoFade == [cnt |-> 0, win |-> Both(0), att |-> Both(0)]
Rewound(f) == [NoFade EXCEPT !.cnt = f.cnt]

Lesser(a, b) == IF a < b THEN a ELSE b
Larger(a, b) == IF a > b THEN a ELSE b

----------------------------------------------------------------------------
Half(i) == FadeFactor[i] \div 2
Reference(act) == IF act < 0 THEN FullScale ELSE Half(act)
Distance(i, act) == LET d == Half(i) - Reference(act) IN IF d < 0 THEN -d ELSE d

(* The first of the factors nearest to that of act.                         *)
Nearest(act) ==
  CHOOSE i \in Index :
    \A j \in Index :
      IF j < i THEN Distance(i, act) < Distance(j, act)
               ELSE Distance(i, act) <= Distance(j, act)

FadeInIndex_Unclamped(act) ==            \* mutant: no limit to the fade-in
  LET next == Nearest(act)
  IN  IF Half(next) <= Reference(act) /\ next > 0 THEN next - 1 ELSE next

(* findEquiFadeFrame, FADE-OUT => FADE-IN                                   *)
FadeInIndex(act) ==
  LET next == IF Nearest(act) > numFadeInFrames
                THEN Larger(numFadeInFrames - 1, 0) ELSE Nearest(act)
  IN  IF Half(next) <= Reference(act) /\ next > 0 THEN next - 1 ELSE next

FadeOutIndex_Zero(act) == 0              \* mutant: always from the start
FadeOutIndex_Skips(act) == Nearest(act) + 2          \* mutant: off by one

(* findEquiFadeFrame, FADE-IN => FADE-OUT                                   *)
FadeOutIndex(act) ==
  LET next == Nearest(act)
  IN  IF Half(next) >= Reference(act) /\ next < NumFactors - 1
        THEN next + 1 ELSE next

(* CConcealment_ApplyFadeOut: as many windows as a frame has are taken from *)
(* the last group, over and over; mode 0 counts the attenuation steps, mode *)
(* 1 copies the spectrum.                                                   *)
Stride(lay) == Larger(1, lay.windows \div (lay.group + 1))

(* Mutant: the source window does not return to the start of its group.     *)
ApplyFadeOut_NoRewind(mode, f, lay) ==
  LET taken == Lesser(f.win[mode], lay.group - 1) + lay.windows
      turns == Lesser(f.att[mode], Stride(lay) - 1) + taken \div lay.group
  IN  [f EXCEPT !.win[mode] = taken,
                !.att[mode] = turns % Stride(lay),
                !.cnt = IF mode = 0 THEN @ + turns \div Stride(lay) ELSE @]

ApplyFadeOut(mode, f, lay) ==
  LET taken == Lesser(f.win[mode], lay.group - 1) + lay.windows
      turns == Lesser(f.att[mode], Stride(lay) - 1) + taken \div lay.group
  IN  [f EXCEPT !.win[mode] = taken % lay.group,
                !.att[mode] = turns % Stride(lay),
                !.cnt = IF mode = 0 THEN @ + turns \div Stride(lay) ELSE @]

----------------------------------------------------------------------------
(* CConcealment_Apply                                                       *)

(* A good frame that the state machine does not release yet is concealed.   *)
MuteReleaseActive(frameOk) ==
  /\ frameOk
  /\ concealState \in {"Mute", "FadeOut"}
  /\ cntValidFrames + 1 <= numMuteReleaseFrames

Stored(frameOk) == frameOk /\ ~MuteReleaseActive(frameOk)

(* The energy interpolation gets along with one lost frame between two good *)
(* ones.                                                                    *)
Interpolated(frameOk) == prevFrameOk[1] /\ ~prevFrameOk[2] /\ frameOk
Estimated(frameOk) == prevFrameOk[2] \/ Interpolated(frameOk)

NextValid_KeepsCount(good) ==                        \* mutant: never reset
  IF concealState = "Ok" THEN cntValidFrames
  ELSE IF good THEN cntValidFrames + 1 ELSE cntValidFrames

NextValid(good) ==
  IF concealState = "Ok" THEN cntValidFrames
  ELSE IF good THEN cntValidFrames + 1 ELSE 0

Released_Late(valid) ==          \* mutant: the fade-in frames are muted, too
  valid > numMuteReleaseFrames + numFadeInFrames

Released(valid) == valid > numMuteReleaseFrames

Become(state, f, valid) ==
  /\ concealState' = state
  /\ fade' = f
  /\ cntValidFrames' = valid

Stay == UNCHANGED <<concealState, fade, cntValidFrames>>

(* Into Single or FadeOut with method Noise: the counter moves on (mode 0)  *)
(* and then the spectrum is copied (mode 1, CConcealment_ApplyNoise).       *)
Attenuate(state, f, valid, lay) ==
  Become(state, ApplyFadeOut(1, ApplyFadeOut(0, f, lay), lay), valid)

Release(f, valid, index) ==
  IF numFadeInFrames > 0
    THEN Become("FadeIn", [f EXCEPT !.cnt = index], valid)
    ELSE Become("Ok", f, valid)

(* CConcealment_UpdateState, method Noise                                   *)
UpdateNoise(frameOk, lay) ==
  LET valid == NextValid(frameOk)
      held  == IF frameOk THEN Rewound(fade) ELSE fade
      less  == [fade EXCEPT !.cnt = @ - 1]
  IN  \/ /\ concealState = "Ok" /\ frameOk
         /\ Stay
      \/ /\ concealState = "Ok" /\ ~frameOk
         /\ IF numFadeOutFrames > 0 THEN Attenuate("Single", NoFade, 0, lay)
                                    ELSE Become("Mute", NoFade, 0)
      \/ /\ concealState = "Single" /\ frameOk
         /\ Become("Ok", fade, valid)
      \/ /\ concealState = "Single" /\ ~frameOk
         /\ IF fade.cnt >= numFadeOutFrames
              THEN Become("Mute", fade, valid)
              ELSE Attenuate("FadeOut", fade, valid, lay)
      \/ /\ concealState = "FadeOut" /\ Released(valid)
         /\ Release(fade, valid, FadeInIndex(fade.cnt))
      \/ /\ concealState = "FadeOut" /\ ~Released(valid)
         /\ IF fade.cnt >= numFadeOutFrames
              THEN Become("Mute", held, valid)
              ELSE Attenuate("FadeOut", held, valid, lay)
      \/ /\ concealState = "Mute" /\ Released(valid)
         /\ Release(fade, valid, numFadeInFrames - 1)
      \/ /\ concealState = "Mute" /\ ~Released(valid)
         /\ Become("Mute", held, valid)
      \/ /\ concealState = "FadeIn" /\ frameOk
         /\ Become(IF less.cnt < 0 THEN "Ok" ELSE "FadeIn", less, valid)
      \/ /\ concealState = "FadeIn" /\ ~frameOk
         /\ IF numFadeOutFrames > 0
              THEN Attenuate("FadeOut",
                     [NoFade EXCEPT !.cnt = FadeOutIndex(fade.cnt) - 1], valid, lay)
              ELSE Become("Mute", less, valid)

(* CConcealment_UpdateState, method Inter                                   *)
UpdateInter(frameOk) ==
  LET valid == NextValid(Estimated(frameOk))
      more  == [fade EXCEPT !.cnt = @ + 1]
      less  == [fade EXCEPT !.cnt = @ - 1]
  IN  \/ /\ concealState = "Ok" /\ Estimated(frameOk)
         /\ Stay
      \/ /\ concealState = "Ok" /\ ~Estimated(frameOk)
         /\ Become(IF numFadeOutFrames > 0 THEN "FadeOut" ELSE "Mute",
                   [fade EXCEPT !.cnt = 0], 0)
      \/ /\ concealState = "Single"
         /\ Become("Ok", fade, valid)
      \/ /\ concealState = "FadeOut" /\ Released(valid)
         /\ Release(more, valid, FadeInIndex(fade.cnt))
      \/ /\ concealState = "FadeOut" /\ ~Released(valid)
         /\ Become(IF more.cnt >= numFadeOutFrames THEN "Mute" ELSE "FadeOut",
                   more, valid)
      \/ /\ concealState = "Mute" /\ Released(valid)
         /\ Release(fade, valid, numFadeInFrames - 1)
      \/ /\ concealState = "Mute" /\ ~Released(valid)
         /\ Become("Mute", fade, valid)
      \/ /\ concealState = "FadeIn" /\ (frameOk \/ prevFrameOk[2])
         /\ Become(IF less.cnt < 0 THEN "Ok" ELSE "FadeIn", less, valid)
      \/ /\ concealState = "FadeIn" /\ ~(frameOk \/ prevFrameOk[2])
         /\ IF numFadeOutFrames > 0
              THEN Become("FadeOut", [fade EXCEPT !.cnt = FadeOutIndex(fade.cnt)],
                          valid)
              ELSE Become("Mute", less, valid)

UpdateState(frameOk, lay) ==
  \/ method = "Mute" /\ Stay
  \/ method = "Noise" /\ UpdateNoise(frameOk, lay)
  \/ method = "Inter" /\ UpdateInter(frameOk)

(* The spectrum in the buffer, a frame later.                               *)
Older == [buffer EXCEPT !.age = IF @ = None THEN None ELSE Lesser(@ + 1, MaxAge)]
Zeros == Cleared

Rendered(spectrum, windows, altered) ==
  [spectrum |-> spectrum, windows |-> windows, altered |-> altered]

(* Mutant: the kept spectrum is rendered with the windows of the lost frame.*)
RenderNoise_LostWindows(fresh, kept, lay) ==
  CASE concealState' \in {"Ok", "FadeIn"} -> Rendered(fresh, fresh.windows, FALSE)
    [] concealState' = "Mute"             -> Rendered(Zeros, 1, TRUE)
    [] OTHER                              -> Rendered(kept, fresh.windows, TRUE)

(* CConcealment_ApplyNoise: in Single and FadeOut what was kept, with       *)
(* random signs.                                                            *)
RenderNoise(fresh, kept, lay) ==
  CASE concealState' \in {"Ok", "FadeIn"} -> Rendered(fresh, fresh.windows, FALSE)
    [] concealState' = "Mute"             -> Rendered(Zeros, 1, TRUE)
    [] OTHER                              -> Rendered(kept, lay.windows, TRUE)

(* CConcealment_ApplyInter: what was kept, a frame late; between two good   *)
(* frames a mix of both, else with random signs once a frame has been lost. *)
RenderInter_NoSwap(frameOk, new) ==      \* mutant: not a frame late
  IF concealState' = "Mute" THEN Rendered(Zeros, 1, TRUE)
  ELSE Rendered([age |-> 0, windows |-> new.windows], new.windows, ~frameOk)

RenderInter(frameOk, new) ==
  CASE concealState' = "Mute" -> Rendered(Zeros, 1, TRUE)
    [] concealState' # "Mute" /\ Interpolated(frameOk) /\ Stored(frameOk) ->
         LET windows == IF layout.windows = 8 /\ new.windows = 8 THEN 8 ELSE 1
         IN  Rendered([age |-> 1, windows |-> windows], windows, TRUE)
    [] OTHER -> Rendered(Older, layout.windows,
                         ~prevFrameOk[2] \/ MuteReleaseActive(frameOk))

Render(frameOk, new, kept, lay) ==
  LET fresh == [age |-> 0, windows |-> new.windows]
  IN  CASE method = "Mute"  -> IF frameOk THEN Rendered(fresh, new.windows, FALSE)
                                          ELSE Rendered(Zeros, new.windows, TRUE)
        [] method = "Noise" -> RenderNoise(fresh, kept, lay)
        [] method = "Inter" -> RenderInter(frameOk, new)

(* The result of CConcealment_Apply: whether the frame is concealed.        *)
Applied(frameOk) ==
  IF MuteReleaseActive(frameOk) THEN -1
  ELSE CASE method = "Mute"  -> IF frameOk THEN 0 ELSE 1
         [] method = "Noise" -> IF concealState' = "Ok" THEN 0 ELSE 1
         [] method = "Inter" ->
              IF concealState' # "Ok" \/ (Interpolated(frameOk) /\ Stored(frameOk))
                THEN 1 ELSE 0

(* CConcealment_TDFading: the gain at the end of the frame.                 *)
FactorOrFull(idx) == IF idx < 0 THEN FullScale ELSE FadeFactor[idx]

Gain(state, cnt) ==
  CASE state = "Ok"     -> FullScale
    [] state = "FadeIn" -> FactorOrFull(cnt - 1)
    [] OTHER -> IF state = "Mute" \/ cnt + 1 > numFadeOutFrames THEN 0
                ELSE FactorOrFull(IF method = "Noise" THEN cnt - 1 ELSE cnt)

RunCap == numFadeOutFrames + numFadeInFrames + numMuteReleaseFrames + 3
Runs(frameOk) ==
  IF frameOk THEN [good |-> Lesser(runs.good + 1, RunCap), lost |-> 0]
             ELSE [good |-> 0, lost |-> Lesser(runs.lost + 1, RunCap)]

----------------------------------------------------------------------------
NoRuns == [good |-> 0, lost |-> 0]
Nothing == [applied |-> 1, image |-> Rendered(Zeros, 1, TRUE)]

Init ==
  /\ method \in Methods /\ switched = FALSE
  /\ concealState = "Ok" /\ fade = NoFade /\ cntValidFrames = 0
  /\ prevFrameOk = <<TRUE, TRUE>>
  /\ layout = Long /\ buffer = Cleared
  /\ fade_old = FullScale
  /\ out = Nothing
  /\ runs = NoRuns

(* CConcealment_InitChannelData: at a new configuration, or to clear the    *)
(* history.                                                                 *)
InitChannelData ==
  /\ concealState' = "Ok" /\ fade' = NoFade /\ cntValidFrames' = 0
  /\ prevFrameOk' = <<TRUE, TRUE>>
  /\ layout' = Long /\ buffer' = Cleared
  /\ fade_old' = FullScale
  /\ out' = Nothing
  /\ runs' = NoRuns
  /\ switched' = FALSE
  /\ UNCHANGED method

(* Only USAC has LPD frames, and it has no interpolation: setConcealMethod  *)
(* returns an error, and the configuration callback goes back to Noise.     *)
Allowed(m, lay) == m = "Inter" => lay.windows \in {1, 8}

(* setConcealMethod, between two frames.                                    *)
SetMethod(m) ==
  /\ m # method
  /\ Allowed(m, layout) /\ Allowed(m, buffer)
  /\ method' = m
  /\ switched' = TRUE
  /\ UNCHANGED <<concealState, fade, cntValidFrames, prevFrameOk, layout,
                 buffer, fade_old, out, runs>>

(* One frame through CConcealment_Apply and CConcealment_TDFading.          *)
Apply(frameOk, new) ==
  LET lay  == IF Stored(frameOk) THEN new ELSE layout
      kept == IF Stored(frameOk) THEN [age |-> 0, windows |-> new.windows]
                                 ELSE Older
      muted == method # "Mute" /\ concealState' = "Mute"
  IN  /\ UpdateState(frameOk, lay)
      /\ layout' = IF muted THEN Long ELSE lay
      /\ buffer' = IF muted /\ method = "Noise" THEN Cleared ELSE kept
      /\ out' = [applied |-> Applied(frameOk),
                 image |-> Render(frameOk, new, kept, lay)]
      /\ prevFrameOk' = <<prevFrameOk[2], frameOk>>
      /\ fade_old' = Gain(concealState', fade'.cnt)
      /\ runs' = Runs(frameOk)
      /\ UNCHANGED <<method, switched>>

Next ==
  \/ \E frameOk \in BOOLEAN, new \in Layouts :
       Allowed(method, new) /\ Apply(frameOk, new)
  \/ \E m \in Methods : SetMethod(m)
  \/ InitChannelData

Spec == Init /\ [][Next]_vars

----------------------------------------------------------------------------
Type ==
  /\ method \in Methods /\ switched \in BOOLEAN
  /\ concealState \in States
  /\ fade \in [cnt : Int, win : [0 .. 1 -> 0 .. 7], att : [0 .. 1 -> 0 .. 7]]
  /\ cntValidFrames \in Nat
  /\ prevFrameOk \in BOOLEAN \X BOOLEAN
  /\ layout \in AllLayouts
  /\ buffer \in [age : 0 .. None, windows : {1, 2, 4, 8}]
  /\ fade_old \in 0 .. FullScale
  /\ out.applied \in -1 .. 1
  /\ runs \in [good : 0 .. RunCap, lost : 0 .. RunCap]

(* The assertions of CConcealment_ApplyInter, and what TDFading needs of    *)
(* the tables: after a frame, a fade in progress is within its slope.       *)
WithinSlope ==
  /\ concealState = "FadeOut" /\ method = "Inter" =>
       fade.cnt \in 0 .. numFadeOutFrames - 1
  /\ concealState = "FadeIn" => fade.cnt \in 0 .. numFadeInFrames - 1
FadeWithinSlope == [][method' = method => WithinSlope']_vars

(* The assertion of CConcealment_ApplyFadeOut: the windows it would copy if *)
(* the next frame were lost lie within the frame.                           *)
WindowInRange ==
  ~switched /\ method = "Noise" /\ concealState \in {"Single", "FadeOut"} =>
    \A mode \in 0 .. 1 : fade.win[mode] < layout.group

(* After enough good frames concealment is over, whatever came before and   *)
(* even if the user has gone from Noise to Inter or back; a user who has    *)
(* also been with Mute finds the state machine where he left it.            *)
Running == method # "Mute" /\ (switched => "Mute" \notin Methods)
GoodFramesRecover ==
  Running /\ runs.good > numMuteReleaseFrames + numFadeInFrames + 1 =>
    concealState = "Ok" /\ fade_old = FullScale

(* After enough lost ones under one method the output is mute.              *)
LostFramesMute ==
  ~switched /\ method # "Mute" /\ runs.lost > numFadeOutFrames + 1 =>
    concealState = "Mute" /\ fade_old = 0

(* What Apply passes off as not concealed is a decoded spectrum, as old as  *)
(* CConcealment_GetDelay says.                                              *)
UnconcealedIsDecoded ==
  out.applied = 0 /\ ~switched =>
    /\ ~out.image.altered
    /\ out.image.spectrum.age \in {IF method = "Inter" THEN 1 ELSE 0, None}

(* A spectrum is rendered with the windows it was decoded with: under one   *)
(* method other than Inter, and under Inter, where it fails.                *)
WindowsFitSpectrum ==
  out.image.spectrum.age # None => out.image.windows = out.image.spectrum.windows
WindowsFitUnlessInter == ~switched /\ method # "Inter" => WindowsFitSpectrum

(* The gain never rises while frames are lost and never falls on the way    *)
(* back.                                                                    *)
GainFollowsState ==
  [][/\ concealState' \in {"Single", "FadeOut", "Mute"} => fade_old' <= fade_old
     /\ concealState' \in {"Ok", "FadeIn"} => fade_old' >= fade_old]_vars

(* Why all this holds.  The two passes over the windows stand at the same   *)
(* place, the counter is within the table wherever an index is taken from   *)
(* it, and the gain is that of the state.                                   *)
ModesInStep == fade.win[0] = fade.win[1] /\ fade.att[0] = fade.att[1]

FadeBounds ==
  /\ concealState = "Single" => fade.cnt \in 1 .. 2
  /\ concealState = "FadeOut" => fade.cnt \in Index
  /\ concealState = "FadeIn" => fade.cnt \in 0 .. numFadeInFrames - 1

GainOfState ==
  /\ concealState = "Ok" => fade_old = FullScale
  /\ concealState = "Mute" => fade_old = 0

RunsMatch == IF prevFrameOk[2] THEN runs.lost = 0 ELSE runs.good = 0

Inv == Type /\ ModesInStep /\ FadeBounds /\ GainOfState /\ RunsMatch

(* Good frames bring the state closer to Ok: at most one of them is not     *)
(* counted as valid, and from the mute release on each takes a step of the  *)
(* fade-in.                                                                 *)
Recovering ==
  /\ concealState = "Single" => runs.good = 0
  /\ concealState \in {"FadeOut", "Mute"} =>
       /\ cntValidFrames <= numMuteReleaseFrames
       /\ runs.good <= cntValidFrames + 1
  /\ concealState = "FadeIn" =>
       runs.good + fade.cnt <= numMuteReleaseFrames + numFadeInFrames + 1

(* Lost frames bring it closer to Mute: each takes a step of the fade-out,  *)
(* but for the first, or the first two, in a row.                           *)
MutingNoise ==
  /\ concealState \in {"Ok", "FadeIn"} => runs.lost = 0
  /\ concealState \in {"Single", "FadeOut"} =>
       runs.lost <= fade.cnt /\ runs.lost <= numFadeOutFrames
MutingInter ==
  /\ concealState # "Single"
  /\ concealState \in {"Ok", "FadeIn"} => runs.lost <= 1
  /\ concealState = "FadeOut" =>
       runs.lost <= fade.cnt + 2 /\ runs.lost <= numFadeOutFrames + 1
Muting ==
  /\ ~switched /\ method = "Noise" => MutingNoise
  /\ ~switched /\ method = "Inter" => MutingInter
=============================================================================
