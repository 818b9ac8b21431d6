------------------------------ MODULE SbrSlots ------------------------------
(***************************************************************************)
(* The delay line of one element of the SBR decoder (libSBRdec/src/        *)
(* sbrdecoder.cpp).  Concealment by interpolation delays the core decoder  *)
(* by a frame, so the SBR payload waits in one of two slots, and the SBR   *)
(* headers in two slots of their own: a header that arrives must not       *)
(* disturb the frame that still waits.                                     *)
(*                                                                         *)
(* The decoder calls sbrDecoder_InitElement and sbrDecoder_Parse while it  *)
(* parses the access unit, and sbrDecoder_Apply when the core has decoded. *)
(* A header is the frequency bands it selects and the rest of its data; a  *)
(* payload is the number of frames since it was parsed and the header it   *)
(* was parsed with.                                                        *)
(***************************************************************************)
EXTENDS Integers

CONSTANTS
  Configs,       \* the headers of the streams: [bands, tuning]
  Unusable,      \* those that resetFreqBandTables refuses
  MaxAge         \* bound: age from which all payloads count as old

ASSUME SbrConfigs == /\ Configs \subseteq [bands : Nat \ {0}, tuning : Nat]
                     /\ Unusable \subseteq Configs
ASSUME SbrAgeBound == MaxAge \in Nat /\ MaxAge > 1

Slots == 0 .. 1                               \* (1) + 1
Default == [bands |-> 0, tuning |-> 0]        \* initHeaderData
NoHeader == [bands |-> 0, tuning |-> 1]       \* not a header of any stream
Headers == Configs \cup {Default}

(* SBR_SYNC_STATE                                                          *)
NOT_INITIALIZED == 0
UPSAMPLING == 1
HEADER == 2
ACTIVE == 3

VARIABLES
  stage,            \* where the decoder is in the current frame
  numDelayFrames,
  useFrameSlot, useHeaderSlot, frameErrorFlag,
  frameData,        \* the payload in each slot: its age and its header
  sbrHeader,        \* its copy of the error flag, compared after a copy only, left out
  forceReset, flush, numFlushedFrames,
  filters,          \* the bands resetSbrDec has set up last
  played,           \* history: what the last frame was made of
  heard,            \* history: the header the stream has announced last
  inRow,            \* history: payloads in a row, up to 2, while nothing shifts
  goodRun,          \* history: complete frames with a header in a row, up to 2
  shifted           \* history: what has moved the slots out of their order

vars == <<stage, numDelayFrames, useFrameSlot, useHeaderSlot, frameErrorFlag,
          frameData, sbrHeader, forceReset, flush, numFlushedFrames, filters,
          played, heard, inRow, goodRun, shifted>>
histories == <<heard, inRow, goodRun, shifted>>

Lesser(a, b) == IF a < b THEN a ELSE b
Larger(a, b) == IF a > b THEN a ELSE b

-----------------------------------------------------------------------------
HeaderSlot_Own(cur) == useHeaderSlot[cur]      \* mutant: used or not

(* getHeaderSlot: the slot of the current frame, unless another frame uses  *)
(* it and there is one that no frame uses.                                  *)
HeaderSlot(cur) ==
  LET own      == useHeaderSlot[cur]
      occupied == \E s \in Slots : useHeaderSlot[s] = own /\ s # own
      free     == Slots \ {useHeaderSlot[s] : s \in Slots}
  IN  IF occupied /\ free # {}
        THEN CHOOSE s \in free : \A t \in free : s <= t
        ELSE own

Following_Far(slot) == (slot + 1) % (numDelayFrames + 2)     \* mutant: one more

Following(slot) == (slot + 1) % (numDelayFrames + 1)
LastSlot == IF useFrameSlot > 0 THEN useFrameSlot - 1 ELSE numDelayFrames
lastHdrSlot == useHeaderSlot[LastSlot]
thisHdrSlot == HeaderSlot(useFrameSlot)

(* The header a payload is parsed with, before the one it may carry.        *)
Given_NotCopied == [sbrHeader[thisHdrSlot] EXCEPT !.update = FALSE]    \* mutant

Given ==
  IF sbrHeader[thisHdrSlot].update \/ thisHdrSlot = lastHdrSlot
    THEN [sbrHeader[thisHdrSlot] EXCEPT !.update = FALSE]
    ELSE sbrHeader[lastHdrSlot]

(* sbrGetHeaderData, sbrDecoder_HeaderUpdate                                *)
IsReset_Synced(hdr, cfg) == hdr.sync < HEADER          \* mutant: bands ignored
IsReset_Bands(hdr, cfg) == hdr.cfg.bands # cfg.bands   \* mutant: state ignored

IsReset(hdr, cfg) == hdr.sync < HEADER \/ hdr.cfg.bands # cfg.bands

Updated(hdr, cfg) ==
  IF ~IsReset(hdr, cfg) THEN [hdr EXCEPT !.cfg = cfg]
  ELSE IF cfg \in Unusable THEN [hdr EXCEPT !.cfg = cfg, !.sync = NOT_INITIALIZED]
  ELSE [hdr EXCEPT !.cfg = cfg, !.sync = HEADER, !.reset = TRUE]

Fresh == [sync |-> NOT_INITIALIZED, cfg |-> Default, update |-> FALSE,
          reset |-> FALSE]
Capped(hdr) == [hdr EXCEPT !.sync = Lesser(@, UPSAMPLING)]

-----------------------------------------------------------------------------
Nothing == [active |-> FALSE, error |-> FALSE, inStep |-> TRUE, tuned |-> TRUE,
            fits |-> TRUE, due |-> FALSE]
Zeroed == [age |-> MaxAge, cfg |-> Default]

(* sbrDecoder_InitElement on a new element; with explicit signalling the    *)
(* configuration holds a header (sbrDecoder_Header).                        *)
Configured(hdr) ==
  /\ useFrameSlot' = 0 /\ useHeaderSlot' = [s \in Slots |-> s]
  /\ frameErrorFlag' = [s \in Slots |-> FALSE]
  /\ frameData' = [s \in Slots |-> Zeroed]
  /\ sbrHeader' = [s \in Slots |->
       IF s = 0 /\ hdr \in Configs
         THEN [Updated(Fresh, hdr) EXCEPT !.update = hdr \notin Unusable]
         ELSE Fresh]
  /\ filters' = 0 /\ played' = Nothing
  /\ heard' = IF hdr \in Configs \ Unusable THEN hdr ELSE NoHeader
  /\ inRow' = 0 /\ goodRun' = 0 /\ shifted' = "no"

Init ==
  /\ stage = "between"
  /\ numDelayFrames \in 0 .. 1
  /\ useFrameSlot = 0 /\ useHeaderSlot = [s \in Slots |-> s]
  /\ frameErrorFlag = [s \in Slots |-> FALSE]
  /\ frameData = [s \in Slots |-> Zeroed]
  /\ sbrHeader = [s \in Slots |-> Fresh]
  /\ forceReset = FALSE /\ flush = FALSE /\ numFlushedFrames = 0
  /\ filters = 0 /\ played = Nothing
  /\ heard = NoHeader /\ inRow = 0 /\ goodRun = 0 /\ shifted = "no"

(* A new configuration: sbrDecoder_FreeMem and the element anew.            *)
Configure(hdr) ==
  /\ stage = "between"
  /\ Configured(hdr)
  /\ UNCHANGED <<stage, numDelayFrames, forceReset, flush, numFlushedFrames>>

(* setConcealMethod: SBR_SYSTEM_BITSTREAM_DELAY.                            *)
SetDelay(d) ==
  /\ stage = "between" /\ d # numDelayFrames
  /\ shifted = "no"                     \* bound: one disorder until a reset
  /\ numDelayFrames' = d
  /\ shifted' = "lost" /\ inRow' = 0 /\ goodRun' = 0
  /\ UNCHANGED <<stage, useFrameSlot, useHeaderSlot, frameErrorFlag, frameData,
                 sbrHeader, forceReset, flush, numFlushedFrames, filters, played,
                 heard>>

(* SBR_CLEAR_HISTORY                                                        *)
ClearHistory ==
  /\ stage = "between" /\ ~forceReset
  /\ forceReset' = TRUE
  /\ UNCHANGED <<stage, numDelayFrames, useFrameSlot, useHeaderSlot,
                 frameErrorFlag, frameData, sbrHeader, flush, numFlushedFrames,
                 filters, played, histories>>

(* SBR_BS_INTERRUPTION                                                      *)
Interrupt ==
  /\ stage = "between"
  /\ sbrHeader[thisHdrSlot].sync # NOT_INITIALIZED
  /\ sbrHeader' = [sbrHeader EXCEPT ![thisHdrSlot].sync = UPSAMPLING,
                                    ![thisHdrSlot].update = TRUE]
  /\ heard' = NoHeader /\ goodRun' = 0
  /\ UNCHANGED <<stage, numDelayFrames, useFrameSlot, useHeaderSlot,
                 frameErrorFlag, frameData, forceReset, flush, numFlushedFrames,
                 filters, played, inRow, shifted>>

(* A header from outside of the payload, or an interruption, that the next  *)
(* payload will see.                                                        *)
HeaderPending == \E s \in Slots : sbrHeader[s].update

(* A flush that is broken off leaves the slots out of order.                *)
Abandoned == IF shifted = "flush" THEN "lost" ELSE shifted

(* A frame the access unit of which is parsed begins with sbrDecoder_       *)
(* InitElement, whether it has an SBR payload or not: the channel element   *)
(* itself calls it while SBR is enabled (aacdecoder.cpp:2749), and a        *)
(* payload once more (aacdecoder.cpp:984), which repeats it.  Nothing       *)
(* changes unless a reset is asked for.                                     *)
InitElement ==
  /\ stage = "between"
  /\ stage' = "parse"
  /\ IF forceReset
       THEN /\ useFrameSlot' = 0 /\ useHeaderSlot' = [s \in Slots |-> s]
            /\ frameErrorFlag' = [s \in Slots |-> FALSE]
            /\ sbrHeader' = [s \in Slots |-> Fresh]
            /\ heard' = NoHeader /\ goodRun' = 0 /\ shifted' = "no"
            /\ UNCHANGED inRow
       ELSE /\ shifted' = Abandoned
            /\ UNCHANGED <<useFrameSlot, useHeaderSlot, frameErrorFlag, sbrHeader,
                           heard, inRow, goodRun>>
  /\ played' = Nothing
  /\ UNCHANGED <<numDelayFrames, frameData, forceReset, flush,
                 numFlushedFrames, filters>>

(* A frame the access unit of which is lost (AACDEC_CONCEAL), or the first  *)
(* element of which is broken, or that flushes (AACDEC_FLUSH); an           *)
(* application flushes after frames, not between a header and its frame.    *)
SkipParsing(flushing) ==
  /\ stage = "between"
  /\ flushing => shifted # "lost" /\ ~HeaderPending
  /\ stage' = IF flushing THEN "apply" ELSE "conceal"
  /\ flush' = flushing
  /\ heard' = IF flushing THEN NoHeader ELSE heard
  /\ played' = Nothing
  /\ goodRun' = 0
  /\ shifted' = IF ~flushing THEN Abandoned
                 ELSE IF shifted = "no" THEN "flush" ELSE shifted
  /\ UNCHANGED <<numDelayFrames, useFrameSlot, useHeaderSlot, frameErrorFlag,
                 frameData, sbrHeader, forceReset, numFlushedFrames, filters, inRow>>

(* sbrDecoder_Parse of an empty payload, or no call of it at all.           *)
ParseNothing(called) ==
  /\ stage = "parse" /\ (called \/ ~HeaderPending)
  /\ stage' = "apply"
  /\ frameErrorFlag' = IF called THEN [frameErrorFlag EXCEPT ![useFrameSlot] = TRUE]
                       ELSE frameErrorFlag
  /\ inRow' = 0 /\ goodRun' = 0
  /\ UNCHANGED <<numDelayFrames, useFrameSlot, useHeaderSlot, frameData, sbrHeader,
                 forceReset, flush, numFlushedFrames, filters, played, heard,
                 shifted>>

(* The payload of one frame: matches is whether it follows the element it   *)
(* belongs to, header what it carries, body how the data turns out.         *)
Payloads == [matches : BOOLEAN, header : Configs \cup {NoHeader},
             body : {"good", "bad", "crc"}]
HasHeader(p) == p.matches /\ p.header # NoHeader
Complete(p) == HasHeader(p) /\ p.body = "good" /\ p.header \notin Unusable

(* SBR_HEADER_STATUS after the header of the payload, if it has one.        *)
Status(p) ==
  IF HasHeader(p)
    THEN IF ~IsReset(Given, p.header) THEN "ok"
         ELSE IF p.header \in Unusable THEN "error" ELSE "reset"
    ELSE IF sbrHeader[thisHdrSlot].update THEN "ok" ELSE "not present"

(* The frame uses the header of the one before it.                          *)
UseOld(status, fine, hdr) ==
  \/ status \in {"not present", "error"}
  \/ status = "reset" /\ ~fine
  \/ thisHdrSlot # lastHdrSlot /\ hdr = sbrHeader[lastHdrSlot]

Parse(p) ==
  LET parsed == IF HasHeader(p) THEN Updated(Given, p.header) ELSE Given
      read   == p.matches /\ parsed.sync >= HEADER
      fine   == read /\ p.body = "good"
      wrong  == read /\ p.body = "crc" /\ Status(p) # "not present"
      status == IF wrong THEN "error" ELSE Status(p)
      hdr    == IF wrong THEN [parsed EXCEPT !.sync = NOT_INITIALIZED] ELSE parsed
      failed == ~p.matches \/ (read /\ ~fine) \/ status = "error"
  IN  /\ stage = "parse"
      /\ stage' = "apply"
      /\ sbrHeader' = [sbrHeader EXCEPT ![thisHdrSlot] = hdr]
      /\ frameErrorFlag' = [frameErrorFlag EXCEPT ![useFrameSlot] = failed]
      /\ frameData' = IF fine
                        THEN [frameData EXCEPT ![useFrameSlot] =
                                [age |-> 0, cfg |-> hdr.cfg]]
                        ELSE frameData
      /\ useHeaderSlot' = [useHeaderSlot EXCEPT ![useFrameSlot] =
           IF UseOld(status, fine, hdr) THEN lastHdrSlot ELSE thisHdrSlot]
      /\ useFrameSlot' = Following(useFrameSlot)
      /\ heard' = IF ~HasHeader(p) /\ ~wrong THEN heard
                  ELSE IF Complete(p) THEN p.header ELSE NoHeader
      /\ inRow' = IF numFlushedFrames > 0 THEN 1 ELSE Lesser(inRow + 1, 2)
      /\ goodRun' = IF Complete(p) THEN Lesser(goodRun + 1, 2) ELSE 0
      /\ UNCHANGED <<numDelayFrames, forceReset, flush, numFlushedFrames, filters,
                     played, shifted>>

Errors_Current(coreOk, cur) ==                 \* mutant: the slot at hand only
  IF coreOk THEN frameErrorFlag ELSE [frameErrorFlag EXCEPT ![cur] = TRUE]

(* When the core has no good frame, neither slot has.                       *)
Errors(coreOk, cur) ==
  IF coreOk THEN frameErrorFlag ELSE [s \in Slots |-> TRUE]

(* A flush has played what was delayed.                                     *)
Drained == flush /\ numFlushedFrames + 1 > numDelayFrames

(* The slot that is played: flushing moves on until the delay is covered.   *)
Flushed(cur) ==
  IF flush /\ numFlushedFrames + 1 <= numDelayFrames THEN Following(cur) ELSE cur

(* resetSbrDec                                                              *)
Rebuilt(hdr) == IF hdr.reset THEN hdr.cfg.bands ELSE filters

(* sbrDecoder_Apply, sbrDecoder_DecodeElement                               *)
Apply(coreOk) ==
  LET count   == IF flush THEN numFlushedFrames + 1 ELSE 0
      cur     == Flushed(useFrameSlot)
      flags   == Errors(coreOk, useFrameSlot)
      headers == IF Drained THEN [s \in Slots |-> Capped(sbrHeader[s])] ELSE sbrHeader
      slot    == useHeaderSlot[cur]
      hdr     == IF headers[slot].sync = NOT_INITIALIZED
                   THEN [Fresh EXCEPT !.sync = UPSAMPLING, !.reset = TRUE]
                   ELSE headers[slot]
      process == hdr.sync = ACTIVE \/ (hdr.sync = HEADER /\ ~flags[cur])
      final   == [hdr EXCEPT !.reset = @ /\ ~process,
                             !.sync = IF process THEN ACTIVE ELSE @]
  IN  /\ stage = "apply" \/ (stage = "conceal" /\ ~coreOk)
      /\ stage' = "between"
      /\ numFlushedFrames' = Lesser(count, 2)
      /\ useFrameSlot' = cur
      /\ frameErrorFlag' = flags
      /\ sbrHeader' = [headers EXCEPT ![slot] = final]
      /\ filters' = Rebuilt(hdr)
      /\ played' = [active |-> process, error |-> flags[cur],
                    inStep |-> frameData[cur].age = numDelayFrames,
                    tuned |-> filters' = hdr.cfg.bands,
                    fits |-> frameData[cur].cfg = hdr.cfg,
                    due |-> inRow = 2]
      /\ frameData' = [s \in Slots |-> [frameData[s] EXCEPT !.age = Lesser(@ + 1, MaxAge)]]
      /\ forceReset' = FALSE /\ flush' = FALSE
      /\ inRow' = IF coreOk THEN inRow ELSE 2
      /\ goodRun' = IF coreOk THEN goodRun ELSE 0
      /\ shifted' = IF Drained /\ shifted = "flush" THEN "no" ELSE shifted
      /\ UNCHANGED <<numDelayFrames, useHeaderSlot, heard>>

Next ==
  \/ \E hdr \in Configs \cup {NoHeader} : Configure(hdr)
  \/ \E d \in 0 .. 1 : SetDelay(d)
  \/ ClearHistory
  \/ Interrupt
  \/ InitElement
  \/ \E flushing \in BOOLEAN : SkipParsing(flushing)
  \/ \E called \in BOOLEAN : ParseNothing(called)
  \/ \E p \in Payloads : Parse(p)
  \/ \E coreOk \in BOOLEAN : Apply(coreOk)

Spec == Init /\ [][Next]_vars

-----------------------------------------------------------------------------
Type ==
  /\ stage \in {"between", "parse", "apply", "conceal"}
  /\ numDelayFrames \in 0 .. 1
  /\ useFrameSlot \in Slots
  /\ useHeaderSlot \in [Slots -> Slots]
  /\ frameErrorFlag \in [Slots -> BOOLEAN]
  /\ frameData \in [Slots -> [age : 0 .. MaxAge, cfg : Headers]]
  /\ sbrHeader \in [Slots -> [sync : 0 .. 3, cfg : Headers, update : BOOLEAN,
                              reset : BOOLEAN]]
  /\ forceReset \in BOOLEAN /\ flush \in BOOLEAN
  /\ numFlushedFrames \in 0 .. 2
  /\ filters \in {h.bands : h \in Headers}
  /\ played \in [active : BOOLEAN, error : BOOLEAN, inStep : BOOLEAN,
                 tuned : BOOLEAN, fits : BOOLEAN, due : BOOLEAN]
  /\ heard \in Configs \cup {NoHeader}
  /\ inRow \in 0 .. 2 /\ goodRun \in 0 .. 2
  /\ shifted \in {"no", "flush", "lost"}

(* The header in use and the payload that goes with it fit: the filters are *)
(* set up for the bands of the header, and unless the frame is concealed    *)
(* its payload was parsed with this very header.                            *)
HeaderFitsFrame ==
  stage = "between" /\ played.active /\ shifted # "lost" =>
    played.tuned /\ (~played.error => played.fits)

(* sbrDecoder_Parse leaves the header of the waiting frame alone.           *)
Waiting == useHeaderSlot[1 - useFrameSlot]
WaitingHeaderKept ==
  [][stage' # "between" /\ numDelayFrames = 1 =>
       sbrHeader'[Waiting] = sbrHeader[Waiting] \/ forceReset]_vars

(* SBR stays in step with the core decoder, which delays by the same number *)
(* of frames: once two payloads have arrived in a row, what is played and   *)
(* not concealed came with the frame the core puts out; a flush plays the   *)
(* payload that waits.                                                      *)
InStepWithCore ==
  played.active /\ ~played.error /\ played.due => played.inStep

(* Once a header has arrived with a good payload, payloads without one are  *)
(* parsed with it.                                                          *)
HeaderKept ==
  stage = "parse" /\ heard # NoHeader => Given.cfg = heard /\ Given.sync >= HEADER
HeaderKeptUnlessShifted == shifted = "no" => HeaderKept

(* Good frames that carry their header bring SBR back at once.              *)
GoodFramesRecover ==
  stage = "between" /\ goodRun = 2 => played.active /\ ~played.error
=============================================================================
