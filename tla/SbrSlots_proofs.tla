-------------------------- MODULE SbrSlots_proofs --------------------------
(***************************************************************************)
(* Theorems about SbrSlots for every set of headers: type correctness, the *)
(* header of the waiting frame is kept, SBR is in step with the core, good *)
(* frames bring it back, payloads are parsed with the header announced     *)
(* last, and what is played fits the header and the filters.               *)
(***************************************************************************)
EXTENDS SbrSlots, TLAPS

-----------------------------------------------------------------------------
(* The inductive invariant.  Other is the slot that has been parsed last    *)
(* when the delay is one frame, and the one to be played when it has not.   *)
Other == 1 - useFrameSlot
Idle == stage # "apply" \/ flush              \* no payload waits for its frame

Sounds(s) == sbrHeader[useHeaderSlot[s]].sync >= HEADER
Good(s) == ~frameErrorFlag[s] /\ Sounds(s)

(* A slot that may be played holds a payload of the right age.              *)
Aged(s, age) == Good(s) => frameData[s].age = age

FlushWhenApplied == flush => stage = "apply"

AgesKept ==
  IF numDelayFrames = 1
  THEN /\ Idle /\ inRow >= 1 /\ numFlushedFrames = 0 => Aged(Other, 1)
       /\ ~Idle /\ inRow >= 1 => Aged(Other, 0)
       /\ ~Idle /\ inRow = 2 => Aged(useFrameSlot, 1)
  ELSE /\ Idle /\ inRow >= 1 => useFrameSlot = 0 \/ ~Good(0)
       /\ ~Idle /\ inRow >= 1 => useFrameSlot = 0
       /\ ~Idle /\ inRow = 2 => Aged(0, 0)

GoodKept ==
  /\ goodRun >= 1 => IF numDelayFrames = 1 THEN Good(Other) ELSE useFrameSlot = 0
  /\ goodRun >= 1 => ~flush
  /\ ~Idle /\ goodRun = 2 => Good(useFrameSlot)

Inv == Type /\ FlushWhenApplied /\ AgesKept /\ GoodKept
       /\ InStepWithCore /\ GoodFramesRecover
-----------------------------------------------------------------------------
(* Slots, the slot that follows and the one before.                         *)
LEMMA SlotFacts ==
  ASSUME Type
  PROVE  /\ Slots = {0, 1}
         /\ \A s \in Slots : 1 - s \in Slots
         /\ numDelayFrames = 1 => /\ \A s \in Slots : Following(s) = 1 - s
                                  /\ LastSlot = Other
         /\ numDelayFrames = 0 => /\ \A s \in Slots : Following(s) = 0
                                  /\ LastSlot = 0
         /\ numDelayFrames \in {0, 1}
         /\ LastSlot \in Slots /\ lastHdrSlot \in Slots
         /\ \A s \in Slots : Following(s) \in Slots
<1>1. Slots = {0, 1}
  BY DEF Slots
<1>2. numDelayFrames \in {0, 1} /\ useFrameSlot \in {0, 1}
  BY <1>1 DEF Type
<1>3. numDelayFrames = 1 => \A s \in Slots : Following(s) = 1 - s
  <2> SUFFICES ASSUME numDelayFrames = 1, NEW s \in {0, 1} PROVE Following(s) = 1 - s
    BY <1>1
  <2>1. (s + 1) % 2 = 1 - s
    OBVIOUS
  <2> QED BY <2>1 DEF Following
<1>4. numDelayFrames = 0 => \A s \in Slots : Following(s) = 0
  <2> SUFFICES ASSUME numDelayFrames = 0, NEW s \in {0, 1} PROVE Following(s) = 0
    BY <1>1
  <2>1. (s + 1) % 1 = 0
    OBVIOUS
  <2> QED BY <2>1 DEF Following
<1>5. /\ numDelayFrames = 1 => LastSlot = Other
      /\ numDelayFrames = 0 => LastSlot = 0
  BY <1>2 DEF LastSlot, Other
<1>6. LastSlot \in Slots
  BY <1>1, <1>2, <1>5 DEF Other
<1>7. lastHdrSlot \in Slots
  BY <1>6 DEF lastHdrSlot, Type
<1>8. \A s \in Slots : 1 - s \in Slots
  BY <1>1
<1>9. \A s \in Slots : Following(s) \in Slots
  BY <1>1, <1>2, <1>3, <1>4
<1> QED BY <1>1, <1>2, <1>3, <1>4, <1>5, <1>6, <1>7, <1>8, <1>9

(* getHeaderSlot never gives the slot that the other frame uses.            *)
LEMMA HeaderSlotFree ==
  ASSUME Type, NEW cur \in Slots
  PROVE  HeaderSlot(cur) \in Slots /\ HeaderSlot(cur) # useHeaderSlot[1 - cur]
<1> DEFINE own == useHeaderSlot[cur]
           other == useHeaderSlot[1 - cur]
           free == Slots \ {useHeaderSlot[s] : s \in Slots}
           occupied == \E s \in Slots : useHeaderSlot[s] = own /\ s # own
<1>1. Slots = {0, 1} /\ 1 - cur \in Slots /\ cur # 1 - cur
  BY SlotFacts DEF Slots
<1>2. own \in Slots /\ other \in Slots
  BY <1>1 DEF Type
<1>3. {useHeaderSlot[s] : s \in Slots} = {own, other}
  BY <1>1
<1>4. CASE own # other
  <2>1. ~occupied \/ free = {}
    BY <1>1, <1>2, <1>3, <1>4
  <2>2. HeaderSlot(cur) = own
    BY <2>1 DEF HeaderSlot
  <2> QED BY <1>2, <1>4, <2>2
<1>5. CASE own = other
  <2>1. occupied
    BY <1>1, <1>2, <1>5
  <2>2. free = {1 - own} /\ 1 - own # own
    BY <1>1, <1>2, <1>3, <1>5
  <2>3. HeaderSlot(cur) = CHOOSE s \in free : \A t \in free : s <= t
    BY <2>1, <2>2 DEF HeaderSlot
  <2>4. HeaderSlot(cur) = 1 - own
    BY <1>1, <1>2, <2>2, <2>3
  <2> QED BY <1>1, <1>2, <1>5, <2>2, <2>4
<1> QED BY <1>4, <1>5

(* What Type says of each variable that a payload changes.                  *)
HeaderType == [sync : 0 .. 3, cfg : Headers, update : BOOLEAN, reset : BOOLEAN]

LEMMA HeaderFacts ==
  /\ Fresh \in HeaderType /\ Fresh.sync = NOT_INITIALIZED
  /\ NOT_INITIALIZED = 0 /\ UPSAMPLING = 1 /\ HEADER = 2 /\ ACTIVE = 3
  /\ Default \in Headers /\ Configs \subseteq Headers
  /\ \A h \in HeaderType : /\ Capped(h) \in HeaderType
                           /\ Capped(h).sync < HEADER
  /\ \A h \in HeaderType, c \in Configs :
       /\ Updated(h, c) \in HeaderType
       /\ ~IsReset(h, c) => Updated(h, c).sync = h.sync
       /\ IsReset(h, c) /\ c \notin Unusable => Updated(h, c).sync = HEADER
<1>1. NOT_INITIALIZED = 0 /\ UPSAMPLING = 1 /\ HEADER = 2 /\ ACTIVE = 3
  BY DEF NOT_INITIALIZED, UPSAMPLING, HEADER, ACTIVE
<1>2. Default \in Headers /\ Configs \subseteq Headers
  BY DEF Headers
<1>3. Fresh \in HeaderType /\ Fresh.sync = NOT_INITIALIZED
  BY <1>1, <1>2 DEF Fresh, HeaderType
<1>4. ASSUME NEW h \in HeaderType
      PROVE  Capped(h) \in HeaderType /\ Capped(h).sync < HEADER
  BY <1>1 DEF Capped, Lesser, HeaderType
<1>5. ASSUME NEW h \in HeaderType, NEW c \in Configs
      PROVE  /\ Updated(h, c) \in HeaderType
             /\ ~IsReset(h, c) => Updated(h, c).sync = h.sync
             /\ IsReset(h, c) /\ c \notin Unusable => Updated(h, c).sync = HEADER
  <2>1. c \in Headers
    BY <1>2
  <2>2. CASE ~IsReset(h, c)
    BY <2>1, <2>2 DEF Updated, HeaderType
  <2>3. CASE IsReset(h, c) /\ c \in Unusable
    <3>1. Updated(h, c) = [h EXCEPT !.cfg = c, !.sync = 0]
      BY <1>1, <2>3 DEF Updated
    <3>2. Updated(h, c) = [sync |-> 0, cfg |-> c, update |-> h.update,
                           reset |-> h.reset]
      BY <3>1 DEF HeaderType
    <3>3. h.update \in BOOLEAN /\ h.reset \in BOOLEAN
      BY DEF HeaderType
    <3>4. Updated(h, c) \in HeaderType
      BY <2>1, <3>2, <3>3 DEF HeaderType
    <3> QED BY <2>3, <3>4
  <2>4. CASE IsReset(h, c) /\ c \notin Unusable
    <3>1. Updated(h, c) = [h EXCEPT !.cfg = c, !.sync = 2, !.reset = TRUE]
      BY <1>1, <2>4 DEF Updated
    <3>2. Updated(h, c) = [sync |-> 2, cfg |-> c, update |-> h.update,
                           reset |-> TRUE]
      BY <3>1 DEF HeaderType
    <3>3. h.update \in BOOLEAN
      BY DEF HeaderType
    <3>4. Updated(h, c) \in HeaderType
      BY <2>1, <3>2, <3>3 DEF HeaderType
    <3>5. Updated(h, c).sync = 2
      BY <3>2
    <3> QED BY <1>1, <2>4, <3>4, <3>5
  <2> QED BY <2>2, <2>3, <2>4
<1> QED BY <1>1, <1>2, <1>3, <1>4, <1>5

(* The header that a payload is parsed with: that of the slot it goes to    *)
(* when it was announced from outside, else the last one.                   *)
LEMMA GivenFacts ==
  ASSUME Type
  PROVE  /\ thisHdrSlot \in Slots /\ Given \in HeaderType
         /\ thisHdrSlot # useHeaderSlot[Other]
         /\ ~sbrHeader[thisHdrSlot].update => Given.sync = sbrHeader[lastHdrSlot].sync
<1>1. sbrHeader \in [Slots -> HeaderType]
  BY DEF Type, HeaderType
<1>2. useFrameSlot \in Slots
  BY DEF Type
<1>3. thisHdrSlot \in Slots /\ thisHdrSlot # useHeaderSlot[Other]
  BY <1>2, HeaderSlotFree DEF thisHdrSlot, Other
<1>4. lastHdrSlot \in Slots
  BY SlotFacts
<1>5. sbrHeader[thisHdrSlot] \in HeaderType /\ sbrHeader[lastHdrSlot] \in HeaderType
  BY <1>1, <1>3, <1>4
<1>6. CASE sbrHeader[thisHdrSlot].update \/ thisHdrSlot = lastHdrSlot
  <2>1. Given = [sbrHeader[thisHdrSlot] EXCEPT !.update = FALSE]
    BY <1>6 DEF Given
  <2> QED BY <1>3, <1>5, <1>6, <2>1 DEF HeaderType
<1>7. CASE ~(sbrHeader[thisHdrSlot].update \/ thisHdrSlot = lastHdrSlot)
  <2>1. Given = sbrHeader[lastHdrSlot]
    BY <1>7 DEF Given
  <2> QED BY <1>3, <1>5, <1>7, <2>1
<1> QED BY <1>6, <1>7

(* sbrDecoder_Parse: the other slot is as before, and so is its header.  In *)
(* its own slot stands a payload that is new, unless its frame is flagged   *)
(* or has no header to be played with.                                      *)
LEMMA ParseFacts ==
  ASSUME Type, NEW p \in Payloads, Parse(p)
  PROVE  /\ sbrHeader' \in [Slots -> HeaderType]
         /\ useHeaderSlot' \in [Slots -> Slots]
         /\ frameErrorFlag' \in [Slots -> BOOLEAN]
         /\ frameData' \in [Slots -> [age : 0 .. MaxAge, cfg : Headers]]
         /\ sbrHeader'[useHeaderSlot[Other]] = sbrHeader[useHeaderSlot[Other]]
         /\ useHeaderSlot'[Other] = useHeaderSlot[Other]
         /\ frameErrorFlag'[Other] = frameErrorFlag[Other]
         /\ frameData'[Other] = frameData[Other]
         /\ \/ frameErrorFlag'[useFrameSlot]
            \/ sbrHeader'[useHeaderSlot'[useFrameSlot]].sync < HEADER
            \/ /\ frameData'[useFrameSlot].age = 0
               /\ frameData'[useFrameSlot].cfg =
                    sbrHeader'[useHeaderSlot'[useFrameSlot]].cfg
         /\ Complete(p) => /\ ~frameErrorFlag'[useFrameSlot]
                           /\ sbrHeader'[useHeaderSlot'[useFrameSlot]].sync >= HEADER
<1> DEFINE this   == thisHdrSlot
           last   == lastHdrSlot
           parsed == IF HasHeader(p) THEN Updated(Given, p.header) ELSE Given
           read   == p.matches /\ parsed.sync >= HEADER
           fine   == read /\ p.body = "good"
           wrong  == read /\ p.body = "crc" /\ Status(p) # "not present"
           status == IF wrong THEN "error" ELSE Status(p)
           hdr    == IF wrong THEN [parsed EXCEPT !.sync = NOT_INITIALIZED] ELSE parsed
           failed == ~p.matches \/ (read /\ ~fine) \/ status = "error"
           cur    == useFrameSlot
           old    == UseOld(status, fine, hdr)
<1>1. /\ sbrHeader' = [sbrHeader EXCEPT ![this] = hdr]
      /\ frameErrorFlag' = [frameErrorFlag EXCEPT ![cur] = failed]
      /\ frameData' = IF fine
                        THEN [frameData EXCEPT ![cur] = [age |-> 0, cfg |-> hdr.cfg]]
                        ELSE frameData
      /\ useHeaderSlot' = [useHeaderSlot EXCEPT ![cur] = IF old THEN last ELSE this]
  BY DEF Parse
<1>2. /\ p.matches \in BOOLEAN /\ p.header \in Configs \cup {NoHeader}
      /\ p.body \in {"good", "bad", "crc"}
  BY DEF Payloads
<1>3. /\ Slots = {0, 1} /\ cur \in Slots /\ Other \in Slots /\ Other # cur
      /\ last \in Slots
  BY SlotFacts DEF Type, Other
<1>4. /\ this \in Slots /\ this # useHeaderSlot[Other] /\ Given \in HeaderType
      /\ ~sbrHeader[this].update => Given.sync = sbrHeader[last].sync
  BY GivenFacts
<1>5. /\ sbrHeader \in [Slots -> HeaderType] /\ useHeaderSlot \in [Slots -> Slots]
      /\ frameErrorFlag \in [Slots -> BOOLEAN]
      /\ frameData \in [Slots -> [age : 0 .. MaxAge, cfg : Headers]]
  BY DEF Type, HeaderType
<1>6. HasHeader(p) => p.header \in Configs
  BY <1>2 DEF HasHeader
<1>7. parsed \in HeaderType
  BY <1>4, <1>6, HeaderFacts
<1>8. hdr \in HeaderType /\ (wrong => hdr.sync = 0) /\ (~wrong => hdr = parsed)
  <2>1. CASE wrong
    <3>1. [parsed EXCEPT !.sync = 0] \in HeaderType
      BY <1>7 DEF HeaderType
    <3>2. [parsed EXCEPT !.sync = 0].sync = 0
      BY <1>7 DEF HeaderType
    <3> QED BY <2>1, <3>1, <3>2, HeaderFacts
  <2>2. CASE ~wrong
    BY <1>7, <2>2
  <2> QED BY <2>1, <2>2
<1>9. Status(p) \in {"ok", "error", "reset", "not present"}
  BY DEF Status
<1> HIDE DEF this, last, parsed, hdr
<1>10. /\ sbrHeader' \in [Slots -> HeaderType]
       /\ \A s \in Slots : sbrHeader'[s] = IF s = this THEN hdr ELSE sbrHeader[s]
  BY <1>1, <1>4, <1>5, <1>8
<1> HIDE DEF old
<1>11. /\ useHeaderSlot' \in [Slots -> Slots]
       /\ useHeaderSlot'[cur] = IF old THEN last ELSE this
       /\ useHeaderSlot'[Other] = useHeaderSlot[Other]
  BY <1>1, <1>3, <1>4, <1>5
<1>12. failed \in BOOLEAN
  BY <1>2
<1> HIDE DEF failed
<1>13. /\ frameErrorFlag' \in [Slots -> BOOLEAN]
       /\ frameErrorFlag'[cur] = failed
       /\ frameErrorFlag'[Other] = frameErrorFlag[Other]
  BY <1>1, <1>3, <1>5, <1>12
<1>14. [age |-> 0, cfg |-> hdr.cfg] \in [age : 0 .. MaxAge, cfg : Headers]
  <2>1. hdr.cfg \in Headers
    BY <1>8 DEF HeaderType
  <2>2. 0 \in 0 .. MaxAge
    BY SbrAgeBound
  <2> QED BY <2>1, <2>2
<1> HIDE DEF fine
<1>15. /\ frameData' \in [Slots -> [age : 0 .. MaxAge, cfg : Headers]]
       /\ fine => frameData'[cur].age = 0 /\ frameData'[cur].cfg = hdr.cfg
       /\ frameData'[Other] = frameData[Other]
  BY <1>1, <1>3, <1>5, <1>14
<1>16. useHeaderSlot[Other] \in Slots
  BY <1>3, <1>5
<1>17. sbrHeader'[useHeaderSlot[Other]] = sbrHeader[useHeaderSlot[Other]]
  BY <1>4, <1>10, <1>16
<1>18. Complete(p) => ~failed /\ fine /\ hdr.sync >= HEADER
  <2> SUFFICES ASSUME Complete(p) PROVE ~failed /\ fine /\ hdr.sync >= HEADER
    OBVIOUS
  <2>1. HasHeader(p) /\ p.body = "good" /\ p.header \notin Unusable /\ p.matches
    BY DEF Complete, HasHeader
  <2>2. parsed = Updated(Given, p.header) /\ Given.sync \in 0 .. 3
    BY <1>4, <2>1 DEF parsed, HeaderType
  <2>3. parsed.sync >= HEADER /\ Status(p) # "error"
    <3>1. CASE IsReset(Given, p.header)
      BY <1>4, <1>6, <2>1, <2>2, <3>1, HeaderFacts DEF Status
    <3>2. CASE ~IsReset(Given, p.header)
      BY <1>4, <1>6, <2>1, <2>2, <3>2, HeaderFacts DEF Status, IsReset
    <3> QED BY <3>1, <3>2
  <2>4. fine /\ ~wrong
    BY <2>1, <2>3 DEF fine
  <2>5. ~failed
    BY <2>1, <2>3, <2>4 DEF failed
  <2> QED BY <1>8, <2>3, <2>4, <2>5
<1>19. ~failed /\ ~fine => hdr.sync < HEADER /\ (old => sbrHeader[last].sync < HEADER)
  <2> SUFFICES ASSUME ~failed, ~fine
      PROVE  hdr.sync < HEADER /\ (old => sbrHeader[last].sync < HEADER)
    OBVIOUS
  <2>1. p.matches /\ ~read /\ ~wrong /\ status # "error" /\ status = Status(p)
    BY DEF failed
  <2>2. parsed.sync < HEADER /\ parsed.sync \in 0 .. 3 /\ Given.sync \in 0 .. 3
    <3>1. parsed.sync \in 0 .. 3
      BY <1>7 DEF HeaderType
    <3>2. Given.sync \in 0 .. 3
      BY <1>4 DEF HeaderType
    <3>3. ~(parsed.sync >= HEADER) /\ HEADER = 2
      BY <2>1, HeaderFacts
    <3> QED BY <3>1, <3>2, <3>3
  <2>3. ~HasHeader(p)
    <3> SUFFICES ASSUME HasHeader(p) PROVE FALSE
      OBVIOUS
    <3>1. parsed = Updated(Given, p.header)
      BY DEF parsed
    <3>2. CASE IsReset(Given, p.header)
      <4>1. p.header \notin Unusable
        BY <2>1, <3>2 DEF Status
      <4> QED BY <1>4, <1>6, <2>2, <3>1, <3>2, <4>1, HeaderFacts
    <3>3. CASE ~IsReset(Given, p.header)
      BY <1>4, <1>6, <2>2, <3>1, <3>3, HeaderFacts DEF IsReset
    <3> QED BY <3>2, <3>3
  <2>4. parsed = Given /\ hdr = Given
    BY <1>8, <2>1, <2>3 DEF parsed
  <2>5. status = IF sbrHeader[this].update THEN "ok" ELSE "not present"
    BY <2>1, <2>3 DEF Status, this
  <2>6. old => sbrHeader[last].sync = Given.sync
    BY <1>4, <2>4, <2>5 DEF UseOld, old, last, this
  <2> QED BY <2>2, <2>4, <2>6
<1>20. fine /\ old => sbrHeader[last] = hdr \/ status \in {"not present", "error"}
  BY DEF UseOld, old, last
<1>21. Complete(p) /\ old => sbrHeader[last] = hdr
  <2>1. Complete(p) => status \in {"ok", "reset"}
    BY <1>18, <1>9 DEF failed, Complete, Status, HasHeader
  <2> QED BY <1>18, <1>20, <2>1
(* Where the frame keeps the old header, its payload was parsed with it.    *)
<1>22. ~failed /\ fine /\ old /\ last # this => sbrHeader[last] = hdr
  <2> SUFFICES ASSUME ~failed, fine, old, last # this, status = "not present"
      PROVE  sbrHeader[last] = hdr
    BY <1>20 DEF failed
  <2>1. ~wrong /\ hdr = parsed /\ Status(p) = "not present"
    BY <1>8
  <2>2. ~HasHeader(p) /\ ~sbrHeader[this].update
    BY <2>1 DEF Status, this
  <2>3. parsed = Given /\ Given = sbrHeader[last]
    BY <2>2 DEF parsed, Given, this, last
  <2> QED BY <2>1, <2>3
<1> HIDE DEF status, read, wrong
<1>23. sbrHeader'[useHeaderSlot'[cur]] = IF ~old THEN hdr
                                        ELSE IF last = this THEN hdr
                                        ELSE sbrHeader[last]
  BY <1>3, <1>4, <1>10, <1>11
<1>24. failed \/ sbrHeader'[useHeaderSlot'[cur]].sync < HEADER \/ fine
  BY <1>19, <1>23
<1>25. Complete(p) => ~failed /\ sbrHeader'[useHeaderSlot'[cur]].sync >= HEADER
  BY <1>18, <1>21, <1>23
<1>26. failed \/ ~fine \/ frameData'[cur].cfg = sbrHeader'[useHeaderSlot'[cur]].cfg
  BY <1>15, <1>23, <1>22
<1> QED BY <1>10, <1>11, <1>13, <1>15, <1>17, <1>24, <1>25, <1>26

-----------------------------------------------------------------------------
(* One lemma for each action.  Where nothing is owed yet, only the types    *)
(* and the flush remain to be shown.                                        *)
LEMMA NothingOwed ==
  ASSUME Type', FlushWhenApplied', inRow' = 0, goodRun' = 0,
         ~played'.active \/ (Inv /\ played' = played)
  PROVE  Inv'
<1>1. AgesKept' /\ GoodKept' /\ GoodFramesRecover'
  BY DEF AgesKept, GoodKept, GoodFramesRecover
<1>2. InStepWithCore'
  BY DEF Inv, InStepWithCore
<1> QED BY <1>1, <1>2 DEF Inv

LEMMA NothingPlayed ==
  /\ Nothing \in [active : BOOLEAN, error : BOOLEAN, inStep : BOOLEAN,
                  tuned : BOOLEAN, fits : BOOLEAN, due : BOOLEAN]
  /\ ~Nothing.active
BY DEF Nothing

LEMMA InitKeeps == Init => Inv
<1> SUFFICES ASSUME Init PROVE Inv
  OBVIOUS
<1>1. Type
  <2>1. Zeroed \in [age : 0 .. MaxAge, cfg : Headers]
    BY SbrAgeBound DEF Zeroed, Headers
  <2>2. filters \in {h.bands : h \in Headers}
    <3>1. Default \in Headers /\ Default.bands = 0
      BY DEF Headers, Default
    <3> QED BY <3>1 DEF Init
  <2>3. sbrHeader \in [Slots -> HeaderType]
    BY HeaderFacts DEF Init
  <2>4. played \in [active : BOOLEAN, error : BOOLEAN, inStep : BOOLEAN,
                    tuned : BOOLEAN, fits : BOOLEAN, due : BOOLEAN]
    BY NothingPlayed DEF Init
  <2>5. frameData \in [Slots -> [age : 0 .. MaxAge, cfg : Headers]]
    BY <2>1 DEF Init
  <2>6. /\ useFrameSlot \in Slots /\ useHeaderSlot \in [Slots -> Slots]
        /\ frameErrorFlag \in [Slots -> BOOLEAN] /\ numDelayFrames \in 0 .. 1
    BY DEF Init, Slots
  <2>7. /\ stage = "between" /\ forceReset = FALSE /\ flush = FALSE
        /\ numFlushedFrames = 0 /\ inRow = 0 /\ goodRun = 0
        /\ heard = NoHeader /\ shifted = "no"
    BY DEF Init
  <2>8. /\ stage \in {"between", "parse", "apply", "conceal"}
        /\ forceReset \in BOOLEAN /\ flush \in BOOLEAN
        /\ numFlushedFrames \in 0 .. 2 /\ inRow \in 0 .. 2 /\ goodRun \in 0 .. 2
        /\ heard \in Configs \cup {NoHeader} /\ shifted \in {"no", "flush", "lost"}
    <3>1. forceReset \in BOOLEAN /\ flush \in BOOLEAN
      BY <2>7, Zenon
    <3>2. stage \in {"between", "parse", "apply", "conceal"}
      BY <2>7
    <3>3. numFlushedFrames \in 0 .. 2 /\ inRow \in 0 .. 2 /\ goodRun \in 0 .. 2
      BY <2>7
    <3>4. heard \in Configs \cup {NoHeader} /\ shifted \in {"no", "flush", "lost"}
      BY <2>7
    <3> QED BY <3>1, <3>2, <3>3, <3>4
  <2> QED BY <2>2, <2>3, <2>4, <2>5, <2>6, <2>8 DEF Type, HeaderType
<1>2. FlushWhenApplied /\ AgesKept /\ GoodKept /\ GoodFramesRecover
  BY DEF Init, FlushWhenApplied, AgesKept, GoodKept, GoodFramesRecover
<1>3. InStepWithCore
  BY NothingPlayed DEF Init, InStepWithCore
<1> QED BY <1>1, <1>2, <1>3 DEF Inv

LEMMA ConfigureKeeps ==
  ASSUME Inv, NEW hdr \in Configs \cup {NoHeader}, Configure(hdr)
  PROVE  Inv'
<1> DEFINE first == IF hdr \in Configs
                      THEN [Updated(Fresh, hdr) EXCEPT !.update = hdr \notin Unusable]
                      ELSE Fresh
<1>1. first \in HeaderType
  <2>1. CASE hdr \in Configs
    <3>1. Updated(Fresh, hdr) \in HeaderType
      BY <2>1, HeaderFacts
    <3> QED BY <2>1, <3>1 DEF HeaderType
  <2>2. CASE hdr \notin Configs
    BY <2>2, HeaderFacts
  <2> QED BY <2>1, <2>2
<1>2. \A s \in Slots : (IF s = 0 /\ hdr \in Configs
                         THEN [Updated(Fresh, hdr) EXCEPT !.update = hdr \notin Unusable]
                         ELSE Fresh) \in HeaderType
  BY <1>1, HeaderFacts
<1>3. sbrHeader' \in [Slots -> HeaderType]
  BY <1>2 DEF Configure, Configured
<1>4. frameData' \in [Slots -> [age : 0 .. MaxAge, cfg : Headers]]
  BY SbrAgeBound DEF Configure, Configured, Zeroed, Headers
<1>5. filters' \in {h.bands : h \in Headers}
  <2>1. Default \in Headers /\ Default.bands = 0
    BY DEF Headers, Default
  <2> QED BY <2>1 DEF Configure, Configured
<1>6. played' = Nothing /\ inRow' = 0 /\ goodRun' = 0
  BY DEF Configure, Configured
<1>7. Type'
  <2>1. /\ useFrameSlot' \in Slots /\ useHeaderSlot' \in [Slots -> Slots]
        /\ frameErrorFlag' \in [Slots -> BOOLEAN]
        /\ heard' \in Configs \cup {NoHeader} /\ shifted' = "no"
    BY DEF Configure, Configured, Slots
  <2>2. /\ stage' = stage /\ numDelayFrames' = numDelayFrames
        /\ forceReset' = forceReset /\ flush' = flush
        /\ numFlushedFrames' = numFlushedFrames
    BY DEF Configure
  <2> QED BY <1>3, <1>4, <1>5, <1>6, <2>1, <2>2, NothingPlayed DEF Inv, Type, HeaderType
<1>8. FlushWhenApplied'
  BY DEF Configure, Inv, FlushWhenApplied
<1> QED BY <1>6, <1>7, <1>8, NothingOwed, NothingPlayed

LEMMA SetDelayKeeps ==
  ASSUME Inv, NEW d \in 0 .. 1, SetDelay(d)
  PROVE  Inv'
<1>1. Type'
  BY DEF Inv, Type, SetDelay
<1>2. FlushWhenApplied' /\ AgesKept' /\ GoodKept' /\ GoodFramesRecover'
  BY DEF Inv, SetDelay, FlushWhenApplied, AgesKept, GoodKept, GoodFramesRecover
<1>3. InStepWithCore'
  BY DEF Inv, SetDelay, InStepWithCore
<1> QED BY <1>1, <1>2, <1>3 DEF Inv

LEMMA ClearHistoryKeeps == Inv /\ ClearHistory => Inv'
<1> SUFFICES ASSUME Inv, ClearHistory PROVE Inv'
  OBVIOUS
<1>1. Type'
  BY DEF Inv, Type, ClearHistory, histories
<1>2. FlushWhenApplied' /\ GoodFramesRecover' /\ InStepWithCore'
  BY DEF Inv, ClearHistory, histories, FlushWhenApplied, GoodFramesRecover, InStepWithCore
<1>3. AgesKept' /\ GoodKept'
  BY DEF Inv, ClearHistory, histories, AgesKept, GoodKept, Aged, Good, Sounds, Idle, Other
<1> QED BY <1>1, <1>2, <1>3 DEF Inv

(* An interruption takes a header out of use and leaves the other as it is. *)
LEMMA InterruptKeeps == Inv /\ Interrupt => Inv'
<1> SUFFICES ASSUME Inv, Interrupt PROVE Inv'
  OBVIOUS
<1>1. Type /\ thisHdrSlot \in Slots
  BY GivenFacts DEF Inv
<1>2. sbrHeader \in [Slots -> HeaderType]
  BY <1>1 DEF Type, HeaderType
<1> DEFINE cut == [sbrHeader[thisHdrSlot] EXCEPT !.sync = UPSAMPLING, !.update = TRUE]
<1>3. sbrHeader' = [sbrHeader EXCEPT ![thisHdrSlot] = cut]
  BY <1>1, <1>2 DEF Interrupt
<1>4. cut \in HeaderType /\ cut.sync < HEADER
  <2>1. UPSAMPLING = 1 /\ HEADER = 2
    BY HeaderFacts
  <2>2. ASSUME NEW h \in HeaderType, NEW g, g = [h EXCEPT !.sync = 1, !.update = TRUE]
        PROVE  g \in HeaderType /\ g.sync = 1
    <3>1. g = [sync |-> 1, cfg |-> h.cfg, update |-> TRUE, reset |-> h.reset]
      BY <2>2 DEF HeaderType
    <3>2. h.cfg \in Headers /\ h.reset \in BOOLEAN
      BY DEF HeaderType
    <3>3. [sync |-> 1, cfg |-> h.cfg, update |-> TRUE, reset |-> h.reset] \in HeaderType
      BY <3>2 DEF HeaderType
    <3> QED BY <3>1, <3>3
  <2>3. sbrHeader[thisHdrSlot] \in HeaderType
    BY <1>1, <1>2
  <2>4. cut = [sbrHeader[thisHdrSlot] EXCEPT !.sync = 1, !.update = TRUE]
    BY <2>1
  <2> HIDE DEF cut
  <2>5. cut \in HeaderType /\ cut.sync = 1
    BY <2>2, <2>3, <2>4
  <2> QED BY <2>1, <2>5
<1> HIDE DEF cut
<1>5. /\ sbrHeader' \in [Slots -> HeaderType]
      /\ \A s \in Slots : sbrHeader'[s].sync >= HEADER => sbrHeader[s].sync >= HEADER
  <2>1. \A s \in Slots : sbrHeader'[s] = IF s = thisHdrSlot THEN cut ELSE sbrHeader[s]
    BY <1>1, <1>2, <1>3
  <2>2. ~(cut.sync >= HEADER)
    BY <1>4, HeaderFacts DEF HeaderType
  <2> QED BY <1>1, <1>2, <1>3, <1>4, <2>1, <2>2
<1>6. /\ stage = "between" /\ heard' = NoHeader /\ goodRun' = 0
      /\ UNCHANGED <<stage, numDelayFrames, useFrameSlot, useHeaderSlot,
                     frameErrorFlag, frameData, forceReset, flush, numFlushedFrames,
                     filters, played, inRow, shifted>>
  BY DEF Interrupt
<1>7. Type'
  BY <1>1, <1>5, <1>6 DEF Type, HeaderType
<1>8. FlushWhenApplied' /\ GoodKept' /\ GoodFramesRecover' /\ InStepWithCore'
  BY <1>6 DEF Inv, FlushWhenApplied, GoodKept, GoodFramesRecover, InStepWithCore
<1>9. \A s \in Slots : useHeaderSlot[s] \in Slots
  BY <1>1 DEF Type
<1>10. \A s \in Slots : (Good(s))' => Good(s)
  BY <1>5, <1>6, <1>9 DEF Good, Sounds
<1>11. \A s \in Slots, age \in 0 .. 1 : Aged(s, age) => (Aged(s, age))'
  BY <1>6, <1>10 DEF Aged
<1>12. 0 \in Slots /\ Other \in Slots /\ useFrameSlot \in Slots /\ Other' = Other
  BY <1>1, <1>6, SlotFacts DEF Other, Type
<1>13. AgesKept'
  BY <1>6, <1>10, <1>11, <1>12 DEF Inv, AgesKept, Idle
<1> QED BY <1>7, <1>8, <1>13 DEF Inv

LEMMA InitElementKeeps == Inv /\ InitElement => Inv'
<1> SUFFICES ASSUME Inv, InitElement PROVE Inv'
  OBVIOUS
<1>1. /\ stage = "between" /\ stage' = "parse" /\ played' = Nothing
      /\ UNCHANGED <<numDelayFrames, frameData, forceReset, flush,
                     numFlushedFrames, filters, inRow>>
  BY DEF InitElement
<1>2. FlushWhenApplied' /\ GoodFramesRecover' /\ InStepWithCore'
  BY <1>1, NothingPlayed DEF Inv, FlushWhenApplied, GoodFramesRecover, InStepWithCore
<1>3. CASE forceReset
  <2>1. /\ useFrameSlot' = 0 /\ useHeaderSlot' = [s \in Slots |-> s]
        /\ frameErrorFlag' = [s \in Slots |-> FALSE]
        /\ sbrHeader' = [s \in Slots |-> Fresh]
        /\ heard' = NoHeader /\ goodRun' = 0 /\ shifted' = "no"
    BY <1>3 DEF InitElement
  <2>2. /\ useFrameSlot' \in Slots /\ useHeaderSlot' \in [Slots -> Slots]
        /\ frameErrorFlag' \in [Slots -> BOOLEAN]
        /\ sbrHeader' \in [Slots -> HeaderType]
    BY <2>1, HeaderFacts DEF Slots
  <2>3. Type'
    BY <1>1, <2>1, <2>2, NothingPlayed DEF Inv, Type, HeaderType
  <2>4. 0 \in Slots /\ 1 \in Slots
    BY DEF Slots
  <2>5. ~(Good(0))' /\ ~(Good(1))'
    BY <2>1, <2>4, HeaderFacts DEF Good, Sounds
  <2>6. AgesKept'
    BY <1>1, <2>1, <2>5 DEF AgesKept, Aged, Idle, Other
  <2>7. GoodKept'
    BY <2>1 DEF GoodKept
  <2> QED BY <1>2, <2>3, <2>6, <2>7 DEF Inv
<1>4. CASE ~forceReset
  <2>1. /\ shifted' = Abandoned
        /\ UNCHANGED <<useFrameSlot, useHeaderSlot, frameErrorFlag, sbrHeader,
                       heard, inRow, goodRun>>
    BY <1>4 DEF InitElement
  <2>2. Abandoned \in {"no", "flush", "lost"}
    BY DEF Inv, Type, Abandoned
  <2>3. Type'
    BY <1>1, <2>1, <2>2, NothingPlayed DEF Inv, Type
  <2>4. Idle /\ Idle'
    BY <1>1 DEF Idle
  <2>5. AgesKept' /\ GoodKept'
    BY <1>1, <2>1, <2>4 DEF Inv, AgesKept, GoodKept, Aged, Good, Sounds, Other
  <2> QED BY <1>2, <2>3, <2>5 DEF Inv
<1> QED BY <1>3, <1>4

LEMMA SkipParsingKeeps ==
  ASSUME Inv, NEW flushing \in BOOLEAN, SkipParsing(flushing)
  PROVE  Inv'
<1>1. /\ stage = "between" /\ goodRun' = 0 /\ played' = Nothing
      /\ flush' = flushing
      /\ stage' = IF flushing THEN "apply" ELSE "conceal"
      /\ UNCHANGED <<numDelayFrames, useFrameSlot, useHeaderSlot, frameErrorFlag,
                     frameData, sbrHeader, forceReset, numFlushedFrames, filters, inRow>>
  BY DEF SkipParsing
<1>2. /\ heard' \in Configs \cup {NoHeader}
      /\ shifted' \in {"no", "flush", "lost"}
  BY DEF Inv, Type, SkipParsing, Abandoned
<1>3. Type'
  BY <1>1, <1>2, NothingPlayed DEF Inv, Type
<1>4. FlushWhenApplied' /\ GoodKept' /\ GoodFramesRecover' /\ InStepWithCore'
  BY <1>1, NothingPlayed DEF FlushWhenApplied, GoodKept, GoodFramesRecover, InStepWithCore
<1>5. Idle /\ Idle'
  BY <1>1 DEF Idle
<1>6. AgesKept'
  BY <1>1, <1>5 DEF Inv, AgesKept, Aged, Good, Sounds, Other
<1> QED BY <1>3, <1>4, <1>6 DEF Inv

LEMMA ParseNothingKeeps ==
  ASSUME Inv, NEW called \in BOOLEAN, ParseNothing(called)
  PROVE  Inv'
<1>1. Type'
  BY DEF Inv, Type, ParseNothing
<1>2. FlushWhenApplied' /\ inRow' = 0 /\ goodRun' = 0 /\ played' = played
  BY DEF ParseNothing, FlushWhenApplied
<1> QED BY <1>1, <1>2, NothingOwed

LEMMA ParseKeeps ==
  ASSUME Inv, NEW p \in Payloads, Parse(p)
  PROVE  Inv'
<1>1. Type
  BY DEF Inv
<1>2. /\ stage = "parse" /\ stage' = "apply"
      /\ useFrameSlot' = Following(useFrameSlot)
      /\ inRow' = IF numFlushedFrames > 0 THEN 1 ELSE Lesser(inRow + 1, 2)
      /\ goodRun' = IF Complete(p) THEN Lesser(goodRun + 1, 2) ELSE 0
      /\ UNCHANGED <<numDelayFrames, forceReset, flush, numFlushedFrames, filters,
                     played, shifted>>
  BY DEF Parse
<1>3. heard' \in Configs \cup {NoHeader}
  BY <1>1 DEF Parse, Type, Complete, HasHeader, Payloads
<1>4. ~flush /\ ~flush' /\ Idle /\ ~Idle'
  BY <1>2 DEF Inv, FlushWhenApplied, Idle
<1>5. inRow \in 0 .. 2 /\ goodRun \in 0 .. 2 /\ numFlushedFrames \in 0 .. 2
  BY <1>1 DEF Type
<1>6. /\ inRow' \in 0 .. 2
      /\ inRow' = 2 => inRow >= 1 /\ numFlushedFrames = 0
  BY <1>2, <1>5 DEF Lesser
<1>7. /\ goodRun' \in 0 .. 2
      /\ goodRun' >= 1 => Complete(p)
      /\ goodRun' = 2 => goodRun >= 1
  BY <1>2, <1>5 DEF Lesser
<1>8. useFrameSlot \in {0, 1} /\ useFrameSlot' \in Slots /\ Slots = {0, 1}
  BY <1>1, <1>2, SlotFacts DEF Type
<1>9. Type'
  BY <1>1, <1>2, <1>3, <1>6, <1>7, <1>8, ParseFacts DEF Type, HeaderType
<1>10. FlushWhenApplied' /\ GoodFramesRecover' /\ InStepWithCore'
  BY <1>2, <1>4 DEF Inv, FlushWhenApplied, GoodFramesRecover, InStepWithCore
<1>11. /\ Good(Other) => ~frameErrorFlag'[Other]
                         /\ sbrHeader'[useHeaderSlot'[Other]].sync >= HEADER
       /\ ~frameErrorFlag'[Other] /\ sbrHeader'[useHeaderSlot'[Other]].sync >= HEADER
            => Good(Other)
       /\ frameData'[Other] = frameData[Other]
  BY <1>1, ParseFacts DEF Good, Sounds
<1>12. /\ ~frameErrorFlag'[useFrameSlot]
          /\ sbrHeader'[useHeaderSlot'[useFrameSlot]].sync >= HEADER
            => frameData'[useFrameSlot].age = 0
       /\ Complete(p) => /\ ~frameErrorFlag'[useFrameSlot]
                         /\ sbrHeader'[useHeaderSlot'[useFrameSlot]].sync >= HEADER
  <2>1. sbrHeader'[useHeaderSlot'[useFrameSlot]].sync \in 0 .. 3
    <3>1. useHeaderSlot'[useFrameSlot] \in Slots
      BY <1>1, <1>8, ParseFacts
    <3>2. sbrHeader'[useHeaderSlot'[useFrameSlot]] \in HeaderType
      BY <1>1, <3>1, ParseFacts
    <3> QED BY <3>2 DEF HeaderType
  <2>2. HEADER = 2
    BY HeaderFacts
  <2> QED BY <1>1, <2>1, <2>2, ParseFacts
<1>13. CASE numDelayFrames = 1
  <2>1. useFrameSlot' = Other /\ Other' = useFrameSlot
    BY <1>1, <1>2, <1>8, <1>13, SlotFacts DEF Other
  <2>2. inRow' = 2 => Aged(Other, 1)
    BY <1>4, <1>6, <1>13 DEF Inv, AgesKept
  <2>3. (Aged(Other, 0))'
    BY <1>12, <2>1 DEF Aged, Good, Sounds
  <2>4. inRow' = 2 => (Aged(useFrameSlot, 1))'
    BY <1>11, <2>1, <2>2 DEF Aged, Good, Sounds
  <2>5. AgesKept'
    BY <1>2, <1>4, <1>13, <2>3, <2>4 DEF AgesKept
  <2>6. goodRun' >= 1 => (Good(Other))'
    BY <1>7, <1>12, <2>1 DEF Good, Sounds
  <2>7. goodRun' = 2 => (Good(useFrameSlot))'
    BY <1>7, <1>11, <1>13, <2>1 DEF Inv, GoodKept, Good, Sounds
  <2>8. GoodKept'
    BY <1>2, <1>4, <1>13, <2>6, <2>7 DEF GoodKept
  <2> QED BY <1>9, <1>10, <2>5, <2>8 DEF Inv
<1>14. CASE numDelayFrames = 0
  <2>1. useFrameSlot' = 0
    BY <1>1, <1>2, <1>8, <1>14, SlotFacts
  <2>2. inRow' = 2 => useFrameSlot = 0 \/ ~Good(0)
    BY <1>4, <1>6, <1>14 DEF Inv, AgesKept
  <2>3. inRow' = 2 => (Aged(0, 0))'
    <3>1. CASE useFrameSlot = 0
      BY <1>12, <3>1 DEF Aged, Good, Sounds
    <3>2. CASE useFrameSlot = 1
      BY <1>11, <2>2, <3>2 DEF Aged, Good, Sounds, Other
    <3> QED BY <1>8, <3>1, <3>2
  <2>4. AgesKept'
    BY <1>2, <1>4, <1>14, <2>1, <2>3 DEF AgesKept
  <2>5. goodRun' = 2 => useFrameSlot = 0
    BY <1>7, <1>14 DEF Inv, GoodKept
  <2>6. goodRun' = 2 => (Good(useFrameSlot))'
    BY <1>7, <1>12, <2>1, <2>5 DEF Good, Sounds
  <2>7. GoodKept'
    BY <1>2, <1>4, <1>14, <2>1, <2>6 DEF GoodKept
  <2> QED BY <1>9, <1>10, <2>4, <2>7 DEF Inv
<1> QED BY <1>1, <1>13, <1>14, SlotFacts

(* sbrDecoder_Apply: a header in use stays in use, unless a flush has run   *)
(* dry, and no other comes into use; what is played is the slot cur.        *)
LEMMA ApplyFacts ==
  ASSUME Type, NEW coreOk \in BOOLEAN, Apply(coreOk), NEW cur, cur = Flushed(useFrameSlot)
  PROVE  /\ cur \in Slots
         /\ sbrHeader' \in [Slots -> HeaderType]
         /\ filters' \in {h.bands : h \in Headers}
         /\ \A s \in Slots : sbrHeader'[s].sync >= HEADER =>
              sbrHeader[s].sync >= HEADER
         /\ ~Drained => \A s \in Slots : sbrHeader[s].sync >= HEADER =>
              sbrHeader'[s].sync >= HEADER
         /\ played'.active \in BOOLEAN
         /\ played'.active => ~Drained /\ Sounds(cur)
         /\ ~Drained /\ Good(cur) /\ coreOk => played'.active
         /\ played'.error = (IF coreOk THEN frameErrorFlag[cur] ELSE TRUE)
         /\ played'.due = (inRow = 2)
         /\ played'.inStep = (frameData[cur].age = numDelayFrames)
         /\ played' \in [active : BOOLEAN, error : BOOLEAN, inStep : BOOLEAN,
                         tuned : BOOLEAN, fits : BOOLEAN, due : BOOLEAN]
<1> DEFINE flags   == Errors(coreOk, useFrameSlot)
           headers == IF Drained THEN [s \in Slots |-> Capped(sbrHeader[s])]
                      ELSE sbrHeader
           slot    == useHeaderSlot[cur]
           hdr     == IF headers[slot].sync = NOT_INITIALIZED
                        THEN [Fresh EXCEPT !.sync = UPSAMPLING, !.reset = TRUE]
                        ELSE headers[slot]
           process == hdr.sync = ACTIVE \/ (hdr.sync = HEADER /\ ~flags[cur])
           final   == [hdr EXCEPT !.reset = @ /\ ~process,
                                  !.sync = IF process THEN ACTIVE ELSE @]
<1>0. /\ useFrameSlot \in Slots /\ useHeaderSlot \in [Slots -> Slots]
      /\ sbrHeader \in [Slots -> HeaderType]
      /\ frameErrorFlag \in [Slots -> BOOLEAN]
      /\ flush \in BOOLEAN /\ numFlushedFrames \in 0 .. 2
      /\ filters \in {h.bands : h \in Headers}
  BY DEF Type, HeaderType
<1>1. NOT_INITIALIZED = 0 /\ UPSAMPLING = 1 /\ HEADER = 2 /\ ACTIVE = 3
  BY HeaderFacts
<1>2. cur \in Slots
  BY <1>0, SlotFacts DEF Flushed
<1>3. /\ sbrHeader' = [headers EXCEPT ![slot] = final]
      /\ filters' = Rebuilt(hdr)
      /\ played' = [active |-> process, error |-> flags[cur],
                    inStep |-> frameData[cur].age = numDelayFrames,
                    tuned |-> filters' = hdr.cfg.bands,
                    fits |-> frameData[cur].cfg = hdr.cfg,
                    due |-> inRow = 2]
  BY DEF Apply
<1>4. slot \in Slots
  BY <1>0, <1>2
<1>5. /\ headers \in [Slots -> HeaderType]
      /\ Drained => \A s \in Slots : headers[s].sync < HEADER
      /\ ~Drained => headers = sbrHeader
  BY <1>0, HeaderFacts
<1>6. /\ hdr \in HeaderType
      /\ hdr.sync >= HEADER => headers[slot] = hdr
      /\ headers[slot].sync >= HEADER => headers[slot] = hdr
  <2>1. ASSUME NEW g, g = [Fresh EXCEPT !.sync = UPSAMPLING, !.reset = TRUE]
        PROVE  g \in HeaderType /\ g.sync = 1
    <3>1. g = [sync |-> 1, cfg |-> Default, update |-> FALSE, reset |-> TRUE]
      BY <1>1, <2>1 DEF Fresh
    <3>2. Default \in Headers
      BY HeaderFacts
    <3> QED BY <3>1, <3>2 DEF HeaderType
  <2>2. headers[slot] \in HeaderType
    BY <1>4, <1>5
  <2>3. CASE headers[slot].sync = NOT_INITIALIZED
    BY <1>1, <2>1, <2>3
  <2>4. CASE headers[slot].sync # NOT_INITIALIZED
    BY <2>2, <2>4
  <2> QED BY <2>3, <2>4
<1>7. flags \in [Slots -> BOOLEAN] /\ flags[cur] = (IF coreOk THEN frameErrorFlag[cur] ELSE TRUE)
  BY <1>0, <1>2 DEF Errors
<1>8. process \in BOOLEAN
  OBVIOUS
<1> HIDE DEF headers, hdr, flags
<1>9. /\ process => hdr.sync >= HEADER
      /\ hdr.sync >= HEADER /\ ~flags[cur] => process
  <2>1. hdr.sync \in 0 .. 3
    BY <1>6 DEF HeaderType
  <2> QED BY <1>1, <2>1
<1> HIDE DEF process
<1>10. /\ final \in HeaderType
       /\ hdr.sync >= HEADER => final.sync >= HEADER
       /\ final.sync >= HEADER => hdr.sync >= HEADER
  <2> DEFINE r == hdr.reset /\ ~process
             t == IF process THEN ACTIVE ELSE hdr.sync
  <2>1. final = [hdr EXCEPT !.reset = r, !.sync = t]
    BY <1>6 DEF HeaderType
  <2>2. r \in BOOLEAN
    BY Zenon
  <2>3. t \in 0 .. 3
    BY <1>1, <1>6 DEF HeaderType
  <2>4. t = IF process THEN ACTIVE ELSE hdr.sync
    OBVIOUS
  <2> HIDE DEF final, r, t
  <2>5. final = [sync |-> t, cfg |-> hdr.cfg, update |-> hdr.update, reset |-> r]
    BY <1>6, <2>1 DEF HeaderType
  <2>6. hdr.cfg \in Headers /\ hdr.update \in BOOLEAN
    BY <1>6 DEF HeaderType
  <2>7. final \in HeaderType /\ final.sync = t
    BY <2>2, <2>3, <2>5, <2>6 DEF HeaderType
  <2> QED BY <1>1, <1>9, <2>4, <2>7
<1> HIDE DEF final
<1>11. /\ sbrHeader' \in [Slots -> HeaderType]
       /\ \A s \in Slots : sbrHeader'[s] = IF s = slot THEN final ELSE headers[s]
  BY <1>3, <1>4, <1>5, <1>10
<1>12. \A s \in Slots : (sbrHeader'[s].sync >= HEADER) => (headers[s].sync >= HEADER)
  BY <1>4, <1>6, <1>10, <1>11
<1>13. \A s \in Slots : (headers[s].sync >= HEADER) => (sbrHeader'[s].sync >= HEADER)
  BY <1>4, <1>6, <1>10, <1>11
<1>14. \A s \in Slots : ~(headers[s].sync < HEADER) <=> headers[s].sync >= HEADER
  <2> SUFFICES ASSUME NEW s \in Slots
      PROVE  ~(headers[s].sync < HEADER) <=> headers[s].sync >= HEADER
    OBVIOUS
  <2>1. headers[s] \in HeaderType
    BY <1>5
  <2>2. headers[s].sync \in 0 .. 3
    BY <2>1 DEF HeaderType
  <2> QED BY <1>1, <2>2
<1>15. Drained \in BOOLEAN
  BY DEF Drained
<1>16. process => ~Drained /\ Sounds(cur)
  BY <1>4, <1>5, <1>6, <1>9, <1>14 DEF Sounds
<1>17. ~Drained /\ Good(cur) /\ coreOk => process
  BY <1>4, <1>5, <1>6, <1>7, <1>9 DEF Good, Sounds
<1>18. filters' \in {h.bands : h \in Headers}
  <2>1. hdr.cfg \in Headers
    BY <1>6 DEF HeaderType
  <2> QED BY <1>0, <1>3, <2>1 DEF Rebuilt
<1>19. /\ played'.active = process /\ played'.error = flags[cur]
       /\ played'.due = (inRow = 2)
       /\ played'.inStep = (frameData[cur].age = numDelayFrames)
  BY <1>3
<1>20. played' \in [active : BOOLEAN, error : BOOLEAN, inStep : BOOLEAN,
                    tuned : BOOLEAN, fits : BOOLEAN, due : BOOLEAN]
  <2>1. flags[cur] \in BOOLEAN
    BY <1>2, <1>7
  <2> QED BY <1>3, <1>8, <2>1
<1> QED BY <1>2, <1>5, <1>7, <1>8, <1>11, <1>12, <1>13, <1>14, <1>16, <1>17, <1>18,
           <1>19, <1>20

LEMMA ApplyKeeps ==
  ASSUME Inv, NEW coreOk \in BOOLEAN, Apply(coreOk)
  PROVE  Inv'
<1> DEFINE cur == Flushed(useFrameSlot)
<1>1. Type
  BY DEF Inv
<1>2. /\ stage \in {"apply", "conceal"} /\ (coreOk => stage = "apply")
      /\ stage' = "between" /\ useFrameSlot' = cur
      /\ numFlushedFrames' = Lesser(IF flush THEN numFlushedFrames + 1 ELSE 0, 2)
      /\ frameErrorFlag' = Errors(coreOk, useFrameSlot)
      /\ frameData' = [s \in Slots |-> [frameData[s] EXCEPT !.age = Lesser(@ + 1, MaxAge)]]
      /\ ~forceReset' /\ ~flush'
      /\ inRow' = IF coreOk THEN inRow ELSE 2
      /\ goodRun' = IF coreOk THEN goodRun ELSE 0
      /\ shifted' = IF Drained /\ shifted = "flush" THEN "no" ELSE shifted
      /\ UNCHANGED <<numDelayFrames, useHeaderSlot, heard>>
  BY DEF Apply
<1>3. /\ useFrameSlot \in Slots /\ Slots = {0, 1} /\ numDelayFrames \in {0, 1}
      /\ numFlushedFrames \in 0 .. 2 /\ inRow \in 0 .. 2 /\ goodRun \in 0 .. 2
      /\ frameErrorFlag \in [Slots -> BOOLEAN] /\ useHeaderSlot \in [Slots -> Slots]
      /\ frameData \in [Slots -> [age : 0 .. MaxAge, cfg : Headers]]
  BY <1>1, SlotFacts DEF Type
<1>4. frameErrorFlag' \in [Slots -> BOOLEAN]
  BY <1>2, <1>3 DEF Errors
<1>5. /\ frameData' \in [Slots -> [age : 0 .. MaxAge, cfg : Headers]]
      /\ \A s \in Slots : frameData[s].age = 0 => frameData'[s].age = 1
  <2>1. ASSUME NEW h \in [age : 0 .. MaxAge, cfg : Headers], NEW g,
               g = [h EXCEPT !.age = Lesser(h.age + 1, MaxAge)]
        PROVE  g \in [age : 0 .. MaxAge, cfg : Headers] /\ (h.age = 0 => g.age = 1)
    <3>1. h.age \in 0 .. MaxAge /\ h.cfg \in Headers
      OBVIOUS
    <3>2. Lesser(h.age + 1, MaxAge) \in 0 .. MaxAge
      BY <3>1, SbrAgeBound DEF Lesser
    <3>3. h.age = 0 => Lesser(h.age + 1, MaxAge) = 1
      BY SbrAgeBound DEF Lesser
    <3> QED BY <2>1, <3>1, <3>2, <3>3
  <2>2. \A s \in Slots : frameData'[s] =
          [frameData[s] EXCEPT !.age = Lesser(frameData[s].age + 1, MaxAge)]
    BY <1>2
  <2>3. \A s \in Slots : /\ frameData'[s] \in [age : 0 .. MaxAge, cfg : Headers]
                         /\ frameData[s].age = 0 => frameData'[s].age = 1
    BY <1>3, <2>1, <2>2
  <2>4. DOMAIN frameData' = Slots /\ frameData' = [s \in Slots |-> frameData'[s]]
    BY <1>2
  <2> QED BY <2>3, <2>4
<1>6. numFlushedFrames' \in 0 .. 2
  BY <1>2, <1>3 DEF Lesser
<1>7. Type'
  <2>1. cur \in Slots /\ sbrHeader' \in [Slots -> HeaderType]
    BY <1>1, ApplyFacts
  <2>2. filters' \in {h.bands : h \in Headers}
    BY <1>1, ApplyFacts
  <2>3. played' \in [active : BOOLEAN, error : BOOLEAN, inStep : BOOLEAN,
                     tuned : BOOLEAN, fits : BOOLEAN, due : BOOLEAN]
    BY <1>1, ApplyFacts
  <2>4. forceReset' \in BOOLEAN /\ flush' \in BOOLEAN
    BY Zenon DEF Apply
  <2>5. /\ inRow' \in 0 .. 2 /\ goodRun' \in 0 .. 2
        /\ shifted' \in {"no", "flush", "lost"} /\ numDelayFrames' \in 0 .. 1
        /\ heard' \in Configs \cup {NoHeader} /\ useHeaderSlot' \in [Slots -> Slots]
        /\ stage' \in {"between", "parse", "apply", "conceal"}
    BY <1>1, <1>2 DEF Type
  <2> QED BY <1>2, <1>4, <1>5, <1>6, <2>1, <2>2, <2>3, <2>4, <2>5 DEF Type, HeaderType
<1>8. FlushWhenApplied' /\ Idle'
  BY <1>2 DEF FlushWhenApplied, Idle
<1>9. /\ coreOk => frameErrorFlag' = frameErrorFlag
      /\ ~coreOk => \A s \in Slots : frameErrorFlag'[s]
  BY <1>2 DEF Errors
<1>10. \A s \in Slots : useHeaderSlot[s] \in Slots
  BY <1>3
<1>11. \A s \in Slots : (Good(s))' => coreOk /\ Good(s)
  BY <1>1, <1>2, <1>9, <1>10, ApplyFacts DEF Good, Sounds
<1>12. ~Drained /\ coreOk => \A s \in Slots : Good(s) => (Good(s))'
  BY <1>1, <1>2, <1>9, <1>10, ApplyFacts DEF Good, Sounds
<1>13. ~flush => cur = useFrameSlot /\ ~Drained
  BY DEF Flushed, Drained
<1>14. coreOk /\ ~flush => ~Idle
  BY <1>2 DEF Idle
<1>15. numDelayFrames = 0 => cur = useFrameSlot /\ (flush => Drained)
  BY <1>3 DEF Flushed, Drained
<1>16. /\ Other \in Slots /\ 0 \in Slots
       /\ cur = useFrameSlot => Other' = Other
  BY <1>2, <1>3 DEF Other
<1>17. AgesKept'
  <2>1. CASE numDelayFrames = 1
    <3>1. inRow' >= 1 /\ numFlushedFrames' = 0 => (Aged(Other, 1))'
      <4> SUFFICES ASSUME numFlushedFrames' = 0, inRow' >= 1, (Good(Other))'
          PROVE  (frameData[Other].age)' = 1
        BY DEF Aged
      <4>1. ~flush
        BY <1>2, <1>3 DEF Lesser
      <4>2. Other' = Other
        BY <1>13, <1>16, <4>1
      <4>3. coreOk /\ Good(Other)
        BY <1>11, <1>16, <4>2 DEF Good, Sounds
      <4>4. frameData[Other].age = 0
        BY <1>2, <1>14, <2>1, <4>1, <4>3 DEF Inv, AgesKept, Aged
      <4> QED BY <1>5, <1>16, <4>2, <4>4
    <3> QED BY <1>2, <1>8, <2>1, <3>1 DEF AgesKept
  <2>2. CASE numDelayFrames = 0
    <3>1. inRow' >= 1 => useFrameSlot' = 0 \/ ~(Good(0))'
      <4> SUFFICES ASSUME inRow' >= 1, (Good(0))' PROVE useFrameSlot' = 0
        OBVIOUS
      <4>1. coreOk /\ Good(0)
        BY <1>11, <1>16
      <4>2. useFrameSlot = 0
        BY <1>2, <2>2, <4>1 DEF Inv, AgesKept
      <4> QED BY <1>2, <1>15, <2>2, <4>2
    <3> QED BY <1>2, <1>8, <2>2, <3>1 DEF AgesKept
  <2> QED BY <1>3, <2>1, <2>2
<1>18. GoodKept'
  <2>1. goodRun' >= 1 => coreOk /\ goodRun >= 1 /\ goodRun' = goodRun /\ ~flush
    BY <1>2, <1>3 DEF Inv, GoodKept
  <2>2. goodRun' >= 1 => IF numDelayFrames' = 1 THEN (Good(Other))' ELSE useFrameSlot' = 0
    <3> SUFFICES ASSUME goodRun' >= 1
        PROVE  IF numDelayFrames' = 1 THEN (Good(Other))' ELSE useFrameSlot' = 0
      OBVIOUS
    <3>1. IF numDelayFrames = 1 THEN Good(Other) ELSE useFrameSlot = 0
      BY <2>1 DEF Inv, GoodKept
    <3>2. CASE numDelayFrames = 1
      <4>1. (Good(Other))' <=> Good(Other)
        BY <1>11, <1>12, <1>13, <1>16, <2>1 DEF Good, Sounds
      <4> QED BY <1>2, <3>1, <3>2, <4>1
    <3>3. CASE numDelayFrames = 0
      BY <1>2, <1>15, <3>1, <3>3
    <3> QED BY <1>3, <3>2, <3>3
  <2> QED BY <1>2, <1>8, <2>2 DEF GoodKept
<1>19. InStepWithCore'
  <2> SUFFICES ASSUME played'.active, ~played'.error, played'.due PROVE played'.inStep
    BY DEF InStepWithCore
  <2>1. coreOk /\ Good(cur) /\ ~Drained /\ inRow = 2
    BY <1>1, ApplyFacts DEF Good
  <2>2. frameData[cur].age = numDelayFrames
    <3>1. numDelayFrames = 0 \/ numDelayFrames = 1
      BY <1>3
    <3>2. CASE numDelayFrames = 1 /\ ~flush
      <4>1. Aged(useFrameSlot, 1)
        BY <1>14, <2>1, <3>2 DEF Inv, AgesKept
      <4> QED BY <1>13, <2>1, <3>2, <4>1 DEF Aged, Good, Sounds
    <3>3. CASE numDelayFrames = 1 /\ flush
      <4>1. numFlushedFrames = 0 /\ Idle
        BY <1>3, <2>1, <3>3 DEF Drained, Idle
      <4>2. cur = Other
        BY <1>1, <1>3, <3>3, <4>1, SlotFacts DEF Flushed, Other
      <4>3. Aged(Other, 1)
        BY <2>1, <3>3, <4>1 DEF Inv, AgesKept
      <4> QED BY <2>1, <3>3, <4>2, <4>3 DEF Aged, Good, Sounds
    <3>4. CASE numDelayFrames = 0
      <4>1. ~flush /\ cur = useFrameSlot
        BY <1>15, <2>1, <3>4
      <4>2. Aged(0, 0) /\ useFrameSlot = 0
        BY <1>14, <2>1, <3>4, <4>1 DEF Inv, AgesKept
      <4> QED BY <2>1, <3>4, <4>1, <4>2 DEF Aged, Good, Sounds
    <3> QED BY <3>1, <3>2, <3>3, <3>4
  <2>3. played'.inStep = (frameData[cur].age = numDelayFrames)
    BY <1>1, ApplyFacts
  <2> QED BY <2>2, <2>3, Zenon
<1>20. GoodFramesRecover'
  <2> SUFFICES ASSUME goodRun' = 2 PROVE played'.active /\ ~played'.error
    BY DEF GoodFramesRecover
  <2>1. coreOk /\ goodRun = 2 /\ ~flush
    BY <1>2, <1>3 DEF Inv, GoodKept
  <2>2. Good(cur) /\ ~Drained
    BY <1>13, <1>14, <2>1 DEF Inv, GoodKept
  <2> QED BY <1>1, <2>1, <2>2, ApplyFacts DEF Good
<1> QED BY <1>7, <1>8, <1>17, <1>18, <1>19, <1>20 DEF Inv

LEMMA NextKeeps == Inv /\ [Next]_vars => Inv'
<1> SUFFICES ASSUME Inv, [Next]_vars PROVE Inv'
  OBVIOUS
<1>1. ASSUME NEW hdr \in Configs \cup {NoHeader}, Configure(hdr) PROVE Inv'
  BY <1>1, ConfigureKeeps
<1>2. ASSUME NEW d \in 0 .. 1, SetDelay(d) PROVE Inv'
  BY <1>2, SetDelayKeeps
<1>3. CASE ClearHistory
  BY <1>3, ClearHistoryKeeps
<1>4. CASE Interrupt
  BY <1>4, InterruptKeeps
<1>5. CASE InitElement
  BY <1>5, InitElementKeeps
<1>6. ASSUME NEW flushing \in BOOLEAN, SkipParsing(flushing) PROVE Inv'
  BY <1>6, SkipParsingKeeps
<1>7. ASSUME NEW called \in BOOLEAN, ParseNothing(called) PROVE Inv'
  BY <1>7, ParseNothingKeeps
<1>8. ASSUME NEW p \in Payloads, Parse(p) PROVE Inv'
  BY <1>8, ParseKeeps
<1>9. ASSUME NEW coreOk \in BOOLEAN, Apply(coreOk) PROVE Inv'
  BY <1>9, ApplyKeeps
<1>10. CASE UNCHANGED vars
  BY <1>10 DEF vars, histories, Inv, Type, FlushWhenApplied, AgesKept, GoodKept, Idle,
     Aged, Good, Sounds, Other, InStepWithCore, GoodFramesRecover
<1> QED BY <1>1, <1>2, <1>3, <1>4, <1>5, <1>6, <1>7, <1>8, <1>9, <1>10 DEF Next

(* Every reachable state of the delay line satisfies the invariant.         *)
THEOREM SbrInvariant == Spec => []Inv
BY InitKeeps, NextKeeps, PTL DEF Spec

(* Slots, headers and histories keep their types.                           *)
THEOREM TypeCorrect == Spec => []Type
<1>1. Inv => Type
  BY DEF Inv
<1> QED BY <1>1, SbrInvariant, PTL

(* What SBR plays after two payloads in a row came with the frame the core  *)
(* puts out, whatever has been lost, flushed, reset or delayed before.      *)
THEOREM InStepWithCoreTheorem == Spec => []InStepWithCore
<1>1. Inv => InStepWithCore
  BY DEF Inv
<1> QED BY <1>1, SbrInvariant, PTL

(* Two good frames with their header in a row bring SBR back.               *)
THEOREM GoodFramesRecoverTheorem == Spec => []GoodFramesRecover
<1>1. Inv => GoodFramesRecover
  BY DEF Inv
<1> QED BY <1>1, SbrInvariant, PTL

(* A payload that is parsed leaves the header of the waiting frame alone.   *)
THEOREM WaitingHeaderKeptTheorem == Spec => WaitingHeaderKept
<1>1. Inv /\ [Next]_vars =>
        [stage' # "between" /\ numDelayFrames = 1 =>
           sbrHeader'[Waiting] = sbrHeader[Waiting] \/ forceReset]_vars
  <2> SUFFICES ASSUME Inv, [Next]_vars, stage' # "between", numDelayFrames = 1, ~forceReset
      PROVE  sbrHeader'[Waiting] = sbrHeader[Waiting]
    BY DEF vars
  <2>1. ASSUME NEW p \in Payloads, Parse(p)
        PROVE  sbrHeader'[Waiting] = sbrHeader[Waiting]
    <3>1. Type
      BY DEF Inv
    <3> QED BY <2>1, <3>1, ParseFacts DEF Waiting, Other
  <2>2. CASE UNCHANGED vars
    BY <2>2 DEF vars
  <2>3. CASE InitElement
    BY <2>3 DEF InitElement
  <2>4. ASSUME NEW flushing \in BOOLEAN, SkipParsing(flushing)
        PROVE  sbrHeader' = sbrHeader
    BY <2>4 DEF SkipParsing
  <2>5. ASSUME NEW called \in BOOLEAN, ParseNothing(called) PROVE sbrHeader' = sbrHeader
    BY <2>5 DEF ParseNothing
  <2>6. /\ \A hdr \in Configs \cup {NoHeader} : ~Configure(hdr)
        /\ \A d \in 0 .. 1 : ~SetDelay(d)
        /\ ~ClearHistory /\ ~Interrupt
        /\ \A coreOk \in BOOLEAN : ~Apply(coreOk)
    BY DEF Configure, SetDelay, ClearHistory, Interrupt, Apply
  <2> QED BY <2>1, <2>2, <2>3, <2>4, <2>5, <2>6 DEF Next
<1> QED BY <1>1, SbrInvariant, PTL DEF Spec, WaitingHeaderKept
-----------------------------------------------------------------------------
(* The header the stream has announced last.  With the delay of one frame   *)
(* the slot of the next header is never the one of the last frame, so that  *)
(* the next payload sees what has been announced in the one, or what the    *)
(* last frame used in the other.                                            *)
Serves(hdr, cfg) == hdr.cfg = cfg /\ hdr.sync >= HEADER

Ready(headers, use, cur, d, cfg) ==
  IF d = 1
  THEN LET last == use[1 - cur]
       IN  /\ ~headers[last].update
           /\ cfg # NoHeader =>
                Serves(headers[IF headers[1 - last].update THEN 1 - last ELSE last], cfg)
  ELSE cfg # NoHeader => Serves(headers[0], cfg)

HeaderReady ==
  shifted # "lost" =>
    /\ numDelayFrames = 0 => useFrameSlot = 0 /\ useHeaderSlot[0] = 0 /\ useHeaderSlot[1] = 1
    /\ flush => heard = NoHeader /\ \A s \in Slots : ~sbrHeader[s].update
    /\ shifted = "no" =>
         /\ ~flush
         /\ Ready(sbrHeader, useHeaderSlot, useFrameSlot, numDelayFrames, heard)

KeptInv == Inv /\ HeaderReady

LEMMA UpdatedKeeps ==
  /\ Fresh.update = FALSE /\ Fresh.sync < HEADER /\ Fresh.cfg # NoHeader
  /\ \A h \in HeaderType, c \in Configs :
       Updated(h, c).cfg = c /\ Updated(h, c).update = h.update
  /\ NoHeader \notin Configs
<1>1. Fresh.update = FALSE /\ Fresh.sync < HEADER /\ Fresh.cfg # NoHeader
  BY DEF Fresh, NOT_INITIALIZED, HEADER, Default, NoHeader
<1>2. NoHeader \notin Configs
  <2>1. \A c \in Configs : c.bands \in Nat \ {0}
    BY SbrConfigs
  <2> QED BY <2>1 DEF NoHeader
<1>3. ASSUME NEW h \in HeaderType, NEW c \in Configs
      PROVE  Updated(h, c).cfg = c /\ Updated(h, c).update = h.update
  BY DEF Updated, HeaderType
<1> QED BY <1>1, <1>2, <1>3

LEMMA UsableSync ==
  ASSUME NEW h \in HeaderType, NEW c \in Configs, c \notin Unusable
  PROVE  Updated(h, c).sync >= HEADER
<1>1. HEADER = 2 /\ h.sync \in 0 .. 3
  BY HeaderFacts DEF HeaderType
<1>2. CASE IsReset(h, c)
  <2>1. Updated(h, c).sync = HEADER
    BY <1>2, HeaderFacts
  <2> QED BY <1>1, <2>1
<1>3. CASE ~IsReset(h, c)
  <2>1. Updated(h, c).sync = h.sync /\ ~(h.sync < HEADER)
    BY <1>3, HeaderFacts DEF IsReset
  <2> QED BY <1>1, <2>1
<1> QED BY <1>2, <1>3

(* The two slots a payload deals with.                                      *)
LEMMA HeaderSlots ==
  ASSUME Type
  PROVE  /\ thisHdrSlot \in Slots /\ lastHdrSlot \in Slots
         /\ numDelayFrames = 1 => /\ lastHdrSlot = useHeaderSlot[1 - useFrameSlot]
                                  /\ thisHdrSlot = 1 - lastHdrSlot
         /\ numDelayFrames = 0 /\ useFrameSlot = 0 /\ useHeaderSlot[0] = 0
              /\ useHeaderSlot[1] = 1 => thisHdrSlot = 0 /\ lastHdrSlot = 0
<1>1. /\ thisHdrSlot \in Slots /\ lastHdrSlot \in Slots /\ Slots = {0, 1}
      /\ thisHdrSlot # useHeaderSlot[Other]
      /\ numDelayFrames = 1 => LastSlot = Other
      /\ numDelayFrames = 0 => LastSlot = 0
  BY GivenFacts, SlotFacts
<1>2. numDelayFrames = 1 => /\ lastHdrSlot = useHeaderSlot[1 - useFrameSlot]
                            /\ thisHdrSlot = 1 - lastHdrSlot
  BY <1>1 DEF lastHdrSlot, Other
<1>3. ASSUME numDelayFrames = 0, useFrameSlot = 0, useHeaderSlot[0] = 0,
             useHeaderSlot[1] = 1
      PROVE  thisHdrSlot = 0 /\ lastHdrSlot = 0
  <2>1. ~\E s \in Slots : useHeaderSlot[s] = useHeaderSlot[0] /\ s # useHeaderSlot[0]
    BY <1>1, <1>3
  <2>2. HeaderSlot(0) = useHeaderSlot[0]
    BY <2>1 DEF HeaderSlot
  <2> QED BY <1>1, <1>3, <2>2 DEF thisHdrSlot, lastHdrSlot
<1> QED BY <1>1, <1>2, <1>3

LEMMA ReadyGives ==
  ASSUME Type, HeaderReady, shifted = "no", heard # NoHeader
  PROVE  Serves(Given, heard)
<1>1. /\ thisHdrSlot \in Slots /\ lastHdrSlot \in Slots /\ Slots = {0, 1}
      /\ numDelayFrames \in {0, 1} /\ useFrameSlot \in Slots
  BY HeaderSlots, SlotFacts DEF Type
<1>2. sbrHeader \in [Slots -> HeaderType]
  BY DEF Type, HeaderType
<1>3. Ready(sbrHeader, useHeaderSlot, useFrameSlot, numDelayFrames, heard)
  BY DEF HeaderReady
<1>4. \A h \in HeaderType : \A g : g = [h EXCEPT !.update = FALSE] =>
        (Serves(h, heard) => Serves(g, heard))
  BY DEF Serves, HeaderType
<1>5. CASE numDelayFrames = 1
  <2>1. thisHdrSlot = 1 - lastHdrSlot /\ thisHdrSlot # lastHdrSlot
        /\ lastHdrSlot = useHeaderSlot[1 - useFrameSlot]
    BY <1>1, <1>5, HeaderSlots
  <2>2. Serves(sbrHeader[IF sbrHeader[thisHdrSlot].update THEN thisHdrSlot
                         ELSE lastHdrSlot], heard)
    BY <1>3, <1>5, <2>1 DEF Ready
  <2>3. CASE sbrHeader[thisHdrSlot].update
    <3>1. Given = [sbrHeader[thisHdrSlot] EXCEPT !.update = FALSE]
      BY <2>3 DEF Given
    <3> QED BY <1>1, <1>2, <1>4, <2>2, <2>3, <3>1
  <2>4. CASE ~sbrHeader[thisHdrSlot].update
    <3>1. Given = sbrHeader[lastHdrSlot]
      BY <2>1, <2>4 DEF Given
    <3> QED BY <2>2, <2>4, <3>1
  <2> QED BY <2>3, <2>4
<1>6. CASE numDelayFrames = 0
  <2>1. thisHdrSlot = 0 /\ lastHdrSlot = 0
    BY <1>6, HeaderSlots DEF HeaderReady
  <2>2. Given = [sbrHeader[0] EXCEPT !.update = FALSE]
    BY <2>1 DEF Given
  <2>3. Serves(sbrHeader[0], heard)
    BY <1>3, <1>6 DEF Ready
  <2> QED BY <1>1, <1>2, <1>4, <2>2, <2>3
<1> QED BY <1>1, <1>5, <1>6

LEMMA ConfigureReady ==
  ASSUME KeptInv, NEW hdr \in Configs \cup {NoHeader}, Configure(hdr)
  PROVE  HeaderReady'
<1>1. Slots = {0, 1} /\ ~flush
  BY SlotFacts DEF KeptInv, Inv, FlushWhenApplied, Configure
<1>2. /\ useFrameSlot' = 0 /\ useHeaderSlot' = [s \in Slots |-> s]
      /\ flush' = flush
      /\ sbrHeader' = [s \in Slots |->
           IF s = 0 /\ hdr \in Configs
             THEN [Updated(Fresh, hdr) EXCEPT !.update = hdr \notin Unusable]
             ELSE Fresh]
      /\ heard' = IF hdr \in Configs \ Unusable THEN hdr ELSE NoHeader
  BY DEF Configure, Configured
<1>3. sbrHeader'[1] = Fresh /\ useHeaderSlot'[0] = 0 /\ useHeaderSlot'[1] = 1
  BY <1>1, <1>2
<1>4. heard' # NoHeader => sbrHeader'[0].update /\ Serves(sbrHeader'[0], heard')
  <2> SUFFICES ASSUME heard' # NoHeader
      PROVE  sbrHeader'[0].update /\ Serves(sbrHeader'[0], heard')
    OBVIOUS
  <2>1. hdr \in Configs /\ hdr \notin Unusable /\ heard' = hdr
    BY <1>2
  <2>2. sbrHeader'[0] = [Updated(Fresh, hdr) EXCEPT !.update = TRUE]
    BY <1>1, <1>2, <2>1
  <2>3. Updated(Fresh, hdr) \in HeaderType /\ Updated(Fresh, hdr).cfg = hdr
    BY <2>1, HeaderFacts, UpdatedKeeps
  <2>4. Updated(Fresh, hdr).sync = HEADER
    BY <2>1, HeaderFacts DEF IsReset
  <2> QED BY <2>1, <2>2, <2>3, <2>4, HeaderFacts DEF HeaderType, Serves
<1>5. Ready(sbrHeader, useHeaderSlot, useFrameSlot, numDelayFrames, heard)'
  BY <1>2, <1>3, <1>4, UpdatedKeeps DEF Ready
<1> QED BY <1>1, <1>2, <1>3, <1>5 DEF HeaderReady

LEMMA InterruptReady == KeptInv /\ Interrupt => HeaderReady'
<1> SUFFICES ASSUME KeptInv, Interrupt PROVE HeaderReady'
  OBVIOUS
<1>1. Type /\ ~flush /\ HeaderReady
  BY DEF KeptInv, Inv, FlushWhenApplied, Interrupt
<1>2. /\ heard' = NoHeader
      /\ UNCHANGED <<numDelayFrames, useFrameSlot, useHeaderSlot, flush, shifted>>
      /\ \A s \in Slots : s # thisHdrSlot => sbrHeader'[s] = sbrHeader[s]
  BY <1>1 DEF Interrupt, Type
<1>3. numDelayFrames = 1 => /\ lastHdrSlot = useHeaderSlot[1 - useFrameSlot]
                            /\ lastHdrSlot \in Slots /\ lastHdrSlot # thisHdrSlot
  BY <1>1, HeaderSlots, SlotFacts
<1>4. numDelayFrames = 1 => sbrHeader'[lastHdrSlot] = sbrHeader[lastHdrSlot]
  BY <1>2, <1>3
<1> QED BY <1>1, <1>2, <1>3, <1>4 DEF HeaderReady, Ready

LEMMA ParseReady ==
  ASSUME KeptInv, NEW p \in Payloads, Parse(p)
  PROVE  HeaderReady'
<1> DEFINE this   == thisHdrSlot
           last   == lastHdrSlot
           parsed == IF HasHeader(p) THEN Updated(Given, p.header) ELSE Given
           read   == p.matches /\ parsed.sync >= HEADER
           fine   == read /\ p.body = "good"
           wrong  == read /\ p.body = "crc" /\ Status(p) # "not present"
           status == IF wrong THEN "error" ELSE Status(p)
           hdr    == IF wrong THEN [parsed EXCEPT !.sync = NOT_INITIALIZED] ELSE parsed
           old    == UseOld(status, fine, hdr)
<1>1. Type /\ HeaderReady /\ ~flush
  BY DEF KeptInv, Inv, FlushWhenApplied, Parse
<1>2. /\ sbrHeader' = [sbrHeader EXCEPT ![this] = hdr]
      /\ useHeaderSlot' = [useHeaderSlot EXCEPT ![useFrameSlot] = IF old THEN last ELSE this]
      /\ useFrameSlot' = Following(useFrameSlot)
      /\ heard' = IF ~HasHeader(p) /\ ~wrong THEN heard
                  ELSE IF Complete(p) THEN p.header ELSE NoHeader
      /\ UNCHANGED <<numDelayFrames, flush, shifted>>
  BY DEF Parse
<1>3. /\ sbrHeader \in [Slots -> HeaderType] /\ useHeaderSlot \in [Slots -> Slots]
      /\ useFrameSlot \in Slots /\ Slots = {0, 1} /\ numDelayFrames \in {0, 1}
      /\ this \in Slots /\ last \in Slots /\ Given \in HeaderType
  BY <1>1, GivenFacts, HeaderSlots, SlotFacts DEF Type, HeaderType
<1>4. HasHeader(p) => p.header \in Configs
  BY DEF HasHeader, Payloads
<1>5. Complete(p) => /\ HasHeader(p) /\ ~wrong
                     /\ sbrHeader'[useHeaderSlot'[useFrameSlot]].sync >= HEADER
  BY <1>1, ParseFacts DEF Complete
<1>6. parsed \in HeaderType /\ (HasHeader(p) => parsed.cfg = p.header)
      /\ parsed.update = Given.update
  BY <1>3, <1>4, HeaderFacts, UpdatedKeeps
<1>7. hdr.cfg = parsed.cfg /\ hdr.update = Given.update /\ (~wrong => hdr = parsed)
  BY <1>6 DEF HeaderType
<1>8. /\ heard' # NoHeader => ~wrong /\ hdr = parsed
      /\ heard' # NoHeader /\ ~HasHeader(p) => heard' = heard /\ hdr = Given
      /\ heard' # NoHeader /\ HasHeader(p) => Complete(p) /\ heard' = p.header
  BY <1>2, <1>5, <1>7 DEF Complete
<1>9. shifted = "no" /\ heard # NoHeader => Serves(Given, heard)
  BY <1>1, ReadyGives
<1>10. ~HasHeader(p) /\ ~wrong =>
         status = IF sbrHeader[this].update THEN "ok" ELSE "not present"
  BY DEF Status
<1>11. old /\ status \notin {"not present", "error", "reset"} => hdr = sbrHeader[last]
  BY DEF UseOld
<1>12. Complete(p) /\ old => hdr = sbrHeader[last]
  <2> SUFFICES ASSUME Complete(p), old PROVE hdr = sbrHeader[last]
    OBVIOUS
  <2>1. status \in {"ok", "reset"} /\ ~wrong
    BY <1>5 DEF Status, Complete, HasHeader
  <2>2. parsed.sync >= HEADER
    <3>1. parsed = Updated(Given, p.header) /\ p.header \notin Unusable
      BY <1>5 DEF Complete
    <3>2. HasHeader(p) /\ p.header \in Configs
      BY <1>4, <1>5
    <3> QED BY <1>3, <3>1, <3>2, UsableSync
  <2>3. fine
    BY <2>2 DEF Complete, HasHeader
  <2> QED BY <2>1, <2>3 DEF UseOld
<1>13. numDelayFrames = 1 /\ ~sbrHeader[last].update => ~Given.update
  BY <1>3 DEF Given, HeaderType
<1> HIDE DEF this, last, parsed, read, fine, wrong, status, hdr, old
<1>14. \A s \in Slots : sbrHeader'[s] = IF s = this THEN hdr ELSE sbrHeader[s]
  BY <1>2, <1>3
<1>15. CASE numDelayFrames = 0
  <2> SUFFICES ASSUME shifted # "lost"
      PROVE  /\ useFrameSlot' = 0 /\ useHeaderSlot'[0] = 0 /\ useHeaderSlot'[1] = 1
             /\ shifted = "no" /\ heard' # NoHeader => Serves(sbrHeader'[0], heard')
    BY <1>1, <1>2, <1>15 DEF HeaderReady, Ready
  <2>1. /\ this = 0 /\ last = 0 /\ useFrameSlot = 0
        /\ useHeaderSlot[0] = 0 /\ useHeaderSlot[1] = 1
    BY <1>1, <1>15, HeaderSlots DEF HeaderReady, this, last
  <2>2. useFrameSlot' = 0 /\ useHeaderSlot'[0] = 0 /\ useHeaderSlot'[1] = 1
    BY <1>1, <1>2, <1>3, <1>15, <2>1, SlotFacts
  <2>3. sbrHeader'[0] = hdr
    BY <1>3, <1>14, <2>1
  <2>4. shifted = "no" /\ heard' # NoHeader => Serves(hdr, heard')
    <3>1. CASE HasHeader(p)
      BY <1>5, <1>6, <1>7, <1>8, <2>1, <2>2, <2>3, <3>1 DEF Serves
    <3>2. CASE ~HasHeader(p)
      BY <1>8, <1>9, <3>2
    <3> QED BY <3>1, <3>2
  <2> QED BY <2>2, <2>3, <2>4
<1>16. CASE numDelayFrames = 1
  <2> SUFFICES ASSUME shifted = "no"
      PROVE  Ready(sbrHeader', useHeaderSlot', useFrameSlot', 1, heard')
    BY <1>1, <1>2, <1>16 DEF HeaderReady
  <2>1. this = 1 - last /\ this # last /\ last = useHeaderSlot[1 - useFrameSlot]
    BY <1>1, <1>3, <1>16, HeaderSlots DEF this, last
  <2>2. ~sbrHeader[last].update
    BY <1>1, <1>16, <2>1 DEF HeaderReady, Ready
  <2>3. ~hdr.update
    BY <1>7, <1>13, <1>16, <2>2
  <2>4. useFrameSlot' = 1 - useFrameSlot /\ 1 - useFrameSlot' = useFrameSlot
    BY <1>1, <1>2, <1>3, <1>16, SlotFacts
  <2>5. useHeaderSlot'[useFrameSlot] = IF old THEN last ELSE this
    BY <1>2, <1>3
  <2>6. /\ sbrHeader'[this] = hdr /\ sbrHeader'[last] = sbrHeader[last]
        /\ last = 1 - this
    BY <1>3, <1>14, <2>1
  <2>7. CASE old
    <3>1. heard' # NoHeader => Serves(sbrHeader[last], heard')
      <4>1. CASE HasHeader(p)
        <5>1. heard' # NoHeader => Complete(p) /\ heard' = p.header /\ hdr = sbrHeader[last]
          BY <1>8, <1>12, <2>7, <4>1
        <5>2. Complete(p) => sbrHeader[last].sync >= HEADER
          BY <1>5, <2>5, <2>6, <2>7
        <5> QED BY <1>6, <1>7, <4>1, <5>1, <5>2 DEF Serves
      <4>2. CASE ~HasHeader(p)
        <5> SUFFICES ASSUME heard' # NoHeader PROVE Serves(sbrHeader[last], heard')
          OBVIOUS
        <5>1. ~wrong /\ heard' = heard /\ hdr = Given
          BY <1>8, <4>2
        <5>2. CASE sbrHeader[this].update
          <6>1. hdr = sbrHeader[last]
            BY <1>10, <1>11, <2>7, <4>2, <5>1, <5>2
          <6> QED BY <1>9, <5>1, <6>1
        <5>3. CASE ~sbrHeader[this].update
          <6>1. Given = sbrHeader[last]
            BY <2>1, <5>3 DEF Given, this, last
          <6> QED BY <1>9, <5>1, <6>1
        <5> QED BY <5>2, <5>3
      <4> QED BY <4>1, <4>2
    <3> QED BY <2>1, <2>2, <2>3, <2>4, <2>5, <2>6, <2>7, <3>1 DEF Ready
  <2>8. CASE ~old
    <3>1. heard' # NoHeader => Serves(hdr, heard')
      <4>1. CASE HasHeader(p)
        <5>1. Complete(p) => hdr.sync >= HEADER
          BY <1>5, <2>5, <2>6, <2>8
        <5> QED BY <1>6, <1>7, <1>8, <4>1, <5>1 DEF Serves
      <4>2. CASE ~HasHeader(p)
        BY <1>8, <1>9, <4>2
      <4> QED BY <4>1, <4>2
    <3> QED BY <2>1, <2>2, <2>3, <2>4, <2>5, <2>6, <2>8, <3>1 DEF Ready
  <2> QED BY <2>7, <2>8
<1> QED BY <1>3, <1>15, <1>16

(* A header in use keeps its configuration until a flush has run dry; none  *)
(* that is no longer announced becomes so.                                  *)
LEMMA ApplyHeaders ==
  ASSUME Type, NEW coreOk \in BOOLEAN, Apply(coreOk), NEW s \in Slots
  PROVE  /\ ~sbrHeader[s].update => ~sbrHeader'[s].update
         /\ ~Drained /\ sbrHeader[s].sync >= HEADER =>
              /\ sbrHeader'[s].cfg = sbrHeader[s].cfg
              /\ sbrHeader'[s].sync >= HEADER
              /\ sbrHeader'[s].update = sbrHeader[s].update
<1> DEFINE cur == Flushed(useFrameSlot)
           flags == Errors(coreOk, useFrameSlot)
           headers == IF Drained THEN [i \in Slots |-> Capped(sbrHeader[i])]
                      ELSE sbrHeader
           slot == useHeaderSlot[cur]
           hdr == IF headers[slot].sync = NOT_INITIALIZED
                    THEN [Fresh EXCEPT !.sync = UPSAMPLING, !.reset = TRUE]
                    ELSE headers[slot]
           process == hdr.sync = ACTIVE \/ (hdr.sync = HEADER /\ ~flags[cur])
           final == [hdr EXCEPT !.reset = @ /\ ~process,
                                !.sync = IF process THEN ACTIVE ELSE @]
<1>1. sbrHeader' = [headers EXCEPT ![slot] = final]
  BY DEF Apply
<1>2. sbrHeader \in [Slots -> HeaderType] /\ useHeaderSlot \in [Slots -> Slots]
  BY DEF Type, HeaderType
<1>3. slot \in Slots
  BY <1>2, ApplyFacts
<1>4. /\ headers \in [Slots -> HeaderType]
      /\ headers[s].update = sbrHeader[s].update
      /\ ~Drained => headers = sbrHeader
  <2>1. \A h \in HeaderType : Capped(h) \in HeaderType /\ Capped(h).update = h.update
    BY HeaderFacts DEF Capped, HeaderType
  <2> QED BY <1>2, <2>1
<1>5. /\ hdr.update => headers[slot].update
      /\ headers[slot].sync >= HEADER => hdr = headers[slot]
      /\ hdr \in HeaderType
  <2>1. ASSUME NEW g, g = [Fresh EXCEPT !.sync = UPSAMPLING, !.reset = TRUE]
        PROVE  g \in HeaderType /\ ~g.update
    <3>1. g = [sync |-> 1, cfg |-> Default, update |-> FALSE, reset |-> TRUE]
      BY <2>1, HeaderFacts DEF Fresh
    <3>2. Default \in Headers
      BY HeaderFacts
    <3> QED BY <3>1, <3>2 DEF HeaderType
  <2>2. headers[slot] \in HeaderType
    BY <1>3, <1>4
  <2>3. NOT_INITIALIZED = 0 /\ HEADER = 2
    BY HeaderFacts
  <2> HIDE DEF headers, slot
  <2>4. CASE headers[slot].sync = NOT_INITIALIZED
    <3>1. hdr = [Fresh EXCEPT !.sync = UPSAMPLING, !.reset = TRUE]
      BY <2>4
    <3>2. hdr \in HeaderType /\ ~hdr.update
      BY <2>1, <3>1
    <3>3. ~(headers[slot].sync >= HEADER)
      BY <2>3, <2>4
    <3> QED BY <3>2, <3>3
  <2>5. CASE headers[slot].sync # NOT_INITIALIZED
    BY <2>2, <2>5
  <2> QED BY <2>4, <2>5
<1> HIDE DEF hdr, headers, slot, process
<1>6. /\ final.update = hdr.update /\ final.cfg = hdr.cfg
      /\ hdr.sync >= HEADER => final.sync >= HEADER
  <2>1. final.update = hdr.update /\ final.cfg = hdr.cfg
        /\ final.sync = IF process THEN ACTIVE ELSE hdr.sync
    BY <1>5 DEF HeaderType
  <2>2. ACTIVE = 3 /\ HEADER = 2
    BY HeaderFacts
  <2> HIDE DEF final
  <2> QED BY <2>1, <2>2
<1> HIDE DEF final
<1>7. sbrHeader'[s] = IF s = slot THEN final ELSE headers[s]
  BY <1>1, <1>3, <1>4
<1> QED BY <1>4, <1>5, <1>6, <1>7

LEMMA ApplyReady ==
  ASSUME KeptInv, NEW coreOk \in BOOLEAN, Apply(coreOk)
  PROVE  HeaderReady'
<1>1. Type /\ HeaderReady
  BY DEF KeptInv, Inv
<1>2. /\ useFrameSlot' = Flushed(useFrameSlot) /\ ~flush'
      /\ shifted' = IF Drained /\ shifted = "flush" THEN "no" ELSE shifted
      /\ UNCHANGED <<numDelayFrames, useHeaderSlot, heard>>
  BY DEF Apply
<1>3. /\ Slots = {0, 1} /\ numDelayFrames \in {0, 1} /\ numFlushedFrames \in 0 .. 2
      /\ useFrameSlot \in Slots /\ useFrameSlot' \in Slots
      /\ useHeaderSlot \in [Slots -> Slots]
      /\ \A s \in Slots : 1 - s \in Slots
      /\ shifted \in {"no", "flush", "lost"}
  BY <1>1, <1>2, ApplyFacts, SlotFacts DEF Type
<1>4. numDelayFrames = 0 \/ ~flush => useFrameSlot' = useFrameSlot
  BY <1>2, <1>3 DEF Flushed
<1>5. \A s \in Slots : ~sbrHeader[s].update => ~sbrHeader'[s].update
  BY <1>1, ApplyHeaders
<1>6. CASE shifted = "no"
  <2>1. ~flush /\ ~Drained
    BY <1>1, <1>6 DEF HeaderReady, Drained
  <2>2. /\ useFrameSlot' = useFrameSlot /\ shifted' = "no"
        /\ Ready(sbrHeader, useHeaderSlot, useFrameSlot, numDelayFrames, heard)
    BY <1>1, <1>2, <1>4, <1>6, <2>1 DEF HeaderReady
  <2>3. \A s \in Slots, cfg \in Configs \cup {NoHeader} : Serves(sbrHeader[s], cfg) =>
          Serves(sbrHeader'[s], cfg) /\ sbrHeader'[s].update = sbrHeader[s].update
    BY <1>1, <2>1, ApplyHeaders DEF Serves
  <2>4. heard \in Configs \cup {NoHeader}
    BY <1>1 DEF Type
  <2>5. CASE numDelayFrames = 1
    <3> DEFINE last == useHeaderSlot[1 - useFrameSlot]
    <3>1. last \in Slots /\ 1 - last \in Slots /\ ~sbrHeader[last].update
      BY <1>3, <2>2, <2>5 DEF Ready
    <3>2. heard # NoHeader =>
            Serves(sbrHeader[IF sbrHeader[1 - last].update THEN 1 - last ELSE last], heard)
      BY <2>2, <2>5 DEF Ready
    <3> HIDE DEF last
    <3>3. ~sbrHeader'[last].update
      BY <1>5, <3>1
    <3>4. heard # NoHeader =>
            Serves(sbrHeader'[IF sbrHeader'[1 - last].update THEN 1 - last ELSE last], heard)
      BY <1>5, <2>3, <2>4, <3>1, <3>2
    <3>5. Ready(sbrHeader', useHeaderSlot', useFrameSlot', numDelayFrames', heard')
      BY <1>2, <2>2, <2>5, <3>3, <3>4 DEF Ready, last
    <3> QED BY <1>2, <2>2, <2>5, <3>5 DEF HeaderReady
  <2>6. CASE numDelayFrames = 0
    <3>1. heard # NoHeader => Serves(sbrHeader'[0], heard)
      BY <1>3, <2>2, <2>3, <2>4, <2>6 DEF Ready
    <3> QED BY <1>1, <1>2, <1>6, <2>2, <2>6, <3>1 DEF HeaderReady, Ready
  <2> QED BY <1>3, <2>5, <2>6
<1>7. CASE shifted = "flush"
  <2>1. CASE flush
    <3>1. heard' = NoHeader /\ \A s \in Slots : ~sbrHeader'[s].update
      BY <1>1, <1>2, <1>5, <1>7, <2>1 DEF HeaderReady
    <3>2. Ready(sbrHeader', useHeaderSlot', useFrameSlot', numDelayFrames', heard')
      BY <1>2, <1>3, <3>1 DEF Ready
    <3> QED BY <1>1, <1>2, <1>4, <1>7, <3>2 DEF HeaderReady
  <2>2. CASE ~flush
    <3>1. shifted' = "flush" /\ useFrameSlot' = useFrameSlot
      BY <1>2, <1>4, <1>7, <2>2 DEF Drained
    <3> QED BY <1>1, <1>2, <1>7, <3>1 DEF HeaderReady
  <2> QED BY <2>1, <2>2
<1>8. CASE shifted = "lost"
  BY <1>2, <1>8 DEF HeaderReady
<1> QED BY <1>3, <1>6, <1>7, <1>8

LEMMA InitElementReady == KeptInv /\ InitElement => HeaderReady'
<1> SUFFICES ASSUME KeptInv, InitElement PROVE HeaderReady'
  OBVIOUS
<1>1. Slots = {0, 1} /\ ~flush /\ HeaderReady
  BY SlotFacts DEF KeptInv, Inv, FlushWhenApplied, InitElement
<1>2. UNCHANGED <<numDelayFrames, flush>>
  BY DEF InitElement
<1>3. CASE forceReset
  <2>1. /\ useFrameSlot' = 0 /\ heard' = NoHeader
        /\ useHeaderSlot'[0] = 0 /\ useHeaderSlot'[1] = 1
        /\ sbrHeader'[0] = Fresh /\ sbrHeader'[1] = Fresh
    BY <1>1, <1>3 DEF InitElement
  <2> QED BY <1>1, <1>2, <2>1, UpdatedKeeps DEF HeaderReady, Ready
<1>4. CASE ~forceReset
  <2>1. /\ UNCHANGED <<useFrameSlot, useHeaderSlot, sbrHeader, heard>>
        /\ shifted' = IF shifted = "flush" THEN "lost" ELSE shifted
    BY <1>4 DEF InitElement, Abandoned
  <2> QED BY <1>1, <1>2, <2>1 DEF HeaderReady
<1> QED BY <1>3, <1>4

LEMMA SkipParsingReady ==
  ASSUME KeptInv, NEW flushing \in BOOLEAN, SkipParsing(flushing)
  PROVE  HeaderReady'
<1>1. HeaderReady
  BY DEF KeptInv
<1>2. /\ UNCHANGED <<numDelayFrames, useFrameSlot, useHeaderSlot, sbrHeader>>
      /\ flush' = flushing
      /\ heard' = IF flushing THEN NoHeader ELSE heard
      /\ flushing => shifted # "lost" /\ \A s \in Slots : ~sbrHeader[s].update
      /\ shifted' = IF ~flushing THEN Abandoned
                    ELSE IF shifted = "no" THEN "flush" ELSE shifted
  BY DEF SkipParsing, HeaderPending
<1>3. CASE flushing
  <2>1. shifted' # "no" /\ heard' = NoHeader
    BY <1>2, <1>3
  <2> QED BY <1>1, <1>2, <1>3, <2>1 DEF HeaderReady
<1>4. CASE ~flushing
  BY <1>1, <1>2, <1>4 DEF HeaderReady, Abandoned
<1> QED BY <1>3, <1>4

LEMMA NextReady ==
  ASSUME KeptInv, [Next]_vars
  PROVE  HeaderReady'
<1>1. HeaderReady
  BY DEF KeptInv
<1>2. ASSUME NEW hdr \in Configs \cup {NoHeader}, Configure(hdr) PROVE HeaderReady'
  BY <1>2, ConfigureReady
<1>3. ASSUME NEW d \in 0 .. 1, SetDelay(d) PROVE HeaderReady'
  BY <1>3 DEF SetDelay, HeaderReady
<1>4. ASSUME UNCHANGED <<numDelayFrames, useFrameSlot, useHeaderSlot, sbrHeader, flush,
                         heard, shifted>>
      PROVE  HeaderReady'
  BY <1>1, <1>4 DEF HeaderReady
<1>5. CASE ClearHistory
  BY <1>4, <1>5 DEF ClearHistory, histories
<1>6. ASSUME NEW flushing \in BOOLEAN, SkipParsing(flushing) PROVE HeaderReady'
  BY <1>6, SkipParsingReady
<1>7. ASSUME NEW called \in BOOLEAN, ParseNothing(called) PROVE HeaderReady'
  BY <1>4, <1>7 DEF ParseNothing
<1>8. ASSUME NEW p \in Payloads, Parse(p) PROVE HeaderReady'
  BY <1>8, ParseReady
<1>9. ASSUME NEW coreOk \in BOOLEAN, Apply(coreOk) PROVE HeaderReady'
  BY <1>9, ApplyReady
<1>10. CASE UNCHANGED vars
  BY <1>4, <1>10 DEF vars, histories
<1> QED BY <1>2, <1>3, <1>5, <1>6, <1>7, <1>8, <1>9, <1>10, InterruptReady,
           InitElementReady DEF Next

(* Unless a change of the delay or a broken-off flush has moved the slots,  *)
(* what a payload without a header is parsed with is what the stream has    *)
(* announced last.                                                          *)
THEOREM HeaderKeptTheorem == Spec => []HeaderKeptUnlessShifted
<1>1. Init => KeptInv
  <2> SUFFICES ASSUME Init PROVE HeaderReady
    BY InitKeeps DEF KeptInv
  <2>1. /\ useFrameSlot = 0 /\ useHeaderSlot[0] = 0 /\ useHeaderSlot[1] = 1
        /\ ~flush /\ heard = NoHeader /\ sbrHeader[0] = Fresh /\ sbrHeader[1] = Fresh
    BY DEF Init, Slots
  <2> QED BY <2>1, UpdatedKeeps DEF HeaderReady, Ready
<1>2. KeptInv /\ [Next]_vars => KeptInv'
  BY NextKeeps, NextReady DEF KeptInv
<1>3. KeptInv => HeaderKeptUnlessShifted
  BY ReadyGives DEF KeptInv, Inv, HeaderKeptUnlessShifted, HeaderKept, Serves
<1> QED BY <1>1, <1>2, <1>3, PTL DEF Spec
-----------------------------------------------------------------------------
(* What is played fits: a slot that is not flagged holds a payload that was *)
(* parsed with its header (Fits), the filters are set up for every header   *)
(* in use that does not ask for a reset (Tuned), and one that does keeps    *)
(* asking until it is played, as an announced one is not played before a    *)
(* payload has taken it over (Announced, Unplayed).                         *)
InUse(s) == sbrHeader[useHeaderSlot[s]]

Fits == \A s \in Slots :
          Good(s) /\ ~InUse(s).update => frameData[s].cfg = InUse(s).cfg

Announced == \A s \in Slots :
               sbrHeader[s].update /\ sbrHeader[s].sync >= HEADER =>
                 sbrHeader[s].reset /\ sbrHeader[s].sync = HEADER
Unplayed == stage = "apply" /\ ~flush /\ InUse(useFrameSlot).update =>
              frameErrorFlag[useFrameSlot]

Settled(hdr) == hdr.sync >= HEADER /\ ~hdr.reset
Tuned(s) == Settled(InUse(s)) => InUse(s).cfg.bands = filters

(* With the delay of one frame the slot that is played must not set up the  *)
(* filters anew while the other relies on them.                             *)
AllTuned ==
  IF numDelayFrames = 1
  THEN /\ Tuned(useFrameSlot) /\ Tuned(Other)
       /\ Settled(InUse(Other)) =>
            ~InUse(useFrameSlot).reset /\ InUse(useFrameSlot).sync # NOT_INITIALIZED
  ELSE Tuned(0)

FlushInOrder == stage # "between" /\ ~flush => shifted # "flush"

FitsInv ==
  /\ KeptInv /\ Fits /\ FlushInOrder
  /\ shifted # "lost" => /\ Announced /\ Unplayed
                         /\ shifted = "no" \/ numFlushedFrames = 0 => AllTuned
  /\ HeaderFitsFrame

LEMMA SettledUpdate ==
  ASSUME NEW h \in HeaderType, NEW c \in Configs, Settled(Updated(h, c))
  PROVE  Settled(h) /\ h.cfg.bands = Updated(h, c).cfg.bands
<1>1. NOT_INITIALIZED = 0 /\ HEADER = 2 /\ Updated(h, c).cfg = c
  BY HeaderFacts, UpdatedKeeps
<1>2. CASE ~IsReset(h, c)
  <2>1. Updated(h, c) = [h EXCEPT !.cfg = c] /\ h.cfg.bands = c.bands
    BY <1>2 DEF Updated, IsReset
  <2>2. Updated(h, c).sync = h.sync /\ Updated(h, c).reset = h.reset
    BY <2>1 DEF HeaderType
  <2> QED BY <1>1, <2>1, <2>2 DEF Settled
<1>3. CASE IsReset(h, c) /\ c \in Unusable
  <2>1. Updated(h, c) = [h EXCEPT !.cfg = c, !.sync = 0]
    BY <1>1, <1>3 DEF Updated
  <2>2. Updated(h, c).sync = 0
    BY <2>1 DEF HeaderType
  <2> QED BY <1>1, <2>2 DEF Settled
<1>4. CASE IsReset(h, c) /\ c \notin Unusable
  <2>1. Updated(h, c) = [h EXCEPT !.cfg = c, !.sync = 2, !.reset = TRUE]
    BY <1>1, <1>4 DEF Updated
  <2>2. Updated(h, c).reset
    BY <2>1 DEF HeaderType
  <2> QED BY <2>2 DEF Settled
<1> QED BY <1>2, <1>3, <1>4

LEMMA ParseTuned ==
  ASSUME FitsInv, NEW p \in Payloads, Parse(p), shifted # "lost"
  PROVE  Announced' /\ Unplayed' /\ AllTuned'
<1> DEFINE this   == thisHdrSlot
           last   == lastHdrSlot
           parsed == IF HasHeader(p) THEN Updated(Given, p.header) ELSE Given
           read   == p.matches /\ parsed.sync >= HEADER
           fine   == read /\ p.body = "good"
           wrong  == read /\ p.body = "crc" /\ Status(p) # "not present"
           status == IF wrong THEN "error" ELSE Status(p)
           hdr    == IF wrong THEN [parsed EXCEPT !.sync = NOT_INITIALIZED] ELSE parsed
           old    == UseOld(status, fine, hdr)
<1>1. Type /\ HeaderReady /\ ~flush /\ shifted = "no" /\ Announced /\ AllTuned
  BY DEF FitsInv, KeptInv, Inv, Type, FlushWhenApplied, FlushInOrder, Parse
<1>2. /\ sbrHeader' = [sbrHeader EXCEPT ![this] = hdr]
      /\ useHeaderSlot' = [useHeaderSlot EXCEPT ![useFrameSlot] = IF old THEN last ELSE this]
      /\ useFrameSlot' = Following(useFrameSlot)
      /\ UNCHANGED <<numDelayFrames, filters, flush>>
  BY DEF Parse
<1>3. /\ sbrHeader \in [Slots -> HeaderType] /\ useHeaderSlot \in [Slots -> Slots]
      /\ useFrameSlot \in Slots /\ Slots = {0, 1} /\ numDelayFrames \in {0, 1}
      /\ this \in Slots /\ last \in Slots /\ Given \in HeaderType
      /\ NOT_INITIALIZED = 0 /\ HEADER = 2
  BY <1>1, GivenFacts, HeaderSlots, SlotFacts, HeaderFacts DEF Type, HeaderType
<1>4. HasHeader(p) => p.header \in Configs
  BY DEF HasHeader, Payloads
<1>5. parsed \in HeaderType /\ parsed.update = Given.update
      /\ (Settled(parsed) => Settled(Given) /\ Given.cfg.bands = parsed.cfg.bands)
  BY <1>3, <1>4, HeaderFacts, UpdatedKeeps, SettledUpdate
<1>6. /\ hdr.update = Given.update
      /\ Settled(hdr) => Settled(Given) /\ Given.cfg.bands = hdr.cfg.bands
  <2>1. CASE wrong
    <3>1. hdr = [parsed EXCEPT !.sync = 0]
      BY <1>3, <2>1
    <3> HIDE DEF hdr, parsed
    <3>2. hdr.sync = 0 /\ hdr.update = parsed.update
      BY <1>5, <3>1 DEF HeaderType
    <3> QED BY <1>3, <1>5, <3>2 DEF Settled
  <2>2. CASE ~wrong
    BY <1>5, <2>2
  <2> QED BY <2>1, <2>2
<1> HIDE DEF parsed, read, fine, wrong, status, hdr, old
<1>7. this # last => numDelayFrames = 1
  BY <1>1, <1>3, HeaderSlots DEF HeaderReady, this, last
<1>8. Settled(Given) => /\ Settled(sbrHeader[last])
                        /\ Given.cfg = sbrHeader[last].cfg
  <2> DEFINE h == sbrHeader[this]
  <2>1. h \in HeaderType
    BY <1>3
  <2>2. CASE h.update \/ this = last
    <3>1. Given = [h EXCEPT !.update = FALSE]
      BY <2>2 DEF Given, this, last
    <3> HIDE DEF h
    <3>2. Given.cfg = h.cfg /\ Given.sync = h.sync /\ Given.reset = h.reset
      BY <2>1, <3>1 DEF HeaderType
    <3>3. CASE this = last
      BY <3>2, <3>3 DEF Settled, h
    <3>4. CASE h.update
      <4>1. h.sync >= HEADER => h.reset
        BY <1>1, <1>3, <3>4 DEF Announced, h
      <4> QED BY <3>2, <4>1 DEF Settled
    <3> QED BY <2>2, <3>3, <3>4
  <2>3. CASE ~(h.update \/ this = last)
    <3>1. Given = sbrHeader[last]
      BY <2>3 DEF Given, this, last
    <3> QED BY <3>1
  <2> QED BY <2>2, <2>3
<1>9. ~Given.update
  <2>1. CASE this = last
    <3>1. Given = [sbrHeader[this] EXCEPT !.update = FALSE]
      BY <2>1 DEF Given, this, last
    <3> QED BY <1>3, <3>1 DEF HeaderType
  <2>2. CASE this # last
    <3>1. numDelayFrames = 1 /\ last = useHeaderSlot[1 - useFrameSlot]
      BY <1>1, <1>7, <2>2, HeaderSlots DEF last
    <3>2. ~sbrHeader[last].update
      BY <1>1, <3>1 DEF HeaderReady, Ready
    <3> QED BY <1>3, <3>2 DEF Given, HeaderType, last
  <2> QED BY <2>1, <2>2
<1>10. \A s \in Slots : sbrHeader'[s] = IF s = this THEN hdr ELSE sbrHeader[s]
  BY <1>2, <1>3
<1>11. Announced'
  BY <1>1, <1>6, <1>9, <1>10 DEF Announced
<1>12. useHeaderSlot'[useFrameSlot] = IF old THEN last ELSE this
  BY <1>2, <1>3
<1>13. Settled(hdr) => hdr.cfg.bands = sbrHeader[last].cfg.bands /\ Settled(sbrHeader[last])
  BY <1>6, <1>8
<1>14. CASE numDelayFrames = 0
  <2>1. /\ this = 0 /\ last = 0 /\ useFrameSlot = 0
        /\ useHeaderSlot[0] = 0
    BY <1>1, <1>14, HeaderSlots DEF HeaderReady, this, last
  <2>2. useFrameSlot' = 0 /\ useHeaderSlot'[0] = 0
    BY <1>1, <1>2, <1>12, <1>14, <2>1, SlotFacts
  <2>3. sbrHeader'[0] = hdr
    BY <1>3, <1>10, <2>1
  <2>4. (InUse(0))' = hdr /\ InUse(0) = sbrHeader[0]
    BY <2>1, <2>2, <2>3 DEF InUse
  <2>5. Tuned(0)
    BY <1>1, <1>14 DEF AllTuned
  <2>6. (Tuned(0))'
    BY <1>2, <1>13, <2>1, <2>4, <2>5 DEF Tuned
  <2>7. Unplayed'
    BY <1>6, <1>9, <2>2, <2>4 DEF Unplayed
  <2> QED BY <1>2, <1>11, <1>14, <2>6, <2>7 DEF AllTuned
<1>15. CASE numDelayFrames = 1
  <2>1. this # last /\ last = useHeaderSlot[1 - useFrameSlot]
    BY <1>1, <1>3, <1>15, HeaderSlots DEF this, last
  <2>2. useFrameSlot' = 1 - useFrameSlot /\ Other' = useFrameSlot
    BY <1>1, <1>2, <1>3, <1>15, SlotFacts DEF Other
  <2>3. /\ sbrHeader'[this] = hdr /\ sbrHeader'[last] = sbrHeader[last]
        /\ useHeaderSlot'[1 - useFrameSlot] = last
    BY <1>2, <1>3, <1>10, <2>1
  <2>4. /\ (InUse(useFrameSlot))' = sbrHeader[last] /\ InUse(Other) = sbrHeader[last]
        /\ (InUse(Other))' = IF old THEN sbrHeader[last] ELSE hdr
    BY <1>12, <2>1, <2>2, <2>3 DEF InUse, Other
  <2>5. ~sbrHeader[last].update
    BY <1>1, <1>15, <2>1 DEF HeaderReady, Ready
  <2>6. Unplayed'
    BY <2>4, <2>5 DEF Unplayed
  <2>7. Settled(sbrHeader[last]) => sbrHeader[last].cfg.bands = filters
    BY <1>1, <1>15, <2>4 DEF AllTuned, Tuned
  <2>8. Settled((InUse(Other))') => /\ (InUse(Other))'.cfg.bands = filters
                                    /\ Settled(sbrHeader[last])
    BY <1>13, <2>4, <2>7
  <2>9. Settled(sbrHeader[last]) =>
          ~sbrHeader[last].reset /\ sbrHeader[last].sync # NOT_INITIALIZED
    BY <1>3 DEF Settled
  <2>10. (Tuned(useFrameSlot))'
    BY <1>2, <2>4, <2>7 DEF Tuned
  <2>11. (Tuned(Other))'
    BY <1>2, <2>8 DEF Tuned
  <2> QED BY <1>2, <1>11, <1>15, <2>4, <2>6, <2>8, <2>9, <2>10, <2>11 DEF AllTuned
<1> QED BY <1>3, <1>14, <1>15

LEMMA ParseFits ==
  ASSUME FitsInv, NEW p \in Payloads, Parse(p)
  PROVE  FitsInv'
<1>1. Type /\ Fits
  BY DEF FitsInv, KeptInv, Inv
<1>2. /\ Other \in Slots /\ \A s \in Slots : s = useFrameSlot \/ s = Other
      /\ \A s \in Slots : sbrHeader'[useHeaderSlot'[s]].sync \in 0 .. 3 /\ HEADER = 2
  <2>1. sbrHeader' \in [Slots -> HeaderType] /\ useHeaderSlot' \in [Slots -> Slots]
    BY <1>1, ParseFacts
  <2>2. \A s \in Slots : sbrHeader'[useHeaderSlot'[s]] \in HeaderType
    BY <2>1
  <2>3. \A s \in Slots : sbrHeader'[useHeaderSlot'[s]].sync \in 0 .. 3
    BY <2>2 DEF HeaderType
  <2>4. useFrameSlot \in {0, 1} /\ Slots = {0, 1}
    BY <1>1, SlotFacts DEF Type
  <2> QED BY <2>3, <2>4, HeaderFacts DEF Other
<1>3. Fits'
  <2> SUFFICES ASSUME NEW s \in Slots, ~frameErrorFlag'[s],
                      sbrHeader'[useHeaderSlot'[s]].sync >= HEADER,
                      ~sbrHeader'[useHeaderSlot'[s]].update
      PROVE  frameData'[s].cfg = sbrHeader'[useHeaderSlot'[s]].cfg
    BY DEF Fits, Good, Sounds, InUse
  <2>1. CASE s = useFrameSlot
    <3>1. ~(sbrHeader'[useHeaderSlot'[s]].sync < HEADER)
      BY <1>2
    <3> QED BY <1>1, <2>1, <3>1, ParseFacts
  <2>2. CASE s = Other
    <3>1. Good(Other) /\ ~InUse(Other).update
      BY <1>1, <2>2, ParseFacts DEF Good, Sounds, InUse
    <3>2. frameData[Other].cfg = InUse(Other).cfg
      BY <1>1, <1>2, <3>1 DEF Fits
    <3> QED BY <1>1, <2>2, <3>2, ParseFacts DEF InUse
  <2> QED BY <1>2, <2>1, <2>2
<1>4. stage' = "apply" /\ shifted' = shifted /\ stage = "parse" /\ ~flush
  BY DEF Parse, FitsInv, KeptInv, Inv, FlushWhenApplied
<1>5. shifted' # "lost" => Announced' /\ Unplayed' /\ AllTuned'
  BY <1>4, ParseTuned
<1>6. KeptInv'
  BY ParseKeeps, ParseReady DEF FitsInv, KeptInv
<1>7. FlushInOrder' /\ HeaderFitsFrame'
  BY <1>4 DEF FitsInv, FlushInOrder, HeaderFitsFrame
<1> QED BY <1>3, <1>5, <1>6, <1>7 DEF FitsInv

(* The other actions take headers out of use or leave them alone.           *)
LEMMA OthersFit ==
  ASSUME FitsInv,
         UNCHANGED <<numDelayFrames, useFrameSlot, useHeaderSlot, frameData, sbrHeader,
                     numFlushedFrames, filters>>,
         \A s \in Slots : frameErrorFlag[s] => frameErrorFlag'[s],
         shifted # "lost" /\ shifted' = "no" => shifted = "no",
         shifted' # "lost" => shifted # "lost" /\ Unplayed'
  PROVE  /\ Fits'
         /\ shifted' # "lost" => /\ Announced' /\ Unplayed'
                                 /\ shifted' = "no" \/ numFlushedFrames' = 0 => AllTuned'
<1>1. Fits'
  BY DEF FitsInv, Fits, Good, Sounds, InUse
<1>2. Announced => Announced'
  BY DEF Announced
<1>3. AllTuned => AllTuned'
  BY DEF AllTuned, Tuned, InUse, Other
<1> QED BY <1>1, <1>2, <1>3 DEF FitsInv

LEMMA FreshFits ==
  ASSUME \A s \in Slots : \/ ~(sbrHeader'[useHeaderSlot'[s]].sync >= HEADER)
                          \/ /\ sbrHeader'[useHeaderSlot'[s]].update
                             /\ sbrHeader'[useHeaderSlot'[s]].reset,
         ~(sbrHeader'[useHeaderSlot'[1]].sync >= HEADER), useFrameSlot' = 0
  PROVE  Fits' /\ AllTuned'
<1>1. 0 \in Slots /\ 1 \in Slots /\ 1 - 0 = 1
  BY DEF Slots
<1>2. Fits'
  BY DEF Fits, Good, Sounds, InUse
<1>3. \A s \in Slots : ~Settled(sbrHeader'[useHeaderSlot'[s]])
  BY DEF Settled
<1>4. ~Settled((InUse(0))') /\ ~Settled((InUse(1))')
  BY <1>1, <1>3 DEF InUse
<1>5. (Tuned(0))' /\ (Tuned(1))'
  BY <1>4 DEF Tuned, Settled
<1>6. Other' = 1 /\ (Settled(InUse(Other)))' = Settled((InUse(1))')
  BY <1>1 DEF Other, Settled
<1>7. (Tuned(useFrameSlot))' /\ (Tuned(Other))' /\ ~(Settled(InUse(Other)))'
  BY <1>4, <1>5, <1>6 DEF Tuned, InUse
<1>8. AllTuned'
  BY <1>5, <1>7 DEF AllTuned
<1> QED BY <1>2, <1>8

LEMMA ConfigureFits ==
  ASSUME FitsInv, NEW c \in Configs \cup {NoHeader}, Configure(c)
  PROVE  FitsInv'
<1>1. Slots = {0, 1} /\ HEADER = 2 /\ NOT_INITIALIZED = 0 /\ Fresh.sync = 0 /\ ~Fresh.update
  BY HeaderFacts, UpdatedKeeps, SlotFacts DEF Slots
<1>2. /\ useFrameSlot' = 0 /\ useHeaderSlot' = [s \in Slots |-> s]
      /\ sbrHeader' = [s \in Slots |->
           IF s = 0 /\ c \in Configs
             THEN [Updated(Fresh, c) EXCEPT !.update = c \notin Unusable]
             ELSE Fresh]
      /\ played' = Nothing /\ shifted' = "no" /\ stage' = "between"
  BY DEF Configure, Configured
<1>3. /\ sbrHeader'[1] = Fresh /\ useHeaderSlot'[0] = 0 /\ useHeaderSlot'[1] = 1
      /\ c \in Configs => sbrHeader'[0] = [Updated(Fresh, c) EXCEPT !.update = c \notin Unusable]
      /\ c \notin Configs => sbrHeader'[0] = Fresh
  BY <1>1, <1>2
<1>4. ASSUME c \in Configs
      PROVE  \/ sbrHeader'[0].sync = 0
             \/ sbrHeader'[0].sync = 2 /\ sbrHeader'[0].reset /\ sbrHeader'[0].update
  <2> DEFINE g == Updated(Fresh, c)
  <2>1. IsReset(Fresh, c) /\ g \in HeaderType
    BY <1>1, <1>4, HeaderFacts DEF IsReset
  <2>2. CASE c \in Unusable
    <3>1. g = [Fresh EXCEPT !.cfg = c, !.sync = 0]
      BY <1>1, <2>1, <2>2 DEF Updated
    <3>2. g.sync = 0
      BY <3>1 DEF Fresh
    <3> HIDE DEF g
    <3>3. sbrHeader'[0] = [g EXCEPT !.update = FALSE]
      BY <1>3, <1>4, <2>2 DEF g
    <3> QED BY <2>1, <3>2, <3>3 DEF HeaderType
  <2>3. CASE c \notin Unusable
    <3>1. g = [Fresh EXCEPT !.cfg = c, !.sync = 2, !.reset = TRUE]
      BY <1>1, <2>1, <2>3 DEF Updated
    <3>2. g.sync = 2 /\ g.reset
      BY <3>1 DEF Fresh
    <3> HIDE DEF g
    <3>3. sbrHeader'[0] = [g EXCEPT !.update = TRUE]
      BY <1>3, <1>4, <2>3 DEF g
    <3> QED BY <2>1, <3>2, <3>3 DEF HeaderType
  <2> QED BY <2>2, <2>3
<1>5. /\ ~(sbrHeader'[1].sync >= HEADER)
      /\ \/ sbrHeader'[0].sync = 0
         \/ sbrHeader'[0].sync = 2 /\ sbrHeader'[0].reset /\ sbrHeader'[0].update
  BY <1>1, <1>3, <1>4
<1>6. Fits' /\ AllTuned'
  BY <1>1, <1>2, <1>3, <1>5, FreshFits
<1>7. Announced'
  BY <1>1, <1>5 DEF Announced
<1>8. Unplayed' /\ FlushInOrder' /\ HeaderFitsFrame'
  BY <1>2, NothingPlayed DEF Unplayed, FlushInOrder, HeaderFitsFrame
<1>9. KeptInv'
  BY ConfigureKeeps, ConfigureReady DEF FitsInv, KeptInv
<1> QED BY <1>6, <1>7, <1>8, <1>9 DEF FitsInv

LEMMA InterruptFits == FitsInv /\ Interrupt => FitsInv'
<1> SUFFICES ASSUME FitsInv, Interrupt PROVE FitsInv'
  OBVIOUS
<1>1. Type /\ thisHdrSlot \in Slots /\ Slots = {0, 1} /\ Other \in Slots
      /\ useFrameSlot \in Slots /\ numDelayFrames \in {0, 1}
  BY GivenFacts, SlotFacts DEF FitsInv, KeptInv, Inv, Type, Other
<1>2. sbrHeader \in [Slots -> HeaderType] /\ useHeaderSlot \in [Slots -> Slots]
  BY <1>1 DEF Type, HeaderType
<1>3. /\ \A s \in Slots : s # thisHdrSlot => sbrHeader'[s] = sbrHeader[s]
      /\ sbrHeader'[thisHdrSlot].sync = 1
      /\ sbrHeader'[thisHdrSlot].reset = sbrHeader[thisHdrSlot].reset
      /\ HEADER = 2 /\ NOT_INITIALIZED = 0
  <2>1. UPSAMPLING = 1 /\ HEADER = 2 /\ NOT_INITIALIZED = 0
    BY HeaderFacts
  <2>2. sbrHeader[thisHdrSlot] \in HeaderType
    BY <1>1, <1>2
  <2>3. sbrHeader' = [sbrHeader EXCEPT ![thisHdrSlot] =
                        [sbrHeader[thisHdrSlot] EXCEPT !.sync = 1, !.update = TRUE]]
    BY <1>1, <1>2, <2>1 DEF Interrupt
  <2>4. sbrHeader'[thisHdrSlot] = [sbrHeader[thisHdrSlot] EXCEPT !.sync = 1, !.update = TRUE]
    BY <1>1, <1>2, <2>3
  <2>5. \A s \in Slots : s # thisHdrSlot => sbrHeader'[s] = sbrHeader[s]
    BY <1>2, <2>3
  <2>6. \A h \in HeaderType : \A g : g = [h EXCEPT !.sync = 1, !.update = TRUE] =>
          g.sync = 1 /\ g.reset = h.reset
    BY DEF HeaderType
  <2> QED BY <2>1, <2>2, <2>4, <2>5, <2>6
<1>4. /\ stage = "between" /\ stage' = "between"
      /\ UNCHANGED <<numDelayFrames, useFrameSlot, useHeaderSlot, frameErrorFlag,
                     frameData, flush, numFlushedFrames, filters, played, shifted>>
  BY DEF Interrupt
<1>5. Fits'
  <2> SUFFICES ASSUME NEW s \in Slots, ~frameErrorFlag[s],
                      sbrHeader'[useHeaderSlot[s]].sync >= HEADER,
                      ~sbrHeader'[useHeaderSlot[s]].update
      PROVE  frameData[s].cfg = sbrHeader'[useHeaderSlot[s]].cfg
    BY <1>4 DEF Fits, Good, Sounds, InUse
  <2>1. useHeaderSlot[s] \in Slots /\ useHeaderSlot[s] # thisHdrSlot
    BY <1>2, <1>3
  <2> QED BY <1>3, <2>1 DEF FitsInv, Fits, Good, Sounds, InUse
<1>6. Announced => Announced'
  <2> SUFFICES ASSUME Announced, NEW s \in Slots, sbrHeader'[s].update,
                      sbrHeader'[s].sync >= HEADER
      PROVE  sbrHeader'[s].reset /\ sbrHeader'[s].sync = HEADER
    BY DEF Announced
  <2>1. s # thisHdrSlot
    BY <1>3
  <2> QED BY <1>3, <2>1 DEF Announced
<1>7. \A s \in Slots : /\ (InUse(s))' = sbrHeader'[useHeaderSlot[s]]
                       /\ \/ (InUse(s))' = InUse(s)
                          \/ /\ ~Settled((InUse(s))')
                             /\ (InUse(s))'.sync # NOT_INITIALIZED
                             /\ (InUse(s))'.reset = InUse(s).reset
  BY <1>2, <1>3, <1>4 DEF InUse, Settled
<1>8. \A s \in Slots : Tuned(s) => (Tuned(s))'
  BY <1>4, <1>7 DEF Tuned, Settled
<1>9. AllTuned => AllTuned'
  <2> SUFFICES ASSUME AllTuned PROVE AllTuned'
    OBVIOUS
  <2>1. CASE numDelayFrames = 1
    <3>1. Other' = Other
      BY <1>4 DEF Other
    <3>2. (Tuned(useFrameSlot))' /\ (Tuned(Other))'
      BY <1>1, <1>4, <1>8, <2>1, <3>1 DEF AllTuned, Tuned, InUse
    <3>3. Settled(sbrHeader'[useHeaderSlot[Other]]) =>
            /\ ~sbrHeader'[useHeaderSlot[useFrameSlot]].reset
            /\ sbrHeader'[useHeaderSlot[useFrameSlot]].sync # NOT_INITIALIZED
      <4>1. Settled(sbrHeader'[useHeaderSlot[Other]]) => Settled(InUse(Other))
        BY <1>1, <1>7
      <4>2. Settled(InUse(Other)) =>
              ~InUse(useFrameSlot).reset /\ InUse(useFrameSlot).sync # NOT_INITIALIZED
        BY <2>1 DEF AllTuned
      <4> QED BY <1>1, <1>7, <4>1, <4>2
    <3> QED BY <1>4, <2>1, <3>1, <3>2, <3>3 DEF AllTuned, InUse, Settled
  <2>2. CASE numDelayFrames = 0
    BY <1>1, <1>4, <1>8, <2>2 DEF AllTuned
  <2> QED BY <1>1, <2>1, <2>2
<1>10. Unplayed' /\ FlushInOrder' /\ HeaderFitsFrame'
  BY <1>4 DEF FitsInv, Unplayed, FlushInOrder, HeaderFitsFrame
<1>11. KeptInv'
  BY InterruptKeeps, InterruptReady DEF FitsInv, KeptInv
<1> QED BY <1>4, <1>5, <1>6, <1>9, <1>10, <1>11 DEF FitsInv

LEMMA InitElementFits == FitsInv /\ InitElement => FitsInv'
<1> SUFFICES ASSUME FitsInv, InitElement PROVE FitsInv'
  OBVIOUS
<1>1. /\ stage = "between" /\ stage' = "parse" /\ played' = Nothing /\ ~flush /\ ~flush'
      /\ UNCHANGED <<numDelayFrames, frameData, numFlushedFrames, filters>>
  BY DEF InitElement, FitsInv, KeptInv, Inv, FlushWhenApplied
<1>2. Unplayed' /\ HeaderFitsFrame'
  BY <1>1 DEF Unplayed, HeaderFitsFrame
<1>3. KeptInv'
  BY InitElementKeeps, InitElementReady DEF FitsInv, KeptInv
<1>4. CASE forceReset
  <2>1. /\ useFrameSlot' = 0 /\ shifted' = "no"
        /\ useHeaderSlot' = [s \in Slots |-> s] /\ sbrHeader' = [s \in Slots |-> Fresh]
    BY <1>4 DEF InitElement
  <2>2. ~(Fresh.sync >= HEADER) /\ ~Fresh.update /\ 1 \in Slots
    BY HeaderFacts, UpdatedKeeps DEF Slots
  <2>3. Fits' /\ AllTuned'
    BY <2>1, <2>2, FreshFits
  <2>4. Announced' /\ FlushInOrder'
    BY <2>1, <2>2 DEF Announced, FlushInOrder
  <2> QED BY <1>2, <1>3, <2>3, <2>4 DEF FitsInv
<1>5. CASE ~forceReset
  <2>1. /\ shifted' = IF shifted = "flush" THEN "lost" ELSE shifted
        /\ UNCHANGED <<useFrameSlot, useHeaderSlot, frameErrorFlag, sbrHeader>>
    BY <1>5 DEF InitElement, Abandoned
  <2>2. FlushInOrder'
    BY <2>1 DEF FlushInOrder
  <2> QED BY <1>1, <1>2, <1>3, <2>1, <2>2, OthersFit DEF FitsInv
<1> QED BY <1>4, <1>5

LEMMA SkipParsingFits ==
  ASSUME FitsInv, NEW flushing \in BOOLEAN, SkipParsing(flushing)
  PROVE  FitsInv'
<1>1. /\ stage' = IF flushing THEN "apply" ELSE "conceal"
      /\ flush' = flushing /\ played' = Nothing
      /\ shifted' = IF ~flushing THEN Abandoned
                    ELSE IF shifted = "no" THEN "flush" ELSE shifted
      /\ flushing => shifted # "lost"
      /\ UNCHANGED <<numDelayFrames, useFrameSlot, useHeaderSlot, frameErrorFlag,
                     frameData, sbrHeader, numFlushedFrames, filters>>
  BY DEF SkipParsing
<1>2. /\ Unplayed' /\ HeaderFitsFrame' /\ FlushInOrder'
      /\ shifted' # "lost" => shifted # "lost"
      /\ shifted' = "no" => shifted = "no"
  BY <1>1 DEF Unplayed, HeaderFitsFrame, FlushInOrder, Abandoned
<1>3. KeptInv'
  BY SkipParsingKeeps, SkipParsingReady DEF FitsInv, KeptInv
<1> QED BY <1>1, <1>2, <1>3, OthersFit DEF FitsInv

LEMMA ParseNothingFits ==
  ASSUME FitsInv, NEW called \in BOOLEAN, ParseNothing(called)
  PROVE  FitsInv'
<1>1. /\ stage = "parse" /\ stage' = "apply" /\ ~flush /\ ~flush'
      /\ called \/ \A s \in Slots : ~sbrHeader[s].update
      /\ frameErrorFlag' = IF called THEN [frameErrorFlag EXCEPT ![useFrameSlot] = TRUE]
                           ELSE frameErrorFlag
      /\ UNCHANGED <<numDelayFrames, useFrameSlot, useHeaderSlot, frameData, sbrHeader,
                     forceReset, flush, numFlushedFrames, filters, played, heard, shifted>>
  BY DEF ParseNothing, HeaderPending, FitsInv, KeptInv, Inv, FlushWhenApplied
<1>2. /\ frameErrorFlag \in [Slots -> BOOLEAN] /\ useHeaderSlot \in [Slots -> Slots]
      /\ useFrameSlot \in Slots
  BY DEF FitsInv, KeptInv, Inv, Type
<1>3. /\ \A s \in Slots : frameErrorFlag[s] => frameErrorFlag'[s]
      /\ called => frameErrorFlag'[useFrameSlot]
  BY <1>1, <1>2
<1>4. Unplayed'
  BY <1>1, <1>2, <1>3 DEF Unplayed, InUse
<1>5. HeaderFitsFrame' /\ FlushInOrder'
  BY <1>1 DEF HeaderFitsFrame, FlushInOrder, FitsInv
<1>6. KeptInv'
  BY <1>1, ParseNothingKeeps DEF FitsInv, KeptInv, HeaderReady
<1> QED BY <1>1, <1>3, <1>4, <1>5, <1>6, OthersFit DEF FitsInv

(* sbrDecoder_Apply once more: only the header of the slot that is played   *)
(* changes, and it may become active and give up its reset.                 *)
LEMMA ApplyUsed ==
  ASSUME Type, NEW coreOk \in BOOLEAN, Apply(coreOk),
         NEW cur, cur = Flushed(useFrameSlot), NEW slot, slot = useHeaderSlot[cur]
  PROVE  /\ Drained => /\ \A s \in Slots : ~(sbrHeader'[s].sync >= HEADER)
                       /\ ~played'.active
         /\ ~Drained => \A s \in Slots : s # slot => sbrHeader'[s] = sbrHeader[s]
         /\ ~Drained /\ sbrHeader[slot].sync # NOT_INITIALIZED =>
              /\ sbrHeader'[slot].cfg = sbrHeader[slot].cfg
              /\ sbrHeader'[slot].update = sbrHeader[slot].update
              /\ sbrHeader'[slot].reset => sbrHeader[slot].reset
              /\ sbrHeader'[slot].sync # NOT_INITIALIZED
              /\ sbrHeader'[slot].sync >= HEADER => sbrHeader[slot].sync >= HEADER
              /\ filters' = Rebuilt(sbrHeader[slot])
              /\ sbrHeader[slot].sync = HEADER /\ Errors(coreOk, useFrameSlot)[cur] =>
                   sbrHeader'[slot] = sbrHeader[slot]
              /\ played'.active => sbrHeader[slot].sync >= HEADER
              /\ played'.tuned = (filters' = sbrHeader[slot].cfg.bands)
              /\ played'.fits = (frameData[cur].cfg = sbrHeader[slot].cfg)
         /\ ~Drained /\ sbrHeader[slot].sync = NOT_INITIALIZED =>
              ~(sbrHeader'[slot].sync >= HEADER) /\ ~played'.active
<1> DEFINE flags == Errors(coreOk, useFrameSlot)
           headers == IF Drained THEN [i \in Slots |-> Capped(sbrHeader[i])]
                      ELSE sbrHeader
           own == headers[slot]
           hdr == IF own.sync = NOT_INITIALIZED
                    THEN [Fresh EXCEPT !.sync = UPSAMPLING, !.reset = TRUE]
                    ELSE own
           process == hdr.sync = ACTIVE \/ (hdr.sync = HEADER /\ ~flags[cur])
           final == [hdr EXCEPT !.reset = @ /\ ~process,
                                !.sync = IF process THEN ACTIVE ELSE @]
<1>1. sbrHeader' = [headers EXCEPT ![slot] = final]
      /\ filters' = Rebuilt(hdr)
      /\ played' = [active |-> process, error |-> flags[cur],
                    inStep |-> frameData[cur].age = numDelayFrames,
                    tuned |-> filters' = hdr.cfg.bands,
                    fits |-> frameData[cur].cfg = hdr.cfg,
                    due |-> inRow = 2]
  BY DEF Apply
<1>2. sbrHeader \in [Slots -> HeaderType] /\ useHeaderSlot \in [Slots -> Slots]
  BY DEF Type, HeaderType
<1>3. cur \in Slots /\ slot \in Slots
  BY <1>2, ApplyFacts
<1>4. NOT_INITIALIZED = 0 /\ UPSAMPLING = 1 /\ HEADER = 2 /\ ACTIVE = 3
  BY HeaderFacts
<1>5. headers \in [Slots -> HeaderType]
      /\ (Drained => \A s \in Slots : ~(headers[s].sync >= HEADER))
      /\ (~Drained => headers = sbrHeader)
  <2>1. \A h \in HeaderType : Capped(h) \in HeaderType /\ ~(Capped(h).sync >= HEADER)
    <3> SUFFICES ASSUME NEW h \in HeaderType
        PROVE  Capped(h) \in HeaderType /\ ~(Capped(h).sync >= HEADER)
      OBVIOUS
    <3>1. Capped(h) \in HeaderType /\ Capped(h).sync < HEADER
      BY HeaderFacts
    <3>2. Capped(h).sync \in 0 .. 3
      BY <3>1 DEF HeaderType
    <3> QED BY <1>4, <3>1, <3>2
  <2> QED BY <1>2, <2>1
<1> HIDE DEF headers
<1>6. own \in HeaderType
  BY <1>3, <1>5
<1>7. ASSUME NEW g, g = [Fresh EXCEPT !.sync = UPSAMPLING, !.reset = TRUE]
      PROVE  g \in HeaderType /\ g.sync = 1
  <2>1. g = [sync |-> 1, cfg |-> Default, update |-> FALSE, reset |-> TRUE]
    BY <1>4, <1>7 DEF Fresh
  <2>2. Default \in Headers
    BY HeaderFacts
  <2> QED BY <2>1, <2>2 DEF HeaderType
<1> HIDE DEF own
<1>8. /\ own.sync = NOT_INITIALIZED => hdr \in HeaderType /\ hdr.sync = 1
      /\ own.sync # NOT_INITIALIZED => hdr = own
  BY <1>7
<1>9. hdr \in HeaderType
  BY <1>6, <1>8
<1> HIDE DEF hdr
<1>10. process \in BOOLEAN
  OBVIOUS
<1> HIDE DEF process
<1>11. /\ final.cfg = hdr.cfg /\ final.update = hdr.update
       /\ final.reset = (hdr.reset /\ ~process)
       /\ final.sync = IF process THEN ACTIVE ELSE hdr.sync
       /\ ~process => final = hdr
  <2> DEFINE r == hdr.reset /\ ~process
             n == IF process THEN ACTIVE ELSE hdr.sync
  <2>1. r \in BOOLEAN /\ n \in Nat
    BY <1>4, <1>9 DEF HeaderType
  <2>2. final = [hdr EXCEPT !.reset = r, !.sync = n]
    OBVIOUS
  <2>3. ~process => hdr.reset = r /\ hdr.sync = n
    BY <1>9 DEF HeaderType
  <2>4. final.reset = (hdr.reset /\ ~process)
    BY <1>9 DEF HeaderType
  <2> HIDE DEF r, n
  <2>5. final.cfg = hdr.cfg /\ final.update = hdr.update /\ final.sync = n
    BY <1>9, <2>2 DEF HeaderType
  <2>6. hdr.reset = r /\ hdr.sync = n => final = hdr
    BY <1>9, <2>1, <2>2 DEF HeaderType
  <2> QED BY <2>3, <2>4, <2>5, <2>6 DEF n
<1> HIDE DEF final
<1>12. /\ process => hdr.sync = ACTIVE \/ (hdr.sync = HEADER /\ ~flags[cur])
       /\ hdr.sync = HEADER /\ flags[cur] => ~process
  BY <1>4 DEF process
<1>13. \A s \in Slots : sbrHeader'[s] = IF s = slot THEN final ELSE headers[s]
  BY <1>1, <1>3, <1>5
<1>14. sbrHeader'[slot] = final
  BY <1>3, <1>13
<1>15. /\ played'.active = process /\ played'.tuned = (filters' = hdr.cfg.bands)
       /\ played'.fits = (frameData[cur].cfg = hdr.cfg)
  BY <1>1
<1>16. ~(hdr.sync >= HEADER) => ~process /\ final = hdr
  BY <1>4, <1>11, <1>12
<1>17. CASE Drained
  <2>1. ~(own.sync >= HEADER)
    BY <1>3, <1>5, <1>17 DEF own
  <2>2. ~(hdr.sync >= HEADER)
    BY <1>4, <1>8, <2>1
  <2> QED BY <1>5, <1>13, <1>15, <1>16, <1>17, <2>2
<1>18. CASE ~Drained
  <2>1. own = sbrHeader[slot]
    BY <1>5, <1>18 DEF own
  <2>2. \A s \in Slots : s # slot => sbrHeader'[s] = sbrHeader[s]
    BY <1>5, <1>13, <1>18
  <2>3. CASE own.sync = NOT_INITIALIZED
    BY <1>4, <1>8, <1>14, <1>15, <1>16, <1>18, <2>1, <2>2, <2>3
  <2>4. CASE own.sync # NOT_INITIALIZED
    <3>1. hdr = sbrHeader[slot]
      BY <1>8, <2>1, <2>4
    <3>2. final.sync # NOT_INITIALIZED /\ (final.sync >= HEADER => hdr.sync >= HEADER)
      BY <1>4, <1>8, <1>11, <1>12, <2>4
    <3>3. hdr.sync = HEADER /\ flags[cur] => final = hdr
      BY <1>11, <1>12
    <3>4. process => hdr.sync >= HEADER
      BY <1>4, <1>12
    <3>5. filters' = Rebuilt(hdr)
      BY <1>1
    <3> QED BY <1>11, <1>14, <1>15, <1>18, <2>1, <2>2, <2>4, <3>1, <3>2, <3>3, <3>4, <3>5
  <2> QED BY <2>3, <2>4
<1> QED BY <1>17, <1>18

LEMMA ApplyFits ==
  ASSUME FitsInv, NEW coreOk \in BOOLEAN, Apply(coreOk)
  PROVE  Fits'
<1> DEFINE cur == Flushed(useFrameSlot)
           slot == useHeaderSlot[cur]
<1>1. Type
  BY DEF FitsInv, KeptInv, Inv
<1>2. /\ sbrHeader \in [Slots -> HeaderType] /\ useHeaderSlot \in [Slots -> Slots]
      /\ frameErrorFlag \in [Slots -> BOOLEAN] /\ useHeaderSlot' = useHeaderSlot
      /\ frameData \in [Slots -> [age : 0 .. MaxAge, cfg : Headers]]
      /\ frameErrorFlag' = IF coreOk THEN frameErrorFlag ELSE [s \in Slots |-> TRUE]
      /\ frameData' = [s \in Slots |-> [frameData[s] EXCEPT !.age = Lesser(@ + 1, MaxAge)]]
  BY <1>1 DEF Type, HeaderType, Apply, Errors
<1>3. cur \in Slots /\ slot \in Slots
  BY <1>1, <1>2, ApplyFacts
<1>4. \A s \in Slots : frameData'[s].cfg = frameData[s].cfg
                       /\ (~frameErrorFlag'[s] => ~frameErrorFlag[s])
  BY <1>2
<1>5. ASSUME NEW s \in Slots, sbrHeader'[s].sync >= HEADER
      PROVE  /\ sbrHeader[s].sync >= HEADER
             /\ sbrHeader'[s].cfg = sbrHeader[s].cfg
             /\ sbrHeader'[s].update = sbrHeader[s].update
  <2>1. ~Drained
    BY <1>1, <1>5, ApplyUsed
  <2>2. CASE s # slot
    BY <1>1, <1>5, <2>1, <2>2, ApplyUsed
  <2>3. CASE s = slot
    BY <1>1, <1>5, <2>1, <2>3, ApplyUsed
  <2> QED BY <2>2, <2>3
<1> QED BY <1>2, <1>4, <1>5 DEF FitsInv, Fits, Good, Sounds, InUse

(* What is played was parsed with the header in use, with its filters.      *)
LEMMA ApplyShown ==
  ASSUME FitsInv, NEW coreOk \in BOOLEAN, Apply(coreOk), shifted # "lost",
         played'.active
  PROVE  played'.tuned /\ (~played'.error => played'.fits)
<1> DEFINE cur == Flushed(useFrameSlot)
           slot == useHeaderSlot[cur]
           h == sbrHeader[slot]
<1>1. Type /\ HeaderReady
  BY DEF FitsInv, KeptInv, Inv
<1>2. /\ useHeaderSlot \in [Slots -> Slots] /\ cur \in Slots /\ slot \in Slots
      /\ frameErrorFlag \in [Slots -> BOOLEAN] /\ numDelayFrames \in {0, 1}
      /\ useFrameSlot \in {0, 1} /\ numFlushedFrames \in 0 .. 2
      /\ NOT_INITIALIZED = 0 /\ HEADER = 2 /\ shifted \in {"no", "flush", "lost"}
  BY <1>1, ApplyFacts, SlotFacts, HeaderFacts DEF Type
<1>3. ~Drained
  BY <1>1, ApplyUsed
<1>4. h.sync # NOT_INITIALIZED
  BY <1>1, <1>3, ApplyUsed
<1>5. /\ h.sync >= HEADER
      /\ filters' = IF h.reset THEN h.cfg.bands ELSE filters
      /\ played'.tuned = (filters' = h.cfg.bands)
      /\ played'.fits = (frameData[cur].cfg = h.cfg)
  BY <1>1, <1>3, <1>4, ApplyUsed DEF Rebuilt
<1>6. h = InUse(cur) /\ Sounds(cur)
  BY <1>5 DEF InUse, Sounds
<1>7. flush => numDelayFrames = 1 /\ numFlushedFrames = 0 /\ cur = Other
  BY <1>1, <1>2, <1>3, SlotFacts DEF Drained, Flushed, Other
<1>8. ~flush => cur = useFrameSlot /\ shifted = "no"
  BY <1>2 DEF Flushed, FitsInv, FlushInOrder, Apply
<1>9. AllTuned
  BY <1>7, <1>8 DEF FitsInv
<1>10. numDelayFrames = 0 => cur = 0
  BY <1>1, <1>7, <1>8 DEF HeaderReady
<1>11. Tuned(cur)
  BY <1>2, <1>7, <1>8, <1>9, <1>10 DEF AllTuned
<1> HIDE DEF cur, slot
<1>12. played'.tuned
  BY <1>5, <1>6, <1>11 DEF Tuned, Settled
<1>13. ~played'.error => coreOk /\ ~frameErrorFlag[cur]
  BY <1>1, ApplyFacts DEF cur
<1>14. ~played'.error => ~h.update
  <2>1. CASE flush
    BY <1>1, <1>2, <2>1 DEF HeaderReady
  <2>2. CASE ~flush
    <3>1. coreOk => stage = "apply"
      BY DEF Apply
    <3>2. Unplayed
      BY DEF FitsInv
    <3> QED BY <1>6, <1>8, <1>13, <2>2, <3>1, <3>2 DEF Unplayed
  <2> QED BY <2>1, <2>2
<1>15. ~played'.error => played'.fits
  BY <1>2, <1>5, <1>6, <1>13, <1>14 DEF FitsInv, Fits, Good
<1> QED BY <1>12, <1>15

LEMMA ApplyAnnounced ==
  ASSUME FitsInv, NEW coreOk \in BOOLEAN, Apply(coreOk), shifted # "lost"
  PROVE  Announced'
<1> DEFINE cur == Flushed(useFrameSlot)
           slot == useHeaderSlot[cur]
<1>1. Type /\ HeaderReady /\ Announced /\ Unplayed
  BY DEF FitsInv, KeptInv, Inv
<1>2. cur \in Slots /\ slot \in Slots /\ NOT_INITIALIZED = 0 /\ HEADER = 2
  BY <1>1, ApplyFacts, HeaderFacts DEF Type
<1> SUFFICES ASSUME NEW s \in Slots, sbrHeader'[s].update, sbrHeader'[s].sync >= HEADER
    PROVE  sbrHeader'[s].reset /\ sbrHeader'[s].sync = HEADER
  BY DEF Announced
<1>3. ~Drained
  BY <1>1, ApplyUsed
<1>4. CASE s # slot
  <2>1. sbrHeader'[s] = sbrHeader[s]
    BY <1>1, <1>3, <1>4, ApplyUsed
  <2> QED BY <1>1, <2>1 DEF Announced
<1>5. CASE s = slot
  <2>1. sbrHeader[slot].sync # NOT_INITIALIZED
    BY <1>1, <1>3, <1>5, ApplyUsed
  <2>2. sbrHeader[slot].sync >= HEADER /\ sbrHeader[slot].update
    BY <1>1, <1>3, <1>5, <2>1, ApplyUsed
  <2>3. sbrHeader[slot].sync = HEADER /\ sbrHeader[slot].reset
    BY <1>1, <1>2, <2>2 DEF Announced
  <2>4. ~flush /\ cur = useFrameSlot
    BY <1>1, <1>2, <2>2 DEF HeaderReady, Flushed
  <2>5. Errors(coreOk, useFrameSlot)[cur]
    <3>1. coreOk => stage = "apply"
      BY DEF Apply
    <3>2. coreOk => frameErrorFlag[cur]
      BY <1>1, <2>2, <2>4, <3>1 DEF Unplayed, InUse
    <3> QED BY <1>2, <3>2 DEF Errors
  <2>6. sbrHeader'[slot] = sbrHeader[slot]
    BY <1>1, <1>3, <2>1, <2>3, <2>5, ApplyUsed
  <2> QED BY <1>5, <2>3, <2>6
<1> QED BY <1>4, <1>5

LEMMA ApplyTuned ==
  ASSUME FitsInv, NEW coreOk \in BOOLEAN, Apply(coreOk), shifted # "lost",
         shifted' = "no" \/ numFlushedFrames' = 0
  PROVE  AllTuned'
<1> DEFINE cur == Flushed(useFrameSlot)
           slot == useHeaderSlot[cur]
           h == sbrHeader[slot]
<1>1. Type /\ HeaderReady
  BY DEF FitsInv, KeptInv, Inv
<1>2. /\ useHeaderSlot \in [Slots -> Slots] /\ cur \in Slots /\ slot \in Slots
      /\ numDelayFrames \in {0, 1} /\ useFrameSlot \in {0, 1}
      /\ numFlushedFrames \in 0 .. 2 /\ Slots = {0, 1}
      /\ NOT_INITIALIZED = 0 /\ HEADER = 2 /\ shifted \in {"no", "flush", "lost"}
  BY <1>1, ApplyFacts, SlotFacts, HeaderFacts DEF Type
<1>3. /\ useFrameSlot' = cur /\ useHeaderSlot' = useHeaderSlot
      /\ numDelayFrames' = numDelayFrames
      /\ numFlushedFrames' = Lesser(IF flush THEN numFlushedFrames + 1 ELSE 0, 2)
      /\ shifted' = IF Drained /\ shifted = "flush" THEN "no" ELSE shifted
  BY DEF Apply
<1>4. 1 - cur \in Slots
  BY <1>2
<1>5. CASE Drained
  <2>1. \A s \in Slots : ~Settled(sbrHeader'[s])
    BY <1>1, <1>5, ApplyUsed DEF Settled
  <2>2. \A s \in Slots : ~(Settled(InUse(s)))'
    BY <1>2, <1>3, <2>1 DEF InUse, Settled
  <2> HIDE DEF cur
  <2> QED BY <1>2, <1>3, <1>4, <2>2 DEF AllTuned, Tuned, Other
<1>6. CASE ~Drained
  <2>1. ~flush
    <3> SUFFICES ASSUME flush PROVE FALSE
      OBVIOUS
    <3>1. numFlushedFrames' # 0
      BY <1>2, <1>3 DEF Lesser
    <3>2. shifted' = shifted /\ shifted # "no"
      BY <1>1, <1>3, <1>6 DEF HeaderReady
    <3> QED BY <3>1, <3>2
  <2>2. shifted = "no" /\ cur = useFrameSlot
    BY <1>2, <2>1 DEF FitsInv, FlushInOrder, Apply, Flushed
  <2>3. AllTuned
    BY <2>2 DEF FitsInv
  <2>4. numDelayFrames = 0 => cur = 0
    BY <1>1, <2>2 DEF HeaderReady
  <2>5. Settled(h) => h.cfg.bands = filters
    BY <1>2, <2>2, <2>3, <2>4 DEF AllTuned, Tuned, InUse
  <2>6. \A s \in Slots : s # slot => sbrHeader'[s] = sbrHeader[s]
    BY <1>1, <1>6, ApplyUsed
  <2>7. h.sync # NOT_INITIALIZED =>
          /\ sbrHeader'[slot].cfg = h.cfg
          /\ sbrHeader'[slot].reset => h.reset
          /\ sbrHeader'[slot].sync # NOT_INITIALIZED
          /\ sbrHeader'[slot].sync >= HEADER => h.sync >= HEADER
          /\ filters' = IF h.reset THEN h.cfg.bands ELSE filters
    BY <1>1, <1>6, ApplyUsed DEF Rebuilt
  <2>8. h.sync = NOT_INITIALIZED => ~(sbrHeader'[slot].sync >= HEADER)
    BY <1>1, <1>6, ApplyUsed
  <2> HIDE DEF h
  <2>9. Settled(sbrHeader'[slot]) => sbrHeader'[slot].cfg.bands = filters'
    BY <2>5, <2>7, <2>8 DEF Settled
  <2>10. CASE numDelayFrames = 1
    <3> DEFINE other == useHeaderSlot[1 - cur]
    <3>1. other \in Slots
      BY <1>2, <1>4
    <3>2. Settled(sbrHeader[other]) =>
            /\ sbrHeader[other].cfg.bands = filters
            /\ ~h.reset /\ h.sync # NOT_INITIALIZED
      BY <2>2, <2>3, <2>10 DEF AllTuned, Tuned, InUse, Other, h
    <3> HIDE DEF other
    <3>3. Settled(sbrHeader'[other]) =>
            /\ sbrHeader'[other].cfg.bands = filters'
            /\ ~sbrHeader'[slot].reset /\ sbrHeader'[slot].sync # NOT_INITIALIZED
      <4>1. CASE other = slot
        BY <1>2, <2>7, <2>8, <2>9, <4>1 DEF Settled
      <4>2. CASE other # slot
        BY <2>6, <2>7, <3>1, <3>2, <4>2
      <4> QED BY <4>1, <4>2
    <3>4. (InUse(useFrameSlot))' = sbrHeader'[slot] /\ (InUse(Other))' = sbrHeader'[other]
      BY <1>3 DEF InUse, Other, other
    <3>5. (Tuned(useFrameSlot))' /\ (Tuned(Other))'
      BY <2>9, <3>3, <3>4 DEF Tuned
    <3> QED BY <1>3, <2>10, <3>3, <3>4, <3>5 DEF AllTuned
  <2>11. CASE numDelayFrames = 0
    <3>1. (InUse(0))' = sbrHeader'[slot]
      BY <1>3, <2>4, <2>11 DEF InUse
    <3>2. (Tuned(0))'
      BY <2>9, <3>1 DEF Tuned
    <3> QED BY <1>3, <2>11, <3>2 DEF AllTuned
  <2> QED BY <1>2, <2>10, <2>11
<1> QED BY <1>5, <1>6

LEMMA ApplyKeepsFit ==
  ASSUME FitsInv, NEW coreOk \in BOOLEAN, Apply(coreOk)
  PROVE  FitsInv'
<1>1. /\ stage' = "between" /\ ~flush'
      /\ shifted' # "lost" => shifted # "lost"
  BY DEF Apply
<1>2. Unplayed' /\ FlushInOrder'
  BY <1>1 DEF Unplayed, FlushInOrder
<1>3. HeaderFitsFrame'
  BY <1>1, ApplyShown DEF HeaderFitsFrame
<1>4. KeptInv'
  BY ApplyKeeps, ApplyReady DEF FitsInv, KeptInv
<1> QED BY <1>1, <1>2, <1>3, <1>4, ApplyFits, ApplyAnnounced, ApplyTuned DEF FitsInv

LEMMA SetDelayFits ==
  ASSUME FitsInv, NEW d \in 0 .. 1, SetDelay(d)
  PROVE  FitsInv'
<1>1. /\ stage' = "between" /\ shifted' = "lost"
      /\ UNCHANGED <<useHeaderSlot, frameErrorFlag, frameData, sbrHeader>>
  BY DEF SetDelay
<1>2. Fits'
  BY <1>1 DEF FitsInv, Fits, Good, Sounds, InUse
<1>3. FlushInOrder' /\ HeaderFitsFrame' /\ HeaderReady'
  BY <1>1 DEF FlushInOrder, HeaderFitsFrame, HeaderReady
<1> QED BY <1>1, <1>2, <1>3, SetDelayKeeps DEF FitsInv, KeptInv

LEMMA NextFits == FitsInv /\ [Next]_vars => FitsInv'
<1> SUFFICES ASSUME FitsInv, [Next]_vars PROVE FitsInv'
  OBVIOUS
<1>1. ASSUME UNCHANGED <<stage, numDelayFrames, useFrameSlot, useHeaderSlot, frameErrorFlag,
                         frameData, sbrHeader, flush, numFlushedFrames, filters, played,
                         shifted>>
      PROVE  Fits' /\ FlushInOrder' /\ HeaderFitsFrame'
             /\ (shifted' # "lost" => /\ Announced' /\ Unplayed'
                                      /\ shifted' = "no" \/ numFlushedFrames' = 0 => AllTuned')
  <2>1. Unplayed => Unplayed'
    BY <1>1 DEF Unplayed, InUse
  <2>2. FlushInOrder' /\ HeaderFitsFrame'
    BY <1>1 DEF FitsInv, FlushInOrder, HeaderFitsFrame
  <2>3. Fits' /\ (Announced => Announced') /\ (AllTuned => AllTuned')
    BY <1>1 DEF FitsInv, Fits, Announced, AllTuned, Tuned, Good, Sounds, InUse, Other
  <2> QED BY <1>1, <2>1, <2>2, <2>3 DEF FitsInv
<1>2. KeptInv'
  BY NextKeeps, NextReady DEF FitsInv, KeptInv
<1>3. CASE ClearHistory
  BY <1>1, <1>2, <1>3 DEF ClearHistory, histories, FitsInv
<1>4. CASE UNCHANGED vars
  BY <1>1, <1>2, <1>4 DEF vars, FitsInv
<1> QED BY <1>3, <1>4, ConfigureFits, SetDelayFits, InterruptFits, InitElementFits,
           SkipParsingFits, ParseNothingFits, ParseFits, ApplyKeepsFit DEF Next

(* What SBR plays and does not conceal was parsed with the header it is     *)
(* played with, and the filters are set up for its bands, over every        *)
(* header, interruption, damaged and lost frame, reset and flush, until a   *)
(* change of the delay or a broken-off flush moves the slots.               *)
THEOREM HeaderFitsFrameTheorem == Spec => []HeaderFitsFrame
<1>1. Init => FitsInv
  <2> SUFFICES ASSUME Init PROVE FitsInv
    OBVIOUS
  <2>1. /\ stage = "between" /\ played = Nothing /\ filters = 0
        /\ useHeaderSlot = [s \in Slots |-> s] /\ sbrHeader = [s \in Slots |-> Fresh]
        /\ useFrameSlot = 0 /\ ~flush /\ heard = NoHeader
    BY DEF Init
  <2>2. ~(Fresh.sync >= HEADER) /\ ~Fresh.update /\ 0 \in Slots /\ 1 \in Slots
    BY HeaderFacts, UpdatedKeeps DEF Slots
  <2>3. \A s \in Slots : InUse(s) = Fresh
    BY <2>1 DEF InUse
  <2>4. Fits /\ Announced /\ Unplayed
    BY <2>1, <2>2, <2>3 DEF Fits, Good, Sounds, InUse, Announced, Unplayed
  <2>5. Other = 1 /\ ~Settled(Fresh)
    BY <2>1, <2>2 DEF Other, Settled
  <2>6. AllTuned
    BY <2>1, <2>2, <2>3, <2>5 DEF AllTuned, Tuned
  <2>7. FlushInOrder /\ HeaderFitsFrame
    BY <2>1, NothingPlayed DEF FlushInOrder, HeaderFitsFrame
  <2>8. HeaderReady
    <3>1. sbrHeader[0] = Fresh /\ sbrHeader[1] = Fresh /\ useHeaderSlot[0] = 0
          /\ useHeaderSlot[1] = 1
      BY <2>1, <2>2
    <3> QED BY <2>1, <3>1, UpdatedKeeps DEF HeaderReady, Ready
  <2> QED BY <2>4, <2>6, <2>7, <2>8, InitKeeps DEF FitsInv, KeptInv
<1>2. FitsInv => HeaderFitsFrame
  BY DEF FitsInv
<1> QED BY <1>1, <1>2, NextFits, PTL DEF Spec
=============================================================================
