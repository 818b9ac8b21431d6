------------------------------ MODULE EncInput ------------------------------
(***************************************************************************)
(* The input side of the AAC encoder: the input buffer, flushing and the   *)
(* re-initialisation flags of libAACenc/src/aacenc_lib.cpp, with the delay *)
(* lines for audio and metadata of metadata_main.cpp, for AAC-LC, LD and   *)
(* ELD without SBR and MPEG Surround.                                      *)
(*                                                                         *)
(* The metadata encoder delays the audio until the metadata, which can be  *)
(* delayed by whole frames only, goes out with its own frame.  Parameters  *)
(* may change between any two calls; some of them drop what is waiting     *)
(* here, others have to leave it in order.                                 *)
(*                                                                         *)
(* All channels hold the same samples, so one channel stands for all.  A   *)
(* sample is the time it came in and whether it is a real one or a zero    *)
(* that flushing appends.                                                  *)
(***************************************************************************)
EXTENDS Integers, Sequences, FiniteSets

CONSTANTS
  Codecs,        \* userAOT
  Granules,      \* userFramelength
  Accepted,      \* for each codec the granules FDKaacEnc_AdjustEncSettings takes
  WithMetadata,  \* the codecs that may have metadata
  CoreDelay,     \* DELAY_AAC, DELAY_AACLD, DELAY_AACELD of codec and granule
  Channels,      \* userChannelMode
  Seamless,      \* those of them that need no reset of the states, 1 to 6
  Offers,        \* numbers of samples per call of aacEncEncode
  DelayFrames,   \* MAX_DELAY_FRAMES
  Cycle,         \* bound: times count modulo Cycle
  MaxTail,       \* bound: so many samples behind the last real one, or more
  MaxDelay       \* bound: nDelay from which no states are reset alone

Core(codec, granule) == CoreDelay[<<codec, granule>>]

ASSUME EncSettings ==
  /\ Granules \subseteq Nat \ {0}
  /\ Accepted \in [Codecs -> SUBSET Granules]
  /\ WithMetadata \subseteq Codecs /\ Seamless \subseteq Channels
  /\ CoreDelay \in [Codecs \X Granules -> Nat]
ASSUME EncBounds == /\ Offers \subseteq Nat \ {0}
                    /\ Cycle \in Nat \ {0} /\ MaxTail \in Nat /\ MaxDelay \in Nat
(* The core looks ahead with every codec, and the bound reaches as far.     *)
ASSUME EncLookAhead == \A p \in Codecs \X Granules : CoreDelay[p] \in 1 .. MaxTail

VARIABLES
  settings,   \* extParam: codec, granule, channels, metadata or not
  InitFlags,
  enc,        \* the encoder: nSamplesToRead, nZerosAppended, nDelay, the core's
              \* delay, metaDataAllowed, inputBuffer up to nSamplesRead
  meta,       \* FDK_METADATA_ENCODER
  result,     \* how the last call ended
  sent,       \* the last frame that was coded: what is wrong with it
  time,       \* history: the time of the next sample
  owed,       \* history: the samples the core has yet to get
  tail,       \* history: samples coded since the last real one
  stream,     \* history: whether metadata is under way, or has been cut off
  upset,      \* history: frames until a buffer of more than a frame is over
  resumed     \* history: fed again while flushing

vars == <<settings, InitFlags, enc, meta, result, sent, time, owed, tail, stream,
          upset, resumed>>

-----------------------------------------------------------------------------
(* AACENC_CTRLFLAGS; "other" stands for the bits that only INIT_ALL has.    *)
ALL == {"config", "states", "transport", "inbuffer", "other"}

Before(t, n) == (t - n) % Cycle
Blank == [real |-> FALSE, at |-> Cycle]        \* not one of the samples fed
Blanks(n) == [i \in 1 .. n |-> Blank]
Fed(n, real) == [i \in 1 .. n |-> [real |-> real, at |-> (time + i - 1) % Cycle]]
Lesser(a, b) == IF a < b THEN a ELSE b
Larger(a, b) == IF a > b THEN a ELSE b
Final(n, seq) == SubSeq(seq, Len(seq) - n + 1, Len(seq))

(* AAC_METADATA in the delay line: not written, as submitted, or the        *)
(* default that ends metadata, and the frame it is meant for, by the time   *)
(* of its first sample.                                                     *)
NotWritten == [kind |-> "none", at |-> Cycle]
Entries == [kind : {"none", "submitted", "closing"}, at : 0 .. Cycle]
Lines == 0 .. DelayFrames - 1

nSamplesRead == Len(enc.inputBuffer)

-----------------------------------------------------------------------------
(* FDK_MetadataEnc_Init: the metadata is late by the smallest number of     *)
(* frames that covers the delay, the audio by what is missing to it.        *)
MetaFrames_Ceiling(delay, frame) == (delay + frame - 1) \div frame   \* mutant

MetaFrames(delay, frame) ==
  CHOOSE n \in 0 .. delay : /\ delay <= frame * (n + 1)
                            /\ n > 0 => delay > frame * n
AudioDelay(delay, frame) == frame * (MetaFrames(delay, frame) + 1) - delay

(* The metadata is late by fewer frames than the line has entries.  Codecs  *)
(* and frames that delay the audio equally have the same frame, and the     *)
(* same number of them in the line: FDK_MetadataEnc_Init looks at nothing   *)
(* but the delay of the audio when it leaves the lines as they are.         *)
MetaSettings == {p \in WithMetadata \X Granules : p[2] \in Accepted[p[1]]}
ASSUME EncDelays ==
  /\ DelayFrames \in Nat \ {0}
  /\ \A p \in MetaSettings : CoreDelay[p] \in 1 .. DelayFrames * p[2]
  /\ \A p, q \in MetaSettings :
       AudioDelay(CoreDelay[p], p[2]) = AudioDelay(CoreDelay[q], q[2]) =>
         /\ p[2] = q[2]
         /\ MetaFrames(CoreDelay[p], p[2]) = MetaFrames(CoreDelay[q], q[2])

(* When metadata is switched off one more frame of it is due.               *)
Finalizes_Never(m, on) == FALSE                                      \* mutant

Finalizes(m, on) == m.on /\ ~on

Closed == [finalize |-> FALSE, initialize |-> FALSE, on |-> FALSE,
           nMetaDataDelay |-> 0, channels |-> 0, audio |-> <<>>,
           line |-> [l \in Lines |-> NotWritten], idx |-> 0]

LinesReset(m, frame, delay) ==
  \/ "states" \in InitFlags
  \/ Len(m.audio) # AudioDelay(delay, frame)
  \/ m.channels # settings.channels

MetaInit(m, frame, delay) ==
  LET on    == settings.metadata
      reset == LinesReset(m, frame, delay)
  IN  [finalize   |-> ~reset /\ Finalizes(m, on),
       initialize |-> reset,
       on         |-> on,
       nMetaDataDelay |-> MetaFrames(delay, frame),
       channels   |-> settings.channels,
       (* cleared, or the samples of other channels in another layout       *)
       audio      |-> IF reset THEN Blanks(AudioDelay(delay, frame)) ELSE m.audio,
       line       |-> IF reset \/ (~m.on /\ on) THEN [i \in Lines |-> NotWritten]
                      ELSE m.line,
       idx        |-> IF reset THEN 0 ELSE m.idx]

(* A frame of metadata: FDK_MetadataEnc_Process                             *)
Advance_Late(m) == IF m.idx + 1 >= m.nMetaDataDelay THEN 0 ELSE m.idx + 1   \* mutant

Advance(m) == IF m.idx + 1 > m.nMetaDataDelay THEN 0 ELSE m.idx + 1

Closing(m) == m.finalize /\ ~m.on              \* one frame of the default

Entry(m, at) ==
  IF m.on THEN [kind |-> "submitted", at |-> at]
  ELSE IF Closing(m) THEN [kind |-> "closing", at |-> at]
  ELSE NotWritten

Filled(m, entry) ==
  [l \in Lines |-> IF l = m.idx THEN entry
                   ELSE IF m.initialize /\ m.on THEN [entry EXCEPT !.at = Cycle]
                   ELSE m.line[l]]

(* CompensateAudioDelay: the buffer is delayed by the line.                 *)
Compensated(m, buffer) == SubSeq(m.audio \o buffer, 1, Len(buffer))

Remaining_Head(m, buffer) == SubSeq(buffer, 1, Len(m.audio))          \* mutant

Remaining(m, buffer) == Final(Len(m.audio), m.audio \o buffer)

Processed(m, at, buffer) ==
  [m EXCEPT !.finalize = @ /\ ~Closing(m),
            !.initialize = @ /\ ~m.on,
            !.line = Filled(m, Entry(m, at)),
            !.idx = Advance(m),
            !.audio = Remaining(m, buffer)]

-----------------------------------------------------------------------------
NothingSent == [inOrder |-> TRUE, aligned |-> TRUE, ends |-> TRUE]

Init ==
  /\ settings \in [codec : Codecs, granule : Granules, channels : Channels,
                   metadata : BOOLEAN]
  /\ settings.granule \in Accepted[settings.codec]
  /\ InitFlags = ALL
  /\ enc = [nSamplesToRead |-> 0, nZerosAppended |-> 0, core |-> 0, nDelay |-> 0,
            metaDataAllowed |-> FALSE, inputBuffer |-> <<>>]
  /\ meta = Closed
  /\ result = "set" /\ sent = NothingSent
  /\ time = 0 /\ owed = <<>> /\ tail = MaxTail /\ stream = "closed"
  /\ upset = 0 /\ resumed = FALSE

(* aacEncoder_SetParam                                                      *)
Drop ==                                        \* nSamplesRead = 0
  /\ enc' = [enc EXCEPT !.inputBuffer = <<>>]
  /\ owed' = SubSeq(owed, 1, Len(owed) - nSamplesRead)
  /\ time' = Before(time, nSamplesRead)
  /\ UNCHANGED upset

Set(flags) ==
  /\ InitFlags' = InitFlags \cup flags
  /\ result' = "set" /\ sent' = NothingSent
  /\ UNCHANGED <<meta, tail, stream, resumed>>

SetCodec(codec) ==                             \* AACENC_AOT
  /\ settings.codec # codec
  /\ settings' = [settings EXCEPT !.codec = codec]
  /\ Set({"config", "states", "transport"})
  /\ UNCHANGED <<enc, owed, time, upset>>

SetGranule(granule) ==                         \* AACENC_GRANULE_LENGTH
  /\ settings.granule # granule
  /\ settings' = [settings EXCEPT !.granule = granule]
  /\ Set({"config", "transport"})
  /\ UNCHANGED <<enc, owed, time, upset>>

SetChannels(channels) ==                       \* AACENC_CHANNELMODE
  /\ settings.channels # channels
  /\ settings' = [settings EXCEPT !.channels = channels]
  /\ Set({"config", "transport"} \cup (IF channels \in Seamless THEN {} ELSE {"states"}))
  /\ Drop

SetSampleRate ==                               \* and AACENC_CHANNELORDER
  /\ Set({"config", "states", "transport"})
  /\ Drop
  /\ UNCHANGED settings

SetMetadata ==                                 \* AACENC_METADATA_MODE
  /\ settings' = [settings EXCEPT !.metadata = ~@]
  /\ Set({"config"})
  /\ UNCHANGED <<enc, owed, time, upset>>

SetOther(flags) ==                             \* bit rate, band width, transport
  /\ Set(flags)
  /\ UNCHANGED <<settings, enc, owed, time, upset>>

(* AACENC_CONTROL_STATE overwrites the flags; bound: only when nothing is   *)
(* pending, or to initialise everything.                                    *)
ControlState(flags) ==
  /\ flags # InitFlags /\ (InitFlags = {} \/ flags = ALL)
  /\ "config" \notin flags => enc.nDelay <= MaxDelay
  /\ InitFlags' = flags
  /\ IF "inbuffer" \in flags THEN Drop ELSE UNCHANGED <<enc, owed, time, upset>>
  /\ result' = "set" /\ sent' = NothingSent
  /\ UNCHANGED <<settings, meta, tail, stream, resumed>>

-----------------------------------------------------------------------------
(* aacEncInit, at the beginning of the next call of aacEncEncode.  A call   *)
(* with nothing but the handle ends after it, so that it is a step of its   *)
(* own.                                                                     *)
InitDelay_CoreOnly(extra) == IF "config" \in InitFlags
                               THEN Core(settings.codec, settings.granule)
                               ELSE enc.nDelay                      \* mutant

InitDelay(extra) ==
  extra + IF "config" \in InitFlags THEN Core(settings.codec, settings.granule)
          ELSE enc.nDelay

InitEnc ==
  LET config == "config" \in InitFlags
  IN  [enc EXCEPT
         !.nSamplesToRead  = IF config THEN settings.granule ELSE @,
         !.core            = IF config THEN Core(settings.codec, settings.granule) ELSE @,
         !.metaDataAllowed = IF config THEN settings.codec \in WithMetadata ELSE @,
         !.nZerosAppended  = 0,
         !.inputBuffer     = IF InitFlags = ALL THEN Blanks(nSamplesRead) ELSE @]

(* What the core is owed then: what the delay line holds, when there is one *)
(* and it is not reset, and what is in the input buffer.                    *)
InitOwed(e, m, reset) ==
  (IF ~e.metaDataAllowed THEN <<>>
   ELSE IF reset THEN Blanks(Len(m.audio))
   ELSE SubSeq(owed, 1, Len(owed) - nSamplesRead))
  \o (IF InitFlags = ALL THEN Blanks(nSamplesRead) ELSE Final(nSamplesRead, owed))

(* Metadata that has been under way is given up.                            *)
Discards(e, m) ==
  \/ enc.metaDataAllowed /\ ~e.metaDataAllowed
  \/ meta.finalize
  \/ \E l \in 0 .. meta.nMetaDataDelay :
       meta.line[l].kind # "none" /\ m.line[l].kind = "none"

AcceptedSettings == settings.granule \in Accepted[settings.codec]

Initialise ==
  LET e     == InitEnc
      inits == e.metaDataAllowed /\ InitFlags \cap {"config", "states"} # {}
      reset == inits /\ LinesReset(meta, e.nSamplesToRead, e.core)
      m     == IF inits THEN MetaInit(meta, e.nSamplesToRead, e.core)
               (* without metadata nothing of it is used before a reset     *)
               ELSE IF e.metaDataAllowed THEN meta ELSE Closed
  IN  /\ InitFlags # {} /\ AcceptedSettings
      /\ enc' = [e EXCEPT !.nDelay =
                   InitDelay(IF inits THEN Len(m.audio) ELSE 0)]
      /\ meta' = m
      /\ InitFlags' = {}
      /\ owed' = InitOwed(e, m, reset)
      /\ tail' = IF "states" \in InitFlags THEN MaxTail ELSE tail
      /\ stream' = IF Discards(e, m) THEN "cut" ELSE stream
      /\ resumed' = FALSE
      /\ result' = "returned" /\ sent' = NothingSent
      /\ UNCHANGED <<settings, time, upset>>

(* The settings do not fit each other: the flags are kept for the next call. *)
Refuse ==
  /\ "config" \in InitFlags /\ ~AcceptedSettings
  /\ enc' = [enc EXCEPT !.nZerosAppended = 0]
  /\ result' = "refused" /\ sent' = NothingSent
  /\ UNCHANGED <<settings, InitFlags, meta, time, owed, tail, stream, upset, resumed>>

-----------------------------------------------------------------------------
(* aacEncEncode                                                             *)
Accepts(n) == Larger(0, Lesser(n, enc.nSamplesToRead - nSamplesRead))
Resumed(n) == resumed \/ (n > 0 /\ enc.nZerosAppended > 0)

(* Not enough for a frame.                                                  *)
Accept(n) ==
  /\ InitFlags = {}
  /\ nSamplesRead + n < enc.nSamplesToRead
  /\ enc' = [enc EXCEPT !.inputBuffer = @ \o Fed(n, TRUE)]
  /\ owed' = owed \o Fed(n, TRUE)
  /\ time' = (time + n) % Cycle
  /\ resumed' = Resumed(n)
  /\ result' = "returned" /\ sent' = NothingSent
  /\ UNCHANGED <<settings, InitFlags, meta, tail, stream, upset>>

(* Flushing is over.                                                        *)
EndOfFile ==
  /\ InitFlags = {}
  /\ nSamplesRead < enc.nSamplesToRead
  /\ enc.nZerosAppended >= enc.nDelay
  /\ result' = "eof" /\ sent' = NothingSent
  /\ UNCHANGED <<settings, InitFlags, enc, meta, time, owed, tail, stream, upset,
                 resumed>>

(* The zeros that a flush appends, and how many there have been then.       *)
Zeros == Larger(0, enc.nSamplesToRead - nSamplesRead)

Appended_Latest(zeros) == zeros                                       \* mutant

Appended(zeros) == enc.nZerosAppended + zeros

TailAfter(coded) ==
  LET reals == {i \in DOMAIN coded : coded[i].real}
      after == {i \in DOMAIN coded : \A r \in reals : i > r}
  IN  Lesser(MaxTail, Cardinality(after) + (IF reals = {} THEN tail ELSE 0))

(* Every sample is the one the payload was made for, the core's look-ahead  *)
(* later.                                                                   *)
AlignedWith(coded, payload) ==
  payload.at # Cycle =>
    \A i \in DOMAIN coded : coded[i] # Blank =>
      coded[i].at = (payload.at + i - 1 + enc.core - enc.nSamplesToRead) % Cycle

(* A payload as submitted opens the metadata, the default closes it; after  *)
(* a cut what had been delayed may still come.                              *)
After(kind, m) ==
  IF stream # "cut" THEN IF kind = "submitted" THEN "open" ELSE "closed"
  ELSE IF kind = "submitted" /\ m.on THEN "open"
  ELSE IF \E l \in Lines : m.line[l].kind # "none" THEN "cut"
  ELSE "closed"

(* A frame is full, with what is fed or with the zeros of a flush (n = -1); *)
(* it is coded, or the core or the copy of the bit stream fails.            *)
EncodeFrame(n, fate) ==
  LET flushing == n = -1
      new      == IF flushing THEN Zeros ELSE Accepts(n)
      filled   == enc.inputBuffer \o Fed(new, ~flushing)
      at       == Before(time, nSamplesRead)
      delayed  == enc.metaDataAllowed
      m        == IF delayed THEN Processed(meta, at, filled) ELSE meta
      buffer   == IF delayed THEN Compensated(meta, filled) ELSE filled
      coded    == SubSeq(buffer, 1, enc.nSamplesToRead)
      left     == SubSeq(buffer, 1, Len(buffer) - enc.nSamplesToRead)
      due      == owed \o Fed(new, ~flushing)
      payload  == IF delayed THEN m.line[m.idx] ELSE NotWritten
  IN  /\ InitFlags = {}
      /\ IF flushing THEN new = 0 \/ enc.nZerosAppended < enc.nDelay
         ELSE nSamplesRead + n >= enc.nSamplesToRead
      /\ enc' = [enc EXCEPT !.inputBuffer = IF fate = "coding" THEN buffer ELSE left,
                            !.nZerosAppended = IF flushing THEN Appended(new) ELSE @]
      /\ meta' = m
      /\ InitFlags' = IF fate = "ok" THEN {} ELSE ALL
      /\ result' = IF flushing /\ fate = "ok" THEN "flushed" ELSE "returned"
      /\ time' = (time + new) % Cycle
      /\ owed' = IF fate = "coding" THEN due
                 ELSE SubSeq(due, enc.nSamplesToRead + 1, Len(due))
      /\ tail' = IF fate = "coding" THEN tail ELSE TailAfter(coded)
      /\ sent' = [inOrder |-> upset > 0 \/ coded = SubSeq(due, 1, enc.nSamplesToRead),
                  aligned |-> upset > 0 \/ AlignedWith(coded, payload),
                  ends    |-> stream = "open" => payload.kind # "none"]
      /\ stream' = IF fate = "ok" THEN After(payload.kind, m) ELSE "cut"
      /\ upset' = IF Len(filled) > enc.nSamplesToRead THEN 2
                  ELSE IF fate = "coding" THEN upset
                  ELSE Larger(0, upset - 1)
      /\ resumed' = Resumed(IF flushing THEN 0 ELSE new)
      /\ UNCHANGED settings

Next ==
  \/ \E codec \in Codecs : SetCodec(codec)
  \/ \E granule \in Granules : SetGranule(granule)
  \/ \E channels \in Channels : SetChannels(channels)
  \/ SetSampleRate
  \/ SetMetadata
  \/ \E flags \in {{"transport"}, {"config", "transport"}} : SetOther(flags)
  \/ \E flags \in {ALL, {"states"}, {"inbuffer"}} : ControlState(flags)
  \/ Initialise
  \/ Refuse
  \/ \E n \in Offers : Accept(n)
  \/ EndOfFile
  \/ \E n \in Offers \cup {0, -1}, fate \in {"ok", "coding", "output"} :
       EncodeFrame(n, fate)

(* The application goes on calling.                                         *)
Spec == Init /\ [][Next]_vars /\ WF_vars(Next)

-----------------------------------------------------------------------------
Samples == [real : BOOLEAN, at : 0 .. Cycle]

Type ==
  /\ settings \in [codec : Codecs, granule : Granules, channels : Channels,
                   metadata : BOOLEAN]
  /\ InitFlags \subseteq ALL
  /\ enc \in [nSamplesToRead : Nat, nZerosAppended : Nat, core : Nat, nDelay : Nat,
              metaDataAllowed : BOOLEAN, inputBuffer : Seq(Samples)]
  /\ meta \in [finalize : BOOLEAN, initialize : BOOLEAN,
               on : BOOLEAN, nMetaDataDelay : Lines, channels : Channels \cup {0},
               audio : Seq(Samples), line : [Lines -> Entries], idx : Lines]
  /\ meta.idx <= meta.nMetaDataDelay
  /\ enc.metaDataAllowed => Len(meta.audio) < enc.nSamplesToRead
  /\ result \in {"set", "refused", "returned", "flushed", "eof"}
  /\ sent \in [inOrder : BOOLEAN, aligned : BOOLEAN, ends : BOOLEAN]
  /\ time \in 0 .. Cycle - 1 /\ owed \in Seq(Samples) /\ tail \in 0 .. MaxTail
  /\ stream \in {"closed", "open", "cut"}
  /\ upset \in 0 .. 2 /\ resumed \in BOOLEAN

(* The core gets each sample once and in the order of the input, whatever   *)
(* of it the delay line of the metadata encoder holds back, through changes *)
(* of the parameters and failed calls: aacEncoder_SetParam drops what is in *)
(* the input buffer or leaves it, aacEncInit clears it or leaves it, and    *)
(* CompensateAudioDelay keeps the rest for the next frame.  Left out are    *)
(* frames from a buffer that held more than one when the frame length       *)
(* shrank (aacenc_lib.cpp:2000), and the frame after them: upset.           *)
InOrder == sent.inOrder

(* A metadata payload goes out with the frame that begins with the samples  *)
(* it was submitted with, the look-ahead of the core later: the whole       *)
(* frames that FDK_MetadataEnc_Init delays the metadata by, and the samples *)
(* that it delays the audio by, add up to the delay of the core.  Frames    *)
(* that are upset are left out.                                             *)
MetadataWithAudio == sent.aligned

(* When aacEncEncode reports the end of the file every sample fed has been  *)
(* coded, with as many behind it as the core looks ahead, so that the       *)
(* decoder can put it out: the zeros appended cover nDelay.  Left out are   *)
(* encoders that were fed again while flushing (resumed), and those that    *)
(* are upset.                                                               *)
FlushedOut ==
  result = "eof" /\ ~resumed /\ upset = 0 =>
    tail >= enc.core /\ \A i \in DOMAIN owed : ~owed[i].real

(* Once metadata has gone out each frame carries some until one with the    *)
(* default has closed it (metadata_main.cpp:699), whenever it is switched   *)
(* off, unless it has been cut: by an initialisation that gives up what is  *)
(* in the line, by a frame that fails, or by switching on again while the   *)
(* closing frame is due.                                                    *)
MetadataEnds == sent.ends

(* The application that goes on flushing is told the end of the file: the   *)
(* count of zeros reaches nDelay although no initialisation resets it.      *)
FlushEnds == []<>(result # "flushed")
=============================================================================
