# A verification project for the FDK AAC codec library

TLA+ models of the control logic of this library, TLC configurations that check
them on small instances, and TLAPS proofs of what holds for every value of the
constants. `PROJECT.json` names, for each definition, the lines of the source
that it stands for.

1. The system and its components
2. The modules
3. What each run checks, and with which bounds
4. Fairness
5. What is proved
6. Disagreements between the code and what is said of it
7. What is not modelled
8. Plan

## 1. The system and its components

The repository is a decoder and an encoder for the AAC family (AAC-LC, HE-AAC,
AAC-LD/ELD, USAC in the decoder). Nothing in it runs concurrently: an instance is
used by one thread at a time. What makes it hard is that it is *incremental*. The
application calls in any order and with any portion of data, the input is
damaged or incomplete, and nearly every module keeps state from frame to frame
(delay lines, swapped buffers, slots, positions measured from the end of what
has arrived) that has to stay in step over losses, flushes and reconfigurations.

    application --bytes--> transport decoder --bits--> AAC core --spectra--> concealment
                              |  (bit stream)              |                      |
                              +-- config callbacks --> AAC decoder library    filter bank
                                                           |                      |
                           SBR, MPEG Surround, DRC, down mix <--------------------+
                                                           |
                                                      PCM limiter --> samples

    application --samples--> encoder library --> psychoacoustics --> rate control
                                 |                                       |
                            SBR / MPS encoder, metadata  --> bit stream --> transport encoder --> bytes

| component | state it keeps | operations | interacts through | what is hard | what makes it correct |
|---|---|---|---|---|---|
| bit stream (`libFDK` FDK_bitbuffer, FDK_bitstream) | ring of bytes, bit position, feed offset, valid bits, cache word | init, feed, fetch, read, push back and forward, align, synchronise | everything that parses or writes | two copies of the position (ring and cache), wrap-around, unsigned arithmetic | every bit is delivered once, in order, as it was fed |
| transport decoder (`libMpegTPDec`) | input buffer, sync state, frame position, blocks left, last header, demultiplexer | fill, read access unit, end access unit, CRC regions, flush | AAC decoder library; callbacks for configurations | headers split over fills, false sync words, damaged frames, a full buffer | access units are handed over once and in order; no wait without room |
| AAC decoder library (`aacdecoder_lib.cpp`) | flags, stream information, parameters, output buffers | fill, decode frame, set parameter, config callback, flush | all decoder modules | flush, interruption, history reset, a configuration that fails half way | parameters of the modules agree; a failed call leaves the state before |
| AAC core (`aacdecoder.cpp`, `channel.cpp`, `block.cpp`, ...) | channel and element tables, overlap, PNS and LTP state | parse and decode elements | transport decoder, concealment | element order, switching configurations between frames | the parser stays inside the access unit |
| error resilience (HCR, RVLC) | segments, codeword states | decode reordered codewords | AAC core | a state machine per codeword over shared segments | ends, and each bit is used once |
| error concealment (`conceal.cpp`) | state, fade and window counters, last spectrum, flags of two frames | apply, time domain fading, set parameters, store | AAC core, AAC decoder library | losses and good frames in any order, change of method, delay of one frame | counters stay in their tables; output mutes and recovers |
| USAC LPD (`usacdec_*.cpp`) | modes, filter memories | decode superframe | AAC core | mode transitions | transitions use the memory of the right mode |
| SBR decoder (`libSBRdec`) | two frame slots, two header slots, error flags, sync states | parse, apply, header, parameters | AAC decoder library, transport (SBR header) | delay of one frame, headers that change in between | each frame is decoded with its own header |
| MPEG Surround decoder (`libSACdec`) | configuration, parameter history, concealment state | parse, apply | AAC decoder library | reconfiguration, lost frames | as for SBR |
| DRC (`libDRCdec`, `aacdec_drc.cpp`) | selected sets, gain buffers, expiry counters | read, select, process | core, QMF domain, limiter | data of another frame, expiry | gains meet the samples they belong to |
| down mix and conversion (`pcmdmx_lib.cpp`) | metadata slots with expiry | parse, apply | decoder library | bit stream delay, life time | no metadata of another stream |
| PCM limiter (`limiter.cpp`) | delay line, ring of maxima, running maximum, gain | apply, reset, set attack, rate, channels, threshold | decoder library | rings change their size between two blocks | exact delay; no sample louder than the gain allows for |
| encoder library (`aacenc_lib.cpp`) | input buffer with offsets, zeros appended, init flags | encode, set parameter, flush | all encoder modules | partial input, flush, parameter changes between frames | every sample is encoded once; flush ends |
| psychoacoustics, rate control (`libAACenc`) | window sequence, bit reservoir, thresholds | analyse, quantise, fill | encoder library, transport encoder | reservoir limits, pairs of channels | legal window sequences; reservoir in its range |
| SBR / MPS encoder, metadata | delay lines, grids, metadata ring | analyse, write | encoder library | delays in step | as above |
| transport encoder (`libMpegTPEnc`) | header, blocks in frame, CRC regions | write access unit, get frame | encoder library | several blocks per frame, CRC regions | what it writes can be read |
| CRC (`FDK_crc.cpp`) | ring of three regions | start, end, compare | both transports | regions closed in order, padding | region contents are those of the stream |
| transforms, arithmetic decoder, `libSYS` | filter memories | numeric | all | overlap bookkeeping in `mdct.cpp` | numeric |
| examples, fuzzers, tests | - | decode and encode loops | the public interface | - | - |

The hazards that the properties aim at are listed in `PROJECT.json`, each at its
line.

## 2. The modules

| module | models | how |
|---|---|---|
| `BitFifo` | what a reading bit stream promises | bits are numbered; feed, read, move, align |
| `BitBuffer` | `FDK_bitbuffer.cpp` | operators on the record FDK_BITBUF; unsigned arithmetic modulo `UintMod` |
| `BitReader` | `FDK_bitstream.h` in configuration BS_READER, and the push back of `CBlock_DecodeHuffmanWord` | one action per call, on ring, cache word and counts; implements `BitFifo` |
| `AuDelivery` | what a transport decoder promises | units handed over in order, none twice, none left out unless the input is dropped; in the end all |
| `TransportDec` | `tpdec_lib.cpp` and `tpdec_adts.cpp` for ADTS, as `aacDecoder_Fill` and `aacDecoder_DecodeFrame` drive them | on the queue of `BitFifo`; implements `AuDelivery`, where a flush and a damaged unit that is read past the data drop input |
| `MCTransportDec` | streams for TLC | frames, noise and headers that other bytes spell, laid out as offsets |
| `Conceal` | `conceal.cpp` for one channel | one action per frame (apply and time domain fading), change of method, re-initialisation |
| `MCConceal` | the fade factors and layouts of the decoder | |
| `Limiter` | `limiter.cpp` | one action per sample (all channels), one per parameter, reset |
| `SbrSlots` | frame slots and header slots of `sbrdecoder.cpp`, for one element | the calls of one frame in their order (InitElement, Parse, Apply), and between frames configuration, delay, history, interruption, flush |
| `MCSbrSlots` | three headers, one of them unusable | |
| `EncInput` | input buffer, initialisation flags and flushing of `aacenc_lib.cpp`, delay lines of `metadata_main.cpp` | one action per parameter, one for the initialisation, and one for each way aacEncEncode ends |
| `MCEncInput` | an AAC-LC and an ELD encoder with small frames | |
| `ModuloFacts` | lemmas on remainders the proofs about rings and wrapping counters share | |
| `*_proofs` | theorems about the module of that name | |

**Bit stream.** A bit of the stream is its number; a cell of the ring that has
never been written holds a value that is no number of a bit. `ByteBits` and
`CacheBits` stand for 8 and 32, so that TLC sees a whole ring with few cells; the
code needs nothing of them but that the cache word holds more than a read and a
push back. `CacheWord` and `BitsInCache` are those of the code, with the bits of the
word as a sequence. `fed`, `call` and `out` are history. `anchor` is what the caller
got from FDKgetValidBits and hands to FDKbyteAlign. `Capacity` of `BitFifo` is
`bufBits`.

**Transport decoder.** The reader is the queue of `BitFifo`, which `BitReader` is
proved to implement: `fed` bits have arrived, the reader stands at `pos`. Of the
bytes, the model keeps where a sync word stands with which header behind it,
where a parser that starts at an intact block ends, and which blocks are damaged.
`ReadAccessUnit` is the loop of transportDec_ReadAccessUnit with synchronization()
and its search; its outcomes are the disjuncts OpenFrame, OpenBlock, StarveSearch,
StarveBlock and LoseSync. `DecodeFrame` is the parser of the audio decoder
(ParserStops: where the content ends, or, when it is damaged, any place up to
`MaxAhead` bytes behind the data), the move behind the unit by
transportDec_GetAuBitsRemaining (BehindUnit), and transportDec_EndAccessUnit. When
that move goes wrong (`Strays`, see `adts_overrun`), `droppedTo` records what is lost,
as it does for a flush. `globalFramePos` and `accessUnitAnchor`
are distances from the end of the data, as in the code, which is why FillData
must move them. Positions of raw data blocks in a header with CRC are taken to
add up to the frame length (they are read as differences, tpdec_adts.cpp:230-236).
The parameters TPDEC_PARAM_SET_BITRATE, BURST_PERIOD, MINIMIZE_DELAY and
EARLY_CONFIG have no caller, and IGNORE_BUFFERFULLNESS is always set
(aacdecoder_lib.cpp:971), so the hold-off, the frame traversal and the estimate of
lost frames do nothing and are left out.

**Error concealment.** A spectrum is the number of frames since it was decoded
and the number of windows it was decoded with; a layout is the number of windows
and the length of the last group. `fade` holds cntFadeFrames and both window
positions for both modes; `fade_old` is the gain the last frame ended with. `Apply` is
CConcealment_Apply followed by CConcealment_TDFading, in the order
aacDecoder calls them. `runs` counts good and lost frames in a row up to a cap that
lies above every bound used in a property.

**Limiter.** A sample is its level after the gain per sample that DRC may add.
Both rings keep the layout of the code (`delayBufIdx * channels + j`), also when
the number of channels or the attack time changes between two samples. `recent` and
`out` are history: the samples since the last change and the last output. The gain
is not modelled; it is a function of `max`, which is.

**SBR delay line.** A payload is its age in frames and the header it was parsed with;
a header is the bands it selects, which is what the filters are set up for, and a
number for the rest of its data. The two frame slots, the two header slots,
`useFrameSlot`, `useHeaderSlot` and `frameErrorFlag` are those of the code, and so are the
synchronisation states. `stage` is where the decoder is in the current frame; a
frame the access unit of which is lost goes from `between` to `conceal`, one that
flushes to `apply`. `Given` is the header a payload is parsed with before its own,
`Updated` what sbrGetHeaderData and the frequency tables make of it. `played` records
what the last frame was made of; `heard`, `inRow` and `goodRun` are history, and
`shifted` says that a change of the delay or a flush has put the slots out of order.

**Input of the encoder.** All channels hold the same samples, so one stands for
all. A sample is the time it came in, modulo `Cycle`, and whether it is a real one or
a zero of a flush. `enc` holds the fields of the encoder (`nSamplesToRead`,
`nZerosAppended`, `nDelay`, the input buffer up to `nSamplesRead`), `meta` those of
FDK_METADATA_ENCODER with its two delay lines. `InitFlags` is the set of
AACENC_CTRLFLAGS. `Initialise` is aacEncInit with FDK_MetadataEnc_Init; it is a step
of its own because a call without buffers ends after it. `EncodeFrame` is the rest of
aacEncEncode when a frame is full: the metadata encoder delays metadata by whole
frames and audio by the rest, the core codes the first frame of the buffer, or it
fails, or the output buffer is too small. `owed` is history, what the core has yet to
get; `tail` counts the samples coded behind the last real one. `stream` says whether
metadata is under way or was cut off, `upset` that a frame shorter than what had
been collected is being coded, `resumed` that samples were fed after zeros.

Definitions whose name ends in `_` and a word (`Feed_KeepsOffset`) are faulty
variants. Nothing uses them; put in the place of the definition they vary, each
makes one property of one run fail, which shows that the property can fail.

## 3. What each run checks, and with which bounds

| run | question | states | bounds and why they are enough |
|---|---|---|---|
| `bit_reader` | does the cached, wrapping reader deliver the stream? | 79,413 | ring of 4 bytes of 2 bits, cache of 4 bits, 14 bits fed: the ring wraps more than once, the cache spans half of it, reads run 5 bits past the end |
| `conceal` | does concealment keep its counters, windows and spectra in order, with a change of the method at any time? | 540,422 | methods Mute, Noise, Inter; the decoder's slopes: fade-out 6, fade-in 5, mute release 1; AAC and LPD layouts with last groups of 1, 3 and 5; spectra older than 3 frames count as equally old |
| `conceal_inter_windows` | are windows kept with their spectrum? | *violated* | method Inter alone, with the layouts of AAC frames |
| `adts` | are streams, damaged or not, delivered as `AuDelivery` says? | 110,601 | ten streams: frames of 1, 2 and 3 blocks, with and without CRC, with noise, damaged blocks, and headers that are emulated, unsupported, corrupt, refused, too short or longer than the buffer; 1 or 6 bytes per fill, 200 bits of buffer, one flush anywhere, parsers that run 1 byte past the data |
| `adts_overrun` | does the reader stand behind the unit after each decoded one? | *violated* | a damaged frame without CRC and two frames behind it |
| `adts_block_wait` | does the decoder wait only for what is missing? | *violated* | two streams of one frame of two blocks |
| `adts_interrupted` | what does AACDEC_INTR do at a sync error? | *violated* | two frames with a byte of noise between them |
| `limiter` | do the rings stay in step while their sizes change? | 2,910,522 | levels 0, 2, 3, thresholds 1 and 2, attack of up to 2 samples, up to 2 channels; the run takes about a minute |
| `limiter_shrunk` | is the maximum always one of the window? | *violated* | as `limiter` |
| `sbr` | do header, payload, filters and core frame stay together? | 2,045,488 | three headers, one of which is refused; payloads of two frames ago and older count as equally old, as no slot is older; after a change of the delay no other until a reset; flushing follows frames, not a header that waits for its frame |
| `sbr_switch` | does a good header survive a change of the delay? | *violated* | as `sbr` |
| `encoder` | is every sample coded once, with its metadata, and does a flush end? | 941,828 | LC frames of 2 samples with a core delay of 3, hence an audio delay of 1 and a metadata delay of 1 frame; ELD frames of 2 and 4 without metadata; 1 or 3 samples per call, less and more than a frame; times modulo 4, more than are under way at once; INIT_STATES alone while nDelay is at most 4, and AACENC_CONTROL_STATE when nothing is pending or to initialise everything |

What the properties say:

* **Bit reader.** `UnreadBitsStored`: no feed overwrites an unread bit.
  `CacheIsFresh`: what is left in the cache equals the ring. `NoAbort`: the assertion
  of FDKpushBackCache holds for what the Huffman decoders push back.
  `AlignedFromAnchor`: alignment skips less than a byte and ends at a byte boundary
  of the anchor. `ImplementsFifo`: all of it refines `BitFifo`. `Inv` is the inductive
  invariant of the proofs.
* **Transport decoder.** `ImplementsDelivery`: `BitFifo` below, `AuDelivery` above,
  liveness included. `InOrder`, `NoneSkipped`: with damage around them, units that
  have arrived are handed over in order and none that can be found is passed
  over. Left out of `NoneSkipped`, `AllDelivered` and `ImplementsDelivery` are the
  units whose header was in the input when it was flushed, or when the parser of a
  damaged unit without CRC read past it (`Done`): the code drops those, against
  what its comment says, which is what `adts_overrun` shows. `NoAbort`: the search starts byte aligned. `ReadsMoveOn`, `StarvedHasRoom`:
  no call goes round in circles, and the answer "not enough bits" is given only
  when there is room for more. `AllDelivered`: in the end every unit that can be
  found has been handed over.
* **Concealment.** `WindowInRange` and `FadeWithinSlope` are the assertions of the
  code. `LostFramesMute`,
  `GoodFramesRecover`: bounded muting and recovery, the finite form of liveness for
  a machine that makes a step per frame. `UnconcealedIsDecoded`: what is passed off
  as undisturbed is, with the delay CConcealment_GetDelay announces.
  `WindowsFitSpectrum`: a spectrum is rendered with its own windows.
  `GainFollowsState`: the gain never rises in a loss nor falls in a recovery.
* **Limiter.** `ExactDelay`: what comes out came in `attack` samples ago, channel by
  channel, from one attack time after a change on. `PeaksCovered`: the maximum
  covers every sample in the delay line that came in since the last change, but for
  the first one after a change once the attack time was cut down (`shrunk`, section 6).
  `MaxInWindowUnlessShrunk`: and it is the peak of a sample in the window, so that
  the gain can return.
* **SBR delay line.** `InStepWithCore`: what is played and not concealed came with
  the frame the core puts out, which is delayed equally. `HeaderFitsFrame`: the
  filters are those of the header in use, and a payload is decoded with the header it
  was parsed with. `HeaderKeptUnlessShifted`: a header that has arrived with a good
  payload stays in force. `WaitingHeaderKept`: a header that arrives leaves that of the
  waiting frame alone. `GoodFramesRecover`: two complete frames bring SBR back,
  whatever came before.
* **Input of the encoder.** `InOrder`: the core gets each sample once and in order,
  through changes of the parameters, initialisations and failed calls.
  `MetadataWithAudio`: a payload goes out with the frame of the samples it was
  submitted with. `FlushedOut`: at the end of the file every sample has been coded with
  as many behind it as the core looks ahead. `MetadataEnds`: metadata that has begun
  goes on until a frame with the default has closed it. `FlushEnds`: an application
  that goes on flushing is told the end of the file.

Deadlock is checked in every run; none of the systems can stop.

## 4. Fairness

`TransportDec` and `EncInput` have liveness properties. The specification of
`TransportDec` assumes weak fairness of Next as a whole: as long as a call does
anything, the application goes on with the loop aacdecoder_lib.h:185-197 describes
(fill while there is input, decode while there are access units), and each call
returns. Nothing is assumed of which call comes next, of the portions offered, of where a parser of damaged data stops, or of
flushes. Streams end with enough bytes behind the last unit to complete it in the
sense of section 6. `EncInput` assumes weak fairness of Next as a whole, that is, that
the application goes on calling, whatever it calls: an application that flushes
calls until it is told to stop (src/aac-enc.c, the loop around aacEncEncode). Nothing
is assumed about which call comes next; `FlushEnds` holds because a row of flushes
uses up the delay. Concealment, SBR and limiter have no liveness properties: a frame
or a sample comes when the application decodes one; `GoodFramesRecover` and
`LostFramesMute` bound recovery in frames instead.

## 5. What is proved

All theorems hold for every value of the constants that the assumptions in the
modules allow; these are the ranges the code accepts.

**`BitReader_proofs`** - ReaderInvariant, UnreadBitsStoredTheorem, CacheIsFreshTheorem,
NoAbortTheorem, TypeCorrect, AlignedFromAnchorTheorem, ReaderImplementsFifo, for every
ring, byte, cache and counter size, as long as the counter holds a whole number of bytes:
without that the distance to the anchor, computed in UINT, says nothing of the byte
the position is in once it wraps. The invariant `Inv` says that position, valid bits and feed offset of the ring
agree (Positions), that the window from the cached bits to the end of the data
holds the bits of the stream (WindowStored), that the cache word equals the ring
(WordIsFresh), and that a read leaves room for the push back that may follow
(ReadLeavesRoom). WindowStored alone is not inductive: it needs Positions, because
the place of a feed is not computed from the position but kept beside it.

**`TransportDec_proofs`** - TransportInvariant, TypeCorrect, NoAbortTheorem,
StarvedHasRoomTheorem, ReadsMoveOnTheorem, InOrderTheorem, FindingTheorem,
NoneSkippedTheorem, ImplementsDeliverySafety, for every set of streams, buffer size,
portions and number of flushes. The inductive invariant is the types, that the
blocks left are blocks of the last header, that a frame that was opened fits the
buffer, and - as long as AACDEC_INTR is not used - that fill level, anchors and the
start of the frame are byte aligned. NoAbortTheorem assumes ~Interrupts, since
with interruption the alignment cannot be concluded. InOrderTheorem assumes it too,
and that the blocks of a header the decoder accepts follow each other inside its frame
(`SentInOrder`), which TLC evaluates for the streams of the runs
(`StreamsSentInOrder`); it rests on what has been handed over lying behind the read
position (`Passed`) and the unit being decoded inside the frame that is open
(`InFrame`). NoneSkippedTheorem and ImplementsDeliverySafety assume in addition what
makes a unit one that can be found (`Findable`, checked for the streams of the runs as
`StreamsFindable`): it is a block of a frame whose header is accepted, no other
such frame reaches over that header, the blocks of a frame, damaged ones
included, start inside it, and without a CRC an intact one also ends inside it. Damage, noise, emulated and refused headers are left
free. They rest on the invariant of FindingTheorem (`Finding`): the decoder never
stands behind a unit that is due, unless that unit is the next block of the frame that
is open; where it searches, a unit that is due has its header at or behind the read
position, and the search stops no later than at the next header that is accepted and
has arrived with its frame. A unit is due unless it has been handed over or was
dropped (`Done`), by a flush or by an overrun of a damaged unit without CRC; what was
dropped had arrived (DroppedArrived), so that nothing the application has yet to
feed is excused. With that, the step of ReadAccessUnit that hands over a
unit hands over the next one, which is the step Deliver of `AuDelivery`; a flush and
an overrun map to Drop, and all else, however much is fed, skipped or tried, to a stutter. The
remaining theorems assume none of this.

**`Conceal_proofs`** - ConcealInvariant (any change of method);
GoodFramesRecoverTheorem (methods Noise and Inter, changed at any time),
LostFramesMuteTheorem (one method), WindowInRangeTheorem (method Noise),
FadeWithinSlopeTheorem (fade-in shorter than fade-out), TypeCorrect,
WindowsFitUnlessInterTheorem (any change of method), UnconcealedIsDecodedTheorem
(at least one fade-in frame), GainFollowsStateTheorem (any change of method, slopes in
which half of two different fade-in factors differ: findEquiFadeFrame compares the
halves, and at the tail of the default slope, where they coincide, the gain may rise by
the rounding). `SlopesFit` leaves out a slope of 31 frames, with which
the code indexes one behind its table. Recovery and muting are proved with the
ranking `Recovering`, `Muting`: what a row of good or lost frames has used up of its
bound. The two theorems about spectra rest on `Images`: which of the two stored
spectra is the last one decoded, in each state of the machine. Without a fade-in
frame the theorem is false, as TLC shows with a mute release of 1 under Inter: the
first frame after the release is the stored old spectrum and counts as good. The
decoder library leaves the default of 5 (conceal.cpp:273) in place, but
CConcealment_SetParams accepts 0.

**`Limiter_proofs`** - LimiterInvariant, ExactDelayTheorem, PeaksCoveredTheorem,
MaxInWindowTheorem, TypeCorrect, for every attack time, number of channels, level and
threshold. The invariant reads both rings backwards from their index: position k
behind it holds what came in k samples ago, which makes a change without a reset
harmless to the delay. In the delay line this starts one sample after a change,
because an index may lie outside a ring that has just been made smaller. In the ring
of maxima it starts with the change, but for the first sample after one once the
attack time was cut down (`shrunk`), which PeaksCoveredTheorem leaves out too.

**`SbrSlots_proofs`** - SbrInvariant, TypeCorrect, InStepWithCoreTheorem,
GoodFramesRecoverTheorem, WaitingHeaderKeptTheorem, HeaderKeptTheorem,
HeaderFitsFrameTheorem, for every set of headers. The invariant says, for a delay of
none and of one frame, which slot holds a payload of which age if that slot can be
played at all (AgesKept), and that a row of complete frames has left a good slot with
a header behind (GoodKept). InStepWithCore alone is not inductive, as it says nothing
of the slot that is to be played next. A change of the delay, a reset or a flush only
shortens what the invariant has to promise,
because `inRow` and `goodRun` start again.

HeaderKeptTheorem rests on HeaderReady: with the delay of one frame the slot of the
next header is never that of the last frame, and the header of the last frame is no
longer pending, so that what was announced stands in the one or is in use in the
other. HeaderFitsFrameTheorem adds, for a slot that is not flagged, that its payload
was parsed with its header (Fits); that a header announced from outside keeps asking
for its reset and is not played before a payload has taken it over (Announced,
Unplayed); and that the slot that is played does not set up the filters anew while
the other relies on them (AllTuned), which a flush that plays the other slot needs.

**`EncInput_proofs`** - Invariant, TypeCorrect, InOrderTheorem, MetadataEndsTheorem,
MetadataWithAudioTheorem, FlushedOutTheorem, for every set of codecs, frame lengths, delays and numbers of
samples per call. The invariant says that what
the core is owed is what the delay line of the metadata encoder holds followed by
the input buffer (Ordered), except for a buffer that a failed frame has left, which
the flags say will be cleared, and for one that held more than a frame; and that
the line has the length FDK_MetadataEnc_Init computes for some accepted settings
(Described). The latter is needed because an initialisation that changes the
settings but not the delay keeps the line (metadata_main.cpp:482 compares the audio
delay, the channels and flags, not the frame length): the assumption EncDelays says
that equal audio delays then mean the same frame and the same metadata delay, as they
do in libAACenc, where only AAC-LC has metadata and its delays of 1600 and 1500
samples for granules of 1024 and 960 leave audio delays of 448 and 420. Else the index
into the line could lie outside, and a payload could go out with other samples.
MetadataEndsTheorem rests on InLine: the metadata line is a ring, and behind an entry
as it was submitted stands another of the same submission or one that is still to be
written, so that no frame without metadata follows one with it before it is closed.
MetadataWithAudioTheorem rests on InTime: every sample the core is owed, and every entry
of the metadata line, carries the time that its place gives it, counted back
from the next frame. The two meet at the core because the whole frames that metadata
waits, and the samples that audio waits, add up to the delay of the core, and
because both lines advance by one frame in the same step. Nothing is claimed of
the line while an initialisation that will empty it is pending ("states" in InitFlags),
nor for frames after which samples have been repeated or lost (`upset`).
FlushedOutTheorem rests on two facts: nDelay is never less than what the core looks
ahead and the line for audio holds, also where aacEncInit adds to it without a new
configuration (DelayCovered), and from the first zero appended the input buffer is
empty and the zeros are the last in the line and in what has been coded (ZerosLast).
It assumes that the core looks ahead with every codec and frame length (EncLookAhead),
else a flush would be over before it began, with samples left in the input buffer.

**Only model-checked**: liveness (`AllDelivered`, `FlushEnds`, and the liveness part of
`ImplementsDelivery`). Every invariant and every action property of the runs that
are expected to pass is stated by a theorem; `ImplementsFifo` is proved as a
whole, `ImplementsDelivery` up to its fairness. Liveness and ENABLED are out of the
prover's reach, as is what a recursive definition computes for all inputs. That the
streams of the runs are `SentInOrder` and `Findable`, and that the constants of the runs
meet the assumptions, is evaluated by TLC.

## 6. Disagreements between the code and what is said of it

Shown by a run (`findings` in `PROJECT.json`):

* `adts_block_wait`: for the blocks of a frame behind the first, the whole frame
  length is asked for again (tpdec_lib.cpp:959), so the decoder wants bits behind
  the frame; the last blocks of a stream are never decoded.
* `adts_interrupted`: AACDEC_INTR decodes after a sync error, and the end of that
  access unit is computed from positions of the frame before
  (aacdecoder_lib.cpp:1291).
* `adts_overrun`: aacdecoder.cpp:3065 wants the reader "at the right position after
  the current Access Unit", but when the parser of a damaged unit has read past the
  buffered bits, transportDec_GetAuBitsRemaining returns their negative count
  (tpdec_lib.cpp:1596-1599), and the reader ends at the end of the data. A CRC puts it
  back; without one, complete frames behind the damaged one are lost.
* `conceal_inter_windows`: after a mute, method Inter renders eight short windows as
  a long one (conceal.cpp:1096).
* `limiter_shrunk`: when the attack time or the sampling rate is cut down, the
  maximum may be in the part of the ring that is cut off; it never leaves, and the
  gain stays down until something at least as loud comes (limiter.cpp:234).
* `sbr_switch`: when the delay of the decoder changes between two frames, the header
  slot that counts as the last one is a different one, and the copy that is to carry
  the header in force over (sbrdecoder.cpp:1258) overwrites it with an old one.

Observed while modelling, without a run of their own:

* FDKpushBackCache: the comment (FDK_bitstream.h:517-519) bounds what may be pushed
  back by the last read, the assertion (:534) only by the cache.
* A change of the method while frames are lost can make the assertion of
  conceal.cpp:1732 fail (Noise takes over window offsets it has not kept), and a
  change to Mute freezes the attenuation (conceal.cpp:1588, against :119).
  `WindowInRange` therefore speaks of a method that has not been changed.
* With a fade-in as long as the fade-out, or longer, conceal.cpp:1309 can exceed
  what the assertion :1067 demands.
* "Try again one frame later" (tpdec_adts.cpp:267) is undone by the rewind of
  tpdec_lib.cpp:1221.
* When the attack time of the limiter grows, samples already in the delay line may
  come out uncovered: the two rings have `attack` and `attack + 1` entries and wrap
  apart. `PeaksCovered` speaks of the samples since the change.
* When the attack time is cut down, the first sample after it may be written to an
  entry of the ring of maxima behind the part that is searched (limiter.cpp:239-242;
  for instance from 2 to 1 with maxBufIdx = 2), and its peak may come out uncovered.
* A change of the scaling rescales only the part of the limiter's rings in use.
* SBR: with the delay of one frame, a header that arrives damaged after
  SBR_BS_INTERRUPTION leaves the other slot in force, which the interruption has not
  touched (sbrdecoder.cpp:963); a history reset in a frame that is concealed or
  flushed is dropped; a frame without payload applies the one before it a frame late,
  which `InStepWithCore` leaves out (it speaks of frames that have read a payload).
* SBR: after a change of the delay, or a flush that is broken off, the slots are out
  of order until a reset; `shifted` leaves these stretches out of
  `HeaderKeptUnlessShifted` and `HeaderFitsFrame`.
* Encoder: nZerosAppended is not reset at the end of the file, so an encoder that is
  fed again without an initialisation ends the next flush early (against
  aacenc_lib.h:1592-1595); `FlushedOut` leaves this out by `resumed`.
* AACENC_INIT_STATES alone adds the metadata delay to nDelay each time
  (aacenc_lib.cpp:1447, against aacenc_lib.h:1084).
* When the number of channels changes without a reset, the delay line is copied as
  interleaved (metadata_main.cpp:545-550) but used as planar (:793).
* When the frame becomes shorter than what the input buffer holds, the rest is not
  moved to the front after coding (aacenc_lib.cpp:2000); samples are repeated and
  others lost. `upset` leaves these frames out.
* Every FDK_MetadataEnc_Init replaces the submitted metadata by the default
  (metadata_main.cpp:473), against aacenc_lib.h:345-347. A second initialisation
  before the next frame loses the closing frame (:476-479, against the comment :699),
  and switching metadata on again disables entries still in the line (:561-570);
  `stream` = "cut" leaves these out.
* Metadata with another matrix mix down than before makes aacEncEncode itself ask for
  AACENC_INIT_TRANSPORT with five channels (aacenc_lib.cpp:1897-1900), and so resets
  the count of zeros at the next call, also within a flush; in the model that is
  `SetOther`, and `FlushEnds` is about flushes without an initialisation.
* userDownscaleFactor is set by short granule lengths and never set back
  (aacenc_lib.cpp:2268).

## 7. What is not modelled, and why

Numeric code (transforms, filter banks, quantisation, prediction, gains), as its
correctness is not about states; the components marked so in `PROJECT.json`, each
with its reason. Inside the modelled components: FDK_getBwd, FDK_putBwd and
FDKcopyBuffer (no caller); the writing half of the bit stream (planned); program
config elements, formats other than ADTS and reconfiguration in the transport
decoder; pushing back behind data that has been overwritten, which no caller does;
ACELP and TCX frames, comfort noise, spectral values and the partial clearing of
the fade-out buffer in the concealment; gain, scaling and release time in the
limiter; several elements, parametric stereo, QMF and DRC in the SBR decoder; SBR
with its input buffer offset, MPEG Surround, ancillary data, the metadata's contents
and the seamless copy of its audio delay line in the encoder. Most of the
repository's lines are tables and signal processing; the models cover the state
machines around them.

## 8. Plan

In this order; the first six are done.

1. `BitFifo`, `BitBuffer`, `BitReader` with proofs: everything parses through it.
2. `Conceal` with proofs: the largest state machine of the decoder.
3. `AuDelivery`, `TransportDec` with proofs: composes with 1 through `BitFifo`.
4. `Limiter` with proofs.
5. `SbrSlots` with proofs: frame and header slots of the SBR decoder.
6. `EncInput` with proofs: input, flushing and initialisation of the encoder.
7. `BitReservoir` (qc_main.cpp): fill level, fill bits, changes of the bit rate. To
   prove: the level stays between empty and full.
8. `DecoderLib` (aacdecoder_lib.cpp): parameters, flush, CLRHIST, roll back of
   setConcealMethod; composes `Conceal` and `SbrSlots` through the delay they must
   agree on. Abstract specification: all modules use one delay.
9. `CrcRegions` (FDK_crc.cpp) on `BitFifo`: the regions both transports open, and
   early exits of the parsers.
10. `Latm`: demultiplexer and truncated headers of LOAS/LATM; `AuDelivery` again.
11. `BlockSwitch` (block_switch.cpp) for one channel and a pair: legal window
    sequences, the same for both channels where they are coded together; with
    `Mdct` (overlap bookkeeping of mdct.cpp) as a consumer.
12. `BitWriter` on `BitBuffer`, the transport encoder as the source of streams for
    `TransportDec`; expiry and delay of metadata in pcmdmx_lib.cpp; the HCR state
    machines.

No safety property of what is modelled is left without a proof. The assumption
~Interrupts of the theorems on delivery stays: with AACDEC_INTR the end of an access unit
may be computed from positions of another frame, as `adts_interrupted` shows.
