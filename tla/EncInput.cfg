SPECIFICATION Spec
CONSTANTS
  Codecs <- CodecNames
  Granules <- FrameLengths
  Accepted <- CodecFrames
  WithMetadata = {"LC"}
  CoreDelay <- Delays
  Channels = {1, 7}
  Seamless = {1}
  Offers = {1, 3}
  Cycle = 4
  DelayFrames = 2
  MaxTail = 3
  MaxDelay = 4
INVARIANTS
  Type
  InOrder
  MetadataWithAudio
  FlushedOut
  MetadataEnds
PROPERTIES
  FlushEnds
