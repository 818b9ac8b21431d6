SPECIFICATION Spec
CONSTANTS
  Streams <- ShortStreams
  bufBits = 200
  Offers = {1, 6}
  MaxAhead = 0
  MaxResets = 0
  Interrupts = FALSE
PROPERTIES
  WaitsForMissingBits
