SPECIFICATION Spec
CONSTANTS
  Streams <- GapStreams
  bufBits = 200
  Offers = {1, 6}
  MaxAhead = 0
  MaxResets = 0
  Interrupts = TRUE
INVARIANTS
  NoneSkipped
