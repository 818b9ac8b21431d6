SPECIFICATION Spec
CONSTANTS
  Streams <- OverrunStreams
  bufBits = 200
  Offers = {1, 6}
  MaxAhead = 1
  MaxResets = 0
  Interrupts = FALSE
PROPERTIES
  RightPosition
