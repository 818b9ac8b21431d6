SPECIFICATION Spec
CONSTANTS
  Streams <- AllStreams
  bufBits = 200
  Offers = {1, 6}
  MaxAhead = 1
  MaxResets = 1
  Interrupts = FALSE
INVARIANTS
  Type
  NoAbort
  NoneSkipped
  InOrder
PROPERTIES
  ReadsMoveOn
  StarvedHasRoom
  AllDelivered
  ImplementsDelivery
