SPECIFICATION Spec
CONSTANTS
  ByteBits = 2
  CacheBits = 4
  bufSize = 4
  UintMod = 64
  MaxFed = 14
  MaxAhead = 5
INVARIANTS
  Inv
  Type
  UnreadBitsStored
  CacheIsFresh
  NoAbort
PROPERTIES
  AlignedFromAnchor
  ImplementsFifo
