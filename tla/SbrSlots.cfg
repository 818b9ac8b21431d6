SPECIFICATION Spec
CONSTANTS
  Configs <- StreamConfigs
  Unusable <- BadConfigs
  MaxAge = 2
INVARIANTS
  Type
  HeaderFitsFrame
  InStepWithCore
  HeaderKeptUnlessShifted
  GoodFramesRecover
PROPERTIES
  WaitingHeaderKept
