SPECIFICATION Spec
CONSTANTS
  Configs <- StreamConfigs
  Unusable <- BadConfigs
  MaxAge = 2
INVARIANTS
  HeaderKept
