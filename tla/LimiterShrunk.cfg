SPECIFICATION Spec
CONSTANTS
  maxLevel = 3
  Levels = {0, 2, 3}
  Thresholds = {1, 2}
  maxAttack = 2
  maxChannels = 2
INVARIANTS
  MaxInWindow
