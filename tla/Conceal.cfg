SPECIFICATION Spec
CONSTANTS
  Methods = {"Mute", "Noise", "Inter"}
  Layouts <- AllKinds
  numFadeOutFrames = 6
  numFadeInFrames = 5
  numMuteReleaseFrames = 1
  FadeFactor <- DefaultFactor
  MaxAge = 3
INVARIANTS
  Type
  WindowInRange
  GoodFramesRecover
  LostFramesMute
  UnconcealedIsDecoded
  WindowsFitUnlessInter
PROPERTIES
  FadeWithinSlope
  GainFollowsState
