SPECIFICATION Spec
CONSTANTS
  Methods = {"Inter"}
  Layouts <- AacLayouts
  numFadeOutFrames = 6
  numFadeInFrames = 5
  numMuteReleaseFrames = 0
  FadeFactor <- DefaultFactor
  MaxAge = 3
INVARIANTS
  WindowsFitSpectrum
