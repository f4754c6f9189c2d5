CONSTANTS
  Kinds = {"file", "loop", "device"}
  Media = 5
  Lives = 2
  TapCap = 1
SPECIFICATION FairSpec
INVARIANTS
  MediaTimeAdvances
  OneCapture
  NothingSkipped
  TapAccounted
  CleanEndIsWhole
PROPERTIES
  CaptureEnds
