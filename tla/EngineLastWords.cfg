CONSTANTS
  PauseEnabled = TRUE
  Hold = 2
  RingCap = 2
  MaxFrames = 4
  MaxFaults = 0
SPECIFICATION Spec
INVARIANTS
  NothingLeftAtEnd
