CONSTANTS
  PauseEnabled = TRUE
  Hold = 2
  RingCap = 2
  MaxFrames = 3
  MaxFaults = 1
SPECIFICATION Spec
INVARIANTS
  BlipLosesNothing
