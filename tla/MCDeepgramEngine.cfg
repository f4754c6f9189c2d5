CONSTANTS
  PauseEnabled = TRUE
  Hold = 2
  RingCap = 2
  MaxFrames = 4
  MaxFaults = 1
SPECIFICATION FairSpec
INVARIANTS
  LossIsAccounted
  PauseAccounted
  NoStrayGoroutine
  ReconnectsAreFaults
  ReturnsOnlyWhenOver
PROPERTIES
  RefinesAudioPipe
  CancelReturns
  EndReturns
  ResumeNoticed
