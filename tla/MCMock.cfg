CONSTANTS
  PauseEnabled = TRUE
  Hold = 3
  Chunks <- ChunkLengths
  MediaLimit = 14
  Utterance = 3
  Interim = 1
  Gap = 1
  Words = 2
  LoudPhase = 4
  Visible = 2
  DefaultHold = 4
SPECIFICATION MockSpec
INVARIANTS
  NeverPausesEarly
  PausesByHold
  PauseIsSilent
  SpeechIsContinuous
