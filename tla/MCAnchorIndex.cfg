CONSTANTS
  Window = 4
  MaxAnchors = 4
  Lengths <- ChunkLengths
  Gaps <- ReleaseGaps
  Epoch = 4
  MaxWritten = 8
SPECIFICATION Spec
INVARIANTS
  AnswersAreClose
  RecentIsAnswered
CHECK_DEADLOCK FALSE
