CONSTANTS
  BufferCap = 3
  ChannelCap = 1
  Conns = 2
  MaxResults = 2
  MaxFrames = 1
SPECIFICATION FairSpec
INVARIANTS
  FilesFollowTheSession
  BadgeTellsTheTruth
  NothingInFlightIsLost
  SegmentsInOrder
  EndOfFileIsClean
PROPERTIES
  RefinesTranscriptLog
  ShutdownCompletes
