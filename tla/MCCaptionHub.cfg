CONSTANTS
  c1 = c1
  Clients = {c1}
  SubscriberBuffer = 2
  HistoryLimit = 1
  States = {"paused"}
  MaxResults = 3
  MaxStatus = 1
SPECIFICATION FairSpec
INVARIANTS
  TranscriptIsTheSpeech
  MissesAreCounted
  LinesInOrder
  PageIsCurrent
PROPERTIES
  PublishersNeverWait
CHECK_DEADLOCK FALSE
