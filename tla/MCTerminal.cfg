CONSTANTS
  Window = 1
  LatencyRing = 2
  Latencies <- Delays
  Readers <- SnapshotReaders
  MaxTime = 3
  MaxOps = 5
SPECIFICATION Spec
INVARIANTS
  HealthTellsTheTruth
  PausedTimeIsTrue
  LatencyIsRecent
  LinesStandAlone
