CONSTANTS
  c1 = c1
  Clients = {c1}
  SubscriberBuffer = 2
  HistoryLimit = 1
  States = {"paused"}
  MaxResults = 2
  MaxStatus = 0
SPECIFICATION Spec
INVARIANTS
  SnapshotComesFirst
CHECK_DEADLOCK FALSE
