SPECIFICATION FairSpec
CONSTANTS
  c1 = c1
  c2 = c2
  c3 = c3
  Clients <- MCClients2
  NoSnapshot = NoSnapshot
  SnapshotEvery = 1
  KeepRevisions = 1
  MaxRevision = 3
  MaxInFlight = 1
  MaxLag = 1
  MaxJobLag = 2
  MaxDisconnects = 1
  MaxFailures = 0
INVARIANTS TransformComplete HotContentCurrent SnapshotMeetsLog
PROPERTIES EveryOperationArrives
CHECK_DEADLOCK FALSE
