SPECIFICATION Spec
CONSTANTS
  c1 = c1
  c2 = c2
  c3 = c3
  Clients <- MCClients2
  NoSnapshot = NoSnapshot
  SnapshotEvery = 1
  KeepRevisions = 1
  MaxRevision = 3
  MaxInFlight = 2
  MaxLag = 2
  MaxJobLag = 2
  MaxDisconnects = 1
  MaxFailures = 1
INVARIANTS TypeOK RevisionsGapless RecentRetained TransformedAgainstSeen ResyncLeavesNoHole
PROPERTY ImplementsOrderedLog
SYMMETRY MCSymmetry2
CHECK_DEADLOCK FALSE
