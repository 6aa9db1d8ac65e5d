SPECIFICATION Spec
CONSTANTS
  c1 = c1
  c2 = c2
  c3 = c3
  Clients <- MCClients2
  NoSnapshot = NoSnapshot
  SnapshotEvery = 2
  KeepRevisions = 2
  MaxRevision = 3
  MaxInFlight = 2
  MaxLag = 2
  MaxJobLag = 2
  MaxDisconnects = 0
  MaxFailures = 0
INVARIANT TransformComplete
SYMMETRY MCSymmetry2
CHECK_DEADLOCK FALSE
