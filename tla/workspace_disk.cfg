SPECIFICATION FairSpec
CONSTANTS
  p1 = p1
  p2 = p2
  w1 = w1
  w2 = w2
  t1 = t1
  Empty = Empty
  Absent = Absent
  Paths <- MCPaths
  Texts <- MCTexts
  Replacement <- MCReplacement
  Manifest <- MCManifest
  Locked <- MCPaths
  Workers <- MCWorkers
  Terminals <- MCTerminals
  MaxWork = 2
  MaxShell = 1
  MaxFailures = 1
INVARIANTS TypeOK SuppressionHidesNothing 
PROPERTY ChangesAnnounced
CHECK_DEADLOCK FALSE
