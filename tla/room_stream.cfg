SPECIFICATION FairSpec
CONSTANTS
  c1 = c1
  c2 = c2
  r1 = r1
  r2 = r2
  Sockets <- MCSockets
  Replicas <- MCOneReplica
  Home <- MCHomeOne
  Texts <- MCTexts
  None = None
  FirstText = "a"
  Seeding = TRUE
  MaxEdits = 1
  MaxRunning = 1
  MaxPutFailures = 1
  MaxSaveFailures = 1
  MaxConsumerCrashes = 1
  MaxReplicaCrashes = 0
INVARIANTS TypeOK LastOneOutCloses
PROPERTY StreamDrains
CHECK_DEADLOCK FALSE
