SPECIFICATION FairSpec
CONSTANTS
  c1 = c1
  c2 = c2
  r1 = r1
  r2 = r2
  Sockets <- MCOneSocket
  Replicas <- MCOneReplica
  Home <- MCHomeOfOne
  Texts <- MCTexts
  None = None
  FirstText = "a"
  Seeding = FALSE
  MaxEdits = 3
  MaxRunning = 1
  MaxPutFailures = 1
  MaxSaveFailures = 0
  MaxConsumerCrashes = 0
  MaxReplicaCrashes = 0
 
PROPERTY EditsReachPostgres
CHECK_DEADLOCK FALSE
