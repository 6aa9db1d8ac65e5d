SPECIFICATION FairSpec
CONSTANTS
  c1 = c1
  c2 = c2
  r1 = r1
  r2 = r2
  Sockets <- MCSockets
  Replicas <- MCOneReplica
  Home <- MCHomeOne
  Texts <- MCTexts
  None = None
  FirstText = "a"
  Seeding = FALSE
  MaxEdits = 0
  MaxRunning = 2
  MaxPutFailures = 0
  MaxSaveFailures = 0
  MaxConsumerCrashes = 0
  MaxReplicaCrashes = 1
INVARIANT TokensOfMembers
PROPERTY StaleSwept
CHECK_DEADLOCK FALSE
