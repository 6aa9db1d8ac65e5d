SPECIFICATION Spec
CONSTANTS
  u1 = u1
  m1 = m1
  Users <- MCUsers
  Managers <- MCManagers
  SharesBefore <- MCSharesBefore
  Depth = 1
  TTL = 1
  GatewayTTL = 1
  MaxChanges = 1
  MaxRunning = 2
INVARIANTS TypeOK CacheSettles LevelsSettle
CHECK_DEADLOCK FALSE
