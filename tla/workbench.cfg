SPECIFICATION Spec
CONSTANTS
  Projects = {A, B}
  MaxTabs = 2
  MaxSockets = 3
  MaxCommands = 2
  MaxCuts = 1
  Docs = {d1, d2}
  Workspaces = {w1}
  NoDoc = NoDoc
  MaxEmits = 3
  MaxDrops = 1
  MaxEvents = 1
  MaxTyped = 2
  MaxSaves = 1
  MaxInFlight = 1
  MaxCrashes = 1
  p1 = p1
  p2 = p2
  i1 = i1
  i2 = i2
  f1 = f1
  Members = {m1, m2}
  Roots = {p1, p2}
  Items = {i1, i2}
  NoProject = NoProject
  NoItem = NoItem
  Before <- MCBefore
  MaxClicks = 2
  MaxJobs = 2
  MaxRefusals = 1
  Queries = {q1, q2}
  Blank = Blank
  Packages = {k1}
  MaxKeys = 4
  MaxInstalls = 2
  Needles = {n1}
  NoNeedle = NoNeedle
  MaxTrips = 3
  MaxRetypes = 2
  SharedFolders = {f1, f2}
  SharedDocs = {s1}
  NoObject = NoObject
  Existing <- MCExisting
  MaxShareClicks = 3
  MaxShareJobs = 2
  MaxShareFailures = 1
INVARIANTS TypeOK CommandsArrive RoomsFollowPage  SavesOwnInOrder   PanelSettles HitsCurrent 
PROPERTY ServicesSettle
CHECK_DEADLOCK FALSE
