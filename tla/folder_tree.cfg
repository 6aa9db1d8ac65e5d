SPECIFICATION Spec
CONSTANTS
  f1 = f1
  f2 = f2
  f3 = f3
  d1 = d1
  d2 = d2
  r1 = r1
  r2 = r2
  Folders <- MCFolders
  Documents <- MCDocuments
  Requests <- MCRequests
  Null = Null
  Unborn = Unborn
  Deleted = Deleted
  MaxFolderDepth = 4
  MaxFilesPerProject = 1
  MaxMoves = 1
  MaxRequests = 2
INVARIANTS TypeOK Forest OnlyLatecomersStranded
SYMMETRY MCSymmetry
CHECK_DEADLOCK FALSE
