SPECIFICATION QueueSpec
CONSTANTS
  A = A
  B = B
  p1 = p1
  p2 = p2
  NoFile = NoFile
  Hash = {h1, h2, h3}
  MaxEdits = 4
  MaxSessions = 3
  MaxRequests = 2
  Interrupts = TRUE
  Name <- OneName
  Session <- MCSession
  Path <- MCPath
  ConflictName <- MCConflictName
SYMMETRY Sym
INVARIANT QueueTypeOK
PROPERTIES RoundConverges VersionsSurvive RoundFollowsTable
           ResolutionSpreads ConflictsQueued StatusAgrees
CHECK_DEADLOCK FALSE
