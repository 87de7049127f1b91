SPECIFICATION Spec
CONSTANTS
  A = A
  B = B
  p1 = p1
  NoFile = NoFile
  Hash = {h1, h2, h3}
  Cap = 1
  MaxEdits = 1
  MaxSessions = 2
  Faults = TRUE
  Name <- OneName
  Session <- MCSession
  Path <- MCPath
  ConflictName <- MCConflictName
SYMMETRY Sym
INVARIANTS TypeOK OneSessionAtATime NoMutualWait
PROPERTIES CommonBaselineOnly QuietRoundIsAtomic ArchivedBeforeOverwritten ConflictVersionsCached
CHECK_DEADLOCK FALSE
