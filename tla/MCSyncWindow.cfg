SPECIFICATION Spec
CONSTANTS
  A = A
  B = B
  p1 = p1
  NoFile = NoFile
  Hash = {h1, h2, h3}
  Cap = 1
  MaxEdits = 1
  MaxSessions = 1
  Faults = FALSE
  Name <- OneName
  Session <- MCSession
  Path <- MCPath
  ConflictName <- MCConflictName
SYMMETRY Sym
PROPERTY OldContentInHistory
CHECK_DEADLOCK FALSE
