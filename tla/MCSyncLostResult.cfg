SPECIFICATION Spec
CONSTANTS
  A = A
  B = B
  p1 = p1
  NoFile = NoFile
  Hash = {h1, h2}
  Cap = 1
  MaxEdits = 0
  MaxSessions = 1
  Faults = TRUE
  Name <- OneName
  Session <- MCSession
  Path <- MCPath
  ConflictName <- MCConflictName
SYMMETRY Sym
INVARIANTS BaselinesAgree
CHECK_DEADLOCK FALSE
