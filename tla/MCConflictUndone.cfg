SPECIFICATION QueueSpec
CONSTANTS
  A = A
  B = B
  p1 = p1
  p2 = p2
  NoFile = NoFile
  Hash = {h1, h2}
  MaxEdits = 3
  MaxSessions = 2
  MaxRequests = 1
  Interrupts = TRUE
  Name <- OneName
  Session <- MCSession
  Path <- MCPath
  ConflictName <- MCConflictName
SYMMETRY Sym
PROPERTY DecisionStands
CHECK_DEADLOCK FALSE
