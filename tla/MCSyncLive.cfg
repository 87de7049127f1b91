SPECIFICATION LiveSpec
CONSTANTS
  A = A
  B = B
  p1 = p1
  NoFile = NoFile
  Hash = {h1, h2}
  Cap = 1
  MaxEdits = 1
  MaxSessions = 2
  Faults = TRUE
  Name <- OneName
  Session <- MCSession
  Path <- MCPath
  ConflictName <- MCConflictName
PROPERTIES SessionEnds QuietRoundCompletes
CHECK_DEADLOCK FALSE
