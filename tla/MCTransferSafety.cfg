SPECIFICATION Spec
CONSTANTS
  Task = {t1, t2}
  Worker = {w1, w2}
  NFiles = 1
  MaxActive = 2
  Sizes = {1, 2}
  MaxFaults = 1
  MaxStarts = 1
  NoTask = NoTask
  NoCancel = NoCancel
SYMMETRY Sym
INVARIANTS TypeOK WorkersOwnTheirTasks SpaceSuffices EndedTasksAreClean StoredFilesExist
PROPERTIES CancelledUploadStays NoRevival
CHECK_DEADLOCK FALSE
