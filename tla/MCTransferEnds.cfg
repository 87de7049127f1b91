SPECIFICATION FairSpec
CONSTANTS
  Task = {t1, t2}
  Worker = {w1}
  NFiles = 2
  MaxActive = 1
  Sizes = {4}
  MaxFaults = 0
  MaxStarts = 0
  NoTask = NoTask
  NoCancel = NoCancel
PROPERTIES CancelEnds IdleTaskEnds
CHECK_DEADLOCK FALSE
