SPECIFICATION FairSpec
CONSTANTS
  NFiles = 2
  MaxFaults = 2
  MaxRestarts = 2
  NoTask = NoTask
INVARIANTS TypeOK ConfirmedFilesKept
PROPERTIES ImplementsDelivery BothEnd UndisturbedCompletes
CHECK_DEADLOCK FALSE
