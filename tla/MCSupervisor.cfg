\* Restarts of any group under two configurations, with failures main survives.
CONSTANTS
  Configs <- RichAndPoor
  MayFail <- TolerableFailures
  Stream1NeedsStream0 = TRUE
  MaxRequests = 2
SPECIFICATION FairSpec
CHECK_DEADLOCK FALSE
INVARIANTS
  OneThreadPerWorker
  WaitingMainIsWoken
PROPERTIES
  RestartCompletes
