SPECIFICATION SyncFairSpec
CONSTANTS
  MaxChanges = 2
  MaxLosses = 2
PROPERTIES StopEndsRun ReportsCatchUp
\* The client may be stopped for good.
CHECK_DEADLOCK FALSE
