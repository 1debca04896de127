CONSTANTS
  Cols = 3
  Rows = 2
  Workers = 2
  IoThreads = 2
  MaxRounds = 2
  MaxDevices = 2
SPECIFICATION PluginSpec
CHECK_DEADLOCK FALSE
INVARIANTS TypeOK ExecutorUnique ImplOutlivesUsers CacheMatchesTable DeviceCurrent
PROPERTY ReleaseReturns
