CONSTANTS
  Cols = 1
  Rows = 1
  Workers = 2
  IoThreads = 2
  MaxRounds = 2
  MaxDevices = 0
SPECIFICATION PluginSpec
CHECK_DEADLOCK FALSE
INVARIANT InitializeSucceeds
