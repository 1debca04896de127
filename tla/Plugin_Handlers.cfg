CONSTANTS
  Cols = 1
  Rows = 1
  Workers = 2
  IoThreads = 2
  MaxRounds = 1
  MaxDevices = 0
SPECIFICATION PluginSpec
CHECK_DEADLOCK FALSE
PROPERTY HandlersFindSessions
