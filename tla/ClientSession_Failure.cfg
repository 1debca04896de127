CONSTANTS
  Sessions = {s1}
  Threads = 2
  MaxRequests = 4
SPECIFICATION Spec
CHECK_DEADLOCK FALSE
INVARIANT FailuresExpected
