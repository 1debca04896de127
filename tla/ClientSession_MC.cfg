CONSTANTS
  Sessions = {s1, s2}
  Threads = 2
  MaxRequests = 4
SPECIFICATION FairSpec
CHECK_DEADLOCK FALSE
INVARIANTS TypeOK OneOperation
PROPERTIES CallsInOrder Settled
