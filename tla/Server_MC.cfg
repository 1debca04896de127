CONSTANTS
  c1 = c1
  c2 = c2
  e1 = e1
  e2 = e2
  Connections <- MCConnections
  Endpoints <- MCEndpoints
  Requests <- MCRequests
  MaxRequests = 2
  Threads = 1
  MaxAccepts = 3
  Arguments <- MCArguments
  WorksetPaths <- MCWorksetPaths
  Documents <- MCDocuments
SPECIFICATION Spec
CHECK_DEADLOCK FALSE
INVARIANTS TypeOK SessionOutlivesHandlers AnsweredInOrder ConfiguredAsAsked
PROPERTY ServerStops
