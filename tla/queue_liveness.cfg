SPECIFICATION FairSpec
CONSTANTS
  f1 = f1
  f2 = f2
  Flights = {f1, f2}
  WorkerCount = 1
  FaultLoads <- OnlyRestarts
CHECK_DEADLOCK FALSE
PROPERTIES
  EveryJobSettles
