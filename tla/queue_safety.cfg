SPECIFICATION Spec
CONSTANTS
  f1 = f1
  f2 = f2
  Flights = {f1, f2}
  WorkerCount = 2
  FaultLoads <- SomeFaults
SYMMETRY FlightSymmetry
CHECK_DEADLOCK FALSE
INVARIANTS
  NothingStranded
  WaitersServed
PROPERTIES
  RerunOnlyIfSentTwice
  KeepsPromise
