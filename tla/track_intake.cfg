SPECIFICATION Spec
CONSTANTS
  NULL = NULL
  Scale = 2
  HalfPeriod = 1
  InitialH = 15
  InitialV = 10
  ContinueH = 5
  ContinueV = 1
  GroundH = 8
  GroundV = 4
  FlightTime = 2
  GroundTime = 1
  MinValues = 4
  MinRange = 20
  MinDistinct = 3
  FlyingSpeed = 15
  MinLanding = 3
  Hmm <- TheHmm
  MaxSpeed = 100
  MaxGap = 4
  MaxBackward = 2
  MaxSegments = 3
  DAY = 16
  ROLLOVER = 4
  MaxTime = 1000
  MaxDelta = 16
  MaxInterval = 3
  VERSION = 9
  Loads <- AllLoads
CHECK_DEADLOCK FALSE
INVARIANTS
  ServesCurrentFlights
  StoredFormIsLossless
  ExportsReadBack
  StoredIsFlown
  SmoothingIsLikeliest
