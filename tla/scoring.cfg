SPECIFICATION Spec
CONSTANTS
  NULL = NULL
  Unit = 100
  MaxCoord = 14
  AspectTolerance = 100
  RdpMinPoints = 5
  RdpMaxPoints = 8
  RdpMinTolerance = 25
  RdpMaxTolerance = 500
  RefineStartWindow = 320
  RefineMinPoints = 16
  FreeProbeMin = 5
  FreeProbeMax = 6
  FreeProbeMaxTolerance = 500
  MinFreeDistance = 800
  MinCoarse = 800
  MinSideFloor = 300
  ProbeTolerance = 250
  ChordCap = 500
  Tracks <- AllTracks
CHECK_DEADLOCK FALSE
INVARIANTS
  SearchesAreExact
  NoTriangleIsForgotten
