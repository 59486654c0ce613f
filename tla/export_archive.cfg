SPECIFICATION EitherSpec
CONSTANTS
  BLOCK_W = 2
  Exports <- SomeExports
  BLOCK_SIZE = 20
  Radix = 4
  FrameLengths = {2, 5, 9}
  MaxExports = 2
CHECK_DEADLOCK FALSE
INVARIANTS
  SealedArchiveReads
  CacheIsTheFrontier
  OpenedArchiveReads
  ExtrasAreTheNeighbours
PROPERTIES
  ExportEnds
