SPECIFICATION Spec
CONSTANTS
  Loads <- MCLoads
  LongNames = {3}
  Radius = 1
  SECOND = 3
  NULL = NULL
CHECK_DEADLOCK FALSE
INVARIANTS
  WalksAreComplete
  TakeoffsAreExplained
