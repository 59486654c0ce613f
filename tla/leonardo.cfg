SPECIFICATION FairSpec
CONSTANTS
  NULL = NULL
  MaxId = 9
  Lower <- TheLower
  Latin <- TheLatin
  ClassesOf <- TheClasses
  Operators = {"op", "other"}
  Worlds <- AllWorlds
CHECK_DEADLOCK FALSE
INVARIANT
  WingsAreTheirs
PROPERTY
  RowsAreAccountedFor
