SPECIFICATION Spec
CONSTANTS
  Browser = {b1, b2}
  b1 = b1
  b2 = b2
  Request = {1, 2, 3}
  Loads <- MCLoads
  SECOND = 2
  SLIDE = 1
  LIFETIME = 3
  None = None
  Clear = Clear
SYMMETRY BrowserSymmetry
CHECK_DEADLOCK FALSE
INVARIANTS
  OthersAreSignedOut
PROPERTIES
  OnlyOthersAreSignedOut
  PermissionsAreRecent
