SPECIFICATION EitherSpec
CONSTANTS
  None = None
  a1 = a1  a2 = a2  a3 = a3
  b = b
  x = x  y = y  g = g  h = h  p = p  q = q
  Account = {a1, a2, a3}
  Address = {x, y}
  Identity = {g, h}
  Password = {p, q}
  Request = {r1, r2, r3}
  Loads <- SomeLoads
  NULL = NULL
  Denied = Denied
  Browser = {b}
  Calls = {1, 2}
  Operator = {1, 2}
  FlowLoads <- SomeFlowLoads
SYMMETRY Symmetry
CHECK_DEADLOCK FALSE
PROPERTIES
  UnprovenOnlyByOverlap
  AddressesAreKept
  WaysInAreKept
  RehashKeepsPassword
  ResetsSpendLiveLinks
  SupersedesKnowingly
  LinksFollowConsent
  GatesHold
  RegistrationsFindNames
