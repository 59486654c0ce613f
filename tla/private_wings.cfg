SPECIFICATION Spec
CONSTANTS
  a = a
  b = b
  f1 = f1
  f2 = f2
  f3 = f3
  s = s
  r1 = r1
  r2 = r2
  r3 = r3
  None = None
  Stock = Stock
  User = {a, b}
  Managers = {b}
  Flight = {f1, f2, f3}
  Slug = {s}
  Request = {r1, r2, r3}
  Loads <- SomeLoads
SYMMETRY RequestSymmetry
CHECK_DEADLOCK FALSE
PROPERTIES
  OrphansExplained
  WingsStayHome
