SPECIFICATION FairSpec
CONSTANTS
  p1 = p1
  p2 = p2
  r1 = r1
  r2 = r2
  r3 = r3
  Requests = {r1, r2, r3}
  Processes = {p1, p2}
  Home <- TwoAndOne
  MaxRoute = 1
  NoOne = NoOne
  None = None
INVARIANTS
  FollowersAreAwaited
  StaleOnlyByOverlap
PROPERTIES
  EveryRequestEnds
