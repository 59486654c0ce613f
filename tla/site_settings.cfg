SPECIFICATION Spec
CONSTANTS
  Process = {1}
  Request = {1, 2}
  SITE_META_TTL = 1
  NONE = NONE
  Loads <- MCLoads
INVARIANTS
  CachesFollowClears
PROPERTIES
  EditsArrive
