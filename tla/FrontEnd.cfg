SPECIFICATION FairSpec
CONSTANTS
  EndIndex = 3
  MaxKeypoints = 3
  MinLive = 2
  PYRAMID_LEVELS = 2
  Position = {p1, p2}
  Outside = Outside
INVARIANTS TypeOK StaleCounted PatchesAreCurrent LiveIsFresh
PROPERTIES StaleStaysStale OneLinePerFrame Terminates
CHECK_DEADLOCK FALSE
