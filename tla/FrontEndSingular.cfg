SPECIFICATION FairSpec
CONSTANTS
  EndIndex = 2
  MaxKeypoints = 3
  MinLive = 2
  PYRAMID_LEVELS = 2
  Position = {p1}
  Outside = Outside
INVARIANTS NonInvertibleIsNotTracked
CHECK_DEADLOCK FALSE
