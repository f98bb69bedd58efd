SPECIFICATION MCSpec
CONSTANTS
  Width = 15
  Height = 10
  MaxScore = 2
  MaxKeypoints = 3
  RowImage <- MCRowImage
  MaxPixel = 7
  Thresholds = {2}
  Circles <- MCCircles
  image_width = 3
  image_height = 5
  BlurPixel = {15, 255}
  Sizes <- MCSizes
  DownsamplePixel = {5, 255}
  WIDTH = 18
  HEIGHT = 17
  ROOM = 102
  LEVELS = 4
  Source <- MCSource
  SMALL_PATCH = 3
  Extent = {2, 6}
  Slope <- MCSlope
  Quarters <- MCQuarters
  PATCH_SIZE = 7
  PYRAMID_LEVELS = 5
  Point <- MCPoint
INVARIANTS LoopsInImage FindsTheHighest ScoresCorners BlursInPlace
           IsDownsampled LevelsOfTheSource PatchIsCutAtItsPosition
CHECK_DEADLOCK FALSE
