SPECIFICATION Spec
CONSTANTS
  Width = 15
  Height = 10
  MaxScore = 2
  MaxKeypoints = 3
  RowImage <- MCRowImage
CHECK_DEADLOCK FALSE
INVARIANT HighestInLastRowIsKeypoint
