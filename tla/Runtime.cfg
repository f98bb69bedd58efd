SPECIFICATION RuntimeSpec
CONSTANTS
  Message = {m1, m2}
  RL_BUFFER_COUNT = 2
  IndexRange = 4
  NoMessage = NoMessage
  Item = {i1, i2}
  Nothing = Nothing
  size = 4
  CM7 = 7
  CM4 = 4
  Characters = 22
  COUNTS = 8
  STEPS = 3
  MaxLength = 5
  Rank <- MCRank
INVARIANTS IndicesInRange OneOwner NoLostKick LinesAreWhole SortsInPlace
PROPERTIES RefusedOnlyWhenFull ImplementsFifo LengthIsSafe FramesAreFifo
           DelaysByInterrupts CallsReturn
