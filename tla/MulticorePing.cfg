SPECIFICATION FairSpec
CONSTANTS
  Chunk = 65536
  RpmsgBase = 539755520
  Timeout = 2
  RL_BUFFER_COUNT = 2
PROPERTY BootCompletes
CHECK_DEADLOCK FALSE
