SPECIFICATION Spec
CONSTANTS
  Pairs = 4
  Slot = {s1, s2, s3, s4}
  NULL = NULL
  Free = Free
  FileContent = FileContent
  Damaged = Damaged
INVARIANT SkippedRowsExist
CHECK_DEADLOCK FALSE
