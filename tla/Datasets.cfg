SPECIFICATION DatasetsSpec
CONSTANTS
  Directory <- MCDirectory
  Root = "/"
  Path <- MCAbsolutePath
  TooLong = "too long"
  EmptyPath = ""
  Follow <- MCFollowAbsolute
  NoDirectory = "none"
  Content = {"old", "new"}
  Partial = "partial"
  Missing = "missing"
  MaxIndex = 3
  Pairs = 4
  Lines = 3
  LoaderSlot = {s1, s2, s3}
  Slot = {s1, s2, s3, s4}
  NULL = NULL
  Free = Free
  FileContent = FileContent
  Damaged = Damaged
INVARIANTS PointersInRange VolumeInOrder MemoryIsAccountedFor
           RowsMatchImages LineMatchesImage
PROPERTIES ImplementsSource TestsEnd
CHECK_DEADLOCK FALSE
