SPECIFICATION Spec
CONSTANTS
  Directory <- MCDirectory
  Root = "/"
  Path <- MCAbsolutePath
  TooLong = "too long"
  EmptyPath = ""
  Follow <- MCFollowAbsolute
  NoDirectory = "none"
  Content = {"old", "new"}
  Partial = "partial"
  Missing = "missing"
INVARIANT WrittenIsOnCard
CHECK_DEADLOCK FALSE
