SPECIFICATION Spec
CONSTANTS
  PipeSize = 1
  ReaderMayFail = FALSE
  Builds = {"real"}
  MaxChunks = 2
  MayTimeout = TRUE
  LibraryMayFail = FALSE
PROPERTY
  DestructorReturns
CHECK_DEADLOCK FALSE
