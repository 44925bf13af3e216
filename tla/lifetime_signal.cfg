SPECIFICATION Spec
CONSTANTS
  PipeSize = 1
  ReaderMayFail = FALSE
  Builds = {"mock"}
  MaxChunks = 1
  MayTimeout = FALSE
  LibraryMayFail = FALSE
INVARIANT
  SignalOnlyInterrupts
CHECK_DEADLOCK FALSE
