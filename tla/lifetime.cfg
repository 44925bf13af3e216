SPECIFICATION Spec
CONSTANTS
  PipeSize = 1
  ReaderMayFail = TRUE
  Builds = {"real", "mock"}
  MaxChunks = 3
  MayTimeout = TRUE
  LibraryMayFail = TRUE
INVARIANTS
  TypeOK
  ReaderOutlivesWriter
  ProcessSurvives
  NoOtherDeadlock
PROPERTIES
  ImplementsCapture
  ConstructorReturns
  OnlyAFullPipeBlocks
  GilComesBack
CHECK_DEADLOCK FALSE
