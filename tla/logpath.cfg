SPECIFICATION Spec
CONSTANTS
  Second = 10
  Period = 4
  MaxDelay = 5
  MaxOversleep = 4
  Builds = {"real", "mock"}
INVARIANTS
  TypeOK
  LibraryOpensThePipe
  MissesByOneAtMost
CHECK_DEADLOCK FALSE
