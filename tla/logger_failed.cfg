SPECIFICATION Spec
CONSTANTS
  Threads = {t1}
  Objects = {o1, o2}
  Reader = reader
  Clients = {reader}
  Original = original
  None = none
  Builds = {"real", "mock"}
  MayFail = TRUE
INVARIANT
  OldLoggerIsOriginal
CHECK_DEADLOCK FALSE
