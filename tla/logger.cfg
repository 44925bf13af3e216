SPECIFICATION MSpec
CONSTANTS
  Threads = {t1, t2}
  Objects = {o1, o2, o3}
  Reader = reader
  Clients = {reader, c1}
  Original = original
  None = none
  Builds = {"real", "mock"}
  MayFail = TRUE
INVARIANTS
  TypeOK
  OneAtATime
  OriginalRestored
  ReaderLogsToLiveLogger
  SomebodyGoesOn
  NothingReplaced
  ManagedIsLive
PROPERTIES
  ImplementsRedirection
  CallsReturn
CHECK_DEADLOCK FALSE
