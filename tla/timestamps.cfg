SPECIFICATION Spec
CONSTANTS
  Impls = {"real", "mock"}
  Unit = 2
  MaxTime = 7
  MaxLapse = 2
  Settings <- MCSettings
INVARIANTS
  TypeOK
  HardlyEarly
  LateByTheSleep
  NotFromTheFuture
PROPERTY
  SteadyTimesAscend
