SPECIFICATION FairSpec
CONSTANTS
  None = None
  Closed = Closed
  t1 = t1
  t2 = t2
  Threads = {t1, t2}
  Frames = {f1, f2, f3}
  Modes <- OneAndTwo
INVARIANTS
  TypeOK
  SingleUserIsSafe
  ImageInOnePlace
  NoLostWakeup
PROPERTY
  CallReturns
