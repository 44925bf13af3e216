SPECIFICATION Spec
CONSTANTS
  None = None
  Closed = Closed
  t1 = t1
  t2 = t2
  Threads = {t1, t2}
  Frames = {f1, f2, f3, f4, f5}
  Modes <- TwoInside
SYMMETRY FrameSymmetry
INVARIANT
  TimestampMatchesFrame
