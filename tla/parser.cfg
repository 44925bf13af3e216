SPECIFICATION Spec
CONSTANTS
  Unwritten = Unwritten
  NL = nl
  Header = h
  Byte = {nl, h, x}
  N = 3
  MaxChunk = 4
  CallbackMayThrow = TRUE
  Chunks <- MCChunks
INVARIANTS
  TypeOK
  NeverOutOfRange
PROPERTIES
  LinesUnlessMisfilled
  PushAdvances
  PushReturns
CHECK_DEADLOCK FALSE
