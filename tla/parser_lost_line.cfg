SPECIFICATION Spec
CONSTANTS
  Unwritten = Unwritten
  NL = nl
  Header = h
  Byte = {nl, h, x}
  N = 3
  MaxChunk = 4
  CallbackMayThrow = FALSE
  Chunks <- MCChunks
PROPERTY
  ImplementsLineStream
CHECK_DEADLOCK FALSE
