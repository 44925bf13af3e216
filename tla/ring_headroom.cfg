SPECIFICATION Spec
CONSTANTS
  Unwritten = Unwritten
  Byte = {a, b}
  N = 4
  MaxFill = 3
  MaxLen = 6
  Strings <- MCStrings
INVARIANTS
  TypeOK
  ThrowsExactlyWithoutRoom
  PeekIsWritten
  PeekReturnsAll
PROPERTY
  ImplementsFifo
