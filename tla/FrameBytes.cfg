CONSTANTS
  MaxFramePayload = 1
  Alphabet = {0, 1, 2, 128}
  MaxChunk = 3
  MaxInput = 8

SPECIFICATION Spec
CHECK_DEADLOCK FALSE

INVARIANTS
  BufferIsTail
  SplitIsReference
