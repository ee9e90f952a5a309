\* A message that is one byte shorter than the buffer.
CONSTANTS
  BufferSize = 3
  Lengths = {1, 2, 3}
  MaxCalls = 2
  MaxSpawns = 0
SPECIFICATION Spec
CHECK_DEADLOCK FALSE
INVARIANTS
  MessagesIntact
