\* Three calls over a buffer of three bytes: messages shorter than the buffer,
\* exactly one and two buffers long, and with a last piece of one or two bytes.
CONSTANTS
  BufferSize = 3
  Lengths = {1, 3, 5, 6, 7}
  MaxCalls = 3
  MaxSpawns = 1
SPECIFICATION FairSpec
CHECK_DEADLOCK FALSE
INVARIANTS
  TypeOK
  MessagesIntact
  OnlyDeathCostsACall
PROPERTIES
  BufferStable
  EveryCallReturns
