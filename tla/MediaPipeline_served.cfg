SPECIFICATION Spec
CONSTANTS
  BufferSize = 2
  CycleModulus = 4
  Partners = {p1}
  NoChunk = NoChunk
  NoMessage = NoMessage
  Offset = 1
  MaxAttempts = 2
  PlayerEnabled = TRUE
  FirstIDs = {0}
  StreamLength = 4
INVARIANT ServesRequestedChunk
