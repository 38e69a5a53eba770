SPECIFICATION LiveSpec
CONSTANTS
  BufferSize = 2
  CycleModulus = 3
  Partners = {p1}
  NoChunk = NoChunk
  NoMessage = NoMessage
  Offset = 1
  MaxAttempts = 2
  PlayerEnabled = TRUE
  FirstIDs = {0}
  StreamLength = 3
INVARIANT TypeOK
INVARIANT RequestsAreBehind
INVARIANT RequestedOnce
INVARIANT BoundedTries
INVARIANT LatestIsHeld
PROPERTY PlayerMovesOn
PROPERTY PositionsAdvance
