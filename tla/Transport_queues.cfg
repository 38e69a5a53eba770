SPECIFICATION LiveSpec
CONSTANTS
  Messages <- FourMessages
  None = None
  Schedulers = {"FIFO", "Random", "CDF", "RR"}
  Roles = {"send", "receive"}
  Producers = 2
  WithBucket = TRUE
  DataFilter = TRUE
  BucketSize = 2
  Refill = 1
  TicksPerSecond = 1
INVARIANT TypeOK
INVARIANT PopFindsMessage
INVARIANT RoundRobin
PROPERTY ImplementsMailbox
PROPERTY MessagesGetOut
