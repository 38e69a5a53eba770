SPECIFICATION LiveSpec
CONSTANTS
  Channels = {c1}
  Servers = {s1, s2}
  Viewers = {v1, v2}
  None = None
  TTLChannel = 2
  HitCount = 2
  DelayStarts = 0
  ShareSize = 3
  DynamicTopology = TRUE
  IndicateClass = FALSE
  PingTypes = {"boot", "perf"}
INVARIANT TypeOK
INVARIANT ServerListed
PROPERTY RenewalsAreSpaced
PROPERTY SilentPeerForgotten
PROPERTY ImplementsMembership
