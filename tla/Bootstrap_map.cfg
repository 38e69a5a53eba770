SPECIFICATION Spec
CONSTANTS
  Channels = {c1}
  Servers = {s1}
  Viewers = {v1, v2}
  None = None
  TTLChannel = 2
  HitCount = 1
  DelayStarts = 1
  ShareSize = 3
  DynamicTopology = TRUE
  IndicateClass = FALSE
  PingTypes = {"perf"}
INVARIANT NoMapChannel
