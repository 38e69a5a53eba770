SPECIFICATION Spec
CONSTANTS
  Peers = {p1, p2}
  NoPeer = NoPeer
  DefaultTTL = 2
  TTLMaxIn = 1
  TTLMaxOut = 1
  Cooldown = 1
  MaxIn = 1
  MaxOut = 1
  MaxFree = 0
  SeparatedFree = FALSE
  OutLimit = 0
  RemoveWorse = FALSE
  WithDisconnector = FALSE
  ConnectorStrategy = "Random"
  MinimalBandwidth = 0
  OutSizes <- OneSize
  PingLists = {"In", "Out"}
  NewMaxes = {}
  MaxShare = 0
  MaxSent = 0
  TTLFloor <- Floor
INVARIANT ConnectedHasLease
