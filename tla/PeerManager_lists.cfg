SPECIFICATION Spec
CONSTANTS
  Peers = {p1, p2}
  NoPeer = NoPeer
  DefaultTTL = 1
  TTLMaxIn = 1
  TTLMaxOut = 1
  Cooldown = 1
  MaxIn = 1
  MaxOut = 2
  MaxFree = 0
  SeparatedFree = TRUE
  OutLimit = 0
  RemoveWorse = TRUE
  WithDisconnector = FALSE
  ConnectorStrategy = "WithoutPoor"
  MinimalBandwidth = 2
  OutSizes <- PoorAndRich
  PingLists = {"In", "Out"}
  NewMaxes = {1}
  MaxShare = 1
  MaxSent = 0
  TTLFloor <- Floor
INVARIANT TypeOK
INVARIANT ActiveBound
INVARIANT LeaseEnforced
PROPERTY LeaseNeedsPing
