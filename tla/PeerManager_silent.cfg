SPECIFICATION LiveSpec
CONSTANTS
  Peers = {p1, p2}
  NoPeer = NoPeer
  DefaultTTL = 1
  TTLMaxIn = 1
  TTLMaxOut = 1
  Cooldown = 1
  MaxIn = 0
  MaxOut = 1
  MaxFree = 0
  SeparatedFree = FALSE
  OutLimit = 0
  RemoveWorse = FALSE
  WithDisconnector = TRUE
  ConnectorStrategy = "Random"
  MinimalBandwidth = 0
  OutSizes <- OneSize
  PingLists = {"Out"}
  NewMaxes = {1}
  MaxShare = 1
  MaxSent = 1
  TTLFloor <- Floor
PROPERTY SilentPartnerLeaves
