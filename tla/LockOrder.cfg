SPECIFICATION LiveSpec
CONSTANTS
  Threads = {"UDPReceive", "Ping", "CyclicTimers", "MontarListaPedidos", "ConsomeMedia"}
  Role <- MCRole
  MaxBusy = 2
INVARIANT TypeOK
INVARIANT NoCircularWait
INVARIANT NothingHeldOutside
PROPERTY NobodyIsHeldUp
