CONSTANTS
  Clients = {c1}
  Streams = {l, s1}
  Listener = l
  NULL = null
  Fds = {4}
  ListenFd = 3
  BufLen = 2
  MaxSeg = 2
  MaxUnits = 2
  MaxConns = 2
  MaxFaults = 0
  Polite = FALSE
  EpollReady = TRUE
CHECK_DEADLOCK FALSE
SPECIFICATION FairSpec
INVARIANTS AckedWasSent DeliveredInOrder
PROPERTIES PayloadTaken CloseAnswered
