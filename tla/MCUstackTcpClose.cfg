CONSTANTS
  Clients = {c1}
  Streams = {l, s1}
  Listener = l
  NULL = null
  Fds = {4, 5}
  ListenFd = 3
  BufLen = 1
  MaxSeg = 1
  MaxUnits = 0
  MaxConns = 1
  MaxFaults = 0
  Polite = TRUE
  EpollReady = TRUE
CHECK_DEADLOCK FALSE
SPECIFICATION FairSpec
PROPERTY CloseCompletes
