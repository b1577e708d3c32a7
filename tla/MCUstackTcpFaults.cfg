CONSTANTS
  Clients = {c1}
  Streams = {l, s1}
  Listener = l
  NULL = null
  Fds = {4}
  ListenFd = 3
  BufLen = 1
  MaxSeg = 2
  MaxUnits = 3
  MaxConns = 1
  MaxFaults = 1
  Polite = TRUE
  EpollReady = FALSE
CHECK_DEADLOCK FALSE
SPECIFICATION Spec
INVARIANTS TypeOK RecvNotMissed
