CONSTANTS
  Clients = {c1, c2}
  Streams = {l, s1, s2}
  Listener = l
  NULL = null
  Fds = {4}
  ListenFd = 3
  BufLen = 1
  MaxSeg = 1
  MaxUnits = 0
  MaxConns = 1
  MaxFaults = 1
  Polite = FALSE
  EpollReady = FALSE
CHECK_DEADLOCK FALSE
SPECIFICATION Spec
SYMMETRY Symmetry
INVARIANTS OneStreamPerPeer AcceptNotMissed LookupFindsOpen FdNamesOne FoundStreamLive
PROPERTY ImplementsLifecycle
