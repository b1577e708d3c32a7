CONSTANTS
  Peers = {p, q}
  Lengths = {0, 5}
  H = 2
  ALIGN = 4
  BUF = 4
  RING = 2
  MaxSent = 2
  Once = {q}
  MaxFails = 1
  FailAt = {"arp", "offload", "reply"}
SPECIFICATION FairSpec
INVARIANTS RecvNotMissed EchoStaysWithPeer EchoInOrder EchoOnce
PROPERTY EchoComplete
CHECK_DEADLOCK FALSE
