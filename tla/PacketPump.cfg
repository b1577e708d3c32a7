CONSTANTS
  Bufs = {b1, b2, b3}
  Traffic = {"stack", "kernel"}
  BURST = 2
  RING = 2
  FIFO = 2
  MaxPending = 1
  MaxRequests = 1
SPECIFICATION FairSpec
INVARIANT OneOwner
PROPERTY Consumed
CHECK_DEADLOCK FALSE
