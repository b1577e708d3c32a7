CONSTANTS
  Programs = {"io"}
  Clients = {a, b, c}
  Rude = {a}
  Eager = {b}
  Listener = 3
  ConnFds = {4, 5}
  MoreFds = {4, 5, 6}
  MaxRequests = 2
  EchoRequests = 1
  Few = {a, b}
  NULL = NULL
SPECIFICATION MCFairSpec
INVARIANTS OneThreadEach EchoOwn DeathHasCause
PROPERTY EchoedInTime
CHECK_DEADLOCK FALSE
