CONSTANTS
  Programs = {"select", "poll", "epoll", "reactor"}
  Clients = {a, b, c}
  Rude = {a}
  Eager = {b}
  Listener = 3
  ConnFds = {4, 5}
  MoreFds = {4, 5, 6}
  MaxRequests = 2
  EchoRequests = 1
  Few = {a, b}
  NULL = NULL
SPECIFICATION MCFairSpec
INVARIANTS HandledInTime DeathHasCause AnswersWhole
PROPERTY Served
CHECK_DEADLOCK FALSE
