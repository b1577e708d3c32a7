SPECIFICATION FairSpec
CONSTANTS
  Workers = {w1, w2}
  Tasks = {t1, t2, t3}
  NONE = none
  StopGarbage = {0}
  CreateMayFail = TRUE
  MaxSpurious = 1
INVARIANTS TypeOK NoLostStop NoLostTask
PROPERTIES DeleteReturns PushedIsExecuted ImplementsTaskPool
CHECK_DEADLOCK FALSE
