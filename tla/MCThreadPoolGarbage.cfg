SPECIFICATION FairSpec
CONSTANTS
  Workers = {w1}
  Tasks = {t1}
  NONE = none
  StopGarbage = {0, 1}
  CreateMayFail = FALSE
  MaxSpurious = 0
PROPERTY PushedIsExecuted
CHECK_DEADLOCK FALSE
