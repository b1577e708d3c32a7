CONSTANTS
  Fds = {3, 4, 5}
  NULL = NULL
SPECIFICATION Spec
INVARIANTS ServesUnlessMixed UdpSurvives
CHECK_DEADLOCK FALSE
