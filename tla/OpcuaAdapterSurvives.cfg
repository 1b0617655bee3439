SPECIFICATION Spec
CONSTANTS
  Conns = {w1, w2}
  CmdLists <- MCSetOnly
  CmdQueueSize = 1
  RedisQueueSize = 2
  BackendsFail = FALSE
  MaxSent = 2
  MaxPolls = 2
  MaxCrashes = 1
INVARIANT AdapterSurvives
CHECK_DEADLOCK FALSE
