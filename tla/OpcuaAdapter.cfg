SPECIFICATION FairSpec
CONSTANTS
  Conns = {w1, w2}
  CmdLists <- MCCmdLists
  CmdQueueSize = 1
  RedisQueueSize = 1
  BackendsFail = TRUE
  MaxSent = 2
  MaxPolls = 2
  MaxCrashes = 1
INVARIANTS
  ReplyOrder
  ReplyEntries
  AppliedInOrder
  NoSampleLost
  StreamInOrder
PROPERTY AcceptedIsAnswered
CHECK_DEADLOCK FALSE
