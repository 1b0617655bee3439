CONSTANTS
  Keys = {v1, v2, fan}
  IndexedKeys = {v1, v2}
  UnknownKeys = {other}
  Values = {0, 1}
  RetryCounter = 5
  MaxSets = 2
  MaxMcsSteps = 2
  MaxCrashes = 1
SPECIFICATION FairSpec
INVARIANTS WriteFollowsReading TogglesAreSeen OthersKept
PROPERTY SetEnds
CHECK_DEADLOCK FALSE
