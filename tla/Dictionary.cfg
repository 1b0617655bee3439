SPECIFICATION FairSpec
CONSTANTS
  t1 = t1
  t2 = t2
  Threads <- Two
  Names = {a, b}
  MaxItems = 2
  MaxCalls <- Calls
INVARIANTS
  NoUseAfterFree
  RefcountIsHolders
  IndexedIsUsable
  CountersExact
  GarbageIsCounted
  WalkMissesNothing
PROPERTIES
  CallsReturn
CHECK_DEADLOCK FALSE
