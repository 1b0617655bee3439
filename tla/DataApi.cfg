SPECIFICATION FairSpec
CONSTANTS
  Streams = {s1}
  Conns = {c1, c2}
  QueueSize = 1
  MaxEntries = 2
  MaxBacklog = 1
INVARIANTS
  FetchedWithoutGap
  InOrderUnlessFull
  NoPacketLost
PROPERTIES
  ClosedIsRemoved
  NewIsFetched
CHECK_DEADLOCK FALSE
