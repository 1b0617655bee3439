SPECIFICATION FairSocketSpec
CONSTANTS
  Clients = {"backend", "table"}
  Sockets = {s1, s2, s3, s4}
  MaxLeft = 1
INVARIANTS
  OnlyCurrentIsLive
  OneTimer
  NeverSpoiledTwice
PROPERTIES
  Reconnects
