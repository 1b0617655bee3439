SPECIFICATION FairSpec
CONSTANTS
  collector = collector
  Collectors <- MCCollectors
  Sender = Sender
  NumCharts = 1
  CollectorOf <- MCCollectorOf
  Initial = 2
  MaxSize = 4
  MaxFailures = 2
  MaxChanges = 1
  None = None
INVARIANTS
  StreamIsWhole
  ExposedIsSent
  ValuesAfterDefinition
PROPERTIES
  Resumes
