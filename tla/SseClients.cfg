SPECIFICATION FairSpec
CONSTANTS
  Client = {c1}
  Dollar = Dollar
  Capacity = 2
  BatchSize = 3
  Errors = TRUE
  TailBound = 6
INVARIANTS
  TypeOK
  OnlyOverflowSkips
PROPERTIES
  ImplementsFeed
  EverythingStops
  ReaderKeepsUp
\* Every client connects once.
CHECK_DEADLOCK FALSE
