SPECIFICATION FairSpec
CONSTANTS
  Workers = {w1, w2}
  Entry <- Mixed
  Absent = Absent
  BatchSize = 2
  Errors = TRUE
  Crashes = TRUE
  LogBound = 3
  NotesBound = 1
INVARIANTS
  TypeOK
  ProcessedOnce
  HeldByOne
  MissingIsStranded
  InOrder
PROPERTIES
  ImplementsRelay
  EntrySettles
\* The instance stops at the end of its log.
CHECK_DEADLOCK FALSE
