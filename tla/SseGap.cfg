SPECIFICATION Spec
CONSTANTS
  Client = {c1}
  Dollar = Dollar
  Capacity = 2
  BatchSize = 2
  Errors = FALSE
  TailBound = 3
INVARIANTS
  NewMessagesAreRead
\* Every client connects once.
CHECK_DEADLOCK FALSE
