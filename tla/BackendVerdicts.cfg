SPECIFICATION BSpec
CONSTANTS
  Tx = {t1}
  Req = {r1, r2}
  ClientStatus = {"pending", "approved"}
  None = None
  Faults = FALSE
  StreamBound = 0
  NotesBound = 1
  BatchSize = 2
  DeathBound = 1
INVARIANTS
  OnlyDeathLosesEvents
  DeathCostsOneBatch
  FeedIsGrounded
  QueueTellsTruth
  VerdictsCarryReviews
PROPERTIES
  TransitionIsNotified
\* The instance runs out of ids and overrides.
CHECK_DEADLOCK FALSE
