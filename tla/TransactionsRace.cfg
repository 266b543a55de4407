SPECIFICATION Spec
CONSTANTS
  Tx = {t1}
  Req = {r1, r2, r3}
  ClientStatus = {"pending", "approved"}
  None = None
  Faults = TRUE
  StreamBound = 1
  NotesBound = 1
SYMMETRY Symmetry
INVARIANTS
  TypeOK
  RequestsFollowKey
  KeyIsAccounted
  MongoNeverAhead
  EventsFollowKey
  AckedDecisionHolds
  AckedCreateIsPublished
PROPERTIES
  ImplementsStatusMachine
\* The instance runs out of ids and overrides.
CHECK_DEADLOCK FALSE
