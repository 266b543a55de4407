SPECIFICATION FairSpec
CONSTANTS
  Tx = {t1}
  Req = {r1}
  ClientStatus = {"pending"}
  None = None
  Faults = TRUE
  StreamBound = 0
  NotesBound = 0
PROPERTIES
  DecisionReachesMongo
\* The instance runs out of ids and overrides.
CHECK_DEADLOCK FALSE
