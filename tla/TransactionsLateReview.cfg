SPECIFICATION Spec
CONSTANTS
  Tx = {t1}
  Req = {r1, r2}
  ClientStatus = {"pending"}
  None = None
  Faults = FALSE
  StreamBound = 0
  NotesBound = 0

PROPERTIES
  VerdictIsFinal
\* The instance runs out of ids and overrides.
CHECK_DEADLOCK FALSE
