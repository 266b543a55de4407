SPECIFICATION Spec
CONSTANTS
  Default = Default
  OtherNames = {other}
  Unset = Unset
  LaunchBound = 3
  LogBound = 2
INVARIANTS
  TypeOK
  PanicNeedsBadURL
PROPERTIES
  RedisIsOptional
  WorkerOutlivesOutages
\* The instance runs out of launches.
CHECK_DEADLOCK FALSE
