SPECIFICATION Spec
CONSTANTS
  Tx = {t1, t2}
INVARIANTS
  TypeOK
  PhotoIsComplete
  SampleMeansRefused
\* Every review ends.
CHECK_DEADLOCK FALSE
