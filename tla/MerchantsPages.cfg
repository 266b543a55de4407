SPECIFICATION Spec
CONSTANTS
  Id = {m1, m2, m3, m4, m5}
  Name = {1, 2, 3, 4, 5}
  None = None
  Limit = 2
  DistinctNames = TRUE
  RenamesInWalk = FALSE
SYMMETRY Symmetry
INVARIANTS
  TypeOK
  PagesPartition
  CreationsHideNothing
