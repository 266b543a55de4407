SPECIFICATION Spec
CONSTANTS
  Id = {u1, u2}
  Email = {e1, e2}
  Password = {p1, p2}
  Role = {admin}
  Unset = Unset
  Req = {r1, r2}
  Faults = TRUE
  EmailEdits = TRUE
SYMMETRY Symmetry
INVARIANTS
  TypeOK
  TokenIsOwners
PROPERTIES
  UserStays
