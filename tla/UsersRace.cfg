SPECIFICATION Spec
CONSTANTS
  Id = {u1, u2}
  Email = {e1}
  Password = {p1, p2}
  Role = {admin}
  Unset = Unset
  Req = {r1, r2}
  Faults = FALSE
  EmailEdits = FALSE
SYMMETRY Symmetry
INVARIANTS
  EmailUnique
