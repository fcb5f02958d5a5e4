SPECIFICATION Spec
CONSTANTS
  Sessions = {s1, s2}
  Families = {f1}
  Requests = {r1, r2}
  NoSession = NoSession
  NoFamily = NoFamily
SYMMETRY Symmetry
INVARIANTS SignOutEndsFamily
