SPECIFICATION Spec
CONSTANTS
  Candidates = {c1, c2, c3}
  Keys = {k1, k2, k3}
  Requests = {r1, r2}
  Operations = {"create", "replace"}
  Faults = {}
SYMMETRY Symmetry
INVARIANTS NothingLeftBehind
