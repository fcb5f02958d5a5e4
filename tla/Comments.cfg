SPECIFICATION Spec
CONSTANTS
  Comments = {k1, k2}
  Candidates = {c1}
  Members = {m1, m2}
  Requests = {r1, r2, r3}
SYMMETRY Symmetry
INVARIANTS TypeOK RemovedOnce
PROPERTIES ImplementsCommentWall
