SPECIFICATION Spec
CONSTANTS
  Comments = {k1}
  Candidates = {c1}
  Members = {m1}
  Requests = {r1}
PROPERTY NoCommentOnDeleted
