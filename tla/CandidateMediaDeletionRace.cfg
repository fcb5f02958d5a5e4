SPECIFICATION FairSpec
CONSTANTS
  Candidates = {c1}
  Keys = {k1, k2}
  Requests = {r1, r2}
  Operations = {"create", "replace"}
  Faults = {}
PROPERTY EditsSpareDeleted
