SPECIFICATION FairSpec
CONSTANTS
  Candidates = {c1}
  Keys = {k1, k2, k3}
  Requests = {r1, r2}
  Operations = {"create", "replace", "rename", "video"}
  Faults = {"put", "delete", "transaction", "unclearCommit", "stop"}
INVARIANTS TypeOK DeletionsAreSafe LiveKeysStored
PROPERTIES VideosSpareDeleted RequestsFinish ImplementsImageStore
