SPECIFICATION FairSpec
CONSTANTS
  MaxImages = 2
  Plays = {p1, p2}
  Comments = {m1}
  Requests = {r1, r2}
  Attempts = 3
INVARIANTS TypeOK ImagesStored NoRowOutlives ObjectsAccounted OnlyRemovalsDeadlock
PROPERTIES RequestsFinish WorkEnds ImplementsWorldCupStore
