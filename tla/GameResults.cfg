SPECIFICATION FairSpec
CONSTANTS
  w1 = w1
  w2 = w2
  c1 = c1
  c2 = c2
  WorldCups = {w1, w2}
  Candidates = {c1, c2}
  CupOf <- MCCupOf
  Results <- MCResults
  PlayIds = {p1}
  Requests = {r1, r2}
  NoResult = NoResult
INVARIANTS TypeOK SaveInvariant AnswersAgree
PROPERTIES SavesFinish ImplementsResultStore
