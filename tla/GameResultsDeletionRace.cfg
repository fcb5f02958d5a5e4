SPECIFICATION Spec
CONSTANTS
  w1 = w1
  w2 = w2
  c1 = c1
  c2 = c2
  WorldCups = {w1}
  Candidates = {c1, c2}
  CupOf <- MCCupOf
  Results <- MCFinals
  PlayIds = {p1}
  Requests = {r1, r2}
  NoResult = NoResult
PROPERTY NoDeletedCandidateSaved
