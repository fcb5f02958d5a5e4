SPECIFICATION SpecWithLists
CONSTANTS
  WorldCups = {w1, w2}
  Candidates = {1, 2, 3, 4}
  Requests = {r1, r2}
  MaxBatch = 2
  Scores <- MCScores
  Private = {2}
SYMMETRY Symmetry
ACTION_CONSTRAINT ListsApart
INVARIANTS TypeOK ListTypeOK NextOrderIsFree NumberedWithoutGaps CompetitionRanking
PROPERTY ImplementsCandidateList
