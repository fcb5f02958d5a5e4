SPECIFICATION Spec
CONSTANTS
  Candidates = {c1, c2, c3, c4}
  Requests = {r1, r2}
  MaxEdits = 1
  SUPPORTED_ROUNDS = {2, 4}
  MaxSlices = 4
SYMMETRY Symmetry
INVARIANTS TypeOK OfferedAreAttributed RefusedOnlyIfWithdrawn WinnersGoOn
PROPERTIES ImplementsTournament
