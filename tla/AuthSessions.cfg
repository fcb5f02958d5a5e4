SPECIFICATION FairSpec
CONSTANTS
  Sessions = {s1, s2, s3}
  Families = {f1}
  Requests = {r1, r2}
  NoSession = NoSession
  NoFamily = NoFamily
INVARIANTS TypeOK OneLiveSessionPerFamily RotationsFormAChain IssuedTokensAreStored RequestsAndRowsAgree
PROPERTIES ImplementsSessionFamilies RequestsFinish
