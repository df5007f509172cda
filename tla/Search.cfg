SPECIFICATION Spec
CONSTANTS
  u1 = u1
  u2 = u2
  Consents = {1, 2, 3}
  Clients = {k1}
  NewRows <- Rows
  Searches <- Walks
  NoTime = 9
  NoUser = NoUser
  DefaultLimit = 1
  MaxLimit = 2
  MaxTime = 1
  MaxWrites = 4
INVARIANTS SearchTypeOK NothingIsMissed QuietWalkIsExact AnswersFit
