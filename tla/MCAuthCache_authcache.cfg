SPECIFICATION Spec
CONSTANTS
  u1 = u1 u2 = u2 k1 = k1 r1 = r1 r2 = r2
  None = None
  Users = {u1, u2}
  SubKeys = {k1}
  Requests = {r1, r2}
  MaxTokens = 1
  QueriesFail = TRUE
SYMMETRY Symmetry
INVARIANTS SubKeysAreLimited CurrentIsExact
