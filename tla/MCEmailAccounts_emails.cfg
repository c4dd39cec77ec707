SPECIFICATION Spec
CONSTANTS
  u1 = u1 u2 = u2 u3 = u3 e1 = e1 e2 = e2 t1 = t1 t2 = t2 t3 = t3 s1 = s1 s2 = s2 r1 = r1 r2 = r2
  None = None
  Users = {u1, u2, u3}
  Linked = {u1, u2}
  Emails = {e1, e2}
  Tokens = {t1, t2}
  Sessions = {s1, s2}
  Requests = {r1, r2}
SYMMETRY Symmetry
INVARIANTS TokenUsedOnce OnePasswordLink VerifiedIsProven PasswordLinksGoToProven StaleSessionsEnd
