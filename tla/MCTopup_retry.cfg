SPECIFICATION Safety
CONSTANTS
  o1 = o1
  r1 = r1
  r2 = r2
  w1 = w1
  w2 = w2
  Orders = {o1}
  Money <- MCMoney
  Amount <- MCAmount
  Stamps = {1}
  Refs = {r1, r2}
  Workers = {w1}
  MaxFaults = 1
  MaxCrashes = 0
CHECK_DEADLOCK FALSE
INVARIANTS RetryCredits
