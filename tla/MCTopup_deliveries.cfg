SPECIFICATION Spec
CONSTANTS
  o1 = o1
  r1 = r1
  r2 = r2
  w1 = w1
  w2 = w2
  Orders = {o1}
  Money <- MCMoney
  Amount <- MCAmount
  Stamps = {1, 2}
  Refs = {r1, r2}
  Workers = {w1, w2}
  MaxFaults = 1
  MaxCrashes = 1
CHECK_DEADLOCK FALSE
INVARIANTS CreditedOnce YifutAckIsSettled RefundRowsSum
PROPERTIES KeepsLedger PaymentSettles OrderLeavesCreated
