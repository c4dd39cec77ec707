SPECIFICATION Spec
CONSTANTS
  t1 = t1
  t2 = t2
  Nobody = Nobody
  Subs = {1, 2}
  Granted = {2}
  Plans = {"day", "model"}
  PlansOf <- MCPlansOf
  Rank <- MCRank
  Limit <- MCLimit
  Strategy <- MCStrategy
  Windowed = {"day"}
  Turns = {t1, t2}
  Estimate <- MCEstimate
  Use <- MCUse
  FallbackToQuota = TRUE
  MaxFaults = 1
  MaxMoves = 1
INVARIANTS WithinLimit PaidOnce FaultNeverCharges
PROPERTIES EveryTurnSettles EntriesEarn
CHECK_DEADLOCK FALSE
