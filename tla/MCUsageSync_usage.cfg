SPECIFICATION UsageSpec
CONSTANTS
  t1 = t1
  t2 = t2
  c = c
  m = m
  a1 = a1
  None = None
  Other = Other
  Turns = {t1, t2}
  Uses <- MCUses
  Plain = {t2}
  Syncs = {c, m}
  Crons = {c}
  Placements <- MCPlacements
  Counts = {1, 2}
  Admins = {a1}
  Rates = {1}
  MaxEdits = 1
  MaxFaults = 1
INVARIANTS OneSyncAtATime EachFailsAlone AttributionsAgree EstimatesFollowAccount
PROPERTIES EveryRecordFetched
