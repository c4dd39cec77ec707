SPECIFICATION RulesSpec
CONSTANTS
  a1 = a1 a2 = a2 y1 = y1 y2 = y2 g1 = g1
  None = None
  Admins = {a1, a2}
  Syncs = {y1}
  Pages = {g1}
  MaxRevisions = 3
  MaxTime = 1
  MaxSaves = 1
  MaxCrashes = 1
CHECK_DEADLOCK FALSE
PROPERTIES CanceledNeverUsed LatestComesIntoForce SyncsRepair
