SPECIFICATION Spec
CONSTANTS
  alice = alice
  bob = bob
  NoOne = NoOne
  Users = {alice, bob}
  Referrer <- MCReferrer
  Plans = {p1, p2}
  Turns = {t1}
  Media = {t1}
  Amounts = {1}
  Prices = {0, 1}
  Costs = {2}
  Settings <- MCSettings
  Bps = 1
  BpsBase = 2
  MaxQuota <- MCMaxQuota
  MaxTopped <- MCMaxTopped
  MaxForms = 1
SYMMETRY MCSymmetry
INVARIANTS PaidIsBacked DebtHasNoPlan RewardsBacked ChargedOnce
