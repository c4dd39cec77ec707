SPECIFICATION Spec
CONSTANTS
  u1 = u1 u2 = u2 p1 = p1 q1 = q1 t1 = t1 c1 = c1 c2 = c2 s1 = s1 s2 = s2 s3 = s3 r1 = r1 r2 = r2 r3 = r3 p2 = p2
  None = None
  Users = {u1}
  Packages = {p1}
  Plans = {q1}
  Templates = {t1}
  Coupons = {c1}
  Subs = {s1, s2}
  Requests = {r1, r2, r3}
  Prices = {0, 1, 2}
  Limits = {0, 1}
  Stock <- MCStock
  StockPlans <- MCStockPlans
  Offers <- MCOffers
  Quotas <- MCQuotas
  TemplateForms <- MCTemplates
  Changes <- MCChanges
  MaxEdits = 1
SYMMETRY Symmetry
CHECK_DEADLOCK FALSE
INVARIANTS CouponPaysOnce LiveHasPackage
