SPECIFICATION Spec
CONSTANTS
  u1 = u1 u2 = u2 x1 = x1 x2 = x2 p1 = p1 p2 = p2 f1 = f1 t1 = t1 s1 = s1 s2 = s2 r1 = r1 r2 = r2
  None = None
  Users = {u1, u2}
  Externals = {x1, x2}
  Providers = {p1, p2}
  ProviderOf <- ProviderOfBoth
  Phones = {f1}
  Tickets = {t1}
  Strings = {s1, s2}
  TicketOf <- OneTicket
  Requests = {r1, r2}
  MaxCap = 1
SYMMETRY Symmetry
INVARIANTS StringOpensOnce RegisteredOwns LoginIsKept
