SPECIFICATION BridgeSpec
CONSTANTS
  s1 = s1
  s2 = s2
  u1 = u1
  Users = {u1}
  Sessions = {s1, s2}
  Owner <- MCOwner
  AskModels = {m1}
  ServeModels = {m2}
  m1 = m1
  m2 = m2
  MaxConns = 1
  MaxTurns <- MCMaxTurns
  NoModel = NoModel
CHECK_DEADLOCK FALSE
INVARIANTS SlotsAreBridges DeliveredIsBooked FallbackIsAsked
PROPERTIES OverEnds
