SPECIFICATION Safety
CONSTANTS
  t1 = t1
  t2 = t2
  media = media
  websocket = websocket
  poll = poll
  c1 = c1
  c2 = c2
  Requests = {t1, t2, media, websocket, poll}
  Channels = {c1, c2}
  Kind <- MCKind
  Outcomes <- AllOutcomes
  OpenThreshold = 1
  InitialCooldown = 1
  MaxCooldown = 1
  NoChannel = NoChannel
  Prompt = FALSE
  AtOnce = 2
  MarksAtOnce = 1
SYMMETRY Alike
INVARIANTS ProbeIsRunning
