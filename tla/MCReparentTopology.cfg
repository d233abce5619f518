SPECIFICATION Spec
CONSTANTS
  sa = sa
  sb = sb
  sc = sc
  m1 = m1
  None = None
  Human = Human
  Sessions <- Three
  Parent0 <- Chain
  Monitored = {}
  Messages = {}
  To <- NoMessages
  Moves <- Crossing
  Mortal <- OnlyC
  Completers = {}
  Talkers = {}
  Expiring = TRUE
  MaxRequests = 3
  MaxCrashes = 0
  MaxFaults = 0
INVARIANTS
  NoCycle
PROPERTIES
  MovesHaveConsent
CHECK_DEADLOCK FALSE
