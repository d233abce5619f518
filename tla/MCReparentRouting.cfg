SPECIFICATION FairSpec
CONSTANTS
  sa = sa
  sb = sb
  sc = sc
  m1 = m1
  None = None
  Human = Human
  Sessions <- Three
  Parent0 <- Family
  Monitored <- OnlyC
  Messages <- OneMessage
  To <- ToChild
  Moves <- Handover
  Mortal = {sb}
  Completers <- OnlyC
  Talkers <- OnlyC
  Expiring = FALSE
  MaxRequests = 1
  MaxCrashes = 1
  MaxFaults = 1
INVARIANTS
  TypeOK
  RoutesFollowAuthority
  WakeNotLost
PROPERTIES
  ReleaseSettlesIntents
  TransactionEnds
CHECK_DEADLOCK FALSE
