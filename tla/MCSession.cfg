CONSTANTS
  r1 = r1
  r2 = r2
  Requests = {r1, r2}
  Accounts <- MCAccounts
  Kinds = {"enable", "register"}
  Links <- MCLinks
  MaxExpiries = 1
  MaxSyncs = 2
  Calm = TRUE
  BootAlone = TRUE
  InOrder = TRUE
  None = None
SPECIFICATION FairSpec
INVARIANTS
  SessionTypeOK
  StoreMatchesJar
  GateMatchesStore
  QueueServed
PROPERTIES
  LandsWhereSent
  RequestsSettle
