CONSTANTS
  r1 = r1
  Requests = {r1}
  Accounts <- MCAccounts
  Kinds = {"register"}
  Links <- ToAccount
  MaxExpiries = 0
  MaxSyncs = 2
  Calm = TRUE
  BootAlone = TRUE
  InOrder = FALSE
  None = None
SPECIFICATION Spec
INVARIANTS
  StoreMatchesJar
