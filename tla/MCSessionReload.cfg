CONSTANTS
  r1 = r1
  Requests = {r1}
  Accounts <- MCAccounts
  Kinds = {"enable"}
  Links <- ToAccount
  MaxExpiries = 0
  MaxSyncs = 2
  Calm = TRUE
  BootAlone = FALSE
  InOrder = TRUE
  None = None
SPECIFICATION Spec
INVARIANTS
  StoreMatchesJar
