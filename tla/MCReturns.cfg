CONSTANTS
  r1 = r1
  r2 = r2
  c1 = c1
  t1 = t1
  ReturnIds = {r1, r2}
  AskSlots = {t1}
  Calls = {c1}
  Units = 2
  Shipping = 1
  Rest = 0
  Typed = {0}
  None = None
SPECIFICATION OneByOneSpec
CHECK_DEADLOCK FALSE
INVARIANT RefundPaid
