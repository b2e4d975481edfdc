CONSTANTS
  v1 = v1
  s1 = s1
  s2 = s2
  Variants = {v1}
  Slots = {s1, s2}
  Pages <- MCPages
  MaxQty = 2
  MaxRows = 1
  MaxOrders = 2
  Other = TRUE
  NoData = NoData
SPECIFICATION ShopFairSpec
INVARIANTS
  ShopTypeOK
  FreshIsTrue
  OrdersAccounted
PROPERTIES
  CallsEnd
