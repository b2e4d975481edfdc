CONSTANTS
  v1 = v1
  s1 = s1
  Variants = {v1}
  Slots = {s1}
  Pages <- MCPages
  MaxQty = 1
  MaxRows = 1
  MaxOrders = 1
  Other = FALSE
  NoData = NoData
SPECIFICATION ShopSpec
INVARIANTS
  BuyerSeesCart
