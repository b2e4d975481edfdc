CONSTANTS
  Variants = {apples, pears}
  CartIds = {guest, ann}
  Guests = {guest}
  ItemIds = {i1, i2, i3}
  MaxQuantity = 2
  MaxOnHand = 2
  SerialBuyers = FALSE
  None = None
  InitialStock <- MCInitialStock
SPECIFICATION CartSpec
INVARIANT CartStockBacked
