CONSTANTS
  Variants = {apples, pears}
  CartIds = {guest, ann}
  Guests = {guest}
  ItemIds = {i1, i2, i3}
  MaxQuantity = 2
  MaxOnHand = 2
  SerialBuyers = TRUE
  None = None
  InitialStock <- MCInitialStock
SPECIFICATION FairCartSpec
INVARIANTS
  CartTypeOK
  ReservationMatchesItem
  OneLinePerVariant
  CartStockBacked
PROPERTIES
  RenewedLineKept
  UnitsKept
  AbandonedCartReleased
