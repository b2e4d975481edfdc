CONSTANTS
  apples = apples
  pears = pears
  orchard = orchard
  farm = farm
  Variants = {apples, pears}
  Suppliers = {orchard, farm}
  CartIds = {ann}
  Guests = {}
  ItemIds = {i1}
  OrderIds = {o1}
  Workers = {w1, w2}
  MaxQuantity = 2
  MaxOnHand = 2
  SerialBuyers = TRUE
  Overlap = "any"
  None = None
  InitialStock <- MCInitialStock
  SupplierOf <- MCSupplierOf
SPECIFICATION Spec
INVARIANT ReservedIsHeld
