SPECIFICATION Spec
CONSTANTS
  Confirms = {c1, c2}
  Requests = {r1, r2}
  Clicks = {b1}
  Warehouses = {w1}
  Stores = {s1}
  Items = {i1, i2}
  i1 = i1  i2 = i2  w1 = w1  s1 = s1
  WarehouseOf <- OneWarehouse
  InitStock <- OneEach
  Quantities = {1}
  Cart <- BothItems
  MaxOrder = 2
  RowIds = {1, 2, 3, 4}
  Shippable <- SmallNumbers
  None = None
SYMMETRY Symmetry
INVARIANTS ZeroReachesPurchasing PurchasesComeFromShipments
CHECK_DEADLOCK FALSE
