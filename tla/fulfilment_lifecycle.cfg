SPECIFICATION FairSpec
CONSTANTS
  Requests = {r1, r2}
  RowIds = {k1, k2, k3}
  OrderIds = {o1, o2, o3}
  Items = {i1, i2}
  Stores = {s1, s2}
  Warehouses = {w1, w2}
  Quantities = {1, 2}
  o1 = o1  o2 = o2  o3 = o3
  i1 = i1  i2 = i2  i3 = i3  w1 = w1  w2 = w2  s1 = s1  s2 = s2
  k1 = k1  k2 = k2  k3 = k3  k4 = k4
  WarehouseOf <- OneWarehouse
  InitStock <- OneWarehouseStock
  InitOrders <- OneWarehouseOrders
  InitItems <- OneWarehouseItems
PROPERTIES FollowsLifecycle RequestsEnd ZeroStockEventuallyReported
CHECK_DEADLOCK FALSE
