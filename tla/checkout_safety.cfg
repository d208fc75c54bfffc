SPECIFICATION Spec
CONSTANTS
  Adds = {a1, a2}
  Confirms = {c1, c2}
  Users = {u1}
  Stores = {s1}
  RowIds = {1, 2, 3, 4}
  a1 = a1  a2 = a2  a3 = a3
  Qty <- Quantity
  Price <- UnitPrice
  MaxInt = 3
  MaxCrashes = 1
  None = None
SYMMETRY Symmetry
INVARIANTS TypeOK OwnLines TotalCountsFirstLines OrdersShareTheCart
PROPERTY FollowsBook
CHECK_DEADLOCK FALSE
