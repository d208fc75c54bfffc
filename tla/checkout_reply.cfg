SPECIFICATION Spec
CONSTANTS
  Adds = {a1, a2}
  Confirms = {c1}
  Users = {u1}
  Stores = {s1}
  RowIds = {1, 2, 3}
  a1 = a1  a2 = a2  a3 = a3
  Qty <- AllOne
  Price <- AllOne
  MaxInt = 7
  MaxCrashes = 0
  None = None
INVARIANT AddedIsInCart
CHECK_DEADLOCK FALSE
