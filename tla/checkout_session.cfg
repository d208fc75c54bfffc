SPECIFICATION Spec
CONSTANTS
  Adds = {a1}
  Confirms = {c1, c2}
  Users = {u1, u2}
  Stores = {s1, s2}
  RowIds = {1, 2}
  a1 = a1  a2 = a2  a3 = a3
  Qty <- AllOne
  Price <- AllOne
  MaxInt = 7
  MaxCrashes = 0
  None = None
SYMMETRY SessionSymmetry
INVARIANT OrdersStayInTheSession
CHECK_DEADLOCK FALSE
