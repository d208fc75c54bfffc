SPECIFICATION Spec
CONSTANTS
  Clicks = {c1, c2, c3}
  OrderIds = {o1, o2}
  Items = {i1, i2}
  Quantities = {1}
  RowIds = {1, 2, 3}
  None = None
SYMMETRY Symmetry
INVARIANTS TypeOK NoRequestVanishes AlonePurchaseMatches NewestIsFilled
PROPERTIES OldLinesAreFinal FollowsProcurement
CHECK_DEADLOCK FALSE
