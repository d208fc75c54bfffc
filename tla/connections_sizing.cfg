SPECIFICATION FairSpec
CONSTANTS
  Requests = {r1, r2}
  Limit = 4
  Visits <- AllVisits
INVARIANTS TypeOK StoresLoseNothing TwoEachSuffice
PROPERTY PagesEnd
CHECK_DEADLOCK FALSE
