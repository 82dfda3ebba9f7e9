SPECIFICATION CacheSpec
CONSTANTS
  Caller = {c1, c2, c3}
  MaxLoads = 2
SYMMETRY Symmetry
INVARIANTS
  SuccessfulRefreshReturnsToken
