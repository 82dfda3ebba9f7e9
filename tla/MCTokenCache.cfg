SPECIFICATION CacheSpec
CONSTANTS
  Caller = {c1, c2, c3}
  MaxLoads = 3
SYMMETRY Symmetry
INVARIANTS
  CacheTypeOK
  NoBrokenCredentials
