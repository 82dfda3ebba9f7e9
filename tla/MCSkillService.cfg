SPECIFICATION Spec
CONSTANTS
  Request = {q1, q2, q3}
  Reader = {r1}
  MaxEntries = 2
SYMMETRY Symmetry
INVARIANTS
  TypeOK
  NewestRunsAreRecorded
  ReadsAreTruthful
\* serve() may refuse its configuration.
CHECK_DEADLOCK FALSE
