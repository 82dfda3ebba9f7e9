SPECIFICATION Spec
CONSTANTS
  Event = {e1, e2}
  Plain = {t1, t2}
  Collides = {t3}
  TopK = 2
  MaxWrites = 5
  MaxTears = 1
SYMMETRY Symmetry
INVARIANTS
  LoadsAllOrRaises
  IntactTurnsRecalled
  RecallSeesEveryTurn
\* The bound on the writes ends the behaviour.
CHECK_DEADLOCK FALSE
