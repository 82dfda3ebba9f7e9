SPECIFICATION TUISpec
CONSTANTS
  Run = {r1, r2, r3}
  None = None
  Window = 2
  MaxEvents = 4
INVARIANTS
  InspectorShowsOneRun
PROPERTIES
  CursorFollowsRun
  CatchesUp
CHECK_DEADLOCK FALSE
