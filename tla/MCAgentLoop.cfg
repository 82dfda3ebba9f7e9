SPECIFICATION Spec
CONSTANTS
  Skill = {search, save}
  MaxIterations = 3
  MaxRetries = 1
INVARIANTS
  TypeOK
  CallsAndAnswersPair
  AnswerTellsWhetherBodyRan
  GrammarAgreesWithAgent
PROPERTIES
  RunEnds
  ImplementsDialogue
\* run() returns or raises: the thread of control ends.
CHECK_DEADLOCK FALSE
