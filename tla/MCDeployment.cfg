SPECIFICATION Spec
CONSTANTS
  Skill = {search, health}
  Reserved = {health}
  Tokens <- MCTokens
  MaxRegistrations = 2
  Param <- MCParam
  OddName <- MCOddName
  MaxLayers = 2
  Answer = {left, right}
  MaxParts = 3
INVARIANTS
  TypeOK
  AuthIsAsAsked
  OpennessIsReported
  ListingsMatchRoutes
  CallsReachTheBody
  WorkflowsAsDocumented
\* The command exits.
CHECK_DEADLOCK FALSE
