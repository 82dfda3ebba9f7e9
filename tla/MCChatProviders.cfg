SPECIFICATION ChatSpec
CONSTANTS
  Tool = {search, save}
  MaxParts = 2
  MaxMessages = 5
INVARIANTS
  RequestSaysConversation
  ResultsReachTheirCall
\* The bound on the messages ends the behaviour.
CHECK_DEADLOCK FALSE
