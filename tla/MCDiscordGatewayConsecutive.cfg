SPECIFICATION Spec
CONSTANTS
  MaxIdentifyFailures = 2
  MaxExponent = 7
  MaxEvents = 2
  MaxFaults = 3
INVARIANTS
  GivesUpAfterConsecutiveRejections
\* start() returns: the coroutine ends.
CHECK_DEADLOCK FALSE
