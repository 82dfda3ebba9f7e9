SPECIFICATION Spec
CONSTANTS
  MaxIdentifyFailures = 2
  MaxExponent = 7
  MaxEvents = 2
  MaxFaults = 3
INVARIANTS
  TypeOK
  EventsOnceInOrder
  UnacknowledgedMeansSilent
PROPERTIES
  ImplementsChannel
  AlwaysReattaches
  StopEnds
\* start() returns: the coroutine ends.
CHECK_DEADLOCK FALSE
