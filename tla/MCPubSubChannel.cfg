SPECIFICATION Spec
CONSTANTS
  Good = {m1, m2}
  Bad = {poison}
  MaxFailures = 2
  QueueMax = 2
  MaxTroubles = 3
INVARIANTS
  TypeOK
  AckedIsKept
  OneClientOpen
  BackoffCoversFailures
PROPERTIES
  ImplementsChannel
  GoodMessagesArrive
  DisconnectEnds
