SPECIFICATION Spec
CONSTANTS
  Ids = {k1, k2}
  Sensors = {s1}
  NoConn = NoConn
  InitialDelay = 2
  MaxDelay = 30
  Multiplier = 2
  MaxFailures = 6
  MaxUnread = 1
INVARIANTS AtMostOneConnected ConnectedMeansAuthenticated BackoffMatchesFailures
PROPERTIES ReadingsInSession LostIsRetried StopEnds
\* The client ends.
CHECK_DEADLOCK FALSE
