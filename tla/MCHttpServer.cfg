SPECIFICATION HttpSpec
CONSTANTS
  HistorySize = 3
  Alerts = {1, 2}
  MaxCycles = 2
  r1 = r1
  Readers = {r1}
  MaxRecords <- MCMaxRecords
  NoAlert = NoAlert
  Free = Free
  MaxPushes = 4
INVARIANTS TypeOK DashboardMissesNothing
PROPERTIES ImplementsLog HistoryRests FileIsWhole RequestsAnswered ServerStops
\* The server stops when it is told to.
CHECK_DEADLOCK FALSE
