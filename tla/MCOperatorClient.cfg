SPECIFICATION Spec
CONSTANTS
  Socks = {k1, k2}
  NoSock = NoSock
  GUI = GUI
  MaxHistory = 1
  MaxAlerts = 2
  MaxQueue = 3
INVARIANTS ShownIsTrue PanelAgrees
PROPERTIES LossIsNoticed MissingSocketIsNoticed
\* The user may leave the client disconnected for good.
CHECK_DEADLOCK FALSE
