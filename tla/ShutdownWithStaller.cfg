SPECIFICATION Spec
CONSTANTS
  Clients = {c1, c2}
  Fds = {f1, f2}
  Stallers = {c1}
  Nobody = Nobody
  MaxPending = 1
PROPERTIES ShutdownCompletes
CHECK_DEADLOCK FALSE
