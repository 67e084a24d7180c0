SPECIFICATION Spec
CONSTANTS
  Clients = {c1, c2}
  Fds = {f1, f2}
  Stallers = {}
  Nobody = Nobody
  MaxPending = 1
INVARIANTS NoSigpipe
CHECK_DEADLOCK FALSE
