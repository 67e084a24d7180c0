SPECIFICATION Spec
CONSTANTS
  Clients = {c1, c2}
  Fds = {f1, f2}
  Stallers = {}
  Nobody = Nobody
  MaxPending = 1
INVARIANTS DescriptorsAreTheirOwn NodesOutliveTheirUsers ShutdownClosesAll
PROPERTIES RemovesOnlyItself LeaversAreRemoved ShutdownCompletes
\* The server stops when it is told to, or when a signal kills it.
CHECK_DEADLOCK FALSE
