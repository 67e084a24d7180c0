SPECIFICATION Spec
CONSTANTS
  Threads = {t1, t2}
  Stores <- MCStores
  Requests <- MCRequests
  MaxEdits = 1
  Missing = Missing
  Garbage = Garbage
  Wild = Wild
  None = None
INVARIANTS UndisturbedVerdictIsRight
