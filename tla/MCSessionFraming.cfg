SPECIFICATION Spec
CONSTANTS
  NL = NL
  CR = CR
  NUL = NUL
  QUIT = QUIT
  Bytes = {NL, CR, NUL, QUIT}
  BufSize = 3
  CarrySize = 3
  CombinedSize = 6
  MaxBytes = 7
INVARIANTS TypeOK NoOverrun LinesFollowMessages NothingWaits
CHECK_DEADLOCK FALSE
