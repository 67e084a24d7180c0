------------------------------- MODULE Logger -------------------------------
(***************************************************************************)
(* logger.c as its callers see it: an entry goes to stderr and then, when  *)
(* the file is open, to the file, both under g_log_lock; closing takes the *)
(* lock as well.  An entry is whatever tells one log call from another;    *)
(* its wording and its time are left out, and with them the order of the   *)
(* entries.                                                                *)
(***************************************************************************)

CONSTANTS
  Writers,  \* the threads that log
  Nobody    \* g_log_lock is not held

VARIABLES
  logLock,   \* g_log_lock
  logOpen,   \* g_log_file is not NULL
  onStderr,  \* the entries written to stderr
  inFile     \* the entries written to the file

loggerVars == <<logLock, logOpen, onStderr, inFile>>

\* logger_init: the file is open; or it is not, and the program goes on with stderr
\* alone.
LoggerInit(open) ==
  /\ logLock = Nobody
  /\ logOpen = open
  /\ onStderr = {} /\ inFile = {}

\* logger_write, up to the end of its first block.
WriteStderr(t, entry) ==
  /\ logLock = Nobody
  /\ logLock' = t
  /\ onStderr' = onStderr \cup {entry}
  /\ UNCHANGED <<logOpen, inFile>>

\* Variant with a planted fault: without a file the function returns too early.
WriteFileEarlyReturn(t, entry) ==
  /\ logLock = t
  /\ inFile' = IF logOpen THEN inFile \cup {entry} ELSE inFile
  /\ logLock' = IF logOpen THEN Nobody ELSE logLock
  /\ UNCHANGED <<logOpen, onStderr>>

\* logger_write, its second block.
WriteFile(t, entry) ==
  /\ logLock = t
  /\ inFile' = IF logOpen THEN inFile \cup {entry} ELSE inFile
  /\ logLock' = Nobody
  /\ UNCHANGED <<logOpen, onStderr>>

\* Variant with a planted fault: the file is closed without the lock.
CloseUnlocked == logOpen' = FALSE /\ UNCHANGED <<logLock, onStderr, inFile>>

\* logger_close
Close ==
  /\ logLock = Nobody
  /\ logOpen' = FALSE
  /\ UNCHANGED <<logLock, onStderr, inFile>>
=============================================================================
