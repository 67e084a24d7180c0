------------------------------ MODULE AlertLog ------------------------------
(***************************************************************************)
(* What alert_system promises to its callers: it remembers the last        *)
(* HistorySize alerts, and alert_history_copy returns the newest of them,  *)
(* oldest first, as they were at one moment.                               *)
(***************************************************************************)
EXTENDS AlertOps

CONSTANTS
  HistorySize,  \* ALERT_HISTORY_SIZE (64)
  Alerts,       \* the alert records that may be pushed
  Readers,      \* the threads that call alert_history_copy
  MaxRecords    \* MaxRecords[r]: the max_records argument of reader r

VARIABLES
  recent,  \* the alerts remembered, oldest first
  answer   \* answer[r]: what the last call of reader r returned

logVars == <<recent, answer>>

LogInit == recent = <<>> /\ answer = [r \in Readers |-> <<>>]

Record(a) ==
  /\ recent' = Newest(HistorySize, Append(recent, a))
  /\ UNCHANGED answer

Answer(r) ==
  /\ answer' = [answer EXCEPT ![r] = Newest(MaxRecords[r], recent)]
  /\ UNCHANGED recent

LogNext == (\E a \in Alerts : Record(a)) \/ (\E r \in Readers : Answer(r))

LogSpec == LogInit /\ [][LogNext]_logVars
=============================================================================
