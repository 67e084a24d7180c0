---------------------------- MODULE AlertManager ----------------------------
(***************************************************************************)
(* The operator client's AlertManager (alerts.py): the alerts remembered,  *)
(* at most MAX_HISTORY of them, and their number since the start.  An      *)
(* alert is the number under which it was stored; what it says is left     *)
(* out, and with it the totals by severity and type and the marks of       *)
(* acknowledgement, which change no list and no total.                     *)
(***************************************************************************)
EXTENDS Integers, Sequences

CONSTANT MaxHistory  \* MAX_HISTORY (200)

VARIABLES
  kept,  \* self._history
  total  \* self._total_warnings + self._total_criticals

alertVars == <<kept, total>>

AlertsInit == kept = <<>> /\ total = 0

\* self._history[-MAX_HISTORY:], when it is longer
Trimmed(list) ==
  IF Len(list) > MaxHistory THEN SubSeq(list, Len(list) - MaxHistory + 1, Len(list)) ELSE list

\* add_alert, up to the end of its critical section
AddAlert ==
  /\ kept' = Trimmed(Append(kept, total + 1))
  /\ total' = total + 1
=============================================================================
