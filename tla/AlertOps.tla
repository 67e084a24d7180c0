------------------------------ MODULE AlertOps ------------------------------
(***************************************************************************)
(* The pure part of alert_system.c: which alerts a snapshot raises, and    *)
(* what "the newest n records" of a history means.                         *)
(***************************************************************************)
EXTENDS Integers, Sequences

\* The alert of one metric, if any: the critical test comes first.
Level(type, critical, warning) ==
  IF critical THEN <<[type |-> type, severity |-> "critical"]>>
  ELSE IF warning THEN <<[type |-> type, severity |-> "warning"]>>
  ELSE <<>>

\* All alerts of a snapshot, in the order alert_evaluate tests the metrics.
AllAlerts(snap) ==
     Level("rpm_high", snap.rpm > 4500, snap.rpm > 4000)
  \o Level("load_low", snap.load < 10, snap.load < 20)
  \o Level("temp_high", snap.temp > 85, snap.temp > 70)
  \o Level("pressure_high", snap.pressure > 90, snap.pressure > 80)
  \o Level("pressure_low", snap.pressure < 8, snap.pressure < 15)

\* alert_evaluate emits an alert only while n < max_alerts.
Evaluated(snap, maxAlerts) ==
  LET all == AllAlerts(snap)
  IN  SubSeq(all, 1, IF Len(all) < maxAlerts THEN Len(all) ELSE maxAlerts)

\* The last n elements of s, or all of s when it has no more than n.
Newest(n, s) ==
  LET k == IF Len(s) < n THEN Len(s) ELSE n
  IN  [i \in 1 .. k |-> s[Len(s) - k + i]]
=============================================================================
