------------------------- MODULE MCMonitoringServer -------------------------
(* Instance of MonitoringServer: one delta takes the plant to 5000 rpm, where  *)
(* a cycle raises two alerts (rpm_high, and pressure_high with the jitter at   *)
(* +3), so that the second cycle wraps a ring of three.                        *)
EXTENDS MonitoringServer, TLC

MCIntMax == 9999

Workload(n, f) == [cycles |-> n, commands |-> f @@ [name \in Names |-> 0]]

\* Alerts are asked for, in two cycles or twice; two engineers turn the plant; rights
\* come and go; a client leaves with QUIT.
MCWorkloads == {
  Workload(2, [AUTHENTICATE |-> 1, MODIFY_RPM |-> 1, GET_ALERTS |-> 1]),
  Workload(1, [AUTHENTICATE |-> 1, MODIFY_RPM |-> 1, GET_ALERTS |-> 2]),
  Workload(1, [AUTHENTICATE |-> 2, ADJUST_HEADING |-> 2]),
  Workload(1, [AUTHENTICATE |-> 2, MODIFY_RPM |-> 1] @@ ("LIST USERS" :> 1)),
  Workload(1, [GET_STATUS |-> 1, QUIT |-> 2])
}

Symmetry == Permutations(Clients)
=============================================================================
