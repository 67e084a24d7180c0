SPECIFICATION Spec
CONSTANTS
  IntMax <- MCIntMax
  Clients = {c1, c2}
  Deltas = {5000}
  Noise = {3}
  Verdicts = {"ENGINEER", "SUPERVISOR", "NONE"}
  HistorySize = 3
  MaxRecords = 2
  Workloads <- MCWorkloads
SYMMETRY Symmetry
INVARIANTS NoAlertGap AlertsMatchMetric AlertReplyComplete
INVARIANTS UserListContiguous EffectsAreAuthorized HeadingReplyIsRecent
