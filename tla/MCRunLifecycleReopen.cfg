\* A recovery decision for a step of a cancelled run.
CONSTANTS
  Flows = {f1}
  NoFlow = NoFlow
  Main = main
  Agents = {a1}
  MaxRecovery = 1
  RequestBound = 3
  RestoreBound = 0
  Restorations = 0
  MoreRequests = 0
  CrashBound = 0
SPECIFICATION LifecycleSpec
CHECK_DEADLOCK FALSE
PROPERTY CancelledStaysCancelled
