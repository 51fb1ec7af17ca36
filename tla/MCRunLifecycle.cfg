\* Two executions of one run, an external agent, a user and a crash; or one
\* execution and a restore from any snapshot.
CONSTANTS
  Flows = {f1, f2}
  NoFlow = NoFlow
  Main = main
  Agents = {a1}
  MaxRecovery = 1
  RequestBound = 3
  RestoreBound = 0
  Restorations = 1
  MoreRequests = 4
  CrashBound = 1
SPECIFICATION LifecycleSpec
CHECK_DEADLOCK FALSE
   
PROPERTIES  ExecutionReturns
