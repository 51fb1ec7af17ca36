\* Two orchestrators over one task, one of which may stall, die or be overtaken
\* by an answer; an issue with two webhooks and repeated synchronisations; one
\* executor whose job is requeued twice.
CONSTANTS
  Orchestrators = {o1, o2}
  Nobody = Nobody
  MaxSteps = 2
  MaxRecoveries = 1
  Reports <- SomeReports
  Hints = {"done"}
  FaultBound = 1
  StartBound = 2
  Ids = {i1, i2}
  Hooks = {h1}
  Syncs = {s1}
  Contracts <- SomeContracts
  Mapped = {"AWAITING_CLARIFICATION", "COMPLETED"}
  NoIssue = NoIssue
  SyncBound = 2
  JiraCrashBound = 1
  Executors = {e1}
  None = None
  LeaseAttempts = 2
  RequeueBound = 2
SPECIFICATION DeliverySpec
CHECK_DEADLOCK FALSE
 
PROPERTIES LiveLeaseKept AnswersAreRead RunTaskReturns  LeasesEnd
