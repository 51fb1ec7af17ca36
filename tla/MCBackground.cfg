\* One worker, an API handler and a job; a scheduled drain, an operator, and
\* a sink of the organization or a project.
CONSTANTS
  Runs = {r1}
  Workers = {w1}
  Clients = {c1}
  NoRun = NoRun
  MaxAttempts = 2
  SubmitBound = 2
  CrashBound = 2
  Projects = {p}
  None = None
  Drains = {d1}
  BatchSize = 2
  MaxDeliveries = 2
  EventBound = 3
  PauseBound = 1
  DrainCrashBound = 1
SPECIFICATION BackgroundSpec
INVARIANTS RunningIsRecoverable AttemptCountsClaims NothingSkipped ScopeKept
PROPERTIES ExpiredLeaseStaysLost ImplementsLeasedWork JobSettles EventsArrive
