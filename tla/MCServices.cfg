\* Overlapping governance calls; one agent process whose requests lapse;
\* three peers of a handoff.
CONSTANTS
  Projects = {p}
  None = None
  Requester = a
  Actors = {a, b}
  Handlers = {h1, h2}
  Count = 2
  ProjectOf <- Located
  Evidence = {1}
  Rules <- OneRule
  AdminBound = 2
  InventoryBound = 2
  Contents = {c, d}
  NoContent = NoContent
  Agents = {g1}
  Expiring = TRUE
  MaxRecovery = 1
  PlanBound = 1
  RequestBound = 3
  RetryBound = 1
  CrashBound = 1
  Peers = {h1, h2, q}
  NoPeer = NoPeer
  Subtasks = {t}
  QuorumSize = 2
  EventBound = 3
  SnapshotBound = 2
  ReplayBound = 1
  TokenBound = 3
SPECIFICATION ServicesSpec
SYMMETRY Symmetry
CHECK_DEADLOCK FALSE
INVARIANTS StandingHoldsProtect SerialCallsAgree  
PROPERTIES UndecidedNeverAuthorizes ValidStaysValid LiveScopeKept
