\* Two executors; requests are serialised per job.  Two hosts that enroll with one
\* token, and one host with its daemon and operator.
CONSTANTS
  Executors = {e1, e2}
  None = None
  MaxAttempts = 2
  MaxRecovery = 1
  RecoveryTargets = {"FIXING"}
  Overlap = "no"
  RequeueBound = 0
  CrashBound = 1
  Hosts = {e1, e2}
  Invites = {i1}
  Regions = {"east", "west"}
  AllowedRegions = {"east"}
  RotationBound = 1
  HostFaultBound = 1
SPECIFICATION ExecutorsSpec
SYMMETRY Symmetry
CHECK_DEADLOCK FALSE
INVARIANTS LeaseBudget  HostsStaySound
PROPERTIES  RevocationSettles
