\* An executor dies with its last attempt.
CONSTANTS
  Executors = {e1}
  None = None
  MaxAttempts = 1
  MaxRecovery = 0
  RecoveryTargets = {"FIXING"}
  Overlap = "no"
  RequeueBound = 0
  CrashBound = 0
SPECIFICATION FairSpec
CHECK_DEADLOCK FALSE
PROPERTY DeadLetterFailsStep
