\* A result submitted on an approval that was superseded or has lapsed.
CONSTANTS
  Contents = {a}
  NoContent = NoContent
  Agents = {h1}
  Expiring = TRUE
  MaxRecovery = 1
  PlanBound = 1
  RequestBound = 4
  RetryBound = 1
  CrashBound = 0
SPECIFICATION GateSpec
CHECK_DEADLOCK FALSE
PROPERTY StaleNeverAuthorizes
