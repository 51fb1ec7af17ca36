\* A cancelled job returned to the queue by a recovery that read it before.
CONSTANTS
  Runs = {r1}
  Workers = {w1}
  Clients = {c1}
  NoRun = NoRun
  MaxAttempts = 2
  SubmitBound = 1
  CrashBound = 1
SPECIFICATION Spec
PROPERTY CancelledNeverClaimed
