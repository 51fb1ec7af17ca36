--------------------------- MODULE MCExecutionPlane ---------------------------
(* The last attempt of a job, for TLC; leases and races are in MCExecutors.  *)
EXTENDS ExecutionPlane
=============================================================================
