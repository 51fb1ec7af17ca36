------------------------------ MODULE MCDelivery ------------------------------
(***************************************************************************)
(* How a task is worked on, side by side: the loop of the orchestrator     *)
(* (TaskOrchestration), the issue in Jira (JiraDelivery), and the remote   *)
(* jobs of an executor whose requests overlap with recovery, revocation    *)
(* and cancellation (ExecutionPlane; without the overlap it is in          *)
(* MCExecutors).  A behaviour is one of the part that part names; the      *)
(* others rest in their initial state.                                     *)
(***************************************************************************)
EXTENDS TaskOrchestration, JiraDelivery, TLC

CONSTANTS Executors, None, LeaseAttempts, RequeueBound

VARIABLES part,
          run, step, jobs, issued, resets, executors, daemon, request, backend,
          requeues, crashes

planeVars == <<run, step, jobs, issued, resets, executors, daemon, request,
               backend, requeues, crashes>>

Plane == INSTANCE ExecutionPlane WITH
  MaxAttempts <- LeaseAttempts, MaxRecovery <- 0, RecoveryTargets <- {"PLANNING"},
  Overlap <- "yes", CrashBound <- 0

\* What the agents of a run may report: nothing, that every check passes, and
\* that the security check fails.
SomeReports == {[c \in {} |-> "PASS"], [c \in Checks |-> "PASS"],
                [c \in Checks |-> IF c = "security" THEN "FAIL" ELSE "PASS"]}
\* An issue that says everything, and one that names no repository.
SomeContracts == {Fields, Fields \ {"repositories"}}

\* The parts that rest have one initial state.
DeliveryInit ==
  /\ part \in {"task", "jira", "plane"}
  /\ OrchInit /\ JiraInit /\ Plane!Init
  /\ part # "task" => task.strict = "yes"

DeliveryNext ==
  /\ UNCHANGED part
  /\ \/ part = "task" /\ OrchNext /\ UNCHANGED <<jiraVars, planeVars>>
     \/ part = "jira" /\ JiraNext /\ UNCHANGED <<orchVars, planeVars>>
     \/ part = "plane" /\ Plane!Next /\ UNCHANGED <<orchVars, jiraVars>>

\* The fairness of FairSpec in ExecutionPlane; in the other parts none of these
\* actions is enabled.
PlaneFairness ==
  /\ \A e \in Executors : WF_planeVars(Plane!Serve(e)) /\ WF_planeVars(Plane!Work(e))
  /\ \A k \in {0} : WF_planeVars(Plane!Expire(k) /\ Plane!Abandoned(k))
  /\ WF_planeVars(Plane!RecoverOrphaned)

DeliverySpec ==
  /\ DeliveryInit /\ [][DeliveryNext]_<<part, orchVars, jiraVars, planeVars>>
  /\ OrchFairness /\ PlaneFairness

-----------------------------------------------------------------------------
(* Every lease of the plane ends, by a result or by recovery, although     *)
(* requests overwrite what recovery, revocation and cancellation did: no   *)
(* job stays with an executor that died or never got its answer.           *)
LeasesEnd == Plane!LeasesEnd
=============================================================================
