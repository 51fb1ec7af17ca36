--------------------------- MODULE MCRunLifecycle ---------------------------
(***************************************************************************)
(* Instances of RunLifecycle for TLC.  In the part "races" two executions  *)
(* of the run, its agent and a user interleave; in the part "restores"     *)
(* there is one execution at a time and no agent, users ask for more, and  *)
(* snapshots are restored.                                                 *)
(***************************************************************************)
EXTENDS RunLifecycle, TLC

CONSTANTS Restorations, MoreRequests   \* the bounds of the part "restores"

VARIABLE part

Restoring == INSTANCE RunLifecycle
  WITH RestoreBound <- Restorations, RequestBound <- MoreRequests

Alone == /\ \A f \in Flows \ {CHOOSE g \in Flows : TRUE} : flow'[f] = flow[f]
         /\ \A a \in Agents : steps'[a] = steps[a]

LifecycleInit == Init /\ part \in {"races", "restores"}
LifecycleNext ==
  /\ UNCHANGED part
  /\ \/ part = "races" /\ Next
     \/ part = "restores" /\ Restoring!Next /\ Alone

LifecycleSpec ==
  /\ LifecycleInit /\ [][LifecycleNext]_<<part, vars, disturbed>>
  /\ \A f \in Flows : WF_vars(FlowStep(f))
=============================================================================
