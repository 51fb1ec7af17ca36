------------------------------ MODULE MCServices ------------------------------
(***************************************************************************)
(* Services of the control plane that share no row, side by side:          *)
(* governance requests, the approval gate of agent results, snapshots and  *)
(* their handoff.  A behaviour is one of the service that part names; the  *)
(* others rest in their initial state.  Snapshots are checked on a run     *)
(* that goes on, handoffs on the first snapshot of a run that waits.       *)
(***************************************************************************)
EXTENDS DataGovernance, AgentApproval, SnapshotHandoff, TLC

VARIABLE part

allVars == <<part, vars, gateVars, snapVars>>

\* The first record belongs to the project, the second to no project.
Located == <<CHOOSE p \in Projects : TRUE, None>>

\* A rule that lets evidence be deleted and nothing be exported; without a
\* policy the request's own preservation policy applies.
OneRule == {[hold |-> "no", exportable |-> "no", preserve |-> "no"]}

ServicesInit ==
  /\ Init /\ GateInit /\ HandInit
  /\ part \in {"governance", "approval", "snapshots", "handoffs"}

HandoffNext == HandingOff \/ (Taken = {} /\ Capturing)

ServicesNext ==
  /\ UNCHANGED part
  /\ \/ /\ part = "governance" /\ Next
        /\ UNCHANGED <<gateVars, snapVars>>
     \/ /\ part = "approval" /\ GateNext
        /\ UNCHANGED <<vars, snapVars>>
     \/ /\ \/ part = "snapshots" /\ (Capturing \/ Going)
           \/ part = "handoffs" /\ HandoffNext
        /\ UNCHANGED <<vars, gateVars>>

ServicesSpec == ServicesInit /\ [][ServicesNext]_allVars

\* The handlers of governance requests stand for two of the peers of a handoff
\* as well; every part is symmetric in them and in contents.
Symmetry == Permutations(Handlers) \cup Permutations(Contents)
=============================================================================
