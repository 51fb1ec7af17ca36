------------------------- MODULE RunLifecycleProofs -------------------------
(***************************************************************************)
(* Proofs about RunLifecycle, for any sets of executions and agents and    *)
(* any recovery budget.  The inductive invariant is Inv: the budget alone  *)
(* is not inductive, because what it bounds is not what the code compares; *)
(* BudgetUsed ties the recoveries scheduled to the counter of the run,     *)
(* which is what decide_for_attempt tests and what a restore writes back.  *)
(***************************************************************************)
EXTENDS RunLifecycle, TLAPS

\* Recoveries scheduled since the last restore are counted in the run, and the
\* restores before it explain the others.
BudgetUsed ==
  /\ scheduled <= restores * MaxRecovery + run.attempts
  /\ scheduled <= (restores + 1) * MaxRecovery

Inv == TypeOK /\ SnapshotsAreQuiescent /\ BudgetUsed

Fixed == UNCHANGED <<scheduled, restores>> /\ run'.attempts = run.attempts

-----------------------------------------------------------------------------
(* What the operators the actions share preserve                           *)

\* (n + 1) * m is n * m and one m more.
LEMMA OneMore == \A n, m \in Nat : /\ n * m \in Nat
                                   /\ (n + 1) * m = n * m + m
  BY Z3

\* A move of an execution keeps the shape of flow.
LEMMA GotoShape ==
  ASSUME TypeOK, NEW f \in Flows, NEW pc \in FlowPCs
  PROVE  Goto(f, pc) \in [Flows -> FlowStates]
  BY DEF TypeOK, Goto, FlowStates

\* A write of the run's row keeps the shape of run and flow.
LEMMA WriteRunShape ==
  ASSUME NEW r \in Runs, NEW fl \in [Flows -> FlowStates], WriteRun(r, fl)
  PROVE  run' \in Runs /\ flow' \in [Flows -> FlowStates] /\ run' = r
  BY DEF WriteRun, FlowStates

\* A checkpoint adds only snapshots of states in which nothing is in progress.
LEMMA CheckpointShape ==
  ASSUME TypeOK, SnapshotsAreQuiescent,
         NEW r \in Runs, NEW ss \in [Steps -> StepStatuses],
         snaps' = Checkpoint(r, ss)
  PROVE  snaps' \subseteq Snapshots /\ SnapshotsAreQuiescent'
<1> DEFINE new == [run |-> r, steps |-> ss]
<1>1. new \in Snapshots
  BY DEF Snapshots
<1>2. CASE snaps' = snaps
  BY <1>2 DEF TypeOK, SnapshotsAreQuiescent
<1>3. CASE /\ snaps' = snaps \cup {new}
           /\ r.status \notin Ended
           /\ \A s \in Steps : ss[s] # "RUNNING"
  BY <1>1, <1>3 DEF TypeOK, SnapshotsAreQuiescent
<1>4. QED
  BY <1>2, <1>3 DEF Checkpoint

\* transition keeps the shape of everything and counts no recovery.
LEMMA TransitionShape ==
  ASSUME TypeOK, SnapshotsAreQuiescent, NEW status \in RunStatuses,
         NEW fl \in [Flows -> FlowStates], Transition(status, fl)
  PROVE  /\ run' \in Runs /\ flow' \in [Flows -> FlowStates]
         /\ snaps' \subseteq Snapshots /\ SnapshotsAreQuiescent'
         /\ run'.attempts = run.attempts
<1> DEFINE r == [run EXCEPT !.status = status]
<1>1. r \in Runs /\ r.attempts = run.attempts
  BY DEF TypeOK, Runs
<1>2. WriteRun(r, fl) /\ snaps' = Checkpoint(r, steps)
  BY DEF Transition
<1> HIDE DEF r
<1>3. run' \in Runs /\ flow' \in [Flows -> FlowStates] /\ run' = r
  BY <1>1, <1>2, WriteRunShape
<1>4. steps \in [Steps -> StepStatuses]
  BY DEF TypeOK
<1>5. snaps' \subseteq Snapshots /\ SnapshotsAreQuiescent'
  BY <1>1, <1>2, <1>4, CheckpointShape
<1>6. QED
  BY <1>1, <1>3, <1>5

\* So does a change of one step.
LEMMA SetStepShape ==
  ASSUME TypeOK, SnapshotsAreQuiescent, NEW s \in Steps,
         NEW status \in StepStatuses, SetStep(s, status)
  PROVE  /\ steps' \in [Steps -> StepStatuses]
         /\ snaps' \subseteq Snapshots /\ SnapshotsAreQuiescent'
<1> DEFINE ss == [steps EXCEPT ![s] = status]
<1>1. ss \in [Steps -> StepStatuses] /\ run \in Runs
  BY DEF TypeOK
<1>2. steps' = ss /\ snaps' = Checkpoint(run, ss)
  BY DEF SetStep
<1> HIDE DEF ss
<1>3. snaps' \subseteq Snapshots /\ SnapshotsAreQuiescent'
  BY <1>1, <1>2, CheckpointShape
<1>4. QED
  BY <1>1, <1>2, <1>3

\* A scheduled recovery stays within the budget: this is where the test of
\* decide_for_attempt is needed.
LEMMA ScheduleShape ==
  ASSUME Inv, NEW s \in Steps, NEW target \in RecoveryTargets,
         NEW fl \in [Flows -> FlowStates], ScheduleRecovery(s, target, fl),
         UNCHANGED restores
  PROVE  /\ run' \in Runs /\ flow' \in [Flows -> FlowStates]
         /\ steps' \in [Steps -> StepStatuses]
         /\ snaps' \subseteq Snapshots /\ SnapshotsAreQuiescent'
         /\ scheduled' \in Nat /\ BudgetUsed'
<1> DEFINE r == [run EXCEPT !.status = target, !.attempts = @ + 1]
           ss == [steps EXCEPT ![s] = "PENDING"]
<1>1. run \in Runs /\ run.attempts \in Nat /\ run.attempts + 1 \in Nat
  BY DEF Inv, TypeOK, Runs
<1>2. target \in RunStatuses
  BY DEF RecoveryTargets, RunStatuses
<1>3. r \in Runs /\ r.attempts = run.attempts + 1
  BY <1>1, <1>2 DEF Runs
<1>4. ss \in [Steps -> StepStatuses]
  BY DEF Inv, TypeOK, StepStatuses
<1>5. /\ WithinBudget /\ WriteRun(r, fl) /\ steps' = ss
      /\ snaps' = Checkpoint(r, ss) /\ scheduled' = Count(scheduled)
  BY DEF ScheduleRecovery
<1> HIDE DEF r, ss
<1>6. run' \in Runs /\ flow' \in [Flows -> FlowStates] /\ run' = r
  BY <1>3, <1>5, WriteRunShape
<1>7. snaps' \subseteq Snapshots /\ SnapshotsAreQuiescent'
  BY <1>3, <1>4, <1>5, CheckpointShape DEF Inv
<1>8. /\ scheduled \in Nat /\ restores \in Nat /\ MaxRecovery \in Nat
      /\ scheduled <= restores * MaxRecovery + run.attempts
      /\ scheduled <= (restores + 1) * MaxRecovery
      /\ run.attempts < MaxRecovery
      /\ run'.attempts = run.attempts + 1 /\ restores' = restores
  BY <1>3, <1>5, <1>6, LifecycleAssumption DEF Inv, TypeOK, BudgetUsed, WithinBudget
<1>9. /\ restores * MaxRecovery \in Nat
      /\ (restores + 1) * MaxRecovery = restores * MaxRecovery + MaxRecovery
  BY <1>8, OneMore
<1>10. scheduled' = scheduled + 1
  BY <1>5, <1>8, <1>9 DEF Count
<1>11. scheduled' \in Nat /\ BudgetUsed'
  BY <1>1, <1>8, <1>9, <1>10 DEF BudgetUsed
<1>12. QED
  BY <1>4, <1>5, <1>6, <1>7, <1>11

\* An escalation only moves the counter up.
LEMMA EscalateShape ==
  ASSUME Inv, NEW fl \in [Flows -> FlowStates], EscalateRecovery(fl),
         UNCHANGED restores
  PROVE  /\ run' \in Runs /\ flow' \in [Flows -> FlowStates] /\ BudgetUsed'
<1> DEFINE r == [run EXCEPT !.status = "FAILED", !.attempts = @ + 1]
<1>1. run \in Runs /\ run.attempts \in Nat /\ run.attempts + 1 \in Nat
  BY DEF Inv, TypeOK, Runs
<1>2. r \in Runs /\ r.attempts = run.attempts + 1
  BY <1>1 DEF Runs, RunStatuses, Ended
<1>3. WriteRun(r, fl) /\ UNCHANGED scheduled
  BY DEF EscalateRecovery
<1> HIDE DEF r
<1>4. run' \in Runs /\ flow' \in [Flows -> FlowStates] /\ run' = r
  BY <1>2, <1>3, WriteRunShape
<1>5. /\ scheduled \in Nat /\ restores \in Nat /\ MaxRecovery \in Nat
      /\ scheduled <= restores * MaxRecovery + run.attempts
      /\ scheduled <= (restores + 1) * MaxRecovery
  BY LifecycleAssumption DEF Inv, TypeOK, BudgetUsed
<1>6. restores * MaxRecovery \in Nat
  BY <1>5, OneMore
<1>7. BudgetUsed'
  BY <1>1, <1>2, <1>3, <1>4, <1>5, <1>6 DEF BudgetUsed
<1>8. QED
  BY <1>4, <1>7

\* What neither counts nor restores keeps the budget.
LEMMA BudgetFixed == ASSUME BudgetUsed, Fixed PROVE BudgetUsed'
  BY DEF BudgetUsed, Fixed

-----------------------------------------------------------------------------
(* Every action preserves the invariant                                    *)

\* What an action leaves to show when the shared operators are accounted for.
LEMMA InvFromParts ==
  ASSUME Inv, Fixed,
         run' \in Runs, flow' \in [Flows -> FlowStates],
         steps' \in [Steps -> StepStatuses], snaps' \subseteq Snapshots,
         SnapshotsAreQuiescent', pack' \in {"no", "yes"},
         lease' \in Flows \cup {NoFlow}, requests' \in Nat, crashes' \in Nat,
         disturbed' \in {"no", "yes"}
  PROVE  Inv'
<1>1. BudgetUsed'
  BY BudgetFixed DEF Inv
<1>2. TypeOK'
  BY DEF TypeOK, Inv, Fixed
<1>3. QED
  BY <1>1, <1>2 DEF Inv

\* An action that moves an execution and leaves the run and the steps alone.
LEMMA MoveStep ==
  ASSUME Inv, NEW f \in Flows, NEW pc \in FlowPCs, flow' = Goto(f, pc),
         UNCHANGED <<run, steps, snaps, scheduled, restores>>,
         pack' \in {"no", "yes"}, lease' \in Flows \cup {NoFlow},
         requests' \in Nat, crashes' \in Nat,
         disturbed' \in {"no", "yes"}
  PROVE  Inv'
<1>1. flow' \in [Flows -> FlowStates]
  BY GotoShape DEF Inv
<1>2. /\ Fixed /\ run' \in Runs /\ steps' \in [Steps -> StepStatuses]
      /\ snaps' \subseteq Snapshots
  BY DEF Inv, TypeOK, Fixed
<1>3. SnapshotsAreQuiescent'
  BY DEF Inv, SnapshotsAreQuiescent
<1>4. QED
  BY <1>1, <1>2, <1>3, InvFromParts

\* An action that makes a transition of the run and leaves the steps alone.
LEMMA TransitionStep ==
  ASSUME Inv, NEW status \in RunStatuses, NEW fl \in [Flows -> FlowStates],
         Transition(status, fl), UNCHANGED <<steps, scheduled, restores>>,
         pack' \in {"no", "yes"}, lease' \in Flows \cup {NoFlow},
         requests' \in Nat, crashes' \in Nat,
         disturbed' \in {"no", "yes"}
  PROVE  Inv'
<1>1. /\ run' \in Runs /\ flow' \in [Flows -> FlowStates]
      /\ snaps' \subseteq Snapshots /\ SnapshotsAreQuiescent'
      /\ run'.attempts = run.attempts
  BY TransitionShape DEF Inv
<1>2. Fixed /\ steps' \in [Steps -> StepStatuses]
  BY <1>1 DEF Inv, TypeOK, Fixed
<1>3. QED
  BY <1>1, <1>2, InvFromParts

\* An action that changes one step and leaves the run alone.
LEMMA StepStep ==
  ASSUME Inv, NEW s \in Steps, NEW status \in StepStatuses, SetStep(s, status),
         flow' \in [Flows -> FlowStates], UNCHANGED <<run, scheduled, restores>>,
         pack' \in {"no", "yes"}, lease' \in Flows \cup {NoFlow},
         requests' \in Nat, crashes' \in Nat,
         disturbed' \in {"no", "yes"}
  PROVE  Inv'
<1>1. /\ steps' \in [Steps -> StepStatuses]
      /\ snaps' \subseteq Snapshots /\ SnapshotsAreQuiescent'
  BY SetStepShape DEF Inv
<1>2. Fixed /\ run' \in Runs
  BY DEF Inv, TypeOK, Fixed
<1>3. QED
  BY <1>1, <1>2, InvFromParts

\* An action that applies a recovery decision.
LEMMA RecoveryStep ==
  ASSUME Inv, NEW s \in Steps,
         NEW fl \in [Flows -> FlowStates], NEW gl \in [Flows -> FlowStates],
         \/ \E target \in RecoveryTargets : ScheduleRecovery(s, target, fl)
         \/ EscalateRecovery(gl),
         UNCHANGED <<pack, lease, restores>>, requests' \in Nat, crashes' \in Nat,
         disturbed' \in {"no", "yes"}
  PROVE  Inv'
<1>1. pack' \in {"no", "yes"} /\ lease' \in Flows \cup {NoFlow} /\ restores' \in Nat
  BY DEF Inv, TypeOK
<1>2. CASE \E target \in RecoveryTargets : ScheduleRecovery(s, target, fl)
  <2>1. /\ run' \in Runs /\ flow' \in [Flows -> FlowStates]
        /\ steps' \in [Steps -> StepStatuses]
        /\ snaps' \subseteq Snapshots /\ SnapshotsAreQuiescent'
        /\ scheduled' \in Nat /\ BudgetUsed'
    BY <1>2, ScheduleShape
  <2>2. QED
    BY <1>1, <2>1 DEF Inv, TypeOK
<1>3. CASE EscalateRecovery(gl)
  <2>1. run' \in Runs /\ flow' \in [Flows -> FlowStates] /\ BudgetUsed'
    BY <1>3, EscalateShape
  <2>2. UNCHANGED <<steps, snaps, scheduled>>
    BY <1>3 DEF EscalateRecovery
  <2>3. SnapshotsAreQuiescent'
    BY <2>2 DEF Inv, SnapshotsAreQuiescent
  <2>4. QED
    BY <1>1, <2>1, <2>2, <2>3 DEF Inv, TypeOK
<1>4. QED
  BY <1>2, <1>3

\* The steps of an execution.
LEMMA FlowPreserves ==
  ASSUME Inv, NEW f \in Flows, Execute(f) \/ FlowStep(f) \/ Crash(f),
         disturbed' \in {"no", "yes"}
  PROVE  Inv'
<1>1. /\ pack \in {"no", "yes"} /\ lease \in Flows \cup {NoFlow}
      /\ requests \in Nat /\ crashes \in Nat /\ requests + 1 \in Nat
      /\ crashes + 1 \in Nat /\ Main \in Steps
      /\ steps \in [Steps -> StepStatuses]
  BY DEF Inv, TypeOK, Steps
<1>2. \A pc \in FlowPCs : Goto(f, pc) \in [Flows -> FlowStates]
  BY GotoShape DEF Inv
<1>3. CASE Execute(f)
  <2>1. /\ UNCHANGED <<steps, pack, lease, scheduled, restores, crashes>>
        /\ requests' = requests + 1
    BY <1>3 DEF Execute, Requested
  <2>2. CASE Transition("PLANNING", Goto(f, "addStep"))
    BY <1>1, <1>2, <2>1, <2>2, TransitionStep DEF RunStatuses, FlowPCs
  <2>3. CASE flow' = Goto(f, "addStep") /\ UNCHANGED <<run, snaps>>
    BY <1>1, <2>1, <2>3, MoveStep DEF FlowPCs
  <2>4. QED
    BY <1>3, <2>2, <2>3 DEF Execute
<1>4. CASE AddMain(f)
  <2>1. /\ flow' = Goto(f, "loop")
        /\ UNCHANGED <<run, pack, lease, scheduled, restores, requests, crashes>>
    BY <1>4 DEF AddMain
  <2>2. CASE SetStep(Main, "PENDING")
    BY <1>1, <1>2, <2>1, <2>2, StepStep DEF StepStatuses, FlowPCs
  <2>3. CASE UNCHANGED <<steps, snaps>>
    BY <1>1, <2>1, <2>3, MoveStep DEF FlowPCs
  <2>4. QED
    BY <1>4, <2>2, <2>3 DEF AddMain
<1>5. CASE Loop(f)
  <2>1. \E pc \in FlowPCs : flow' = Goto(f, pc)
    BY <1>5 DEF Loop, FlowPCs
  <2>2. QED
    BY <1>1, <1>5, <2>1, MoveStep DEF Loop
<1>6. CASE StartStep(f)
  <2>1. \E pc \in FlowPCs : flow' = Goto(f, pc)
    BY <1>6 DEF StartStep, FlowPCs
  <2>2. flow' \in [Flows -> FlowStates]
    BY <1>2, <2>1
  <2>3. steps' \in [Steps -> StepStatuses]
    BY <1>1, <1>6 DEF StartStep, StepStatuses
  <2>4. UNCHANGED <<run, snaps, pack, lease, scheduled, restores, requests, crashes>>
    BY <1>6 DEF StartStep
  <2>5. SnapshotsAreQuiescent'
    BY <2>4 DEF Inv, SnapshotsAreQuiescent
  <2>6. Fixed /\ run' \in Runs /\ snaps' \subseteq Snapshots
    BY <2>4 DEF Inv, TypeOK, Fixed
  <2>7. QED
    BY <1>1, <2>2, <2>3, <2>4, <2>5, <2>6, InvFromParts
<1>7. CASE Implement(f)
  <2>1. UNCHANGED <<steps, pack, lease, scheduled, restores, requests, crashes>>
    BY <1>7 DEF Implement
  <2>2. CASE Transition("IMPLEMENTING", Goto(f, "capture"))
    BY <1>1, <1>2, <2>1, <2>2, TransitionStep DEF RunStatuses, FlowPCs
  <2>3. CASE /\ \E pc \in {"capture", "error"} : flow' = Goto(f, pc)
             /\ UNCHANGED <<run, snaps>>
    BY <1>1, <2>1, <2>3, MoveStep DEF FlowPCs
  <2>4. QED
    BY <1>7, <2>2, <2>3 DEF Implement
<1>8. CASE Capture(f)
  <2>1. flow' \in [Flows -> FlowStates]
    BY <1>8 DEF Capture, Inv, TypeOK, FlowStates, FlowPCs
  <2>2. UNCHANGED <<run, steps, snaps, pack, lease, scheduled, restores, requests,
                    crashes>>
    BY <1>8 DEF Capture
  <2>3. SnapshotsAreQuiescent'
    BY <2>2 DEF Inv, SnapshotsAreQuiescent
  <2>4. Fixed /\ run' \in Runs /\ snaps' \subseteq Snapshots
    BY <2>2 DEF Inv, TypeOK, Fixed
  <2>5. QED
    BY <1>1, <2>1, <2>2, <2>3, <2>4, InvFromParts
<1>9. CASE AcquireLease(f)
  <2>1. \E pc \in FlowPCs : flow' = Goto(f, pc)
    BY <1>9 DEF AcquireLease, FlowPCs
  <2>2. lease' \in Flows \cup {NoFlow}
    BY <1>1, <1>9 DEF AcquireLease
  <2>3. QED
    BY <1>1, <1>9, <2>1, <2>2, MoveStep DEF AcquireLease
<1>10. CASE Orchestrated(f)
  <2>1. \E pc \in FlowPCs : flow' = Goto(f, pc)
    BY <1>10 DEF Orchestrated, FlowPCs
  <2>2. lease' \in Flows \cup {NoFlow}
    BY <1>1, <1>10 DEF Orchestrated
  <2>3. QED
    BY <1>1, <1>10, <2>1, <2>2, MoveStep DEF Orchestrated
<1>11. CASE Judge(f)
  <2>1. UNCHANGED <<run, pack, lease, scheduled, restores, requests, crashes>>
    BY <1>11 DEF Judge
  <2>2. \E pc \in FlowPCs : flow' = Goto(f, pc)
    BY <1>11 DEF Judge, FlowPCs, At
  <2>3. CASE UNCHANGED <<steps, snaps>>
    BY <1>1, <2>1, <2>2, <2>3, MoveStep
  <2>4. CASE SetStep(Main, Interrupted(steps[Main]))
    <3>1. Interrupted(steps[Main]) \in StepStatuses
      BY <1>1 DEF Interrupted, StepStatuses
    <3>2. QED
      BY <1>1, <1>2, <2>1, <2>2, <2>4, <3>1, StepStep
  <2>5. QED
    BY <1>11, <2>3, <2>4 DEF Judge
<1>12. CASE CompleteMain(f)
  <2>1. UNCHANGED <<run, pack, lease, scheduled, restores, requests, crashes>>
    BY <1>12 DEF CompleteMain
  <2>2. \E pc \in FlowPCs : flow' = Goto(f, pc)
    BY <1>12 DEF CompleteMain, FlowPCs
  <2>3. CASE UNCHANGED <<steps, snaps>>
    BY <1>1, <2>1, <2>2, <2>3, MoveStep
  <2>4. CASE SetStep(Main, "COMPLETED")
    BY <1>1, <1>2, <2>1, <2>2, <2>4, StepStep DEF StepStatuses
  <2>5. QED
    BY <1>12, <2>3, <2>4 DEF CompleteMain
<1>13. CASE FailMain(f)
  <2>1. /\ UNCHANGED <<run, pack, lease, scheduled, restores, requests, crashes>>
        /\ SetStep(Main, "FAILED")
    BY <1>13 DEF FailMain
  <2>2. \E pc \in FlowPCs : flow' = Goto(f, pc)
    BY <1>13 DEF FailMain, FlowPCs
  <2>3. QED
    BY <1>1, <1>2, <2>1, <2>2, StepStep DEF StepStatuses
<1>14. CASE RecoverMain(f)
  <2>1. UNCHANGED <<pack, lease, restores, requests, crashes>>
    BY <1>14 DEF RecoverMain
  <2>2. CASE \/ \E target \in RecoveryTargets :
                  ScheduleRecovery(Main, target, Goto(f, "start"))
             \/ EscalateRecovery(Goto(f, "idle"))
    <3>1. /\ Goto(f, "start") \in [Flows -> FlowStates]
          /\ Goto(f, "idle") \in [Flows -> FlowStates]
      BY <1>2 DEF FlowPCs
    <3>2. QED
      BY <1>1, <2>1, <2>2, <3>1, RecoveryStep
  <2>3. CASE flow' = Goto(f, "error") /\ UNCHANGED <<run, steps, snaps, scheduled>>
    BY <1>1, <2>1, <2>3, MoveStep DEF FlowPCs
  <2>4. QED
    BY <1>14, <2>2, <2>3 DEF RecoverMain
<1>15. CASE EscalateMain(f)
  <2>1. UNCHANGED <<pack, lease, restores, requests, crashes>>
    BY <1>15 DEF EscalateMain
  <2>2. CASE EscalateRecovery(Goto(f, "idle"))
    <3>1. Goto(f, "idle") \in [Flows -> FlowStates]
      BY <1>2 DEF FlowPCs
    <3>2. QED
      BY <1>1, <2>1, <2>2, <3>1, RecoveryStep
  <2>3. CASE flow' = Goto(f, "raised") /\ UNCHANGED <<run, steps, snaps, scheduled>>
    BY <1>1, <2>1, <2>3, MoveStep DEF FlowPCs
  <2>4. QED
    BY <1>15, <2>2, <2>3 DEF EscalateMain
<1>16. CASE Advance(f)
  <2> DEFINE stage == Stage[flow[f].pc]
  <2>1. UNCHANGED <<steps, pack, lease, scheduled, restores, requests, crashes>>
    BY <1>16 DEF Advance
  <2>2. stage.to \in RunStatuses /\ stage.next \in FlowPCs
    BY <1>16 DEF Advance, Stage, RunStatuses, FlowPCs
  <2>3. \/ Transition(stage.to, Goto(f, stage.next))
        \/ flow' = Goto(f, "raised") /\ UNCHANGED <<run, snaps>>
    BY <1>16 DEF Advance
  <2> HIDE DEF stage
  <2>4. CASE Transition(stage.to, Goto(f, stage.next))
    BY <1>1, <1>2, <2>1, <2>2, <2>4, TransitionStep
  <2>5. CASE flow' = Goto(f, "raised") /\ UNCHANGED <<run, snaps>>
    BY <1>1, <2>1, <2>5, MoveStep DEF FlowPCs
  <2>6. QED
    BY <2>3, <2>4, <2>5
<1>17. CASE Evidence(f)
  <2>1. \E pc \in FlowPCs : flow' = Goto(f, pc)
    BY <1>17 DEF Evidence, FlowPCs
  <2>2. QED
    BY <1>1, <1>17, <2>1, MoveStep DEF Evidence
<1>18. CASE Finish(f)
  <2>1. UNCHANGED <<steps, pack, lease, scheduled, restores, requests, crashes>>
    BY <1>18 DEF Finish
  <2>2. CASE Transition("COMPLETED", Goto(f, "idle"))
    BY <1>1, <1>2, <2>1, <2>2, TransitionStep DEF RunStatuses, Ended, Closed, FlowPCs
  <2>3. CASE flow' = Goto(f, "raised") /\ UNCHANGED <<run, snaps>>
    BY <1>1, <2>1, <2>3, MoveStep DEF FlowPCs
  <2>4. QED
    BY <1>18, <2>2, <2>3 DEF Finish
<1>19. CASE QueueRetries(f)
  BY <1>1, <1>19, MoveStep DEF QueueRetries, FlowPCs
<1>20. CASE QueueFails(f)
  BY <1>1, <1>2, <1>20, TransitionStep DEF QueueFails, RunStatuses, Ended, FlowPCs
<1>21. CASE Crash(f)
  BY <1>1, <1>21, MoveStep DEF Crash, FlowPCs
<1>22. QED
  BY <1>3, <1>4, <1>5, <1>6, <1>7, <1>8, <1>9, <1>10, <1>11, <1>12, <1>13, <1>14,
     <1>15, <1>16, <1>17, <1>18, <1>19, <1>20, <1>21 DEF FlowStep

\* The API, the agents, the restores and the lease.
LEMMA RequestsPreserve ==
  ASSUME Inv, disturbed' \in {"no", "yes"},
         \/ Cancel \/ Resume \/ BuildEvidence \/ LeaseExpires
         \/ \E s \in Steps : RetryStep(s) \/ Recover(s)
         \/ \E a \in Agents : ScheduleAgent(a) \/ AgentResult(a)
         \/ \E snap \in snaps : Restore(snap)
  PROVE  Inv'
<1>1. /\ pack \in {"no", "yes"} /\ lease \in Flows \cup {NoFlow}
      /\ requests \in Nat /\ crashes \in Nat /\ requests + 1 \in Nat
      /\ steps \in [Steps -> StepStatuses] /\ run \in Runs
      /\ flow \in [Flows -> FlowStates] /\ snaps \subseteq Snapshots
  BY DEF Inv, TypeOK
<1>2. CASE Cancel
  <2> DEFINE r == [run EXCEPT !.status = "CANCELLED", !.cancel = "yes"]
  <2>1. r \in Runs /\ r.attempts = run.attempts
    BY <1>1 DEF Runs, RunStatuses, Ended, Closed
  <2>2. WriteRun(r, flow)
    BY <1>2 DEF Cancel
  <2>3. UNCHANGED <<steps, snaps, pack, lease, scheduled, restores, requests, crashes>>
    BY <1>2 DEF Cancel
  <2> HIDE DEF r
  <2>4. run' \in Runs /\ flow' \in [Flows -> FlowStates] /\ run' = r
    BY <1>1, <2>1, <2>2, WriteRunShape
  <2>5. Fixed /\ SnapshotsAreQuiescent'
    BY <2>1, <2>3, <2>4 DEF Fixed, Inv, SnapshotsAreQuiescent
  <2>6. QED
    BY <1>1, <2>3, <2>4, <2>5, InvFromParts
<1>3. CASE Resume
  BY <1>1, <1>3, TransitionStep DEF Resume, Requested, RunStatuses
<1>4. CASE BuildEvidence \/ LeaseExpires
  <2>1. UNCHANGED <<run, steps, snaps, flow, scheduled, restores, requests, crashes>>
    BY <1>4 DEF BuildEvidence, LeaseExpires
  <2>2. pack' \in {"no", "yes"} /\ lease' \in Flows \cup {NoFlow}
    BY <1>1, <1>4 DEF BuildEvidence, LeaseExpires
  <2>3. Fixed /\ SnapshotsAreQuiescent'
    BY <2>1 DEF Fixed, Inv, SnapshotsAreQuiescent
  <2>4. QED
    BY <1>1, <2>1, <2>2, <2>3, InvFromParts
<1>5. CASE \E s \in Steps : RetryStep(s)
  BY <1>1, <1>5, StepStep DEF RetryStep, Requested, StepStatuses
<1>6. CASE \E s \in Steps : Recover(s)
  BY <1>1, <1>6, RecoveryStep DEF Recover, Requested
<1>7. CASE \E a \in Agents : ScheduleAgent(a) \/ AgentResult(a)
  <2>1. PICK a \in Agents : ScheduleAgent(a) \/ AgentResult(a)
    BY <1>7
  <2>2. a \in Steps
    BY DEF Steps
  <2>3. \E status \in StepStatuses : SetStep(a, status)
    BY <2>1 DEF ScheduleAgent, AgentResult, StepStatuses
  <2>4. UNCHANGED <<run, pack, lease, flow, scheduled, restores, requests, crashes>>
    BY <2>1 DEF ScheduleAgent, AgentResult
  <2>5. QED
    BY <1>1, <2>2, <2>3, <2>4, StepStep
<1>8. CASE \E snap \in snaps : Restore(snap)
  <2>1. PICK snap \in snaps : Restore(snap)
    BY <1>8
  <2>2. /\ WriteRun(snap.run, flow) /\ steps' = snap.steps
        /\ restores' = restores + 1
        /\ UNCHANGED <<snaps, pack, lease, scheduled, requests, crashes>>
    BY <2>1 DEF Restore
  <2>3. snap.run \in Runs /\ steps' \in [Steps -> StepStatuses]
    BY <1>1, <2>2 DEF Snapshots
  <2>4. run' \in Runs /\ flow' \in [Flows -> FlowStates]
    BY <1>1, <2>2, <2>3, WriteRunShape
  <2>5. SnapshotsAreQuiescent'
    BY <2>2 DEF Inv, SnapshotsAreQuiescent
  <2>6. /\ scheduled \in Nat /\ restores \in Nat /\ MaxRecovery \in Nat
        /\ restores + 1 \in Nat /\ run'.attempts \in Nat
        /\ scheduled <= (restores + 1) * MaxRecovery
    BY <2>4, LifecycleAssumption DEF Inv, TypeOK, BudgetUsed, Runs
  <2>7. /\ (restores + 1) * MaxRecovery \in Nat
        /\ ((restores + 1) + 1) * MaxRecovery = (restores + 1) * MaxRecovery + MaxRecovery
    BY <2>6, OneMore
  <2>8. BudgetUsed'
    BY <2>2, <2>6, <2>7 DEF BudgetUsed
  <2>9. TypeOK'
    BY <1>1, <2>2, <2>3, <2>4, <2>6 DEF TypeOK
  <2>10. QED
    BY <2>5, <2>8, <2>9 DEF Inv
<1>9. QED
  BY <1>2, <1>3, <1>4, <1>5, <1>6, <1>7, <1>8

-----------------------------------------------------------------------------
(* The theorems                                                            *)

\* The inductive invariant holds in every reachable state.
THEOREM LifecycleInvariant == Spec => []Inv
<1>1. Init => Inv
  <2> SUFFICES ASSUME Init PROVE Inv
    OBVIOUS
  <2>1. TypeOK
    BY DEF Init, TypeOK, Runs, RunStatuses, StepStatuses, FlowStates, FlowPCs, Snapshots
  <2>2. SnapshotsAreQuiescent
    BY DEF Init, SnapshotsAreQuiescent
  <2>3. BudgetUsed
    <3>1. 0 * MaxRecovery \in Nat /\ (0 + 1) * MaxRecovery = 0 * MaxRecovery + MaxRecovery
      BY LifecycleAssumption, OneMore
    <3>2. QED
      BY <3>1, LifecycleAssumption DEF Init, BudgetUsed
  <2>4. QED
    BY <2>1, <2>2, <2>3 DEF Inv
<1>2. Inv /\ [Next]_<<vars, disturbed>> => Inv'
  <2> SUFFICES ASSUME Inv, [Next]_<<vars, disturbed>> PROVE Inv'
    OBVIOUS
  <2>d. disturbed' \in {"no", "yes"}
    BY DEF Inv, TypeOK, Next
  <2>1. CASE \E f \in Flows : Execute(f) \/ FlowStep(f) \/ Crash(f)
    BY <2>1, <2>d, FlowPreserves
  <2>2. CASE \/ Cancel \/ Resume \/ BuildEvidence \/ LeaseExpires
             \/ \E s \in Steps : RetryStep(s) \/ Recover(s)
             \/ \E a \in Agents : ScheduleAgent(a) \/ AgentResult(a)
             \/ \E snap \in snaps : Restore(snap)
    BY <2>2, <2>d, RequestsPreserve
  <2>3. CASE UNCHANGED <<vars, disturbed>>
    BY <2>3 DEF vars, Inv, TypeOK, SnapshotsAreQuiescent, BudgetUsed
  <2>4. QED
    BY <2>1, <2>2, <2>3 DEF Next, Act, Intrude
<1>3. QED
  BY <1>1, <1>2, PTL DEF Spec

\* The run, its steps, its snapshots and the executions keep their shape.
THEOREM LifecycleTyped == Spec => []TypeOK
  BY LifecycleInvariant, PTL DEF Inv

\* No snapshot holds a step in progress or an ended run (_checkpoint).
THEOREM Quiescent == Spec => []SnapshotsAreQuiescent
  BY LifecycleInvariant, PTL DEF Inv

\* decide_for_attempt keeps the recovery budget for any number of executions,
\* agents and users, with one more budget for each restore.
THEOREM Budgeted == Spec => []RecoveryBudget
<1>1. Inv => RecoveryBudget
  BY DEF Inv, BudgetUsed, RecoveryBudget
<1>2. QED
  BY <1>1, LifecycleInvariant, PTL

-----------------------------------------------------------------------------
(* A closed run is left only by a recovery decision                        *)

Reopened == run.status \in Closed /\ run'.status # run.status

\* transition has no move from a closed run.
LEMMA ClosedIsStuck ==
  ASSUME run.status \in Closed, NEW status, Allowed(status)
  PROVE  status = run.status
<1>1. run.status = "COMPLETED" \/ run.status = "CANCELLED"
  BY DEF Closed
<1>2. /\ AllowedTransitions["COMPLETED"] = {}
      /\ AllowedTransitions["CANCELLED"] = {}
  BY DEF AllowedTransitions
<1>3. QED
  BY <1>1, <1>2 DEF Allowed

\* A transition to an allowed status reopens nothing.
LEMMA AllowedNeverReopens ==
  ASSUME TypeOK, NEW status, NEW fl, Allowed(status), Transition(status, fl)
  PROVE  ~Reopened
<1>1. run'.status = status
  BY DEF Transition, WriteRun, TypeOK, Runs
<1>2. QED
  BY <1>1, ClosedIsStuck DEF Reopened

\* A recovery decision adds one to the counter of the run.
LEMMA RecoveryCounts ==
  ASSUME TypeOK, NEW fl, NEW gl, NEW s,
         \/ \E target \in RecoveryTargets : ScheduleRecovery(s, target, fl)
         \/ EscalateRecovery(gl)
  PROVE  run'.attempts = run.attempts + 1
  BY DEF ScheduleRecovery, EscalateRecovery, WriteRun, TypeOK, Runs

\* Whatever overtaken executions, resumes, restores or the queue do, schedule_recovery
\* alone writes the status of a completed or cancelled run.
THEOREM ClosedRuns == Spec => ClosedLeftOnlyByRecovery
<1>1. TypeOK /\ [Next]_<<vars, disturbed>> => [Reopened => run'.attempts = run.attempts + 1]_vars
  <2> SUFFICES ASSUME TypeOK, Next, Reopened
               PROVE  run'.attempts = run.attempts + 1
    BY DEF vars, Reopened
  <2>1. run' # run
    BY DEF Reopened
  <2>2. run.status \in Closed
    BY DEF Reopened
  <2>3. ASSUME NEW f \in Flows, Execute(f) \/ FlowStep(f) \/ Crash(f)
        PROVE  run'.attempts = run.attempts + 1
    <3>1. ~Execute(f)
      BY <2>1, <2>2 DEF Execute, Closed
    <3>2. CASE RecoverMain(f)
      BY <2>1, <3>2, RecoveryCounts DEF RecoverMain
    <3>3. CASE EscalateMain(f)
      BY <2>1, <3>3, RecoveryCounts DEF EscalateMain
    <3>4. ~Implement(f)
      BY <2>1, AllowedNeverReopens DEF Implement
    <3>5. ~Advance(f)
      BY <2>1, AllowedNeverReopens DEF Advance
    <3>6. ~Finish(f)
      BY <2>1, AllowedNeverReopens DEF Finish
    <3>7. ~QueueFails(f)
      BY AllowedNeverReopens DEF QueueFails
    <3>8. ~(AddMain(f) \/ Loop(f) \/ StartStep(f) \/ Capture(f) \/ AcquireLease(f))
      BY <2>1 DEF AddMain, Loop, StartStep, Capture, AcquireLease
    <3>9. ~(Orchestrated(f) \/ Judge(f) \/ CompleteMain(f) \/ FailMain(f))
      BY <2>1 DEF Orchestrated, Judge, CompleteMain, FailMain
    <3>10. ~(Evidence(f) \/ QueueRetries(f) \/ Crash(f))
      BY <2>1 DEF Evidence, QueueRetries, Crash
    <3>11. QED
      BY <2>3, <3>1, <3>2, <3>3, <3>4, <3>5, <3>6, <3>7, <3>8, <3>9, <3>10 DEF FlowStep
  <2>4. ~Cancel /\ ~BuildEvidence /\ ~LeaseExpires
    BY <2>1, <2>2 DEF Cancel, BuildEvidence, LeaseExpires
  <2>5. ~Resume
    BY <2>2 DEF Resume, Closed
  <2>6. ASSUME NEW s \in Steps, RetryStep(s) \/ Recover(s)
        PROVE  run'.attempts = run.attempts + 1
    BY <2>1, <2>6, RecoveryCounts DEF RetryStep, Recover
  <2>7. ASSUME NEW a \in Agents PROVE ~(ScheduleAgent(a) \/ AgentResult(a))
    BY <2>1 DEF ScheduleAgent, AgentResult
  <2>8. ASSUME NEW snap \in snaps PROVE ~Restore(snap)
    BY <2>2 DEF Restore, Restorable, Closed
  <2>9. QED
    BY <2>3, <2>4, <2>5, <2>6, <2>7, <2>8 DEF Next, Act, Intrude
<1>2. QED
  BY <1>1, LifecycleTyped, PTL DEF Spec, ClosedLeftOnlyByRecovery, Reopened

-----------------------------------------------------------------------------
(* A cancel wins unless somebody intrudes                                  *)

\* An execution that has passed its last look at the run.
Committed == {"complete", "review", "test", "deliver", "evidence", "finish"}

\* While nobody intrudes there is one execution, and a run that was cancelled
\* behind its last look is CANCELLED until it ends: what would reopen the run is a
\* recovery of its own, which it makes at another place, or an intrusion.
Undisturbed ==
  disturbed = "no" =>
    /\ \A f, g \in Flows : ~At(f, "idle") /\ ~At(g, "idle") => f = g
    /\ \A f \in Flows :
         flow[f].pc \in Committed /\ run.cancel = "yes" => run.status = "CANCELLED"

CancelInv == Inv /\ Undisturbed /\ CancelWins

\* Only the pc of the one execution that takes a step changes.
LEMMA PcAfter ==
  ASSUME TypeOK, NEW f \in Flows, NEW pc \in FlowPCs, NEW r,
         flow' = Goto(f, pc) \/ WriteRun(r, Goto(f, pc))
  PROVE  flow'[f].pc = pc /\ \A g \in Flows \ {f} : flow'[g].pc = flow[g].pc
  BY DEF TypeOK, Goto, WriteRun, FlowStates

\* A write of the run's row by somebody else moves no execution.
LEMMA PcStays ==
  ASSUME TypeOK, NEW r, WriteRun(r, flow)
  PROVE  \A g \in Flows : flow'[g].pc = flow[g].pc
  BY DEF TypeOK, WriteRun, FlowStates

\* A step of the one execution under way, by where it leads and what it makes of
\* the run.
LEMMA ExecutionMoves ==
  ASSUME TypeOK, Undisturbed, disturbed = "no", NEW f \in Flows, ~At(f, "idle"),
         NEW pc \in FlowPCs, flow'[f].pc = pc,
         \A g \in Flows \ {f} : flow'[g].pc = flow[g].pc,
         run'.cancel = "yes" => /\ run'.status # "COMPLETED"
                                /\ pc \in Committed => run'.status = "CANCELLED"
  PROVE  Undisturbed' /\ CancelWins'
<1>1. \A g \in Flows \ {f} : flow'[g].pc = "idle"
  BY DEF Undisturbed, At
<1>2. "idle" \notin Committed
  BY DEF Committed
<1> QED
  BY <1>1, <1>2 DEF Undisturbed, CancelWins, At

\* Every step of an execution is such a step.
LEMMA FlowKeepsCancel ==
  ASSUME CancelInv, disturbed = "no", NEW f \in Flows, FlowStep(f) \/ Crash(f)
  PROVE  Undisturbed' /\ CancelWins'
<1>t. TypeOK /\ Undisturbed /\ CancelWins /\ run \in Runs
  BY DEF CancelInv, Inv, TypeOK
<1>w. run.cancel = "yes" => run.status # "COMPLETED"
  BY <1>t DEF CancelWins
<1>c. flow[f].pc \in Committed /\ run.cancel = "yes" => run.status = "CANCELLED"
  BY <1>t DEF Undisturbed
<1>b. ~At(f, "idle")
  BY DEF FlowStep, Crash, At, AddMain, Loop, StartStep, Implement, Capture, AcquireLease,
         Orchestrated, Judge, CompleteMain, FailMain, RecoverMain, EscalateMain, Advance,
         Stage, Evidence, Finish, QueueRetries, QueueFails
\* Where the run stays as it is, only an execution that was committed already, or
\* that has just found the run uncancelled, may be committed.
<1>m. ASSUME NEW pc \in FlowPCs, flow' = Goto(f, pc), UNCHANGED run,
             pc \in Committed => (flow[f].pc \in Committed \/ run.cancel = "no")
      PROVE  Undisturbed' /\ CancelWins'
  <2>1. flow'[f].pc = pc /\ \A g \in Flows \ {f} : flow'[g].pc = flow[g].pc
    BY <1>t, <1>m, PcAfter
  <2> QED
    BY <1>t, <1>b, <1>m, <1>w, <1>c, <2>1, ExecutionMoves
<1>r. ASSUME NEW pc \in FlowPCs, NEW r \in Runs, WriteRun(r, Goto(f, pc)),
             r.cancel = "yes" => r.status # "COMPLETED" /\ pc \notin Committed
      PROVE  Undisturbed' /\ CancelWins'
  <2>1. flow'[f].pc = pc /\ \A g \in Flows \ {f} : flow'[g].pc = flow[g].pc
    BY <1>t, <1>r, PcAfter
  <2>2. run' = r
    BY <1>r DEF WriteRun
  <2> QED
    BY <1>t, <1>b, <1>r, <2>1, <2>2, ExecutionMoves
<1>s. ASSUME NEW pc \in FlowPCs, NEW status \in RunStatuses,
             Transition(status, Goto(f, pc)),
             run.cancel = "yes" => status # "COMPLETED" /\ pc \notin Committed
      PROVE  Undisturbed' /\ CancelWins'
  <2> DEFINE r == [run EXCEPT !.status = status]
  <2>1. r \in Runs /\ r.status = status /\ r.cancel = run.cancel
    BY <1>t DEF Runs
  <2>2. WriteRun(r, Goto(f, pc))
    BY <1>s DEF Transition
  <2> HIDE DEF r
  <2> QED
    BY <1>r, <1>s, <2>1, <2>2
<1>1. CASE AddMain(f) \/ Loop(f) \/ StartStep(f) \/ AcquireLease(f) \/ Orchestrated(f)
           \/ FailMain(f) \/ QueueRetries(f) \/ Crash(f)
  <2>1. PICK pc \in FlowPCs : flow' = Goto(f, pc) /\ pc \notin Committed
    BY <1>1 DEF AddMain, Loop, StartStep, AcquireLease, Orchestrated, FailMain,
         QueueRetries, Crash, FlowPCs, Committed
  <2>2. UNCHANGED run
    BY <1>1 DEF AddMain, Loop, StartStep, AcquireLease, Orchestrated, FailMain,
         QueueRetries, Crash
  <2> QED
    BY <1>m, <2>1, <2>2
<1>2. CASE Implement(f)
  <2>1. CASE Transition("IMPLEMENTING", Goto(f, "capture"))
    BY <1>s, <2>1 DEF FlowPCs, RunStatuses, Committed
  <2>2. CASE UNCHANGED run /\ \E pc \in {"capture", "error"} : flow' = Goto(f, pc)
    <3>1. PICK pc \in FlowPCs : flow' = Goto(f, pc) /\ pc \notin Committed
      BY <2>2 DEF FlowPCs, Committed
    <3> QED
      BY <1>m, <2>2, <3>1
  <2> QED
    BY <1>2, <2>1, <2>2 DEF Implement
<1>3. CASE Capture(f)
  <2>1. /\ flow'[f].pc = "acquire" /\ UNCHANGED run
        /\ \A g \in Flows \ {f} : flow'[g].pc = flow[g].pc
    BY <1>3, <1>t DEF Capture, TypeOK
  <2>2. "acquire" \in FlowPCs /\ "acquire" \notin Committed
    BY DEF FlowPCs, Committed
  <2> QED
    BY <1>t, <1>b, <1>w, <2>1, <2>2, ExecutionMoves
<1>4. CASE Judge(f)
  <2>1. UNCHANGED run
    BY <1>4 DEF Judge
  <2>2. CASE Current(f)
    <3>1. run.cancel = "no"
      BY <1>t, <2>2 DEF Current, Cancelled, Runs
    <3>2. PICK pc \in FlowPCs : flow' = Goto(f, pc)
      BY <1>4, <2>2 DEF Judge, FlowPCs, At
    <3> QED
      BY <1>m, <2>1, <3>1, <3>2
  <2>3. CASE ~ Current(f)
    <3>1. flow' = Goto(f, "idle") /\ "idle" \in FlowPCs /\ "idle" \notin Committed
      BY <1>4, <2>3 DEF Judge, FlowPCs, Committed
    <3> QED
      BY <1>m, <2>1, <3>1
  <2> QED
    BY <2>2, <2>3
<1>5. CASE CompleteMain(f) \/ Evidence(f)
  <2>1. UNCHANGED run /\ flow[f].pc \in Committed
    BY <1>5 DEF CompleteMain, Evidence, At, Committed
  <2>2. PICK pc \in FlowPCs : flow' = Goto(f, pc)
    BY <1>5 DEF CompleteMain, Evidence, FlowPCs
  <2> QED
    BY <1>m, <2>1, <2>2
<1>6. CASE RecoverMain(f) \/ EscalateMain(f)
  <2>1. CASE \E target \in RecoveryTargets : ScheduleRecovery(Main, target, Goto(f, "start"))
    <3>1. PICK target \in RecoveryTargets : ScheduleRecovery(Main, target, Goto(f, "start"))
      BY <2>1
    <3> DEFINE r == [run EXCEPT !.status = target, !.attempts = @ + 1]
    <3>2. run.attempts + 1 \in Nat /\ target \in RunStatuses /\ target # "COMPLETED"
      BY <1>t DEF Runs, RecoveryTargets, RunStatuses
    <3>3. r \in Runs /\ r.status = target
      BY <1>t, <3>2 DEF Runs
    <3>4. WriteRun(r, Goto(f, "start"))
      BY <3>1 DEF ScheduleRecovery
    <3> HIDE DEF r
    <3> QED
      BY <1>r, <3>2, <3>3, <3>4 DEF FlowPCs, Committed
  <2>2. CASE EscalateRecovery(Goto(f, "idle"))
    <3> DEFINE r == [run EXCEPT !.status = "FAILED", !.attempts = @ + 1]
    <3>1. run.attempts + 1 \in Nat
      BY <1>t DEF Runs
    <3>2. r \in Runs /\ r.status = "FAILED"
      BY <1>t, <3>1 DEF Runs, RunStatuses, Ended
    <3>3. WriteRun(r, Goto(f, "idle"))
      BY <2>2 DEF EscalateRecovery
    <3> HIDE DEF r
    <3> QED
      BY <1>r, <3>2, <3>3 DEF FlowPCs, Committed
  <2>3. CASE UNCHANGED run /\ \E pc \in {"error", "raised"} : flow' = Goto(f, pc)
    <3>1. PICK pc \in FlowPCs : flow' = Goto(f, pc) /\ pc \notin Committed
      BY <2>3 DEF FlowPCs, Committed
    <3> QED
      BY <1>m, <2>3, <3>1
  <2> QED
    BY <1>6, <2>1, <2>2, <2>3 DEF RecoverMain, EscalateMain
\* The last stages: a run cancelled by now is CANCELLED, which transition leaves
\* alone.
<1>7. CASE Advance(f) \/ Finish(f)
  <2>1. flow[f].pc \in Committed
    BY <1>7 DEF Advance, Finish, Stage, At, Committed
  <2>2. \A status : Allowed(status) /\ status # "CANCELLED" => run.cancel = "no"
    <3>1. run.cancel = "yes" => run.status = "CANCELLED"
      BY <1>c, <2>1
    <3>2. run.cancel \in {"no", "yes"}
      BY <1>t DEF Runs
    <3> QED
      BY <3>1, <3>2, ClosedIsStuck DEF Closed
  <2>3. CASE UNCHANGED run /\ flow' = Goto(f, "raised")
    BY <1>m, <2>3 DEF FlowPCs, Committed
  <2>4. CASE Advance(f) /\ ~ (UNCHANGED run /\ flow' = Goto(f, "raised"))
    <3> DEFINE stage == Stage[flow[f].pc]
    <3>1. /\ stage.to \in RunStatuses /\ stage.next \in FlowPCs
          /\ stage.to # "CANCELLED"
      BY <2>4 DEF Advance, Stage, RunStatuses, FlowPCs
    <3>2. Allowed(stage.to) /\ Transition(stage.to, Goto(f, stage.next))
      BY <2>4 DEF Advance
    <3> HIDE DEF stage
    <3> QED
      BY <1>s, <2>2, <3>1, <3>2
  <2>5. CASE Finish(f) /\ ~ (UNCHANGED run /\ flow' = Goto(f, "raised"))
    <3>1. Allowed("COMPLETED") /\ Transition("COMPLETED", Goto(f, "idle"))
      BY <2>5 DEF Finish
    <3>2. run.cancel = "no"
      BY <2>2, <3>1
    <3> QED
      BY <1>s, <3>1, <3>2 DEF FlowPCs, RunStatuses, Ended, Closed
  <2> QED
    BY <1>7, <2>3, <2>4, <2>5
<1>8. CASE QueueFails(f)
  <2>1. Transition("FAILED", Goto(f, "idle"))
    BY <1>8 DEF QueueFails
  <2> QED
    BY <1>s, <2>1 DEF FlowPCs, RunStatuses, Ended, Committed
<1> QED
  BY <1>1, <1>2, <1>3, <1>4, <1>5, <1>6, <1>7, <1>8 DEF FlowStep

\* What is not a step of an execution leaves the executions where they are.
LEMMA OthersKeepCancel ==
  ASSUME CancelInv, disturbed = "no",
         \A f \in Flows : flow'[f].pc = flow[f].pc,
         run'.cancel = "yes" =>
           /\ run'.status # "COMPLETED"
           /\ \/ run'.status = "CANCELLED"
              \/ UNCHANGED run
              \/ \A f \in Flows : flow[f].pc \notin Committed
  PROVE  Undisturbed' /\ CancelWins'
  BY DEF CancelInv, Undisturbed, CancelWins, At

\* One step.
LEMMA CancelStep ==
  ASSUME CancelInv, [Next]_<<vars, disturbed>>
  PROVE  Undisturbed' /\ CancelWins'
<1> SUFFICES ASSUME disturbed' = "no" PROVE Undisturbed' /\ CancelWins'
  BY DEF Undisturbed, CancelWins
<1>t. TypeOK /\ SnapshotsAreQuiescent /\ run \in Runs
  BY DEF CancelInv, Inv, TypeOK
<1>w. disturbed = "no" => (run.cancel = "yes" => run.status # "COMPLETED")
  BY DEF CancelInv, CancelWins
<1>1. CASE UNCHANGED <<vars, disturbed>>
  BY <1>1, <1>w, OthersKeepCancel DEF vars
<1>2. CASE Act /\ UNCHANGED disturbed
  <2>d. disturbed = "no"
    BY <1>2
  <2>1. CASE \E f \in Flows : FlowStep(f) \/ Crash(f)
    BY <2>d, <2>1, FlowKeepsCancel
  <2>2. CASE Cancel
    <3>1. run' = [run EXCEPT !.status = "CANCELLED", !.cancel = "yes"]
          /\ \A f \in Flows : flow'[f].pc = flow[f].pc
      BY <1>t, <2>2, PcStays DEF Cancel, WriteRun
    <3>2. run'.status = "CANCELLED"
      BY <1>t, <3>1 DEF Runs
    <3> QED
      BY <2>d, <3>1, <3>2, OthersKeepCancel
  <2>3. CASE Resume
    <3>1. run' = [run EXCEPT !.status = "PLANNING"] /\ run.status = "FAILED"
          /\ \A f \in Flows : flow'[f].pc = flow[f].pc
      BY <1>t, <2>3, PcStays DEF Resume, Transition, WriteRun
    <3>2. run'.status = "PLANNING" /\ run'.cancel = run.cancel
      BY <1>t, <3>1 DEF Runs
    <3>3. run.cancel = "yes" => \A f \in Flows : flow[f].pc \notin Committed
      BY <2>d, <3>1 DEF CancelInv, Undisturbed
    <3> QED
      BY <2>d, <3>1, <3>2, <3>3, OthersKeepCancel
  <2>4. CASE UNCHANGED <<run, flow>>
    BY <1>w, <2>d, <2>4, OthersKeepCancel
  <2> QED
    BY <1>2, <2>1, <2>2, <2>3, <2>4
       DEF Act, BuildEvidence, LeaseExpires, RetryStep, ScheduleAgent, AgentResult
<1>3. CASE Intrude /\ disturbed' = IF \E f \in Flows : ~At(f, "idle") THEN "yes" ELSE disturbed
  <2>d. disturbed = "no" /\ \A f \in Flows : flow[f].pc = "idle" /\ flow[f].pc \notin Committed
    BY <1>3 DEF At, Committed
  <2>1. ASSUME NEW f \in Flows, Execute(f) PROVE Undisturbed' /\ CancelWins'
    <3>1. /\ run.cancel = "no"
          /\ \/ flow' = Goto(f, "addStep") /\ UNCHANGED run
             \/ WriteRun([run EXCEPT !.status = "PLANNING"], Goto(f, "addStep"))
      BY <2>1 DEF Execute, Transition
    <3>2. \A g \in Flows \ {f} : flow'[g].pc = flow[g].pc
      BY <1>t, <3>1, PcAfter DEF FlowPCs
    <3>3. run'.cancel = "no"
      BY <1>t, <3>1 DEF WriteRun, Runs
    <3> QED
      BY <2>d, <3>2, <3>3 DEF Undisturbed, CancelWins, At
  <2>2. ASSUME NEW r \in Runs, WriteRun(r, flow), r.status # "COMPLETED"
        PROVE  Undisturbed' /\ CancelWins'
    <3>1. run' = r /\ \A f \in Flows : flow'[f].pc = flow[f].pc
      BY <1>t, <2>2, PcStays DEF WriteRun
    <3> QED
      BY <2>d, <2>2, <3>1, OthersKeepCancel
  <2>3. ASSUME NEW s \in Steps, Recover(s) PROVE Undisturbed' /\ CancelWins'
    <3>1. PICK status \in RunStatuses :
            /\ status # "COMPLETED"
            /\ WriteRun([run EXCEPT !.status = status, !.attempts = @ + 1], flow)
      BY <2>3 DEF Recover, ScheduleRecovery, EscalateRecovery, RecoveryTargets, RunStatuses,
           Ended
    <3> DEFINE r == [run EXCEPT !.status = status, !.attempts = @ + 1]
    <3>2. run.attempts + 1 \in Nat
      BY <1>t DEF Runs
    <3>3. r \in Runs /\ r.status = status
      BY <1>t, <3>2 DEF Runs
    <3> HIDE DEF r
    <3>4. WriteRun(r, flow)
      BY <3>1 DEF r
    <3> QED
      BY <2>2, <3>1, <3>3, <3>4
  <2>4. ASSUME NEW snap \in snaps, Restore(snap) PROVE Undisturbed' /\ CancelWins'
    <3>1. WriteRun(snap.run, flow)
      BY <2>4 DEF Restore
    <3>2. snap.run \in Runs
      BY <1>t, <2>4 DEF TypeOK, Snapshots
    <3>3. snap.run.status # "COMPLETED"
      BY <1>t, <2>4 DEF SnapshotsAreQuiescent, Ended, Closed
    <3> QED
      BY <2>2, <3>1, <3>2, <3>3
  <2> QED
    BY <1>3, <2>1, <2>3, <2>4 DEF Intrude
<1> QED
  BY <1>1, <1>2, <1>3 DEF Next

(* A run that was cancelled never completes, whatever recovery, restore,   *)
(* resume, crash or agent comes, unless somebody intruded on an execution. *)
THEOREM CancelStands == Spec => []CancelWins
<1>1. Init => Undisturbed /\ CancelWins
  BY DEF Init, Undisturbed, CancelWins, At
<1>2. Inv /\ Undisturbed /\ CancelWins /\ [Next]_<<vars, disturbed>> =>
        (Undisturbed /\ CancelWins)'
  BY CancelStep DEF CancelInv
<1> QED
  BY <1>1, <1>2, LifecycleInvariant, PTL DEF Spec
=============================================================================
