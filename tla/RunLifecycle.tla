---------------------------- MODULE RunLifecycle ----------------------------
(***************************************************************************)
(* A run and its steps: RunService (sacm/core/run_service.py) driven by    *)
(* the executions of LocalWorkflow (local_workflow.py), by the recovery    *)
(* decisions of RecoveryService (recovery_service.py), by SnapshotService  *)
(* (snapshot_service.py) and by the API (apps/api/routes/runs.py).         *)
(*                                                                         *)
(* An action is one method of RunService up to its commit.  An execution   *)
(* (a flow) is a process that makes several of them, so that a user, an    *)
(* external agent, another execution of the same run or a crash may act    *)
(* between any two.  updated_at of the run is abstracted to whether it     *)
(* still has the value a flow captured: every write of the row changes it. *)
(***************************************************************************)
EXTENDS Naturals, FiniteSets

CONSTANTS Flows, NoFlow, Main, Agents,
          MaxRecovery,    \* SACM_MAX_RECOVERY_ATTEMPTS
          RequestBound,   \* bound: executions, resumes, retries and recoveries
          RestoreBound,   \* bound: snapshot restores
          CrashBound      \* bound: executions cut off between two commits

ASSUME LifecycleAssumption ==
  /\ MaxRecovery \in Nat /\ RequestBound \in Nat
  /\ RestoreBound \in Nat /\ CrashBound \in Nat
  /\ NoFlow \notin Flows /\ Main \notin Agents

VARIABLES
  run,        \* status, cancellation_requested, recovery_attempt_count
  steps,      \* steps[s]: the status of a step, NONE before it is added
  snaps,      \* the run_snapshots that a restore accepts
  pack,       \* whether an evidence pack is recorded
  lease,      \* the flow that holds the lease of the task
  flow,       \* flow[f]: where an execution stands, and what it captured
  scheduled,  \* how many recoveries were ever scheduled
  restores, requests, crashes,
  disturbed   \* whether anybody intruded on an execution: see Next

vars == <<run, steps, snaps, pack, lease, flow, scheduled, restores, requests,
          crashes>>

Steps == {Main} \cup Agents

Closed == {"COMPLETED", "CANCELLED"}
Ended == Closed \cup {"FAILED"}
RunStatuses == {"CREATED", "PLANNING", "IMPLEMENTING", "REVIEWING", "FIXING",
                "TESTING", "DELIVERING"} \cup Ended
StepStatuses == {"NONE", "PENDING", "RUNNING", "COMPLETED", "FAILED",
                 "CANCELLED", "INTERRUPTED"}

Runs == [status: RunStatuses, cancel: {"no", "yes"}, attempts: Nat]
Snapshots == [run: Runs, steps: [Steps -> StepStatuses]]
FlowPCs == {"idle", "addStep", "loop", "start", "implement", "capture",
            "acquire", "running", "done", "escalated", "raised", "complete",
            "review", "test", "deliver", "evidence", "finish", "fail",
            "failFinal", "recover", "escalate", "error"}
FlowStates == [pc: FlowPCs, fresh: {"fresh", "stale"}]

AllowedTransitions ==
  [CREATED      |-> {"PLANNING", "CANCELLED"},
   PLANNING     |-> {"IMPLEMENTING", "FAILED", "CANCELLED"},
   IMPLEMENTING |-> {"REVIEWING", "FAILED", "CANCELLED"},
   REVIEWING    |-> {"FIXING", "TESTING", "FAILED", "CANCELLED"},
   FIXING       |-> {"IMPLEMENTING", "REVIEWING", "FAILED", "CANCELLED"},
   TESTING      |-> {"FIXING", "DELIVERING", "FAILED", "CANCELLED"},
   DELIVERING   |-> {"COMPLETED", "FAILED", "CANCELLED"},
   FAILED       |-> {"PLANNING", "IMPLEMENTING", "REVIEWING", "FIXING",
                     "TESTING", "CANCELLED"},
   COMPLETED    |-> {},
   CANCELLED    |-> {}]

AllowedFromAnywhere(status) == TRUE

\* transition: the run keeps its status or makes an allowed move.
Allowed(status) ==
  status = run.status \/ status \in AllowedTransitions[run.status]

Init ==
  /\ run = [status |-> "CREATED", cancel |-> "no", attempts |-> 0]
  /\ steps = [s \in Steps |-> "NONE"]
  /\ snaps = {} /\ pack = "no" /\ lease = NoFlow
  /\ flow = [f \in Flows |-> [pc |-> "idle", fresh |-> "stale"]]
  /\ scheduled = 0 /\ restores = 0 /\ requests = 0 /\ crashes = 0
  /\ disturbed = "no"

-----------------------------------------------------------------------------
(* What the methods have in common                                         *)

CheckpointAlways(r, ss) == snaps \cup {[run |-> r, steps |-> ss]}

\* _checkpoint: none while a step is RUNNING.  A snapshot that no restore would
\* accept, or that comes after the last restore, is not kept.
Checkpoint(r, ss) ==
  IF \/ \E s \in Steps : ss[s] = "RUNNING"
     \/ r.status \in Ended \/ restores >= RestoreBound
  THEN snaps
  ELSE snaps \cup {[run |-> r, steps |-> ss]}

At(f, pc) == flow[f].pc = pc
Goto(f, pc) == [flow EXCEPT ![f].pc = pc]

\* A write of the run's row: no captured updated_at is current any more.
WriteRun(r, fl) ==
  /\ run' = r
  /\ flow' = [f \in Flows |-> [fl[f] EXCEPT !.fresh = "stale"]]

\* transition: the status and a checkpoint.
Transition(status, fl) ==
  /\ WriteRun([run EXCEPT !.status = status], fl)
  /\ snaps' = Checkpoint([run EXCEPT !.status = status], steps)

\* A method that changes one step and checkpoints.
SetStep(s, status) ==
  /\ steps' = [steps EXCEPT ![s] = status]
  /\ snaps' = Checkpoint(run, [steps EXCEPT ![s] = status])

Requested == requests < RequestBound /\ requests' = requests + 1

BudgetPlusOne == run.attempts <= MaxRecovery

\* decide_for_attempt: a recovery is scheduled only within the budget.  That
\* the failure is not retryable, diagnosed with low confidence or repeated is
\* left open, an escalation being always possible.
WithinBudget == run.attempts < MaxRecovery

\* How many recoveries were scheduled; it stops counting beyond its bound.
Count(n) == IF n > (restores + 1) * MaxRecovery THEN n ELSE n + 1

ScheduleUncounted(s, target, fl) ==
  LET r  == [run EXCEPT !.status = target]
  IN  /\ WithinBudget
      /\ WriteRun(r, fl)
      /\ steps' = [steps EXCEPT ![s] = "PENDING"]
      /\ snaps' = Checkpoint(r, [steps EXCEPT ![s] = "PENDING"])
      /\ scheduled' = Count(scheduled)

\* handle and schedule_recovery for a FAILED step: the run's status is written
\* without regard to the allowed transitions.
ScheduleRecovery(s, target, fl) ==
  LET r  == [run EXCEPT !.status = target, !.attempts = @ + 1]
  IN  /\ WithinBudget
      /\ WriteRun(r, fl)
      /\ steps' = [steps EXCEPT ![s] = "PENDING"]
      /\ snaps' = Checkpoint(r, [steps EXCEPT ![s] = "PENDING"])
      /\ scheduled' = Count(scheduled)

EscalateRecovery(fl) ==
  /\ WriteRun([run EXCEPT !.status = "FAILED", !.attempts = @ + 1], fl)
  /\ UNCHANGED <<steps, snaps, scheduled>>

\* _TARGET_BY_ACTION, but for ESCALATE.
RecoveryTargets == {"FIXING", "PLANNING", "IMPLEMENTING"}

-----------------------------------------------------------------------------
(* LocalWorkflow.execute                                                   *)

Execute(f) ==
  /\ At(f, "idle") /\ Requested
  /\ run.cancel = "no"
  /\ \/ /\ run.status \in {"CREATED", "FAILED"}
        /\ Transition("PLANNING", Goto(f, "addStep"))
     \/ /\ run.status \in {"PLANNING", "FIXING", "IMPLEMENTING"}
        /\ flow' = Goto(f, "addStep")
        /\ UNCHANGED <<run, snaps>>
  /\ UNCHANGED <<steps, pack, lease, scheduled, restores, crashes>>

\* add_step returns the step of an earlier execution.
AddMain(f) ==
  /\ At(f, "addStep")
  /\ IF steps[Main] = "NONE" THEN SetStep(Main, "PENDING")
     ELSE UNCHANGED <<steps, snaps>>
  /\ flow' = Goto(f, "loop")
  /\ UNCHANGED <<run, pack, lease, scheduled, restores, requests, crashes>>

\* The loop starts with the recovery of a step that failed before.
Loop(f) ==
  /\ At(f, "loop")
  /\ flow' = Goto(f, IF steps[Main] = "FAILED" THEN "recover" ELSE "start")
  /\ UNCHANGED <<run, steps, snaps, pack, lease, scheduled, restores, requests,
                 crashes>>

\* start_step: outside the try block, so an exception ends the execution.
StartStep(f) ==
  /\ At(f, "start")
  /\ IF steps[Main] \in {"PENDING", "RUNNING"}
     THEN steps' = [steps EXCEPT ![Main] = "RUNNING"] /\ flow' = Goto(f, "implement")
     ELSE flow' = Goto(f, "error") /\ UNCHANGED steps
  /\ UNCHANGED <<run, snaps, pack, lease, scheduled, restores, requests, crashes>>

Implement(f) ==
  /\ At(f, "implement")
  /\ \/ /\ run.status = "IMPLEMENTING"
        /\ flow' = Goto(f, "capture") /\ UNCHANGED <<run, snaps>>
     \/ /\ run.status # "IMPLEMENTING" /\ Allowed("IMPLEMENTING")
        /\ Transition("IMPLEMENTING", Goto(f, "capture"))
     \/ /\ ~Allowed("IMPLEMENTING")
        /\ flow' = Goto(f, "error") /\ UNCHANGED <<run, snaps>>
  /\ UNCHANGED <<steps, pack, lease, scheduled, restores, requests, crashes>>

Capture(f) ==
  /\ At(f, "capture")
  /\ flow' = [flow EXCEPT ![f] = [pc |-> "acquire", fresh |-> "fresh"]]
  /\ UNCHANGED <<run, steps, snaps, pack, lease, scheduled, restores, requests,
                 crashes>>

\* run_task: one orchestrator per task at a time.
AcquireLease(f) ==
  /\ At(f, "acquire")
  /\ \/ lease = NoFlow /\ lease' = f /\ flow' = Goto(f, "running")
     \/ lease # NoFlow /\ flow' = Goto(f, "raised") /\ UNCHANGED lease
  /\ UNCHANGED <<run, steps, snaps, pack, scheduled, restores, requests, crashes>>

\* run_task ends with a verified task, with an escalation, or raises.
Orchestrated(f) ==
  /\ At(f, "running")
  /\ \E outcome \in {"done", "escalated", "raised"} : flow' = Goto(f, outcome)
  /\ lease' = IF lease = f THEN NoFlow ELSE lease
  /\ UNCHANGED <<run, steps, snaps, pack, scheduled, restores, requests, crashes>>

\* The request to cancel is not looked at.
CancelledByStatus == run.status = "CANCELLED"

Cancelled == run.cancel = "yes" \/ run.status = "CANCELLED"

\* The run is as it was captured, so the outcome counts.
Current(f) == ~Cancelled /\ flow[f].fresh = "fresh"

\* interrupt_step leaves a finished step alone.
Interrupted(status) ==
  IF status \in {"COMPLETED", "FAILED", "CANCELLED", "INTERRUPTED"} THEN status
  ELSE IF Cancelled THEN "CANCELLED" ELSE "INTERRUPTED"

Judge(f) ==
  /\ flow[f].pc \in {"done", "escalated", "raised"}
  /\ IF Current(f)
     THEN /\ flow' = Goto(f, CASE At(f, "done")      -> "complete"
                               [] At(f, "escalated") -> "failFinal"
                               [] At(f, "raised")    -> "fail")
          /\ UNCHANGED <<steps, snaps>>
     ELSE /\ flow' = Goto(f, "idle")
          /\ IF Interrupted(steps[Main]) = steps[Main] THEN UNCHANGED <<steps, snaps>>
             ELSE SetStep(Main, Interrupted(steps[Main]))
  /\ UNCHANGED <<run, pack, lease, scheduled, restores, requests, crashes>>

\* complete_step
CompleteMain(f) ==
  /\ At(f, "complete")
  /\ \/ /\ steps[Main] \in {"PENDING", "RUNNING"}
        /\ SetStep(Main, "COMPLETED") /\ flow' = Goto(f, "review")
     \/ /\ steps[Main] = "COMPLETED"
        /\ flow' = Goto(f, "review") /\ UNCHANGED <<steps, snaps>>
     \/ /\ steps[Main] \notin {"PENDING", "RUNNING", "COMPLETED"}
        /\ flow' = Goto(f, "raised") /\ UNCHANGED <<steps, snaps>>
  /\ UNCHANGED <<run, pack, lease, scheduled, restores, requests, crashes>>

\* fail_step: whatever the status of the step is by now.
FailMain(f) ==
  /\ flow[f].pc \in {"fail", "failFinal"}
  /\ SetStep(Main, "FAILED")
  /\ flow' = Goto(f, IF At(f, "fail") THEN "recover" ELSE "escalate")
  /\ UNCHANGED <<run, pack, lease, scheduled, restores, requests, crashes>>

\* handle after a failure, or for a step found FAILED.
RecoverMain(f) ==
  /\ At(f, "recover")
  /\ \/ /\ steps[Main] = "FAILED"
        /\ \/ \E target \in RecoveryTargets :
                ScheduleRecovery(Main, target, Goto(f, "start"))
           \/ EscalateRecovery(Goto(f, "idle"))
     \/ /\ steps[Main] # "FAILED"
        /\ flow' = Goto(f, "error") /\ UNCHANGED <<run, steps, snaps, scheduled>>
  /\ UNCHANGED <<pack, lease, restores, requests, crashes>>

\* handle for an escalation of the orchestrator, inside the try block.
EscalateMain(f) ==
  /\ At(f, "escalate")
  /\ \/ steps[Main] = "FAILED" /\ EscalateRecovery(Goto(f, "idle"))
     \/ /\ steps[Main] # "FAILED"
        /\ flow' = Goto(f, "raised") /\ UNCHANGED <<run, steps, snaps, scheduled>>
  /\ UNCHANGED <<pack, lease, restores, requests, crashes>>

Stage == [review  |-> [to |-> "REVIEWING",  next |-> "test"],
          test    |-> [to |-> "TESTING",    next |-> "deliver"],
          deliver |-> [to |-> "DELIVERING", next |-> "evidence"]]

Advance(f) ==
  /\ flow[f].pc \in DOMAIN Stage
  /\ LET stage == Stage[flow[f].pc]
     IN  IF Allowed(stage.to) THEN Transition(stage.to, Goto(f, stage.next))
         ELSE flow' = Goto(f, "raised") /\ UNCHANGED <<run, snaps>>
  /\ UNCHANGED <<steps, pack, lease, scheduled, restores, requests, crashes>>

\* An evidence pack is built if there is none; its verification may fail.
Evidence(f) ==
  /\ At(f, "evidence")
  /\ pack' = "yes"
  /\ \E pc \in {"finish", "raised"} : flow' = Goto(f, pc)
  /\ UNCHANGED <<run, steps, snaps, lease, scheduled, restores, requests, crashes>>

\* _validate_completion (the supply chain of a production run is left open).
Completable ==
  pack = "yes" /\ \A s \in Steps : steps[s] \in {"NONE", "COMPLETED"}

Finish(f) ==
  /\ At(f, "finish")
  /\ \/ /\ Allowed("COMPLETED") /\ Completable
        /\ Transition("COMPLETED", Goto(f, "idle"))
     \/ flow' = Goto(f, "raised") /\ UNCHANGED <<run, snaps>>
  /\ UNCHANGED <<steps, pack, lease, scheduled, restores, requests, crashes>>

\* The queue after an exception: it tries again later, or fails the run once
\* the attempts of the job are exhausted.
QueueRetries(f) ==
  /\ At(f, "error")
  /\ flow' = Goto(f, "idle")
  /\ UNCHANGED <<run, steps, snaps, pack, lease, scheduled, restores, requests,
                 crashes>>

QueueFails(f) ==
  /\ At(f, "error")
  /\ run.status \notin Ended /\ Allowed("FAILED")
  /\ Transition("FAILED", Goto(f, "idle"))
  /\ UNCHANGED <<steps, pack, lease, scheduled, restores, requests, crashes>>

FlowStep(f) ==
  \/ AddMain(f) \/ Loop(f) \/ StartStep(f) \/ Implement(f) \/ Capture(f)
  \/ AcquireLease(f) \/ Orchestrated(f) \/ Judge(f) \/ CompleteMain(f)
  \/ FailMain(f) \/ RecoverMain(f) \/ EscalateMain(f) \/ Advance(f)
  \/ Evidence(f) \/ Finish(f) \/ QueueRetries(f) \/ QueueFails(f)

-----------------------------------------------------------------------------
(* The API, external agents and failures                                   *)

Cancel ==
  /\ run.status \notin Closed
  /\ WriteRun([run EXCEPT !.status = "CANCELLED", !.cancel = "yes"], flow)
  /\ UNCHANGED <<steps, snaps, pack, lease, scheduled, restores, requests, crashes>>

Resume ==
  /\ run.status = "FAILED" /\ Requested
  /\ Transition("PLANNING", flow)
  /\ UNCHANGED <<steps, pack, lease, scheduled, restores, crashes>>

RetryStep(s) ==
  /\ steps[s] = "FAILED" /\ Requested
  /\ SetStep(s, "PENDING")
  /\ UNCHANGED <<run, pack, lease, flow, scheduled, restores, crashes>>

\* handle for a FAILED step, by POST /recover or after an agent's failure.
Recover(s) ==
  /\ steps[s] = "FAILED" /\ Requested
  /\ \/ \E target \in RecoveryTargets : ScheduleRecovery(s, target, flow)
     \/ EscalateRecovery(flow)
  /\ UNCHANGED <<pack, lease, restores, crashes>>

ScheduleAgent(a) ==
  /\ steps[a] = "NONE"
  /\ SetStep(a, "PENDING")
  /\ UNCHANGED <<run, pack, lease, flow, scheduled, restores, requests, crashes>>

\* The first commit of an agent's result.
AgentResult(a) ==
  /\ steps[a] = "PENDING"
  /\ \E status \in {"COMPLETED", "FAILED"} : SetStep(a, status)
  /\ UNCHANGED <<run, pack, lease, flow, scheduled, restores, requests, crashes>>

\* Only a failed run is restored, from a snapshot with the same steps.
Restorable(snap) ==
  /\ run.status = "FAILED"
  /\ \A s \in Steps : snap.steps[s] = "NONE" <=> steps[s] = "NONE"

Restore(snap) ==
  /\ restores < RestoreBound /\ Restorable(snap)
  /\ restores' = restores + 1
  /\ WriteRun(snap.run, flow)
  /\ steps' = snap.steps
  /\ UNCHANGED <<snaps, pack, lease, scheduled, requests, crashes>>

BuildEvidence ==
  /\ pack = "no" /\ pack' = "yes"
  /\ UNCHANGED <<run, steps, snaps, lease, flow, scheduled, restores, requests,
                 crashes>>

Crash(f) ==
  /\ ~At(f, "idle") /\ crashes < CrashBound
  /\ crashes' = crashes + 1
  /\ flow' = Goto(f, "idle")
  /\ UNCHANGED <<run, steps, snaps, pack, lease, scheduled, restores, requests>>

\* The lease of a dead orchestrator runs out.
LeaseExpires ==
  /\ lease # NoFlow /\ ~At(lease, "running")
  /\ lease' = NoFlow
  /\ UNCHANGED <<run, steps, snaps, pack, flow, scheduled, restores, requests,
                 crashes>>

-----------------------------------------------------------------------------
\* The steps of executions, and what leaves the run to them.
Act ==
  \/ \E f \in Flows : FlowStep(f) \/ Crash(f)
  \/ Cancel \/ Resume \/ BuildEvidence \/ LeaseExpires
  \/ \E s \in Steps : RetryStep(s)
  \/ \E a \in Agents : ScheduleAgent(a) \/ AgentResult(a)

\* What no lock keeps out while an execution is under way, though it takes the
\* run to another state behind its back.
Intrude ==
  \/ \E f \in Flows : Execute(f)
  \/ \E s \in Steps : Recover(s)
  \/ \E snap \in snaps : Restore(snap)

Next ==
  \/ Act /\ UNCHANGED disturbed
  \/ /\ Intrude
     /\ disturbed' = IF \E f \in Flows : ~At(f, "idle") THEN "yes" ELSE disturbed

Spec == Init /\ [][Next]_<<vars, disturbed>>

\* An execution that started goes on: its calls return or time out.
FairSpec == Spec /\ \A f \in Flows : WF_vars(FlowStep(f))

-----------------------------------------------------------------------------
(* Properties                                                              *)

\* The run, its steps, its snapshots and the executions keep their shape.
TypeOK ==
  /\ run \in Runs
  /\ steps \in [Steps -> StepStatuses]
  /\ snaps \subseteq Snapshots
  /\ pack \in {"no", "yes"}
  /\ lease \in Flows \cup {NoFlow}
  /\ flow \in [Flows -> FlowStates]
  /\ scheduled \in Nat /\ restores \in Nat /\ requests \in Nat /\ crashes \in Nat
  /\ disturbed \in {"no", "yes"}

\* However many executions, users and agents ask for recovery, MaxRecovery
\* recoveries are scheduled, and as many again after each restore: a restore
\* brings the counter of its snapshot back, and with it the budget.
RecoveryBudget == scheduled <= (restores + 1) * MaxRecovery

\* A snapshot never holds a RUNNING step or an ended run: no restore can bring
\* back a step that nobody executes.
SnapshotsAreQuiescent ==
  \A snap \in snaps : /\ snap.run.status \notin Ended
                      /\ \A s \in Steps : snap.steps[s] # "RUNNING"

\* Whatever an overtaken execution, a resume, a restore or the queue does, a
\* completed or cancelled run is left only by a recovery decision.
ClosedLeftOnlyByRecovery ==
  [][run.status \in Closed /\ run'.status # run.status
     => run'.attempts = run.attempts + 1]_vars

\* tests/test_run_service.py, "failed_run_can_resume_and_cancelled_run_cannot",
\* and _ALLOWED_TRANSITIONS: a cancelled run stays cancelled.
CancelledStaysCancelled ==
  [][run.status = "CANCELLED" => run'.status = "CANCELLED"]_vars

\* A run that was cancelled never completes, not even when the cancel comes
\* after the last test of the execution or a recovery or a restore reopens the
\* run, unless another execution, a restore or a recovery decided through the API
\* came in while an execution was under way.
CancelWins ==
  disturbed = "no" => (run.cancel = "yes" => run.status # "COMPLETED")

\* The while loop of execute ends: every execution returns.
ExecutionReturns == \A f \in Flows : ~At(f, "idle") ~> At(f, "idle")
=============================================================================
