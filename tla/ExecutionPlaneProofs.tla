------------------------ MODULE ExecutionPlaneProofs ------------------------
(***************************************************************************)
(* Proofs about ExecutionPlane, for any set of executors, any numbers of   *)
(* attempts and recoveries, and whether or not the writes of requests      *)
(* overlap.  What bounds the leases of a job is the counter of attempts,   *)
(* which acquire_lease tests and a requeue may reset, so the inductive     *)
(* invariant ties the leases granted to that counter: see Charged.         *)
(*                                                                         *)
(* That one job works at a time is proved for writes that do not overlap.  *)
(* It rests on when jobs are created (see SoleWork): never while another   *)
(* one works or a request is between the commits of a job and its step.    *)
(*                                                                         *)
(* What is proved of a host is a fact about its registration, its disk and *)
(* its two requests (HostSound); only enrollment tokens are shared between *)
(* hosts (InvitesFit).                                                     *)
(***************************************************************************)
EXTENDS ExecutionPlane, ExecutorIdentity, FiniteSetTheorems, TLAPS

\* A job that does not exist has made no attempt.
FreshJobs == \A k \in Keys : jobs[k].state = "NONE" => jobs[k].attempt = 0

\* Leases granted since the last reset are counted as attempts of the job, and
\* every reset explains max_attempts of the others.
Charged ==
  \A k \in Keys : /\ jobs[k].attempt <= MaxAttempts
                  /\ issued[k] <= MaxAttempts * resets[k] + jobs[k].attempt

Inv == TypeOK /\ FreshJobs /\ Charged

\* Rows that keep their attempts, none of which is deleted.
Keeps(js) ==
  /\ js \in [Keys -> Job]
  /\ \A k \in Keys : /\ js[k].attempt = jobs[k].attempt
                     /\ js[k].state = "NONE" => jobs[k].state = "NONE"

-----------------------------------------------------------------------------
(* What the operators the actions share preserve                           *)

\* A product of naturals is a natural, and one factor more adds the other.
LEMMA OneMore == \A m, n \in Nat : /\ m * n \in Nat
                                   /\ m * (n + 1) = m * n + m
  BY Z3

\* Key 0 is the key of the first execution.
LEMMA FirstKey == 0 \in Keys
  BY PlaneAssumption DEF Keys

\* The constant rows are rows.
LEMMA NewRows ==
  /\ Queued \in Job /\ Queued.attempt = 0 /\ Queued.state = "QUEUED"
  /\ NoJob \in Job /\ IdleDaemon \in Daemon /\ NoRequest \in Request
  BY FirstKey DEF Queued, NoJob, Job, JobStates, Active, Leased, IdleDaemon,
                  Daemon, NoRequest, Request

\* A release keeps the attempts of a job.
LEMMA ReleasedRow ==
  ASSUME NEW job \in Job, NEW attempt
  PROVE  /\ Released(job, attempt) \in Job
         /\ Released(job, attempt).attempt = job.attempt
         /\ Released(job, attempt).state # "NONE"
  BY DEF Released, Job, JobStates, Active

\* So do the releases of several jobs,
LEMMA ReleaseAllKeeps ==
  ASSUME TypeOK, NEW ks
  PROVE  Keeps(ReleaseAll(ks))
<1>1. \A k \in Keys : jobs[k] \in Job
  BY DEF TypeOK
<1>2. \A k \in Keys : /\ Released(jobs[k], jobs[k].attempt) \in Job
                      /\ Released(jobs[k], jobs[k].attempt).attempt = jobs[k].attempt
                      /\ Released(jobs[k], jobs[k].attempt).state # "NONE"
  BY <1>1, ReleasedRow
<1>3. QED
  BY <1>1, <1>2 DEF Keeps, ReleaseAll

\* a change of one row's state,
LEMMA SetStateKeeps ==
  ASSUME TypeOK, NEW k \in Keys, NEW state \in JobStates \ {"NONE"}
  PROVE  Keeps([jobs EXCEPT ![k].state = state])
  BY DEF TypeOK, Keeps, Job

\* and the scheduling of a job.
LEMMA ScheduledKeeps ==
  ASSUME FreshJobs, NEW js, Keeps(js), NEW n
  PROVE  Keeps(Scheduled(js, n))
<1>1. CASE js[n].state = "NONE" /\ n \in Keys
  <2>1. jobs[n].state = "NONE" /\ jobs[n].attempt = 0
    BY <1>1 DEF Keeps, FreshJobs
  <2>2. QED
    BY <1>1, <2>1, NewRows DEF Keeps, Scheduled
<1>2. CASE ~(js[n].state = "NONE" /\ n \in Keys)
  <2>1. Scheduled(js, n) = js
    BY <1>2 DEF Scheduled, Keeps
  <2>2. QED
    BY <2>1
<1>3. QED
  BY <1>1, <1>2

\* A step that keeps the attempts and grants no lease preserves the budget.
LEMMA KeptBudget ==
  ASSUME Inv, Keeps(jobs'), UNCHANGED <<issued, resets>>
  PROVE  FreshJobs' /\ Charged' /\ jobs' \in [Keys -> Job]
         /\ issued' \in [Keys -> Nat] /\ resets' \in [Keys -> Nat]
  BY DEF Inv, TypeOK, FreshJobs, Charged, Keeps

\* The answer to a request leaves a daemon.
LEMMA AnsweredShape ==
  ASSUME TypeOK, NEW e \in Executors,
         NEW pc \in {"idle", "leased", "running", "stopped"}
  PROVE  Answered(e, pc) \in [Executors -> Daemon]
<1>1. [IdleDaemon EXCEPT !.pc = pc] \in Daemon
  BY NewRows DEF Daemon
<1>2. QED
  BY <1>1 DEF TypeOK, Answered, Daemon

\* What a request notes of its job.
LEMMA OpShape ==
  ASSUME TypeOK, NEW e \in Executors,
         NEW op \in Kinds \cup {"start", "release"}
  PROVE  [request EXCEPT ![e] = Op(op, e)] \in [Executors -> Request]
<1>1. daemon[e] \in Daemon
  BY DEF TypeOK
<1>2. daemon[e].job \in Keys /\ daemon[e].token \in Nat
  BY <1>1 DEF Daemon
<1>3. jobs[daemon[e].job].attempt \in Nat
  BY <1>2 DEF TypeOK, Job
<1>4. Op(op, e) \in Request
  BY <1>2, <1>3 DEF Op, Request
<1>5. QED
  BY <1>4 DEF TypeOK

\* The end of a request, and its next commit.
LEMMA RequestShape ==
  ASSUME TypeOK, NEW e \in Executors
  PROVE  /\ Done(e) => request' \in [Executors -> Request]
         /\ \A op \in {"startRun", "complete", "await"} :
              Then(e, op) => request' \in [Executors -> Request]
<1>1. Done(e) => request' \in [Executors -> Request]
  BY NewRows DEF TypeOK, Done
<1>2. ASSUME NEW op \in {"startRun", "complete", "await"}, Then(e, op)
      PROVE  request' \in [Executors -> Request]
  BY <1>2 DEF TypeOK, Then, Request
<1>3. QED
  BY <1>1, <1>2

\* The refusal of a request is an answer.
LEMMA RefusalShape ==
  ASSUME NEW e, NEW k, NEW token
  PROVE  Refusal(e, k, token) \in {"idle", "stopped"}
  BY DEF Refusal

-----------------------------------------------------------------------------
(* Initial states                                                          *)

\* The invariant holds of a run that was just created.
LEMMA InitInv == Init => Inv
<1> SUFFICES ASSUME Init PROVE Inv
  OBVIOUS
<1>1. /\ jobs \in [Keys -> Job] /\ daemon \in [Executors -> Daemon]
      /\ request \in [Executors -> Request]
  BY NewRows DEF Init
<1>2. /\ run \in Run /\ step \in StepStatuses
      /\ issued \in [Keys -> Nat] /\ resets \in [Keys -> Nat]
      /\ executors \in [Executors -> {"NONE", "ACTIVE", "OFFLINE", "REVOKED"}]
      /\ backend \in {"idle", "schedule"} /\ requeues \in Nat /\ crashes \in Nat
  BY DEF Init, Run, RunStatuses, StepStatuses
<1>3. FreshJobs /\ Charged
  <2>1. \A k \in Keys : jobs[k].attempt = 0 /\ issued[k] = 0 /\ resets[k] = 0
    BY DEF Init, NoJob
  <2>2. MaxAttempts * 0 = 0 /\ MaxAttempts \in Nat
    BY PlaneAssumption
  <2>3. QED
    BY <2>1, <2>2 DEF FreshJobs, Charged
<1>4. QED
  BY <1>1, <1>2, <1>3 DEF Inv, TypeOK

-----------------------------------------------------------------------------
(* Steps that grant no lease                                               *)

\* What is left to show of a step that keeps the attempts and the leases.
Rest ==
  /\ run' \in Run /\ step' \in StepStatuses
  /\ executors' \in [Executors -> {"NONE", "ACTIVE", "OFFLINE", "REVOKED"}]
  /\ daemon' \in [Executors -> Daemon] /\ request' \in [Executors -> Request]
  /\ backend' \in {"idle", "schedule"} /\ requeues' \in Nat /\ crashes' \in Nat

\* Such a step preserves the invariant.
LEMMA KeptStep ==
  ASSUME Inv, Keeps(jobs'), UNCHANGED <<issued, resets>>, Rest
  PROVE  Inv'
  BY KeptBudget DEF Inv, TypeOK, Rest

\* A step that changes no job at all keeps them.
LEMMA UnchangedKeeps ==
  ASSUME TypeOK, UNCHANGED jobs
  PROVE  Keeps(jobs')
  BY DEF TypeOK, Keeps

\* The recovery of leases, their expiry, and the registrations.
LEMMA LeaseSteps ==
  ASSUME Inv,
         \/ RecoverOrphaned \/ \E k \in Keys : Expire(k)
         \/ \E e \in Executors : Enroll(e) \/ GoOffline(e) \/ Revoke(e) \/ Heartbeat(e)
  PROVE  Inv'
<1> USE DEF Inv
<1>1. CASE RecoverOrphaned
  <2>1. Keeps(jobs')
    BY <1>1, ReleaseAllKeeps DEF RecoverOrphaned
  <2>2. Rest
    BY <1>1 DEF RecoverOrphaned, TypeOK, Rest, StepStatuses
  <2>3. QED
    BY <1>1, <2>1, <2>2, KeptStep DEF RecoverOrphaned
<1>2. ASSUME NEW k \in Keys, Expire(k) PROVE Inv'
  <2>1. Keeps(jobs')
    BY <1>2 DEF Expire, TypeOK, Keeps, Job, Leased
  <2>2. Rest
    BY <1>2 DEF Expire, TypeOK, Rest
  <2>3. QED
    BY <1>2, <2>1, <2>2, KeptStep DEF Expire
<1>3. ASSUME NEW e \in Executors, Enroll(e) \/ GoOffline(e) PROVE Inv'
  <2>1. Keeps(jobs') /\ Rest
    BY <1>3, UnchangedKeeps DEF Enroll, GoOffline, TypeOK, Rest
  <2>2. QED
    BY <1>3, <2>1, KeptStep DEF Enroll, GoOffline
<1>4. ASSUME NEW e \in Executors, Revoke(e) PROVE Inv'
  <2>1. Keeps(jobs')
    BY <1>4, ReleaseAllKeeps DEF Revoke
  <2>2. Rest
    BY <1>4 DEF Revoke, TypeOK, Rest
  <2>3. QED
    BY <1>4, <2>1, <2>2, KeptStep DEF Revoke
<1>5. ASSUME NEW e \in Executors, Heartbeat(e) PROVE Inv'
  <2>1. Keeps(jobs')
    BY <1>5, UnchangedKeeps DEF Heartbeat
  <2>2. Rest
    BY <1>5 DEF Heartbeat, TypeOK, Rest, Daemon
  <2>3. QED
    BY <1>5, <2>1, <2>2, KeptStep DEF Heartbeat
<1>6. QED
  BY <1>1, <1>2, <1>3, <1>4, <1>5

\* A scheduled recovery or an escalation leaves a run and a step.
LEMMA RecoveryShape ==
  ASSUME TypeOK
  PROVE  /\ \A target \in RecoveryTargets : RecoverySchedules(target) =>
              run' \in Run /\ step' \in StepStatuses
         /\ RecoveryEscalates => run' \in Run /\ step' \in StepStatuses
<1>1. run.attempts \in Nat /\ run.attempts + 1 \in Nat
  BY DEF TypeOK, Run
<1>2. \A target \in RecoveryTargets : target \in RunStatuses
  BY PlaneAssumption DEF RunStatuses
<1>3. QED
  BY <1>1, <1>2 DEF RecoverySchedules, RecoveryEscalates, Run, RunStatuses,
                    StepStatuses

\* The scheduling of runs, their cancellation and the recovery of their step.
LEMMA RunSteps ==
  ASSUME Inv, ExecuteRun \/ ScheduleRun \/ CancelRun \/ RecoverStep
  PROVE  Inv'
<1> USE DEF Inv
<1>1. CASE ExecuteRun
  <2>1. Keeps(jobs')
    BY <1>1, UnchangedKeeps DEF ExecuteRun
  <2>2. Rest
    BY <1>1 DEF ExecuteRun, TypeOK, Rest, Run, RunStatuses
  <2>3. QED
    BY <1>1, <2>1, <2>2, KeptStep DEF ExecuteRun
<1>2. CASE ScheduleRun
  <2>1. Keeps(jobs)
    BY DEF TypeOK, Keeps
  <2>2. Keeps(jobs')
    BY <1>2, <2>1, ScheduledKeeps DEF ScheduleRun
  <2>3. Rest
    BY <1>2 DEF ScheduleRun, TypeOK, Rest, StepStatuses
  <2>4. QED
    BY <1>2, <2>2, <2>3, KeptStep DEF ScheduleRun
<1>3. CASE CancelRun
  <2>1. Keeps(jobs')
    BY <1>3 DEF CancelRun, TypeOK, Keeps, Job, JobStates
  <2>2. Rest
    BY <1>3 DEF CancelRun, TypeOK, Rest, Run, RunStatuses
  <2>3. QED
    BY <1>3, <2>1, <2>2, KeptStep DEF CancelRun
<1>4. CASE RecoverStep
  <2>1. Keeps(jobs')
    BY <1>4, UnchangedKeeps DEF RecoverStep
  <2>2. run' \in Run /\ step' \in StepStatuses
    BY <1>4, RecoveryShape DEF RecoverStep
  <2>3. Rest
    BY <1>4, <2>2 DEF RecoverStep, TypeOK, Rest
  <2>4. QED
    BY <1>4, <2>1, <2>3, KeptStep DEF RecoverStep
<1>5. QED
  BY <1>1, <1>2, <1>3, <1>4

\* The requests of a daemon, before they write.
LEMMA WorkSteps ==
  ASSUME Inv, NEW e \in Executors, Work(e) \/ Drop(e) \/ Crash(e)
  PROVE  Inv'
<1> USE DEF Inv
<1>1. [IdleDaemon EXCEPT !.pc = Refusal(e, daemon[e].job, daemon[e].token)] \in Daemon
  BY NewRows, RefusalShape DEF Daemon
<1>2. CASE BeginLeased(e)
  <2>1. Keeps(jobs')
    BY <1>2, UnchangedKeeps DEF BeginLeased
  <2>2. request' \in [Executors -> Request]
    BY <1>2, OpShape DEF BeginLeased, TypeOK
  <2>3. daemon' \in [Executors -> Daemon]
    BY <1>1, <1>2, NewRows DEF BeginLeased, TypeOK, Daemon
  <2>4. Rest
    BY <1>2, <2>2, <2>3 DEF BeginLeased, TypeOK, Rest
  <2>5. QED
    BY <1>2, <2>1, <2>4, KeptStep DEF BeginLeased
<1>3. ASSUME NEW kind \in Kinds, BeginFinish(e, kind) PROVE Inv'
  <2>1. Keeps(jobs')
    BY <1>3, UnchangedKeeps DEF BeginFinish
  <2>2. request' \in [Executors -> Request]
    BY <1>3, OpShape DEF BeginFinish, TypeOK
  <2>3. daemon' \in [Executors -> Daemon]
    BY <1>1, <1>3 DEF BeginFinish, TypeOK
  <2>4. Rest
    BY <1>3, <2>2, <2>3 DEF BeginFinish, TypeOK, Rest
  <2>5. QED
    BY <1>3, <2>1, <2>4, KeptStep DEF BeginFinish
<1>4. CASE Drop(e)
  <2>1. Keeps(jobs') /\ Rest
    BY <1>4, UnchangedKeeps, NewRows DEF Drop, TypeOK, Rest
  <2>2. QED
    BY <1>4, <2>1, KeptStep DEF Drop
<1>5. CASE Crash(e)
  <2>1. request' \in [Executors -> Request]
    BY <1>5, RequestShape DEF Crash
  <2>2. Keeps(jobs') /\ Rest
    BY <1>5, <2>1, UnchangedKeeps DEF Crash, TypeOK, Rest
  <2>3. QED
    BY <1>5, <2>2, KeptStep DEF Crash
<1>6. QED
  BY <1>2, <1>3, <1>4, <1>5 DEF Work

\* The writes of a request, whatever became of the row it has checked.
LEMMA ServeSteps ==
  ASSUME Inv, NEW e \in Executors, Serve(e)
  PROVE  Inv'
<1> USE DEF Inv
<1> DEFINE k == request[e].job
<1>1. k \in Keys /\ jobs[k] \in Job
  BY DEF TypeOK, Request
<1>2. \A pc \in {"idle", "leased", "running", "stopped"} :
        Answered(e, pc) \in [Executors -> Daemon]
  BY AnsweredShape
<1>3. \A state \in {"RUNNING", "COMPLETED", "FAILED"} :
        Keeps([jobs EXCEPT ![k].state = state])
  BY <1>1, SetStateKeeps DEF JobStates, Active, Leased, Finished
<1> HIDE DEF k
<1>4. StartRun(e) => /\ run' \in Run /\ daemon' \in [Executors -> Daemon]
                     /\ request' \in [Executors -> Request]
  BY <1>2, RequestShape DEF StartRun, TypeOK, Run, RunStatuses
<1>5. CASE CommitRelease(e)
  <2>1. jobs' = [jobs EXCEPT ![k] = Released(jobs[k], request[e].attempt)]
    BY <1>5 DEF CommitRelease, k
  <2>2. Keeps(jobs')
    BY <1>1, <2>1, ReleasedRow DEF Keeps, TypeOK
  <2>3. daemon' \in [Executors -> Daemon] /\ request' \in [Executors -> Request]
    BY <1>2, <1>5, RequestShape DEF CommitRelease, TypeOK
  <2>4. Rest
    BY <1>5, <2>3 DEF CommitRelease, TypeOK, Rest
  <2>5. QED
    BY <1>5, <2>2, <2>4, KeptStep DEF CommitRelease
<1>6. CASE CommitStart(e)
  <2>1. Keeps(jobs')
    BY <1>3, <1>6 DEF CommitStart, SetState, k
  <2>2. /\ run' \in Run /\ daemon' \in [Executors -> Daemon]
        /\ request' \in [Executors -> Request]
    BY <1>4, <1>6, RequestShape DEF CommitStart, TypeOK
  <2>3. Rest
    BY <1>6, <2>2 DEF CommitStart, TypeOK, Rest, StepStatuses
  <2>4. QED
    BY <1>6, <2>1, <2>3, KeptStep DEF CommitStart
<1>7. CASE CommitStartRun(e)
  <2>1. Keeps(jobs') /\ Rest
    BY <1>4, <1>7, UnchangedKeeps DEF CommitStartRun, TypeOK, Rest
  <2>2. QED
    BY <1>7, <2>1, KeptStep DEF CommitStartRun
<1>8. CASE CommitResult(e)
  <2>1. Keeps(jobs')
    BY <1>3, <1>8 DEF CommitResult, SetState, k
  <2>2. request' \in [Executors -> Request]
    BY <1>8, RequestShape DEF CommitResult
  <2>3. Rest
    BY <1>8, <2>2 DEF CommitResult, TypeOK, Rest
  <2>4. QED
    BY <1>8, <2>1, <2>3, KeptStep DEF CommitResult
<1>9. CASE CommitStep(e)
  <2>1. daemon' \in [Executors -> Daemon] /\ request' \in [Executors -> Request]
    BY <1>2, <1>9, RequestShape DEF CommitStep
  <2>2. Keeps(jobs') /\ Rest
    BY <1>9, <2>1, UnchangedKeeps DEF CommitStep, TypeOK, Rest, StepStatuses
  <2>3. QED
    BY <1>9, <2>2, KeptStep DEF CommitStep
<1>10. CASE CommitFailure(e)
  <2>1. \A n : Keeps(FailedAndRetried(k, n))
    BY <1>3, ScheduledKeeps DEF FailedAndRetried
  <2>2. Keeps(jobs')
    BY <1>3, <1>10, <2>1 DEF CommitFailure, SetState, k
  <2>3. run' \in Run /\ step' \in StepStatuses
    BY <1>10, RecoveryShape DEF CommitFailure, TypeOK
  <2>4. daemon' \in [Executors -> Daemon] /\ request' \in [Executors -> Request]
    BY <1>2, <1>10, RequestShape DEF CommitFailure
  <2>5. Rest
    BY <1>10, <2>3, <2>4 DEF CommitFailure, TypeOK, Rest
  <2>6. QED
    BY <1>10, <2>2, <2>5, KeptStep DEF CommitFailure
<1>11. CASE RefuseStale(e) \/ RefuseResult(e)
  <2>1. daemon' \in [Executors -> Daemon] /\ request' \in [Executors -> Request]
    BY <1>2, <1>11, RequestShape, RefusalShape DEF RefuseStale, RefuseResult, TypeOK
  <2>2. Keeps(jobs') /\ Rest
    BY <1>11, <2>1, UnchangedKeeps DEF RefuseStale, RefuseResult, TypeOK, Rest
  <2>3. QED
    BY <1>11, <2>2, KeptStep DEF RefuseStale, RefuseResult
<1>12. QED
  BY <1>5, <1>6, <1>7, <1>8, <1>9, <1>10, <1>11 DEF Serve

-----------------------------------------------------------------------------
(* Leases and resets                                                       *)

\* A lease is counted as an attempt of the job, which has one left.
LEMMA AcquireStep ==
  ASSUME Inv, NEW e \in Executors, Acquire(e)
  PROVE  Inv'
<1> USE DEF Inv
<1> DEFINE js == ReclaimExpired
<1>1. Keeps(js)
  BY ReleaseAllKeeps DEF ReclaimExpired
<1>2. ASSUME jobs' = js, UNCHANGED <<issued, daemon>>
      PROVE  Inv'
  <2>1. Keeps(jobs') /\ Rest
    BY <1>1, <1>2 DEF Acquire, TypeOK, Rest
  <2>2. QED
    BY <1>2, <2>1, KeptStep DEF Acquire
<1>3. ASSUME NEW k \in Keys, Leasable(js[k]), jobs' = Grant(js, k, e),
             issued' = [issued EXCEPT ![k] = @ + 1],
             \/ daemon' = [daemon EXCEPT ![e] = [pc |-> "leased", job |-> k,
                                                 token |-> issued[k] + 1]]
             \/ UNCHANGED daemon
      PROVE  Inv'
  <2> HIDE DEF js
  <2>1. js \in [Keys -> Job] /\ issued[k] \in Nat /\ js[k].attempt \in Nat
    BY <1>1 DEF Keeps, TypeOK, Job
  <2>2. issued[k] + 1 \in Nat /\ js[k].attempt + 1 \in Nat
    BY <2>1
  <2> DEFINE new == [state |-> "LEASED", attempt |-> js[k].attempt + 1,
                     owner |-> e, token |-> issued[k] + 1, lease |-> "live"]
  <2>3. new \in Job /\ new.attempt = js[k].attempt + 1 /\ new.state = "LEASED"
    BY <2>2 DEF Job, JobStates, Active, Leased
  <2>4. jobs' = [js EXCEPT ![k] = new]
    BY <1>3 DEF Grant
  <2> HIDE DEF new
  <2>5. jobs' \in [Keys -> Job] /\ issued' \in [Keys -> Nat]
    BY <1>3, <2>1, <2>2, <2>3, <2>4 DEF TypeOK
  <2>6. FreshJobs'
    BY <1>1, <2>1, <2>3, <2>4 DEF FreshJobs, Keeps
  <2>7. Charged'
    <3> SUFFICES ASSUME NEW i \in Keys
                 PROVE  /\ jobs'[i].attempt <= MaxAttempts
                        /\ issued'[i] <= MaxAttempts * resets[i] + jobs'[i].attempt
      BY DEF Acquire, Charged
    <3>1. /\ jobs[i].attempt \in Nat /\ jobs[i].attempt <= MaxAttempts
          /\ issued[i] <= MaxAttempts * resets[i] + jobs[i].attempt
          /\ issued[i] \in Nat /\ MaxAttempts * resets[i] \in Nat
          /\ MaxAttempts \in Nat
      BY PlaneAssumption, OneMore DEF TypeOK, Charged, Job
    <3>2. CASE i # k
      <4>1. jobs'[i].attempt = jobs[i].attempt /\ issued'[i] = issued[i]
        BY <1>1, <1>3, <2>1, <2>4, <3>2 DEF Keeps, TypeOK
      <4>2. QED
        BY <3>1, <4>1
    <3>3. CASE i = k
      <4>1. /\ jobs'[i].attempt = jobs[i].attempt + 1
            /\ issued'[i] = issued[i] + 1
            /\ jobs[i].attempt < MaxAttempts
        BY <1>1, <1>3, <2>1, <2>3, <2>4, <3>3 DEF Keeps, TypeOK, Leasable
      <4>2. QED
        BY <3>1, <4>1
    <3>4. QED
      BY <3>2, <3>3
  <2>8. daemon' \in [Executors -> Daemon]
    BY <1>3, <2>2 DEF TypeOK, Daemon
  <2>9. QED
    BY <2>5, <2>6, <2>7, <2>8 DEF Acquire, TypeOK
<1>4. QED
  BY <1>2, <1>3 DEF Acquire

\* A requeue keeps the attempts of the job, or counts a reset of them.
LEMMA RequeueStep ==
  ASSUME Inv, NEW k \in Keys, NEW reset \in {"no", "yes"}, Requeue(k, reset)
  PROVE  Inv'
<1> USE DEF Inv
<1>1. Rest
  BY DEF Requeue, TypeOK, Rest, StepStatuses
<1>2. CASE reset = "no"
  <2>1. Keeps(jobs') /\ UNCHANGED <<issued, resets>>
    BY <1>2, SetStateKeeps DEF Requeue, TypeOK, Keeps, Job, JobStates, Active
  <2>2. QED
    BY <1>1, <2>1, KeptStep
<1>3. CASE reset = "yes"
  <2>1. /\ jobs' = [jobs EXCEPT ![k] = ResetAttempt(jobs[k])]
        /\ resets' = [resets EXCEPT ![k] = @ + 1] /\ UNCHANGED issued
    BY <1>3 DEF Requeue
  <2>2. /\ ResetAttempt(jobs[k]) \in Job /\ ResetAttempt(jobs[k]).attempt = 0
        /\ ResetAttempt(jobs[k]).state = "QUEUED"
    BY DEF ResetAttempt, TypeOK, Job, JobStates, Active
  <2>3. resets[k] \in Nat /\ resets[k] + 1 \in Nat
    BY DEF TypeOK
  <2>4. /\ jobs' \in [Keys -> Job] /\ resets' \in [Keys -> Nat]
        /\ issued' \in [Keys -> Nat]
    BY <2>1, <2>2, <2>3 DEF TypeOK
  <2>5. FreshJobs'
    BY <2>1, <2>2 DEF FreshJobs, TypeOK
  <2>6. Charged'
    <3> SUFFICES ASSUME NEW i \in Keys
                 PROVE  /\ jobs'[i].attempt <= MaxAttempts
                        /\ issued[i] <= MaxAttempts * resets'[i] + jobs'[i].attempt
      BY <2>1 DEF Charged
    <3>1. /\ jobs[i].attempt \in Nat /\ jobs[i].attempt <= MaxAttempts
          /\ issued[i] <= MaxAttempts * resets[i] + jobs[i].attempt
          /\ issued[i] \in Nat /\ MaxAttempts * resets[i] \in Nat
          /\ MaxAttempts \in Nat
          /\ MaxAttempts * (resets[i] + 1) = MaxAttempts * resets[i] + MaxAttempts
      BY PlaneAssumption, OneMore DEF TypeOK, Charged, Job
    <3>2. CASE i # k
      <4>1. jobs'[i] = jobs[i] /\ resets'[i] = resets[i]
        BY <2>1, <3>2 DEF TypeOK
      <4>2. QED
        BY <3>1, <4>1
    <3>3. CASE i = k
      <4>1. jobs'[i].attempt = 0 /\ resets'[i] = resets[i] + 1
        BY <2>1, <2>2, <3>3 DEF TypeOK
      <4>2. QED
        BY <3>1, <4>1
    <3>4. QED
      BY <3>2, <3>3
  <2>7. QED
    BY <1>1, <2>4, <2>5, <2>6 DEF TypeOK, Rest
<1>4. QED
  BY <1>2, <1>3

-----------------------------------------------------------------------------
(* The theorems                                                            *)

\* Inv holds in every state, whether or not requests overlap.
THEOREM PlaneInvariant == Spec => []Inv
<1>1. Inv /\ [Next]_vars => Inv'
  <2> SUFFICES ASSUME Inv, [Next]_vars PROVE Inv'
    OBVIOUS
  <2>1. CASE UNCHANGED vars
    BY <2>1 DEF Inv, TypeOK, FreshJobs, Charged, vars
  <2>2. ASSUME NEW e \in Executors,
               \/ Enroll(e) \/ GoOffline(e) \/ Revoke(e) \/ Heartbeat(e)
        PROVE  Inv'
    BY <2>2, LeaseSteps
  <2>3. ASSUME NEW e \in Executors, Acquire(e) PROVE Inv'
    BY <2>3, AcquireStep
  <2>4. ASSUME NEW e \in Executors, Serve(e) PROVE Inv'
    BY <2>4, ServeSteps
  <2>5. ASSUME NEW e \in Executors, Work(e) \/ Drop(e) \/ Crash(e) PROVE Inv'
    BY <2>5, WorkSteps
  <2>6. ASSUME NEW k \in Keys, Expire(k) PROVE Inv'
    BY <2>6, LeaseSteps
  <2>7. ASSUME NEW k \in Keys, NEW reset \in {"no", "yes"}, Requeue(k, reset)
        PROVE  Inv'
    BY <2>7, RequeueStep
  <2>8. CASE RecoverOrphaned
    BY <2>8, LeaseSteps
  <2>9. CASE ExecuteRun \/ ScheduleRun \/ CancelRun \/ RecoverStep
    BY <2>9, RunSteps
  <2>10. QED
    BY <2>1, <2>2, <2>3, <2>4, <2>5, <2>6, <2>7, <2>8, <2>9 DEF Next
<1>2. QED
  BY InitInv, <1>1, PTL DEF Spec

\* Every reachable state of the execution plane is well formed: jobs, leases,
\* requests and daemons refer to jobs and executors that exist.
THEOREM PlaneTyped == Spec => []TypeOK
<1>1. Inv => TypeOK
  BY DEF Inv
<1>2. QED
  BY PlaneInvariant, <1>1, PTL

\* acquire_lease grants no more than max_attempts leases of a job for each time
\* an operator resets its attempts, for any number of executors, attempts and
\* recoveries and however requests, recovery, revocation and cancellation
\* interleave.
THEOREM LeasesBudgeted == Spec => []LeaseBudget
<1>1. Inv => LeaseBudget
  <2> SUFFICES ASSUME Inv, NEW k \in Keys
               PROVE  issued[k] <= MaxAttempts * (resets[k] + 1)
    BY DEF LeaseBudget
  <2>1. /\ jobs[k].attempt \in Nat /\ jobs[k].attempt <= MaxAttempts
        /\ issued[k] <= MaxAttempts * resets[k] + jobs[k].attempt
        /\ issued[k] \in Nat /\ MaxAttempts * resets[k] \in Nat
        /\ MaxAttempts \in Nat
        /\ MaxAttempts * (resets[k] + 1) = MaxAttempts * resets[k] + MaxAttempts
    BY PlaneAssumption, OneMore DEF Inv, TypeOK, Charged, Job
  <2>2. QED
    BY <2>1
<1>2. QED
  BY PlaneInvariant, <1>1, PTL

-----------------------------------------------------------------------------
(* One job at work, and its token (when the writes of requests do not      *)
(* overlap)                                                                *)

\* Jobs of the run that are queued or leased.
Working == {k \in Keys : jobs[k].state \in Active}

\* The requests that have committed a job and not its step yet.
Closing == {"complete", "await"}

\* A leased job has the token of its latest lease.
TokensKnown == \A k \in Keys : jobs[k].state \in Leased => jobs[k].token = issued[k]

\* The recovery has not scheduled its job yet.
Unscheduled == run.recovery = "SCHEDULED" /\ jobs[run.attempts].state = "NONE"

\* The first job exists once the step does, and no job is ahead of the recoveries.
KeysInOrder ==
  /\ step = "NONE" => run.recovery = "NONE" /\ \A k \in Keys : jobs[k].state = "NONE"
  /\ step # "NONE" => jobs[0].state # "NONE"
  /\ \A k \in Keys : k > run.attempts => jobs[k].state = "NONE"
  /\ run.recovery = "SCHEDULED" => run.attempts \in Keys

\* A job is created when no other one is at work: the step of the job before it
\* has failed, and no request is about to close that step.
SoleWork ==
  /\ \A j, k \in Working : j = k
  /\ Working # {} => step \in Open
  /\ \A k \in Keys : jobs[k].state = "RUNNING" => step = "RUNNING"
  /\ Unscheduled => Working = {} /\ step = "PENDING"
  /\ \A e \in Executors : request[e].op \in Closing =>
       Working = {} /\ ~Unscheduled /\ step \notin {"NONE", "FAILED"}

\* What makes the active job the only one, until an operator requeues another.
SoleInv == requeues = 0 => KeysInOrder /\ SoleWork

\* A step that keeps the step and the recovery, and takes jobs only out of work, closes
\* nothing and leaves work to one job at most.
LEMMA QuietKeeps ==
  ASSUME Inv, SoleInv, requeues' = requeues, step' = step,
         run'.attempts = run.attempts, run'.recovery = run.recovery,
         \A k \in Keys : \/ jobs'[k].state = jobs[k].state
                         \/ /\ jobs[k].state \in Active
                            /\ jobs'[k].state \notin {"NONE", "RUNNING"},
         \A e \in Executors : request'[e].op \in Closing => request[e].op \in Closing
  PROVE  SoleInv'
<1> SUFFICES ASSUME requeues' = 0 PROVE KeysInOrder' /\ SoleWork'
  BY DEF SoleInv
<1>1. KeysInOrder /\ SoleWork
  BY DEF SoleInv
<1>2. /\ \A k \in Keys : jobs'[k].state = "NONE" <=> jobs[k].state = "NONE"
      /\ \A k \in Keys : jobs'[k].state = "RUNNING" => jobs[k].state = "RUNNING"
  BY DEF Active, Leased
<1>3. Working' \subseteq Working
  BY DEF Working
<1>4. KeysInOrder'
  BY <1>1, <1>2, FirstKey DEF KeysInOrder
<1>5. Unscheduled' <=> Unscheduled
  BY <1>1, <1>2 DEF KeysInOrder, Unscheduled
<1>6. SoleWork'
  BY <1>1, <1>2, <1>3, <1>5 DEF SoleWork
<1>7. QED
  BY <1>4, <1>6

\* A release takes leased jobs to the queue or to the dead letters.
LEMMA ReleasedStates ==
  ASSUME TypeOK, NEW ks, \A k \in ks : k \in Keys => jobs[k].state \in Leased
  PROVE  \A k \in Keys :
           \/ ReleaseAll(ks)[k] = jobs[k]
           \/ /\ jobs[k].state \in Leased
              /\ ReleaseAll(ks)[k].state \in {"QUEUED", "DEAD_LETTER"}
  BY DEF ReleaseAll, Released, TypeOK, Job

\* Registrations, expiry, the transition of the run and its cancellation.
LEMMA QuietSteps ==
  ASSUME Inv, SoleInv,
         \/ \E e \in Executors :
              \/ Enroll(e) \/ GoOffline(e) \/ Revoke(e) \/ Heartbeat(e) \/ Drop(e)
         \/ \E k \in Keys : Expire(k)
         \/ ExecuteRun \/ CancelRun
  PROVE  SoleInv'
<1>1. jobs \in [Keys -> Job] /\ run \in Run
  BY DEF Inv, TypeOK
<1>2. ASSUME NEW e \in Executors, Enroll(e) \/ GoOffline(e) \/ Heartbeat(e) \/ Drop(e)
      PROVE  SoleInv'
  BY <1>2, QuietKeeps DEF Enroll, GoOffline, Heartbeat, Drop
<1>3. ASSUME NEW e \in Executors, Revoke(e) PROVE SoleInv'
  <2>1. \A k \in Keys : \/ jobs'[k].state = jobs[k].state
                        \/ /\ jobs[k].state \in Active
                           /\ jobs'[k].state \notin {"NONE", "RUNNING"}
    BY <1>3, ReleasedStates DEF Revoke, Inv, Active
  <2>2. QED
    BY <1>3, <2>1, QuietKeeps DEF Revoke
<1>4. ASSUME NEW k \in Keys, Expire(k) PROVE SoleInv'
  <2>1. \A i \in Keys : jobs'[i].state = jobs[i].state
    BY <1>1, <1>4 DEF Expire, Job
  <2>2. QED
    BY <1>4, <2>1, QuietKeeps DEF Expire
<1>5. CASE ExecuteRun
  <2>1. run'.attempts = run.attempts /\ run'.recovery = run.recovery
    BY <1>1, <1>5 DEF ExecuteRun, Run
  <2>2. QED
    BY <1>5, <2>1, QuietKeeps DEF ExecuteRun
<1>6. CASE CancelRun
  <2>1. run'.attempts = run.attempts /\ run'.recovery = run.recovery
    BY <1>1, <1>6 DEF CancelRun, Run
  <2>2. \A k \in Keys : \/ jobs'[k].state = jobs[k].state
                        \/ jobs[k].state \in Active /\ jobs'[k].state = "CANCELLED"
    BY <1>1, <1>6 DEF CancelRun, Job
  <2>3. QED
    BY <1>6, <2>1, <2>2, QuietKeeps DEF CancelRun
<1>7. QED
  BY <1>2, <1>3, <1>4, <1>5, <1>6

\* acquire_lease releases expired leases and leases a queued job with a new token.
LEMMA AcquireStates ==
  ASSUME TypeOK, NEW e \in Executors, Acquire(e)
  PROVE  /\ \A k \in Keys : \/ jobs'[k] = jobs[k] /\ issued'[k] = issued[k]
                            \/ /\ jobs[k].state \in Active
                               /\ \/ /\ jobs'[k].state \in {"QUEUED", "DEAD_LETTER"}
                                     /\ issued'[k] = issued[k]
                                  \/ /\ jobs'[k].state = "LEASED"
                                     /\ jobs'[k].token = issued'[k]
<1> DEFINE js == ReclaimExpired
<1>1. /\ js \in [Keys -> Job] /\ issued \in [Keys -> Nat]
      /\ \A k \in Keys : \/ js[k] = jobs[k]
                         \/ /\ jobs[k].state \in Leased
                            /\ js[k].state \in {"QUEUED", "DEAD_LETTER"}
  BY ReleaseAllKeeps, ReleasedStates DEF ReclaimExpired, ExpiredJobs, Keeps, TypeOK
<1> HIDE DEF js
<1>2. CASE jobs' = js /\ UNCHANGED issued
  BY <1>1, <1>2 DEF Active
<1>3. ASSUME NEW k \in Keys, Leasable(js[k]), jobs' = Grant(js, k, e),
             issued' = [issued EXCEPT ![k] = @ + 1]
      PROVE  \A i \in Keys : \/ jobs'[i] = jobs[i] /\ issued'[i] = issued[i]
                             \/ /\ jobs[i].state \in Active
                                /\ \/ /\ jobs'[i].state \in {"QUEUED", "DEAD_LETTER"}
                                      /\ issued'[i] = issued[i]
                                   \/ /\ jobs'[i].state = "LEASED"
                                      /\ jobs'[i].token = issued'[i]
  <2> SUFFICES ASSUME NEW i \in Keys
               PROVE  \/ jobs'[i] = jobs[i] /\ issued'[i] = issued[i]
                      \/ /\ jobs[i].state \in Active
                         /\ \/ /\ jobs'[i].state \in {"QUEUED", "DEAD_LETTER"}
                               /\ issued'[i] = issued[i]
                            \/ /\ jobs'[i].state = "LEASED"
                               /\ jobs'[i].token = issued'[i]
    OBVIOUS
  <2>1. CASE i # k
    <3>1. jobs'[i] = js[i] /\ issued'[i] = issued[i]
      BY <1>1, <1>3, <2>1 DEF Grant
    <3>2. QED
      BY <1>1, <3>1 DEF Active
  <2>2. CASE i = k
    <3>1. jobs[i].state \in Active
      BY <1>1, <1>3, <2>2 DEF Leasable, Active
    <3>2. jobs'[i].state = "LEASED" /\ jobs'[i].token = issued'[i]
      BY <1>1, <1>3, <2>2 DEF Grant
    <3>3. QED
      BY <3>1, <3>2
  <2>3. QED
    BY <2>1, <2>2
<1>4. QED
  BY <1>2, <1>3 DEF Acquire, js

\* Leases, and the reads of requests.
LEMMA WorkKeepsSole ==
  ASSUME Inv, SoleInv, NEW e \in Executors, Acquire(e) \/ Work(e) \/ Crash(e)
  PROVE  SoleInv'
<1>1. request \in [Executors -> Request] /\ NoRequest.op \notin Closing
  BY DEF Inv, TypeOK, NoRequest, Closing
<1>2. CASE Acquire(e)
  <2>1. \A k \in Keys : \/ jobs'[k].state = jobs[k].state
                        \/ /\ jobs[k].state \in Active
                           /\ jobs'[k].state \notin {"NONE", "RUNNING"}
    BY <1>2, AcquireStates DEF Inv
  <2>2. QED
    BY <1>2, <2>1, QuietKeeps DEF Acquire
<1>3. ASSUME NEW op \in Kinds \cup {"start", "release"},
             request' = [request EXCEPT ![e] = Op(op, e)]
      PROVE  \A f \in Executors : request'[f].op \in Closing => request[f].op \in Closing
  BY <1>1, <1>3 DEF Op, Kinds, Closing
<1>4. CASE BeginLeased(e)
  <2>1. \A f \in Executors : request'[f].op \in Closing => request[f].op \in Closing
    BY <1>3, <1>4 DEF BeginLeased
  <2>2. QED
    BY <1>4, <2>1, QuietKeeps DEF BeginLeased
<1>5. ASSUME NEW kind \in Kinds, BeginFinish(e, kind) PROVE SoleInv'
  <2>1. \A f \in Executors : request'[f].op \in Closing => request[f].op \in Closing
    BY <1>3, <1>5 DEF BeginFinish
  <2>2. QED
    BY <1>5, <2>1, QuietKeeps DEF BeginFinish
<1>6. CASE Crash(e)
  <2>1. \A f \in Executors : request'[f].op \in Closing => request[f].op \in Closing
    BY <1>1, <1>6 DEF Crash, Done
  <2>2. QED
    BY <1>6, <2>1, QuietKeeps DEF Crash
<1>7. QED
  BY <1>2, <1>4, <1>5, <1>6 DEF Work

\* While a job is at work, it is the only one, its step is open and no request is about
\* to close it.
LEMMA SoleOf ==
  ASSUME Inv, SoleInv, requeues = 0, NEW k \in Keys, jobs[k].state \in Active
  PROVE  /\ KeysInOrder /\ SoleWork
         /\ \A i \in Keys : jobs[i].state \in Active => i = k
         /\ step \in Open /\ ~Unscheduled
         /\ \A e \in Executors : request[e].op \notin Closing
         /\ jobs[0].state # "NONE"
<1>1. KeysInOrder /\ SoleWork /\ k \in Working
  BY DEF SoleInv, Working
<1>2. QED
  BY <1>1 DEF KeysInOrder, SoleWork, Working, Open

\* A write of one state.
LEMMA MovingJob ==
  ASSUME TypeOK, NEW k \in Keys, NEW state \in JobStates, SetState(k, state)
  PROVE  /\ \A i \in Keys \ {k} : jobs'[i] = jobs[i]
         /\ jobs'[k].state = state /\ jobs'[k].token = jobs[k].token
  BY DEF TypeOK, SetState, Job

\* When writes do not overlap, the row that a request writes is the row it has read.
LEMMA CurrentJob ==
  ASSUME TypeOK, Overlap = "no", NEW e \in Executors, NEW ops, MayWrite(e, ops)
  PROVE  /\ request[e].job \in Keys /\ jobs[request[e].job].state \in Leased
         /\ jobs[request[e].job].token = request[e].token /\ executors[e] = "ACTIVE"
         /\ request[e].op \in ops
  BY DEF MayWrite, Current, Owned, TypeOK, Request

\* A request that ends, or goes on with another commit, closes no step.
LEMMA EndedRequest ==
  ASSUME TypeOK, NEW e \in Executors
  PROVE  /\ Done(e) => \A f \in Executors :
              request'[f].op \in Closing => request[f].op \in Closing
         /\ \A op : op \notin Closing /\ Then(e, op) =>
              \A f \in Executors : request'[f].op \in Closing => request[f].op \in Closing
  BY DEF TypeOK, Done, Then, NoRequest, Closing, Request

\* The start of a job runs its step.
LEMMA StartStep ==
  ASSUME Inv, SoleInv, Overlap = "no", NEW e \in Executors, CommitStart(e)
  PROVE  SoleInv'
<1> SUFFICES ASSUME requeues' = 0 PROVE KeysInOrder' /\ SoleWork'
  BY DEF SoleInv
<1> DEFINE k == request[e].job
<1>1. k \in Keys /\ jobs[k].state \in Active /\ TypeOK /\ requeues = 0
  BY CurrentJob DEF CommitStart, Inv, Active
<1>2. /\ KeysInOrder /\ SoleWork /\ step \in Open /\ ~Unscheduled
      /\ \A i \in Keys : jobs[i].state \in Active => i = k
      /\ \A f \in Executors : request[f].op \notin Closing
      /\ jobs[0].state # "NONE"
  BY <1>1, SoleOf
<1>3. /\ \A i \in Keys \ {k} : jobs'[i] = jobs[i]
      /\ jobs'[k].state = "RUNNING"
  BY <1>1, MovingJob DEF CommitStart, JobStates, Active, Leased
<1> HIDE DEF k
<1>4. step' = "RUNNING"
  BY <1>2 DEF CommitStart, Open
<1>5. run'.attempts = run.attempts /\ run'.recovery = run.recovery
  BY DEF CommitStart, StartRun, Inv, TypeOK, Run
<1>6. \A f \in Executors : request'[f].op \notin Closing
  BY <1>1, <1>2, EndedRequest DEF CommitStart, StartRun, Closing
<1>7. \A i \in Keys : jobs'[i].state = "NONE" <=> jobs[i].state = "NONE"
  BY <1>1, <1>3 DEF Active, Leased
<1>8. Working' = {k}
  BY <1>1, <1>2, <1>3 DEF Working, Active, Leased
<1>9. KeysInOrder'
  BY <1>1, <1>2, <1>4, <1>5, <1>7, FirstKey DEF KeysInOrder, Open
<1>10. ~Unscheduled'
  BY <1>2, <1>5, <1>7 DEF Unscheduled, KeysInOrder
<1>11. SoleWork'
  BY <1>4, <1>6, <1>8, <1>10 DEF SoleWork, Open
<1>12. QED
  BY <1>9, <1>11

\* The commit of a result leaves no job at work, so that its step can be closed later.
LEMMA ResultStep ==
  ASSUME Inv, SoleInv, Overlap = "no", NEW e \in Executors, CommitResult(e)
  PROVE  SoleInv'
<1> SUFFICES ASSUME requeues' = 0 PROVE KeysInOrder' /\ SoleWork'
  BY DEF SoleInv
<1> DEFINE k == request[e].job
<1>1. k \in Keys /\ jobs[k].state \in Active /\ TypeOK /\ requeues = 0
  BY CurrentJob DEF CommitResult, Inv, Active
<1>2. /\ KeysInOrder /\ SoleWork /\ step \in Open /\ ~Unscheduled
      /\ \A i \in Keys : jobs[i].state \in Active => i = k
      /\ jobs[0].state # "NONE"
  BY <1>1, SoleOf
<1>3. /\ \A i \in Keys \ {k} : jobs'[i] = jobs[i]
      /\ jobs'[k].state = "COMPLETED" /\ UNCHANGED <<run, step>>
  BY <1>1, MovingJob DEF CommitResult, JobStates, Finished
<1> HIDE DEF k
<1>4. \A i \in Keys : jobs'[i].state = "NONE" <=> jobs[i].state = "NONE"
  BY <1>1, <1>3 DEF Active, Leased
<1>5. Working' = {}
  BY <1>2, <1>3 DEF Working, Active, Leased
<1>6. KeysInOrder'
  BY <1>1, <1>2, <1>3, <1>4, FirstKey DEF KeysInOrder
<1>7. ~Unscheduled'
  BY <1>2, <1>3, <1>4 DEF Unscheduled, KeysInOrder
<1>8. \A i \in Keys : jobs'[i].state # "RUNNING"
  BY <1>5 DEF Working, Active, Leased
<1>9. SoleWork'
  BY <1>2, <1>3, <1>5, <1>7, <1>8 DEF SoleWork, Open
<1>10. QED
  BY <1>6, <1>9

\* The step is closed after its job.
LEMMA CloseStep ==
  ASSUME Inv, SoleInv, NEW e \in Executors, CommitStep(e)
  PROVE  SoleInv'
<1> SUFFICES ASSUME requeues' = 0 PROVE KeysInOrder' /\ SoleWork'
  BY DEF SoleInv
<1>1. /\ requeues = 0 /\ UNCHANGED <<run, jobs>> /\ TypeOK /\ request[e].op \in Closing
      /\ step' = (IF step \notin Open THEN step
                  ELSE IF request[e].op = "complete" THEN "COMPLETED"
                  ELSE "AWAITING_APPROVAL")
  BY DEF CommitStep, Inv, Closing
<1>2. /\ KeysInOrder /\ SoleWork /\ Working = {} /\ ~Unscheduled
      /\ step \notin {"NONE", "FAILED"}
  BY <1>1 DEF SoleInv, SoleWork
<1>3. step' \notin {"NONE", "FAILED"}
  BY <1>1, <1>2
<1>4. \A f \in Executors : request'[f].op \in Closing => request[f].op \in Closing
  BY <1>1, EndedRequest DEF CommitStep
<1>5. KeysInOrder' /\ Working' = {} /\ ~Unscheduled'
  BY <1>1, <1>2, <1>3 DEF KeysInOrder, Working, Unscheduled
<1>6. \A i \in Keys : jobs'[i].state # "RUNNING"
  BY <1>5 DEF Working, Active, Leased
<1>7. SoleWork'
  BY <1>3, <1>5, <1>6 DEF SoleWork
<1>8. QED
  BY <1>5, <1>7

\* What the recovery decides.
LEMMA RecoverySets ==
  /\ \A target : RecoverySchedules(target) =>
       /\ run.attempts < MaxRecovery /\ run'.attempts = run.attempts + 1
       /\ run'.recovery = "SCHEDULED" /\ step' = "PENDING"
  /\ RecoveryEscalates =>
       /\ run'.attempts = run.attempts + 1 /\ run'.recovery = "ESCALATED"
       /\ step' = "FAILED"
  BY DEF RecoverySchedules, RecoveryEscalates

\* A failure with the job of its recovery,
LEMMA FailedRetried ==
  ASSUME TypeOK, NEW k \in Keys, NEW n \in Keys, n # k, jobs[n].state = "NONE",
         jobs' = FailedAndRetried(k, n)
  PROVE  /\ \A i \in Keys \ {k, n} : jobs'[i] = jobs[i]
         /\ jobs'[k].state = "FAILED" /\ jobs'[n].state = "QUEUED"
<1> DEFINE js == [jobs EXCEPT ![k].state = "FAILED"]
<1>1. /\ js \in [Keys -> Job] /\ js[k].state = "FAILED"
      /\ \A i \in Keys \ {k} : js[i] = jobs[i]
  BY DEF TypeOK, Job, JobStates, Finished
<1>2. jobs' = Scheduled(js, n)
  BY DEF FailedAndRetried
<1> HIDE DEF js
<1>3. jobs' = [js EXCEPT ![n] = Queued]
  BY <1>1, <1>2 DEF Scheduled
<1>4. QED
  BY <1>1, <1>3, NewRows

\* or without one when that job exists.
LEMMA FailedOnly ==
  ASSUME TypeOK, NEW k \in Keys, NEW n, n = k \/ (n \in Keys /\ jobs[n].state # "NONE"),
         jobs' = FailedAndRetried(k, n)
  PROVE  /\ \A i \in Keys \ {k} : jobs'[i] = jobs[i]
         /\ jobs'[k].state = "FAILED"
<1> DEFINE js == [jobs EXCEPT ![k].state = "FAILED"]
<1>1. /\ js \in [Keys -> Job] /\ js[k].state = "FAILED"
      /\ \A i \in Keys \ {k} : js[i] = jobs[i]
  BY DEF TypeOK, Job, JobStates, Finished
<1>2. jobs' = Scheduled(js, n)
  BY DEF FailedAndRetried
<1> HIDE DEF js
<1>3. jobs' = js
  BY <1>1, <1>2 DEF Scheduled
<1>4. QED
  BY <1>1, <1>3

\* A failure ends the only job at work before it schedules the next.
LEMMA FailureStep ==
  ASSUME Inv, SoleInv, Overlap = "no", NEW e \in Executors, CommitFailure(e)
  PROVE  SoleInv'
<1> SUFFICES ASSUME requeues' = 0 PROVE KeysInOrder' /\ SoleWork'
  BY DEF SoleInv
<1> DEFINE k == request[e].job
<1>1. k \in Keys /\ jobs[k].state \in Active /\ TypeOK /\ requeues = 0
  BY CurrentJob DEF CommitFailure, Inv, Active
<1>2. /\ KeysInOrder /\ SoleWork /\ step \in Open /\ ~Unscheduled
      /\ \A i \in Keys : jobs[i].state \in Active => i = k
      /\ \A f \in Executors : request[f].op \notin Closing
      /\ jobs[0].state # "NONE"
  BY <1>1, SoleOf
<1>3. \A f \in Executors : request'[f].op \notin Closing
  BY <1>1, <1>2, EndedRequest DEF CommitFailure
<1>4. run.attempts \in Nat /\ jobs[k].state # "NONE" /\ ~(k > run.attempts)
  BY <1>1, <1>2 DEF TypeOK, Run, KeysInOrder, Active, Leased
<1>5. CASE Replayed /\ jobs' = FailedAndRetried(k, run.attempts) /\ UNCHANGED <<run, step>>
  <2>1. run.attempts \in Keys /\ jobs[run.attempts].state # "NONE"
    BY <1>2, <1>5 DEF Replayed, Unscheduled, KeysInOrder
  <2>2. /\ \A i \in Keys \ {k} : jobs'[i] = jobs[i]
        /\ jobs'[k].state = "FAILED"
    BY <1>1, <1>5, <2>1, FailedOnly
  <2> HIDE DEF k
  <2>3. \A i \in Keys : jobs'[i].state = "NONE" <=> jobs[i].state = "NONE"
    BY <1>4, <2>2
  <2>4. Working' = {}
    BY <1>2, <2>2 DEF Working, Active, Leased
  <2>5. KeysInOrder' /\ ~Unscheduled'
    BY <1>2, <1>5, <2>1, <2>3, FirstKey DEF KeysInOrder, Unscheduled
  <2>6. \A i \in Keys : jobs'[i].state # "RUNNING"
    BY <2>4 DEF Working, Active, Leased
  <2>7. QED
    BY <1>3, <2>4, <2>5, <2>6 DEF SoleWork
<1>6. ASSUME NEW target \in RecoveryTargets, RecoverySchedules(target),
             jobs' = FailedAndRetried(k, run.attempts + 1)
      PROVE  KeysInOrder' /\ SoleWork'
  <2> DEFINE n == run.attempts + 1
  <2>1. /\ run.attempts < MaxRecovery /\ run'.attempts = n
        /\ run'.recovery = "SCHEDULED" /\ step' = "PENDING"
    BY <1>6, RecoverySets
  <2>2. n \in Keys /\ n > run.attempts /\ n # k
    BY <1>1, <1>4, <2>1, PlaneAssumption DEF Keys
  <2>3. jobs[n].state = "NONE"
    BY <1>2, <2>2 DEF KeysInOrder
  <2>4. /\ \A i \in Keys \ {k, n} : jobs'[i] = jobs[i]
        /\ jobs'[k].state = "FAILED" /\ jobs'[n].state = "QUEUED"
    BY <1>1, <1>6, <2>2, <2>3, FailedRetried
  <2>5. \A i \in Keys : i > n => i > run.attempts /\ i # k /\ i # n
    BY <1>1, <1>4, PlaneAssumption DEF Keys
  <2> HIDE DEF k, n
  <2>6. Working' = {n}
    BY <1>2, <2>2, <2>4 DEF Working, Active, Leased
  <2>7. \A i \in Keys : i > n => jobs'[i].state = "NONE"
    BY <1>2, <2>4, <2>5 DEF KeysInOrder
  <2>8. jobs'[0].state # "NONE"
    BY <1>2, <2>4, FirstKey
  <2>9. KeysInOrder' /\ ~Unscheduled'
    BY <2>1, <2>2, <2>4, <2>7, <2>8 DEF KeysInOrder, Unscheduled
  <2>10. \A i \in Keys : jobs'[i].state # "RUNNING"
    BY <1>2, <2>4 DEF Active, Leased
  <2>11. QED
    BY <1>3, <2>1, <2>6, <2>9, <2>10 DEF SoleWork, Open
<1>7. CASE RecoveryEscalates /\ SetState(k, "FAILED")
  <2>1. /\ run'.attempts = run.attempts + 1 /\ run'.recovery = "ESCALATED"
        /\ step' = "FAILED"
    BY <1>7, RecoverySets
  <2>2. /\ \A i \in Keys \ {k} : jobs'[i] = jobs[i]
        /\ jobs'[k].state = "FAILED"
    BY <1>1, <1>7, MovingJob DEF JobStates, Finished
  <2>3. \A i \in Keys : i > run.attempts + 1 => i > run.attempts
    BY <1>4, PlaneAssumption DEF Keys
  <2> HIDE DEF k
  <2>4. \A i \in Keys : jobs'[i].state = "NONE" <=> jobs[i].state = "NONE"
    BY <1>4, <2>2
  <2>5. Working' = {}
    BY <1>2, <2>2 DEF Working, Active, Leased
  <2>6. KeysInOrder' /\ ~Unscheduled'
    BY <1>2, <2>1, <2>3, <2>4, FirstKey DEF KeysInOrder, Unscheduled
  <2>7. \A i \in Keys : jobs'[i].state # "RUNNING"
    BY <2>5 DEF Working, Active, Leased
  <2>8. QED
    BY <1>3, <2>5, <2>6, <2>7 DEF SoleWork
<1>8. QED
  BY <1>5, <1>6, <1>7 DEF CommitFailure

\* The commits of requests.
LEMMA ServeKeepsSole ==
  ASSUME Inv, SoleInv, Overlap = "no", NEW e \in Executors, Serve(e)
  PROVE  SoleInv'
<1>1. TypeOK /\ jobs \in [Keys -> Job]
  BY DEF Inv, TypeOK
<1>2. CASE CommitRelease(e)
  <2> DEFINE k == request[e].job
  <2>1. k \in Keys /\ jobs[k].state \in Leased
    BY <1>1, <1>2, CurrentJob DEF CommitRelease
  <2>2. /\ Released(jobs[k], request[e].attempt) \in Job
        /\ Released(jobs[k], request[e].attempt).state \in {"QUEUED", "DEAD_LETTER"}
    <3>1. jobs[k] \in Job
      BY <1>1, <2>1
    <3>2. Released(jobs[k], request[e].attempt) \in Job
      BY <3>1, ReleasedRow
    <3>3. Released(jobs[k], request[e].attempt).state \in {"QUEUED", "DEAD_LETTER"}
      BY <3>1 DEF Released, Job
    <3>4. QED
      BY <3>2, <3>3
  <2>3. jobs' = [jobs EXCEPT ![k] = Released(jobs[k], request[e].attempt)]
    BY <1>2 DEF CommitRelease
  <2> HIDE DEF k
  <2>4. \A i \in Keys : \/ jobs'[i].state = jobs[i].state
                        \/ /\ jobs[i].state \in Active
                           /\ jobs'[i].state \notin {"NONE", "RUNNING"}
    BY <1>1, <2>1, <2>2, <2>3 DEF Active
  <2>5. \A f \in Executors : request'[f].op \in Closing => request[f].op \in Closing
    BY <1>1, <1>2, EndedRequest DEF CommitRelease
  <2>6. QED
    BY <1>2, <2>4, <2>5, QuietKeeps DEF CommitRelease
<1>3. CASE CommitStartRun(e)
  <2>1. run'.attempts = run.attempts /\ run'.recovery = run.recovery
    BY <1>1, <1>3 DEF CommitStartRun, StartRun, TypeOK, Run
  <2>2. \A f \in Executors : request'[f].op \in Closing => request[f].op \in Closing
    BY <1>1, <1>3, EndedRequest DEF CommitStartRun, StartRun
  <2>3. QED
    BY <1>3, <2>1, <2>2, QuietKeeps DEF CommitStartRun
<1>4. CASE RefuseStale(e) \/ RefuseResult(e)
  <2>1. \A f \in Executors : request'[f].op \in Closing => request[f].op \in Closing
    BY <1>1, <1>4, EndedRequest DEF RefuseStale, RefuseResult
  <2>2. QED
    BY <1>4, <2>1, QuietKeeps DEF RefuseStale, RefuseResult
<1>5. QED
  BY <1>2, <1>3, <1>4, StartStep, ResultStep, CloseStep, FailureStep DEF Serve

\* The recovery of orphans fails the step only when its job is a dead letter.
LEMMA OrphansStep ==
  ASSUME Inv, SoleInv, RecoverOrphaned
  PROVE  SoleInv'
<1> SUFFICES ASSUME requeues' = 0 PROVE KeysInOrder' /\ SoleWork'
  BY DEF SoleInv
<1>1. \A i \in Keys : \/ jobs'[i] = jobs[i]
                      \/ /\ jobs[i].state \in Leased
                         /\ jobs'[i].state \in {"QUEUED", "DEAD_LETTER"}
  BY ReleasedStates DEF RecoverOrphaned, Orphans, Inv
<1>2. PICK k \in Orphans :
        step' = IF step # "RUNNING" THEN step
                ELSE IF jobs'[k].state = "DEAD_LETTER" THEN "FAILED" ELSE "PENDING"
  BY DEF RecoverOrphaned
<1>3. /\ k \in Keys /\ jobs[k].state \in Active
      /\ jobs'[k].state \in {"QUEUED", "DEAD_LETTER"}
      /\ UNCHANGED <<run, request>> /\ requeues = 0
  BY <1>2 DEF Orphans, Active, RecoverOrphaned, ReleaseAll, Released, Inv, TypeOK, Job
<1>5. /\ KeysInOrder /\ SoleWork /\ step \in Open /\ ~Unscheduled
      /\ \A i \in Keys : jobs[i].state \in Active => i = k
      /\ \A f \in Executors : request[f].op \notin Closing
      /\ jobs[0].state # "NONE"
  BY <1>3, SoleOf
<1>6. \A i \in Keys : jobs'[i].state = "NONE" <=> jobs[i].state = "NONE"
  BY <1>1 DEF Leased
<1>7. \A i \in Keys : jobs'[i].state \in Active => i = k
  BY <1>1, <1>5 DEF Active
<1>8. Working' \subseteq {k} /\ (jobs'[k].state = "DEAD_LETTER" => Working' = {})
  BY <1>7 DEF Working, Active, Leased
<1>9. step' # "NONE" /\ (jobs'[k].state # "DEAD_LETTER" => step' \in Open)
  BY <1>2, <1>5 DEF Open
<1>10. KeysInOrder' /\ ~Unscheduled'
  BY <1>3, <1>5, <1>6, <1>9, FirstKey DEF KeysInOrder, Unscheduled
<1>11. \A i \in Keys : jobs'[i].state # "RUNNING"
  BY <1>3, <1>7 DEF Active, Leased
<1>12. SoleWork'
  BY <1>3, <1>5, <1>8, <1>9, <1>10, <1>11 DEF SoleWork
<1>13. QED
  BY <1>10, <1>12

\* A job is scheduled for a run that has none, or for a recovery that has none yet.
LEMMA ScheduleStep ==
  ASSUME Inv, SoleInv, ScheduleRun
  PROVE  SoleInv'
<1> SUFFICES ASSUME requeues' = 0 PROVE KeysInOrder' /\ SoleWork'
  BY DEF SoleInv
<1>1. /\ requeues = 0 /\ KeysInOrder /\ SoleWork /\ UNCHANGED <<run, request>>
      /\ step' = (IF step = "NONE" THEN "PENDING" ELSE step)
      /\ jobs' = Scheduled(jobs, JobKey) /\ jobs \in [Keys -> Job] /\ run.attempts \in Nat
  BY DEF ScheduleRun, SoleInv, Inv, TypeOK, Run
<1>2. JobKey \in Keys /\ (step = "NONE" => JobKey = 0)
  BY <1>1, FirstKey DEF JobKey, KeysInOrder
<1>3. CASE jobs[JobKey].state # "NONE"
  <2>1. step # "NONE" /\ jobs' = jobs
    BY <1>1, <1>2, <1>3 DEF KeysInOrder, Scheduled
  <2>2. step' = step /\ requeues' = requeues
    BY <1>1, <2>1
  <2>3. QED
    BY <1>1, <2>1, <2>2 DEF KeysInOrder, SoleWork, Working, Unscheduled
<1>4. CASE jobs[JobKey].state = "NONE"
  <2> DEFINE n == JobKey
  <2>1. /\ \A i \in Keys \ {n} : jobs'[i] = jobs[i]
        /\ jobs'[n].state = "QUEUED"
    BY <1>1, <1>2, <1>4, NewRows DEF Scheduled
  <2>2. /\ Working = {} /\ step \in {"NONE", "PENDING"} /\ step' = "PENDING"
        /\ (run.recovery = "SCHEDULED" => n = run.attempts)
        /\ ~(n > run.attempts)
    <3>1. CASE run.recovery = "SCHEDULED"
      <4>1. n = run.attempts /\ Unscheduled
        BY <1>4, <3>1 DEF JobKey, Unscheduled
      <4>2. ~(n > run.attempts)
        BY <1>1, <4>1
      <4>3. QED
        BY <1>1, <4>1, <4>2 DEF SoleWork
    <3>2. CASE run.recovery # "SCHEDULED"
      <4>1. n = 0 /\ step = "NONE"
        BY <1>1, <1>4, <3>2 DEF JobKey, KeysInOrder
      <4>2. ~(n > run.attempts)
        BY <1>1, <4>1
      <4>3. Working = {}
        BY <1>1, <4>1 DEF KeysInOrder, Working, Active, Leased
      <4>4. QED
        BY <1>1, <3>2, <4>1, <4>2, <4>3
    <3>3. QED
      BY <3>1, <3>2
  <2>3. \A f \in Executors : request[f].op \notin Closing
    <3>1. CASE run.recovery = "SCHEDULED"
      <4>1. Unscheduled
        BY <1>4, <3>1 DEF JobKey, Unscheduled
      <4>2. QED
        BY <1>1, <4>1 DEF SoleWork
    <3>2. CASE run.recovery # "SCHEDULED"
      <4>1. step = "NONE"
        BY <1>1, <1>4, <3>2 DEF JobKey, KeysInOrder
      <4>2. QED
        BY <1>1, <4>1 DEF SoleWork
    <3>3. QED
      BY <3>1, <3>2
  <2>4. jobs'[0].state # "NONE"
    BY <1>1, <1>2, <2>1, FirstKey DEF KeysInOrder
  <2>5. n \in Keys
    BY <1>2
  <2> HIDE DEF n
  <2>6. Working' = {n}
    BY <2>1, <2>2, <2>5 DEF Working, Active
  <2>7. \A i \in Keys : i > run.attempts => jobs'[i].state = "NONE"
    BY <1>1, <2>1, <2>2 DEF KeysInOrder
  <2>8. KeysInOrder' /\ ~Unscheduled'
    BY <1>1, <2>1, <2>2, <2>4, <2>5, <2>7 DEF KeysInOrder, Unscheduled
  <2>9. \A i \in Keys : jobs'[i].state # "RUNNING"
    BY <2>1, <2>2, <2>5 DEF Working, Active, Leased
  <2>10. QED
    BY <1>1, <2>2, <2>3, <2>6, <2>8, <2>9 DEF SoleWork, Open
<1>5. QED
  BY <1>3, <1>4

\* An operator recovers a failed step, for which no job is at work.
LEMMA RecoverStepStep ==
  ASSUME Inv, SoleInv, RecoverStep
  PROVE  SoleInv'
<1> SUFFICES ASSUME requeues' = 0 PROVE KeysInOrder' /\ SoleWork'
  BY DEF SoleInv
<1>1. /\ requeues = 0 /\ KeysInOrder /\ SoleWork /\ UNCHANGED <<jobs, request>>
      /\ step = "FAILED" /\ run.attempts \in Nat
  BY DEF RecoverStep, SoleInv, Inv, TypeOK, Run
<1>2. /\ Working = {} /\ jobs[0].state # "NONE"
      /\ \A f \in Executors : request[f].op \notin Closing
  BY <1>1 DEF SoleWork, KeysInOrder, Open
<1>3. Working' = {} /\ \A i \in Keys : jobs'[i].state # "RUNNING"
  BY <1>1, <1>2 DEF Working, Active, Leased
<1>4. \A i \in Keys : i > run.attempts + 1 => i > run.attempts
  BY <1>1, PlaneAssumption DEF Keys
<1>5. CASE \E target \in RecoveryTargets : RecoverySchedules(target)
  <2>1. /\ run.attempts < MaxRecovery /\ run'.attempts = run.attempts + 1
        /\ run'.recovery = "SCHEDULED" /\ step' = "PENDING"
    BY <1>5, RecoverySets
  <2>2. run.attempts + 1 \in Keys /\ run.attempts + 1 > run.attempts
    BY <1>1, <2>1, PlaneAssumption DEF Keys
  <2>3. KeysInOrder'
    BY <1>1, <1>2, <1>4, <2>1, <2>2 DEF KeysInOrder
  <2>4. SoleWork'
    BY <1>1, <1>2, <1>3, <2>1 DEF SoleWork
  <2>5. QED
    BY <2>3, <2>4
<1>6. CASE RecoveryEscalates
  <2>1. /\ run'.attempts = run.attempts + 1 /\ run'.recovery = "ESCALATED"
        /\ step' = "FAILED"
    BY <1>6, RecoverySets
  <2>2. KeysInOrder' /\ ~Unscheduled'
    BY <1>1, <1>2, <1>4, <2>1 DEF KeysInOrder, Unscheduled
  <2>3. SoleWork'
    BY <1>1, <1>2, <1>3, <2>1, <2>2 DEF SoleWork
  <2>4. QED
    BY <2>2, <2>3
<1>7. QED
  BY <1>5, <1>6 DEF RecoverStep

\* Every step keeps SoleInv.
LEMMA SoleNext ==
  ASSUME Inv, SoleInv, Overlap = "no", [Next]_vars
  PROVE  SoleInv'
<1>1. CASE UNCHANGED vars
  BY <1>1 DEF vars, SoleInv, KeysInOrder, SoleWork, Working, Unscheduled
<1>2. ASSUME NEW k \in Keys, NEW reset \in {"no", "yes"}, Requeue(k, reset)
      PROVE  SoleInv'
  BY <1>2 DEF Requeue, SoleInv, Inv, TypeOK
<1>3. QED
  BY <1>1, <1>2, QuietSteps, WorkKeepsSole, ServeKeepsSole, OrphansStep, ScheduleStep,
     RecoverStepStep DEF Next

\* SoleInv holds in every state when the writes of requests do not overlap.
THEOREM SoleInvariant ==
  ASSUME Overlap = "no"
  PROVE  Spec => []SoleInv
<1>1. Init => SoleInv
  <2> SUFFICES ASSUME Init PROVE KeysInOrder /\ SoleWork
    BY DEF SoleInv
  <2>1. \A k \in Keys : jobs[k].state = "NONE"
    BY DEF Init, NoJob
  <2>2. Working = {}
    BY <2>1 DEF Working, Active, Leased
  <2>3. QED
    BY <2>1, <2>2 DEF Init, KeysInOrder, SoleWork, Unscheduled, NoRequest, Closing
<1>2. Inv /\ SoleInv /\ [Next]_vars => SoleInv'
  BY SoleNext
<1>3. QED
  BY <1>1, <1>2, PlaneInvariant, PTL DEF Spec

\* When the writes of requests do not overlap, for any executors and any numbers of
\* attempts, recoveries and crashes: at most one job of a run is queued or leased, and a
\* running job has a running step, until an operator requeues a dead letter (schedule,
\* recover_orphaned, _finish_job).
THEOREM OneJobWorks ==
  ASSUME Overlap = "no"
  PROVE  Spec => []ActiveJobIsSole
<1>1. SoleInv => ActiveJobIsSole
  <2> SUFFICES ASSUME SoleInv, requeues = 0
               PROVE  /\ Cardinality({k \in Keys : jobs[k].state \in Active}) <= 1
                      /\ \A k \in Keys : jobs[k].state = "RUNNING" => step = "RUNNING"
    BY DEF ActiveJobIsSole, OneActiveJob, RunningJobRunsStep
  <2>1. SoleWork
    BY DEF SoleInv
  <2>2. Cardinality(Working) <= 1
    <3>1. CASE Working = {}
      BY <3>1, FS_EmptySet
    <3>2. ASSUME NEW k \in Working PROVE Cardinality(Working) = 1
      <4>1. Working = {k}
        BY <2>1, <3>2 DEF SoleWork
      <4>2. QED
        BY <4>1, FS_Singleton
    <3>3. QED
      BY <3>1, <3>2
  <2>3. QED
    BY <2>1, <2>2 DEF SoleWork, Working
<1>2. QED
  BY <1>1, SoleInvariant, PTL

\* Every step keeps the tokens: a lease draws a new one, nothing else changes them.
LEMMA TokensNext ==
  ASSUME Inv, TokensKnown, Overlap = "no", [Next]_vars
  PROVE  TokensKnown'
<1> DEFINE Same(k) == jobs'[k].token = jobs[k].token /\ issued'[k] = issued[k]
<1>1. TypeOK /\ jobs \in [Keys -> Job] /\ issued \in [Keys -> Nat]
  BY DEF Inv, TypeOK
<1>2. ASSUME \A k \in Keys :
                \/ jobs'[k].state \notin Leased
                \/ jobs[k].state \in Leased /\ Same(k)
      PROVE  TokensKnown'
  BY <1>2 DEF TokensKnown
<1>3. CASE UNCHANGED <<jobs, issued>>
  BY <1>3 DEF TokensKnown
<1>4. ASSUME NEW e \in Executors, Revoke(e) PROVE TokensKnown'
  <2>1. \A k \in Keys : jobs'[k] = jobs[k] \/ jobs'[k].state \in {"QUEUED", "DEAD_LETTER"}
    BY <1>1, <1>4, ReleasedStates DEF Revoke
  <2>2. QED
    BY <1>2, <1>4, <2>1 DEF Revoke, Leased
<1>5. CASE RecoverOrphaned
  <2>1. \A k \in Keys : jobs'[k] = jobs[k] \/ jobs'[k].state \in {"QUEUED", "DEAD_LETTER"}
    BY <1>1, <1>5, ReleasedStates DEF RecoverOrphaned, Orphans
  <2>2. QED
    BY <1>2, <1>5, <2>1 DEF RecoverOrphaned, Leased
<1>6. ASSUME NEW e \in Executors, Acquire(e) PROVE TokensKnown'
  BY <1>1, <1>6, AcquireStates DEF TokensKnown, Leased
<1>7. ASSUME NEW e \in Executors, CommitRelease(e) PROVE TokensKnown'
  <2>1. request[e].job \in Keys
    BY <1>1 DEF TypeOK, Request
  <2>2. jobs[request[e].job] \in Job
    BY <1>1, <2>1
  <2>3. Released(jobs[request[e].job], request[e].attempt).state \notin Leased
    BY <2>2 DEF Released, Job, Leased
  <2>4. QED
    BY <1>1, <1>2, <1>7, <2>1, <2>3 DEF CommitRelease
<1>8. ASSUME NEW e \in Executors, NEW ops, MayWrite(e, ops), UNCHANGED issued,
             NEW state \in JobStates, SetState(request[e].job, state)
      PROVE  TokensKnown'
  <2>1. request[e].job \in Keys /\ jobs[request[e].job].state \in Leased
    BY <1>1, <1>8, CurrentJob
  <2>2. QED
    BY <1>1, <1>2, <1>8, <2>1, MovingJob
<1>9. ASSUME NEW e \in Executors, CommitStart(e) \/ CommitResult(e) PROVE TokensKnown'
  BY <1>8, <1>9 DEF CommitStart, CommitResult, JobStates, Active, Leased, Finished
<1>10. ASSUME NEW k \in Keys, jobs[k].state \in Leased, NEW n,
              jobs' = FailedAndRetried(k, n), UNCHANGED issued
       PROVE  TokensKnown'
  <2> DEFINE js == [jobs EXCEPT ![k].state = "FAILED"]
  <2>1. /\ js \in [Keys -> Job] /\ js[k].state = "FAILED"
        /\ \A i \in Keys \ {k} : js[i] = jobs[i]
    BY <1>1 DEF Job, JobStates, Finished
  <2>2. jobs' = Scheduled(js, n)
    BY <1>10 DEF FailedAndRetried
  <2> HIDE DEF js
  <2>3. \A i \in Keys : jobs'[i] = js[i] \/ jobs'[i].state = "QUEUED"
    BY <2>1, <2>2, NewRows DEF Scheduled
  <2>4. \A i \in Keys : \/ jobs'[i].state \notin Leased
                        \/ jobs[i].state \in Leased /\ Same(i)
    BY <1>10, <2>1, <2>3 DEF Leased
  <2>5. QED
    BY <1>2, <2>4
<1>11. ASSUME NEW e \in Executors, CommitFailure(e) PROVE TokensKnown'
  <2>1. request[e].job \in Keys /\ jobs[request[e].job].state \in Leased
    BY <1>1, <1>11, CurrentJob DEF CommitFailure
  <2>2. UNCHANGED issued /\ MayWrite(e, {"FAILED"})
    BY <1>11 DEF CommitFailure
  <2>3. QED
    BY <1>8, <1>10, <1>11, <2>1, <2>2 DEF CommitFailure, JobStates, Finished
<1>12. ASSUME NEW k \in Keys, Expire(k) PROVE TokensKnown'
  <2>1. \A i \in Keys : jobs'[i].state = jobs[i].state /\ jobs'[i].token = jobs[i].token
    BY <1>1, <1>12 DEF Expire, Job
  <2>2. QED
    BY <1>2, <1>12, <2>1 DEF Expire
<1>13. ASSUME NEW k \in Keys, NEW reset \in {"no", "yes"}, Requeue(k, reset)
       PROVE  TokensKnown'
  <2>1. \A i \in Keys : i = k \/ jobs'[i] = jobs[i]
    BY <1>1, <1>13 DEF Requeue
  <2>2. jobs'[k].state = "QUEUED"
    BY <1>1, <1>13 DEF Requeue, ResetAttempt, Job
  <2>3. QED
    BY <1>2, <1>13, <2>1, <2>2 DEF Requeue, Leased
<1>14. CASE ScheduleRun
  <2>1. \A i \in Keys : jobs'[i] = jobs[i] \/ jobs'[i].state = "QUEUED"
    BY <1>1, <1>14, NewRows DEF ScheduleRun, Scheduled
  <2>2. QED
    BY <1>2, <1>14, <2>1 DEF ScheduleRun, Leased
<1>15. CASE CancelRun
  <2>1. \A i \in Keys : jobs'[i] = jobs[i] \/ jobs'[i].state = "CANCELLED"
    BY <1>1, <1>15 DEF CancelRun, Job
  <2>2. QED
    BY <1>2, <1>15, <2>1 DEF CancelRun, Leased
<1>16. ASSUME NEW e \in Executors,
              \/ Enroll(e) \/ GoOffline(e) \/ Heartbeat(e) \/ Work(e) \/ Drop(e) \/ Crash(e)
              \/ CommitStartRun(e) \/ CommitStep(e) \/ RefuseStale(e) \/ RefuseResult(e)
       PROVE  TokensKnown'
  BY <1>3, <1>16 DEF Enroll, GoOffline, Heartbeat, Work, BeginLeased, BeginFinish, Drop,
     Crash, CommitStartRun, CommitStep, RefuseStale, RefuseResult
<1>17. CASE ExecuteRun \/ RecoverStep \/ UNCHANGED vars
  BY <1>3, <1>17 DEF ExecuteRun, RecoverStep, vars
<1>18. QED
  BY <1>4, <1>5, <1>6, <1>7, <1>9, <1>11, <1>12, <1>13, <1>14, <1>15, <1>16, <1>17
     DEF Next, Serve

\* Only a commit of a current request finishes a job.
LEMMA FinishedBy ==
  ASSUME Inv, TokensKnown, Overlap = "no", [Next]_vars, NEW k \in Keys
  PROVE  /\ jobs'[k].state \in Finished /\ jobs[k].state \notin Finished =>
              \E e \in Executors : /\ request[e].job = k
                                   /\ request[e].token = issued[k]
                                   /\ executors[e] = "ACTIVE"
         /\ jobs[k].state \in Finished => jobs'[k].state = jobs[k].state
<1> DEFINE Fine == /\ jobs'[k].state \in Finished /\ jobs[k].state \notin Finished =>
                        \E e \in Executors : /\ request[e].job = k
                                             /\ request[e].token = issued[k]
                                             /\ executors[e] = "ACTIVE"
                   /\ jobs[k].state \in Finished => jobs'[k].state = jobs[k].state
<1>1. TypeOK /\ jobs \in [Keys -> Job] /\ issued \in [Keys -> Nat]
  BY DEF Inv, TypeOK
<1>2. ASSUME \/ jobs'[k].state = jobs[k].state
             \/ jobs[k].state \notin Finished /\ jobs'[k].state \notin Finished
      PROVE  Fine
  BY <1>2
<1>3. ASSUME NEW e \in Executors, Revoke(e) PROVE Fine
  <2>1. \/ jobs'[k] = jobs[k]
        \/ jobs[k].state \in Leased /\ jobs'[k].state \in {"QUEUED", "DEAD_LETTER"}
    BY <1>1, <1>3, ReleasedStates DEF Revoke
  <2>2. QED
    BY <1>2, <2>1 DEF Leased, Finished
<1>4. CASE RecoverOrphaned
  <2>1. \/ jobs'[k] = jobs[k]
        \/ jobs[k].state \in Leased /\ jobs'[k].state \in {"QUEUED", "DEAD_LETTER"}
    BY <1>1, <1>4, ReleasedStates DEF RecoverOrphaned, Orphans
  <2>2. QED
    BY <1>2, <2>1 DEF Leased, Finished
<1>5. ASSUME NEW e \in Executors, Acquire(e) PROVE Fine
  <2>1. \/ jobs'[k] = jobs[k]
        \/ jobs[k].state \in Active /\ jobs'[k].state \in {"QUEUED", "DEAD_LETTER", "LEASED"}
    BY <1>1, <1>5, AcquireStates
  <2>2. QED
    BY <1>2, <2>1 DEF Active, Leased, Finished
<1>6. ASSUME NEW e \in Executors, NEW ops, MayWrite(e, ops), request[e].job = k PROVE Fine
  <2>1. /\ jobs[k].state \in Leased /\ jobs[k].token = request[e].token
        /\ executors[e] = "ACTIVE"
    BY <1>1, <1>6, CurrentJob
  <2>2. request[e].token = issued[k] /\ jobs[k].state \notin Finished
    BY <2>1 DEF TokensKnown, Leased, Finished
  <2>3. QED
    BY <1>6, <2>1, <2>2
<1>7. ASSUME NEW e \in Executors, CommitRelease(e) \/ CommitStart(e) \/ CommitResult(e)
      PROVE  Fine
  <2>1. \E ops : MayWrite(e, ops)
    BY <1>7 DEF CommitRelease, CommitStart, CommitResult
  <2>2. request[e].job # k => jobs'[k] = jobs[k]
    BY <1>1, <1>7 DEF CommitRelease, CommitStart, CommitResult, SetState
  <2>3. QED
    BY <1>2, <1>6, <2>1, <2>2
<1>8. ASSUME NEW e \in Executors, CommitFailure(e) PROVE Fine
  <2> DEFINE j == request[e].job
  <2>1. MayWrite(e, {"FAILED"}) /\ j \in Keys
    BY <1>1, <1>8 DEF CommitFailure, TypeOK, Request
  <2>2. ASSUME j # k, NEW n, jobs' = FailedAndRetried(j, n)
        PROVE  jobs'[k] = jobs[k] \/ (jobs[k].state = "NONE" /\ jobs'[k].state = "QUEUED")
    <3> DEFINE js == [jobs EXCEPT ![j].state = "FAILED"]
    <3>1. js \in [Keys -> Job] /\ js[k] = jobs[k]
      BY <1>1, <2>1, <2>2 DEF Job, JobStates, Finished
    <3>2. jobs' = Scheduled(js, n)
      BY <2>2 DEF FailedAndRetried
    <3> HIDE DEF js
    <3>3. QED
      BY <3>1, <3>2, NewRows DEF Scheduled
  <2>3. ASSUME j # k, SetState(j, "FAILED") PROVE jobs'[k] = jobs[k]
    BY <1>1, <2>3 DEF SetState
  <2>4. CASE j = k
    BY <1>6, <2>1, <2>4
  <2>5. CASE j # k
    <3>1. jobs'[k] = jobs[k] \/ (jobs[k].state = "NONE" /\ jobs'[k].state = "QUEUED")
      BY <1>8, <2>2, <2>3, <2>5 DEF CommitFailure
    <3>2. QED
      BY <1>2, <3>1 DEF Finished
  <2>6. QED
    BY <2>4, <2>5
<1>9. ASSUME NEW i \in Keys, Expire(i) PROVE Fine
  <2>1. jobs'[k].state = jobs[k].state
    BY <1>1, <1>9 DEF Expire, Job
  <2>2. QED
    BY <1>2, <2>1
<1>10. ASSUME NEW i \in Keys, NEW reset \in {"no", "yes"}, Requeue(i, reset)
       PROVE  Fine
  <2>1. \/ jobs'[k] = jobs[k]
        \/ jobs[k].state = "DEAD_LETTER" /\ jobs'[k].state = "QUEUED"
    BY <1>1, <1>10 DEF Requeue, ResetAttempt, Job
  <2>2. QED
    BY <1>2, <2>1 DEF Finished
<1>11. CASE ScheduleRun
  <2>1. jobs'[k] = jobs[k] \/ (jobs[k].state = "NONE" /\ jobs'[k].state = "QUEUED")
    BY <1>1, <1>11, NewRows DEF ScheduleRun, Scheduled
  <2>2. QED
    BY <1>2, <2>1 DEF Finished
<1>12. CASE CancelRun
  <2>1. jobs'[k] = jobs[k] \/ (jobs[k].state \in Active /\ jobs'[k].state = "CANCELLED")
    BY <1>1, <1>12 DEF CancelRun, Job
  <2>2. QED
    BY <1>2, <2>1 DEF Active, Leased, Finished
<1>13. ASSUME UNCHANGED jobs PROVE Fine
  BY <1>2, <1>13
<1>14. ASSUME NEW e \in Executors,
              \/ Enroll(e) \/ GoOffline(e) \/ Heartbeat(e) \/ Work(e) \/ Drop(e) \/ Crash(e)
              \/ CommitStartRun(e) \/ CommitStep(e) \/ RefuseStale(e) \/ RefuseResult(e)
       PROVE  Fine
  BY <1>13, <1>14 DEF Enroll, GoOffline, Heartbeat, Work, BeginLeased, BeginFinish, Drop,
     Crash, CommitStartRun, CommitStep, RefuseStale, RefuseResult
<1>15. CASE ExecuteRun \/ RecoverStep \/ UNCHANGED vars
  BY <1>13, <1>15 DEF ExecuteRun, RecoverStep, vars
<1>16. Fine
  <2>1. ASSUME NEW e \in Executors, Serve(e) PROVE Fine
    BY <1>7, <1>8, <1>14, <2>1 DEF Serve
  <2>2. CASE Next
    BY <1>3, <1>4, <1>5, <1>9, <1>10, <1>11, <1>12, <1>14, <1>15, <2>1, <2>2 DEF Next
  <2>3. QED
    BY <1>15, <2>2
<1>17. QED
  BY <1>16

\* When the writes of requests do not overlap, only the holder of the latest lease
\* finishes a job, and a finished job stays as it is (_owned_job, _finish_job).
THEOREM StaleTokensLose ==
  ASSUME Overlap = "no"
  PROVE  Spec => StaleTokensRejected
<1> DEFINE Fine(k) ==
      /\ jobs'[k].state \in Finished /\ jobs[k].state \notin Finished =>
           \E e \in Executors : /\ request[e].job = k
                                /\ request[e].token = issued[k]
                                /\ executors[e] = "ACTIVE"
      /\ jobs[k].state \in Finished => jobs'[k].state = jobs[k].state
<1>1. Init => TokensKnown
  BY DEF Init, TokensKnown, NoJob, Leased
<1>2. Inv /\ TokensKnown /\ [Next]_vars => TokensKnown'
  BY TokensNext
<1>3. Inv /\ TokensKnown /\ [Next]_vars => [\A k \in Keys : Fine(k)]_vars
  BY FinishedBy
<1>4. QED
  BY <1>1, <1>2, <1>3, PlaneInvariant, PTL DEF Spec, StaleTokensRejected

-----------------------------------------------------------------------------
(* The identity of a host.                                                 *)

\* The requests of the daemon and of the operator's commands.
Assigned(a, c) ==
  a.op \in {"none", "heartbeat", "lease"} /\ c.op \in {"none", "enroll", "rotate"}

\* An enrollment presents one token.
Lonely(c) == c.invite = {} \/ \E i \in Invites : c.invite = {i}

\* A host is absent, with its enrollment yet to come, or it is registered with as
\* many tokens as keys and its disk is never ahead.
Placed(r, d, v, a, c) ==
  IF r.status = "ABSENT"
  THEN /\ r.key = 0 /\ r.token = 0 /\ r.invite = {}
       /\ d.key \in {0, 1} /\ d.token = 0
       /\ a.op = "none" /\ v.state = "off"
       /\ c.op # "none" => c.op = "enroll" /\ c.phase = "ready"
  ELSE /\ r.token = r.key /\ r.key > 0 /\ d.key <= r.key /\ d.key > 0
       /\ ~(c.op = "enroll" /\ c.phase = "ready")

\* What the enrollment of a host has been granted before it commits.
Granted(c) ==
  /\ SandboxApproved(c.sandbox)
  /\ Production => c.payload.region \in AllowedRegions /\ c.payload.pins = "right"

\* What an operator's command relies on between two of its steps.
Commanded(r, d, c) ==
  /\ c.op = "enroll" => c.phase \in {"ready", "answered"} /\ d.key = 1
  /\ c.op = "enroll" /\ c.phase = "ready" => Granted(c)
  /\ c.op = "enroll" /\ c.phase = "answered" => c.token = 1 /\ r.key = 1 /\ r.token = 1
  /\ c.invite # {} => c.op = "enroll" /\ c.phase = "ready"
  /\ c.op = "rotate" => d.drain = "yes"
  /\ c.op = "rotate" /\ c.phase \in {"sent", "stale", "reload", "ready"} => r.key <= RotationBound
  /\ c.op = "rotate" /\ c.phase \in {"answered", "keyed", "stored"} => c.token = r.token
  /\ c.op = "rotate" /\ c.phase \in {"keyed", "stored"} => d.key = r.key
  /\ c.op = "rotate" /\ c.phase = "stored" => d.token = r.token

\* HalfRotatedIsDrained and StaysInBoundary of one host.
Drained(r, d) ==
  d.token # 0 /\ <<d.key, d.token>> # <<r.key, r.token>> => d.drain = "yes" \/ d.cleared = "yes"
Bounded(r) ==
  Production /\ r.status # "ABSENT" =>
    /\ r.sandbox = "verified" /\ r.region \in AllowedRegions
    /\ r.boundary.region = r.region /\ r.boundary.pins = "right"

\* What holds of a registration, a disk, a service and the two requests of a host.
HostSound(r, d, v, a, c) ==
  /\ Assigned(a, c) /\ Lonely(c) /\ Placed(r, d, v, a, c) /\ Commanded(r, d, c)
  /\ Drained(r, d) /\ Bounded(r)

\* A token is used by the host that it made, and its row is locked by one command.
InvitesFit ==
  deployment.dialect = "postgresql" =>
    /\ \A h \in Hosts : \A i \in registry[h].invite : invites[i] = "used"
    /\ \A h \in Hosts : \A i \in calls[h]["operator"].invite : invites[i] \in {"open", "expired"}
    /\ \A g, h \in Hosts : g # h =>
         calls[g]["operator"].invite \cap calls[h]["operator"].invite = {}

\* The inductive invariant of the hosts.
IdInv ==
  /\ IdTypeOK /\ InviteUsedOnce /\ InvitesFit
  /\ \A h \in Hosts :
       HostSound(registry[h], disk[h], service[h], calls[h]["daemon"], calls[h]["operator"])

\* Numbers of keys and tokens.
LEMMA SerialFacts ==
  /\ Serials \subseteq Nat /\ 0 \in Serials /\ 1 \in Serials
  /\ \A k \in Serials : k <= RotationBound => k + 1 \in Serials
  BY IdAssumption DEF Serials

\* A process without a request.
LEMMA NoCallIs ==
  NoCall \in Call /\ NoCall.op = "none" /\ NoCall.phase = "sent" /\ NoCall.invite = {}
  BY SerialFacts DEF NoCall, Call, Unversioned, Boundaries, Statuses

\* What the invariant says of one host.
LEMMA HostFacts ==
  ASSUME IdInv, NEW h \in Hosts
  PROVE  /\ registry[h] \in Registration /\ disk[h] \in Disk
         /\ service[h] \in [state : {"off", "up", "clear"}, token : Serials]
         /\ \A p \in Processes : calls[h][p] \in Call
         /\ calls[h]["daemon"] \in Call /\ calls[h]["operator"] \in Call
         /\ HostSound(registry[h], disk[h], service[h], calls[h]["daemon"],
                      calls[h]["operator"])
         /\ registry = [registry EXCEPT ![h] = registry[h]]
         /\ disk = [disk EXCEPT ![h] = disk[h]] /\ service = [service EXCEPT ![h] = service[h]]
         /\ calls \in [Hosts -> [Processes -> Call]]
  BY DEF IdInv, IdTypeOK, Processes

\* A request of one process of one host.
LEMMA CallMoves ==
  ASSUME IdInv, NEW h \in Hosts, NEW p \in Processes, NEW x \in Call, Calls(h, p, x)
  PROVE  /\ calls' \in [Hosts -> [Processes -> Call]]
         /\ \A g \in Hosts : g # h => calls'[g] = calls[g]
         /\ p = "daemon" => /\ calls'[h]["daemon"] = x
                            /\ calls'[h]["operator"] = calls[h]["operator"]
         /\ p = "operator" => /\ calls'[h]["daemon"] = calls[h]["daemon"]
                              /\ calls'[h]["operator"] = x
  BY DEF IdInv, IdTypeOK, Calls, Processes

\* A step of one host leaves the others as they are.
LEMMA HostMoves ==
  ASSUME IdInv, NEW h \in Hosts, NEW r \in Registration, NEW d \in Disk,
         NEW v \in [state : {"off", "up", "clear"}, token : Serials],
         NEW a \in Call, NEW c \in Call,
         registry' = [registry EXCEPT ![h] = r], disk' = [disk EXCEPT ![h] = d],
         service' = [service EXCEPT ![h] = v], calls' \in [Hosts -> [Processes -> Call]],
         calls'[h]["daemon"] = a, calls'[h]["operator"] = c,
         \A g \in Hosts : g # h => calls'[g] = calls[g],
         deployment' = deployment, hostFaults' \in 0 .. HostFaultBound,
         invites' \in [Invites -> {"absent", "open", "used", "expired"}],
         HostSound(r, d, v, a, c)
  PROVE  /\ IdTypeOK'
         /\ registry'[h] = r /\ \A g \in Hosts : g # h => registry'[g] = registry[g]
         /\ \A g \in Hosts :
              HostSound(registry[g], disk[g], service[g], calls[g]["daemon"],
                        calls[g]["operator"])'
<1>1. /\ registry \in [Hosts -> Registration] /\ disk \in [Hosts -> Disk]
      /\ service \in [Hosts -> [state : {"off", "up", "clear"}, token : Serials]]
      /\ calls \in [Hosts -> [Processes -> Call]]
  BY DEF IdInv, IdTypeOK
<1>2. /\ registry' \in [Hosts -> Registration] /\ disk' \in [Hosts -> Disk]
      /\ service' \in [Hosts -> [state : {"off", "up", "clear"}, token : Serials]]
      /\ calls' \in [Hosts -> [Processes -> Call]]
  BY <1>1
<1>3. /\ registry'[h] = r /\ disk'[h] = d /\ service'[h] = v
  BY <1>1 DEF Processes
<1>4. \A g \in Hosts : g # h => /\ registry'[g] = registry[g] /\ disk'[g] = disk[g]
                                /\ service'[g] = service[g] /\ calls'[g] = calls[g]
  BY <1>1
<1>5. IdTypeOK'
  BY <1>2 DEF IdInv, IdTypeOK
<1>6. ASSUME NEW g \in Hosts
      PROVE  HostSound(registry[g], disk[g], service[g], calls[g]["daemon"],
                       calls[g]["operator"])'
  <2>1. CASE g = h
    BY <1>3, <2>1 DEF HostSound, Assigned, Lonely, Placed, Commanded, Granted, Drained, Bounded, Production,
       SandboxApproved
  <2>2. CASE g # h
    <3>1. HostSound(registry[g], disk[g], service[g], calls[g]["daemon"], calls[g]["operator"])
      BY DEF IdInv
    <3>2. QED
      BY <1>4, <2>2, <3>1 DEF HostSound, Assigned, Lonely, Placed, Commanded, Granted, Drained, Bounded,
         Production, SandboxApproved
  <2>3. QED
    BY <2>1, <2>2
<1>7. QED
  BY <1>3, <1>4, <1>5, <1>6

\* A step of one host that takes no enrollment token.
LEMMA HostStep ==
  ASSUME IdInv, NEW h \in Hosts, NEW r \in Registration, NEW d \in Disk,
         NEW v \in [state : {"off", "up", "clear"}, token : Serials],
         NEW a \in Call, NEW c \in Call,
         registry' = [registry EXCEPT ![h] = r], disk' = [disk EXCEPT ![h] = d],
         service' = [service EXCEPT ![h] = v], calls' \in [Hosts -> [Processes -> Call]],
         calls'[h]["daemon"] = a, calls'[h]["operator"] = c,
         \A g \in Hosts : g # h => calls'[g] = calls[g],
         UNCHANGED <<deployment, invites>>, hostFaults' \in 0 .. HostFaultBound,
         r.invite = registry[h].invite, c.invite \subseteq calls[h]["operator"].invite,
         HostSound(r, d, v, a, c)
  PROVE  IdInv'
<1>1. invites' \in [Invites -> {"absent", "open", "used", "expired"}]
  BY DEF IdInv, IdTypeOK
<1>2. /\ IdTypeOK'
      /\ registry'[h] = r /\ \A g \in Hosts : g # h => registry'[g] = registry[g]
      /\ \A g \in Hosts :
           HostSound(registry[g], disk[g], service[g], calls[g]["daemon"],
                     calls[g]["operator"])'
  BY <1>1, HostMoves
<1>3. \A g \in Hosts : /\ registry'[g].invite = registry[g].invite
                       /\ calls'[g]["operator"].invite \subseteq calls[g]["operator"].invite
  BY <1>2
<1>4. InviteUsedOnce'
  BY <1>3 DEF IdInv, InviteUsedOnce
<1>5. InvitesFit'
  <2>1. CASE deployment.dialect # "postgresql"
    BY <2>1 DEF InvitesFit
  <2>2. CASE deployment.dialect = "postgresql"
    <3>1. \A g \in Hosts : \A i \in registry'[g].invite : invites'[i] = "used"
      BY <1>3, <2>2 DEF IdInv, InvitesFit
    <3>2. \A g \in Hosts : \A i \in calls'[g]["operator"].invite :
             invites'[i] \in {"open", "expired"}
      BY <1>3, <2>2 DEF IdInv, InvitesFit
    <3>3. \A g, k \in Hosts : g # k =>
             calls'[g]["operator"].invite \cap calls'[k]["operator"].invite = {}
      BY <1>3, <2>2 DEF IdInv, InvitesFit
    <3>4. QED
      BY <3>1, <3>2, <3>3 DEF InvitesFit
  <2>3. QED
    BY <2>1, <2>2
<1>6. QED
  BY <1>2, <1>4, <1>5 DEF IdInv

\* Authentication, the offline mark, and requests that are cut short.
LEMMA CallSteps ==
  ASSUME IdInv, NEW h \in Hosts, NEW p \in Processes,
         Authenticate(h, p) \/ MarkOffline(h, p) \/ Reload(h, p) \/ CutShort(h, p)
  PROVE  IdInv'
<1> DEFINE r == registry[h]
           d == disk[h]
           v == service[h]
           a == calls[h]["daemon"]
           c == calls[h]["operator"]
           call == calls[h][p]
           full(d1) == [d1 EXCEPT !.drain = "yes"]
           off(v1) == [v1 EXCEPT !.state = "off"]
<1>1. /\ r \in Registration /\ d \in Disk /\ a \in Call /\ c \in Call /\ call \in Call
      /\ v \in [state : {"off", "up", "clear"}, token : Serials]
      /\ HostSound(r, d, v, a, c)
      /\ registry = [registry EXCEPT ![h] = r] /\ disk = [disk EXCEPT ![h] = d]
      /\ service = [service EXCEPT ![h] = v]
      /\ hostFaults \in 0 .. HostFaultBound /\ hostFaults \in Nat /\ HostFaultBound \in Nat
  BY HostFacts, IdAssumption DEF IdInv, IdTypeOK
<1>2. UNCHANGED <<deployment, invites>> /\ call.op # "none"
  BY DEF Authenticate, MarkOffline, Reload, CutShort, Busy
<1>3. hostFaults' \in 0 .. HostFaultBound
  <2>1. \/ hostFaults' = hostFaults
        \/ hostFaults < HostFaultBound /\ hostFaults' = hostFaults + 1
    BY DEF Authenticate, MarkOffline, Reload, CutShort
  <2>2. QED
    BY <1>1, <2>1
<1>4. (p = "daemon" /\ call = a) \/ (p = "operator" /\ call = c)
  BY DEF Processes
<1>5. r.status = "ABSENT" => p = "operator" /\ c.op = "enroll" /\ c.phase = "ready"
  BY <1>1, <1>2, <1>4 DEF HostSound, Placed
<1>6. /\ full(d) \in Disk /\ full(d).key = d.key /\ full(d).token = d.token
      /\ full(d).drain = "yes"
      /\ off(v) \in [state : {"off", "up", "clear"}, token : Serials] /\ off(v).state = "off"
  BY <1>1 DEF Disk
<1>7. ASSUME NEW d2 \in Disk, NEW v2 \in [state : {"off", "up", "clear"}, token : Serials],
             registry' = registry, disk' = [disk EXCEPT ![h] = d2],
             service' = [service EXCEPT ![h] = v2], Ends(h, p),
             d2.key = d.key, d2.token = d.token,
             d2 = d \/ d2.drain = "yes", v2 = v \/ v2.state = "off"
      PROVE  IdInv'
  <2>1. p = "daemon" => HostSound(r, d2, v2, NoCall, c)
    BY <1>1, <1>5, <1>7, NoCallIs DEF HostSound, Assigned, Lonely, Placed, Commanded, Drained
  <2>2. p = "operator" => HostSound(r, d2, v2, a, NoCall)
    BY <1>1, <1>5, <1>7, NoCallIs DEF HostSound, Assigned, Lonely, Placed, Commanded, Drained
  <2>3. Calls(h, p, NoCall) /\ registry' = [registry EXCEPT ![h] = r]
    BY <1>1, <1>7 DEF Ends
  <2>4. /\ calls' \in [Hosts -> [Processes -> Call]]
        /\ \A g \in Hosts : g # h => calls'[g] = calls[g]
        /\ p = "daemon" => calls'[h]["daemon"] = NoCall /\ calls'[h]["operator"] = c
        /\ p = "operator" => calls'[h]["daemon"] = a /\ calls'[h]["operator"] = NoCall
    BY <2>3, NoCallIs, CallMoves
  <2>5. CASE p = "daemon"
    BY <1>1, <1>2, <1>3, <1>7, <2>1, <2>3, <2>4, <2>5, NoCallIs, HostStep
  <2>6. CASE p = "operator"
    BY <1>1, <1>2, <1>3, <1>7, <2>2, <2>3, <2>4, <2>6, NoCallIs, HostStep
  <2>7. QED
    BY <1>4, <2>5, <2>6
<1>8. ASSUME Rejected(h, p), registry' = registry
      PROVE  IdInv'
  <2>1. CASE p = "daemon"
    <3>1. Ends(h, p) /\ disk' = [disk EXCEPT ![h] = full(d)] /\ service' = [service EXCEPT ![h] = off(v)]
      BY <1>1, <1>8, <2>1 DEF Rejected
    <3> HIDE DEF full, off
    <3>2. QED
      BY <1>6, <1>7, <1>8, <3>1
  <2>2. CASE p # "daemon"
    <3>1. Ends(h, p) /\ disk' = [disk EXCEPT ![h] = d] /\ service' = [service EXCEPT ![h] = v]
      BY <1>1, <1>8, <2>2 DEF Rejected
    <3>2. QED
      BY <1>1, <1>7, <1>8, <3>1
  <2>3. QED
    BY <2>1, <2>2
<1>9. ASSUME NEW x \in Call, NEW r2 \in Registration, Calls(h, p, x),
             registry' = [registry EXCEPT ![h] = r2], UNCHANGED <<disk, service>>,
             x.op = call.op, x.op \in {"heartbeat", "lease", "rotate"}, x.invite = call.invite,
             call.phase \in {"sent", "stale", "reload"},
             x.phase \in {"stale", "reload", "ready"},
             r2.key = r.key, r2.token = r.token, r2.invite = r.invite,
             r2.status # "ABSENT", r2.sandbox = r.sandbox, r2.region = r.region,
             r2.boundary = r.boundary
      PROVE  IdInv'
  <2>1. r.status # "ABSENT"
    BY <1>4, <1>5, <1>9
  <2>2. p = "daemon" => HostSound(r2, d, v, x, c)
    BY <1>1, <1>4, <1>9, <2>1 DEF HostSound, Assigned, Lonely, Placed, Commanded, Drained, Bounded
  <2>3. p = "operator" => HostSound(r2, d, v, a, x)
    BY <1>1, <1>4, <1>9, <2>1 DEF HostSound, Assigned, Lonely, Placed, Commanded, Drained, Bounded
  <2>4. /\ disk' = [disk EXCEPT ![h] = d] /\ service' = [service EXCEPT ![h] = v]
        /\ registry' = [registry EXCEPT ![h] = r2] /\ r2.invite = registry[h].invite
        /\ x.invite \subseteq call.invite
    BY <1>1, <1>9
  <2>5. /\ calls' \in [Hosts -> [Processes -> Call]]
        /\ \A g \in Hosts : g # h => calls'[g] = calls[g]
        /\ p = "daemon" => calls'[h]["daemon"] = x /\ calls'[h]["operator"] = c
        /\ p = "operator" => calls'[h]["daemon"] = a /\ calls'[h]["operator"] = x
    BY <1>9, CallMoves
  <2>6. CASE p = "daemon"
    BY <1>1, <1>2, <1>3, <2>2, <2>4, <2>5, <2>6, HostStep
  <2>7. CASE p = "operator"
    BY <1>1, <1>2, <1>3, <1>4, <2>3, <2>4, <2>5, <2>7, HostStep
  <2>8. QED
    BY <1>4, <2>6, <2>7
<1>10. CASE Authenticate(h, p)
  <2>1. CASE Known(h, call.token)
    <3> DEFINE phase == IF r.status = "ACTIVE" /\ r.fresh = "no" THEN "stale" ELSE "ready"
               x == [call EXCEPT !.seen = r.status, !.phase = phase]
    <3>1. x \in Call /\ x.op = call.op /\ x.phase \in {"stale", "ready"} /\ x.invite = call.invite
      BY <1>1 DEF Call, Registration
    <3>2. Calls(h, p, x) /\ UNCHANGED <<disk, service, registry>>
      BY <1>1, <1>10, <2>1 DEF Authenticate
    <3>3. /\ call.op \in {"heartbeat", "lease", "rotate"} /\ call.phase = "sent"
      BY <1>10 DEF Authenticate
    <3>4. r.status # "ABSENT"
      BY <1>4, <1>5, <3>3
    <3> HIDE DEF x
    <3>5. QED
      BY <1>1, <1>9, <3>1, <3>2, <3>3, <3>4
  <2>2. CASE ~Known(h, call.token)
    BY <1>8, <1>10, <2>2 DEF Authenticate
  <2>3. QED
    BY <2>1, <2>2
<1>11. CASE MarkOffline(h, p)
  <2> DEFINE x == [call EXCEPT !.phase = "reload"]
             r2 == [r EXCEPT !.status = "OFFLINE"]
  <2>1. x \in Call /\ x.op = call.op /\ x.phase = "reload" /\ x.invite = call.invite
    BY <1>1 DEF Call
  <2>2. /\ r2 \in Registration /\ r2.key = r.key /\ r2.token = r.token /\ r2.invite = r.invite
        /\ r2.status = "OFFLINE" /\ r2.sandbox = r.sandbox /\ r2.region = r.region
        /\ r2.boundary = r.boundary
    BY <1>1 DEF Registration, Statuses
  <2>3. /\ Calls(h, p, x) /\ registry' = [registry EXCEPT ![h] = r2]
        /\ UNCHANGED <<disk, service>>
    BY <1>1, <1>11 DEF MarkOffline, Reaches
  <2>4. call.phase = "stale" /\ call.op \in {"heartbeat", "lease", "rotate"}
    BY <1>1, <1>2, <1>4, <1>11 DEF MarkOffline, HostSound, Assigned, Commanded, Call
  <2> HIDE DEF x, r2
  <2>5. QED
    BY <1>9, <2>1, <2>2, <2>3, <2>4
<1>12. CASE Reload(h, p)
  <2> DEFINE x == [call EXCEPT !.phase = "ready", !.seen = r.status]
  <2>1. x \in Call /\ x.op = call.op /\ x.phase = "ready" /\ x.invite = call.invite
    BY <1>1 DEF Call, Registration
  <2>2. /\ Calls(h, p, x) /\ UNCHANGED <<disk, service, registry>>
    BY <1>1, <1>12 DEF Reload
  <2>3. call.phase = "reload" /\ call.op \in {"heartbeat", "lease", "rotate"}
    BY <1>1, <1>2, <1>4, <1>12 DEF Reload, HostSound, Assigned, Commanded, Call
  <2>4. r.status # "ABSENT"
    BY <1>4, <1>5, <2>3
  <2> HIDE DEF x
  <2>5. QED
    BY <1>1, <1>9, <2>1, <2>2, <2>3, <2>4
<1>13. CASE CutShort(h, p)
  <2>1. /\ Ends(h, p) /\ registry' = registry /\ disk' = [disk EXCEPT ![h] = d]
        /\ service' = [service EXCEPT ![h] = v] \/ service' = [service EXCEPT ![h] = off(v)]
    BY <1>1, <1>13 DEF CutShort
  <2> HIDE DEF off
  <2>2. QED
    BY <1>1, <1>6, <1>7, <2>1
<1>14. QED
  BY <1>10, <1>11, <1>12, <1>13

\* A request of the daemon,
LEMMA DaemonMoves ==
  ASSUME IdInv, NEW h \in Hosts, NEW r \in Registration, NEW d \in Disk,
         NEW v \in [state : {"off", "up", "clear"}, token : Serials], NEW x \in Call,
         registry' = [registry EXCEPT ![h] = r], disk' = [disk EXCEPT ![h] = d],
         service' = [service EXCEPT ![h] = v], Calls(h, "daemon", x),
         UNCHANGED <<deployment, invites, hostFaults>>, r.invite = registry[h].invite,
         HostSound(r, d, v, x, calls[h]["operator"])
  PROVE  IdInv'
<1>1. /\ calls' \in [Hosts -> [Processes -> Call]] /\ calls'[h]["daemon"] = x
      /\ calls'[h]["operator"] = calls[h]["operator"]
      /\ \A g \in Hosts : g # h => calls'[g] = calls[g]
  BY CallMoves DEF Processes
<1>2. calls[h]["operator"] \in Call /\ hostFaults' \in 0 .. HostFaultBound
  BY HostFacts DEF IdInv, IdTypeOK
<1>3. QED
  BY <1>1, <1>2, HostStep

\* one of the operator,
LEMMA OperatorMoves ==
  ASSUME IdInv, NEW h \in Hosts, NEW r \in Registration, NEW d \in Disk, NEW x \in Call,
         registry' = [registry EXCEPT ![h] = r], disk' = [disk EXCEPT ![h] = d],
         Calls(h, "operator", x), UNCHANGED <<deployment, invites, service, hostFaults>>,
         r.invite = registry[h].invite, x.invite \subseteq calls[h]["operator"].invite,
         HostSound(r, d, service[h], calls[h]["daemon"], x)
  PROVE  IdInv'
<1>1. /\ calls' \in [Hosts -> [Processes -> Call]] /\ calls'[h]["operator"] = x
      /\ calls'[h]["daemon"] = calls[h]["daemon"]
      /\ \A g \in Hosts : g # h => calls'[g] = calls[g]
  BY CallMoves DEF Processes
<1>2. /\ calls[h]["daemon"] \in Call /\ hostFaults' \in 0 .. HostFaultBound
      /\ service[h] \in [state : {"off", "up", "clear"}, token : Serials]
      /\ service' = [service EXCEPT ![h] = service[h]]
  BY HostFacts DEF IdInv, IdTypeOK
<1>3. QED
  BY <1>1, <1>2, HostStep

\* or a step without a request.
LEMMA CallsRest ==
  ASSUME IdInv, NEW h \in Hosts, NEW r \in Registration, NEW d \in Disk,
         NEW v \in [state : {"off", "up", "clear"}, token : Serials],
         registry' = [registry EXCEPT ![h] = r], disk' = [disk EXCEPT ![h] = d],
         service' = [service EXCEPT ![h] = v],
         UNCHANGED <<deployment, invites, calls, hostFaults>>, r.invite = registry[h].invite,
         HostSound(r, d, v, calls[h]["daemon"], calls[h]["operator"])
  PROVE  IdInv'
<1>1. /\ calls' \in [Hosts -> [Processes -> Call]] /\ hostFaults' \in 0 .. HostFaultBound
      /\ calls[h]["daemon"] \in Call /\ calls[h]["operator"] \in Call
  BY HostFacts DEF IdInv, IdTypeOK
<1>2. QED
  BY <1>1, HostStep

\* A daemon whose credentials are refused drains and stops.
LEMMA DaemonRejected ==
  ASSUME IdInv, NEW h \in Hosts, Rejected(h, "daemon"), Busy(h, "daemon"),
         UNCHANGED <<deployment, invites, registry, hostFaults>>
  PROVE  IdInv'
<1> DEFINE d == [disk[h] EXCEPT !.drain = "yes"]
           v == [service[h] EXCEPT !.state = "off"]
<1>1. /\ d \in Disk /\ d.key = disk[h].key /\ d.token = disk[h].token /\ d.drain = "yes"
      /\ v \in [state : {"off", "up", "clear"}, token : Serials] /\ v.state = "off"
  BY HostFacts DEF Disk
<1>2. /\ Calls(h, "daemon", NoCall) /\ disk' = [disk EXCEPT ![h] = d]
      /\ service' = [service EXCEPT ![h] = v] /\ registry' = [registry EXCEPT ![h] = registry[h]]
  BY HostFacts DEF Rejected, Ends, IdInv, IdTypeOK
<1> HIDE DEF d, v
<1>3. HostSound(registry[h], d, v, NoCall, calls[h]["operator"])
  BY <1>1, HostFacts, NoCallIs DEF HostSound, Assigned, Lonely, Placed, Commanded, Drained, Busy
<1>4. QED
  BY <1>1, <1>2, <1>3, HostFacts, NoCallIs, DaemonMoves

\* The daemon starts, stops and sends.
LEMMA ServiceSteps ==
  ASSUME IdInv, NEW h \in Hosts,
         DaemonStart(h) \/ DaemonStop(h) \/ SendHeartbeat(h) \/ SendLease(h)
  PROVE  IdInv'
<1> DEFINE r == registry[h]
           d == disk[h]
           v == service[h]
           a == calls[h]["daemon"]
           c == calls[h]["operator"]
<1>1. /\ r \in Registration /\ d \in Disk /\ a \in Call /\ c \in Call
      /\ v \in [state : {"off", "up", "clear"}, token : Serials]
      /\ HostSound(r, d, v, a, c)
      /\ registry = [registry EXCEPT ![h] = r] /\ disk = [disk EXCEPT ![h] = d]
      /\ service = [service EXCEPT ![h] = v]
  BY HostFacts
<1>2. UNCHANGED <<deployment, invites, registry, hostFaults>>
  BY DEF DaemonStart, DaemonStop, SendHeartbeat, SendLease
<1>3. CASE DaemonStart(h)
  <2> DEFINE w == [state |-> "up", token |-> d.token]
  <2>1. w \in [state : {"off", "up", "clear"}, token : Serials] /\ w.state = "up"
    BY <1>1 DEF Disk
  <2>2. UNCHANGED <<disk, calls>> /\ service' = [service EXCEPT ![h] = w] /\ d.token # 0
    BY <1>3 DEF DaemonStart
  <2> HIDE DEF w
  <2>3. HostSound(r, d, w, a, c)
    BY <1>1, <2>1, <2>2 DEF HostSound, Placed
  <2>4. QED
    BY <1>1, <1>2, <2>1, <2>2, <2>3, CallsRest
<1>4. CASE DaemonStop(h)
  <2> DEFINE w == [v EXCEPT !.state = "off"]
             e == [d EXCEPT !.drain = "yes"]
  <2>1. /\ w \in [state : {"off", "up", "clear"}, token : Serials] /\ w.state = "off"
        /\ e \in Disk /\ e.key = d.key /\ e.token = d.token /\ e.drain = "yes"
    BY <1>1 DEF Disk
  <2>2. /\ UNCHANGED calls /\ service' = [service EXCEPT ![h] = w]
        /\ disk' = [disk EXCEPT ![h] = e]
    BY <1>1, <1>4 DEF DaemonStop
  <2> HIDE DEF w, e
  <2>3. HostSound(r, e, w, a, c)
    BY <1>1, <2>1 DEF HostSound, Placed, Commanded, Drained
  <2>4. QED
    BY <1>1, <1>2, <2>1, <2>2, <2>3, CallsRest
<1>5. ASSUME NEW op \in {"heartbeat", "lease"}, NEW w,
             w \in [state : {"off", "up", "clear"}, token : Serials],
             v.state # "off", Send(h, "daemon", op, v.token), disk' = disk,
             service' = [service EXCEPT ![h] = w]
      PROVE  IdInv'
  <2> DEFINE x == [NoCall EXCEPT !.op = op, !.token = v.token]
  <2>1. x \in Call /\ x.op = op
    <3>1. v.token \in Serials /\ op \in {"heartbeat", "lease", "rotate"}
      BY <1>1, <1>5
    <3>2. QED
      BY <3>1, NoCallIs DEF Call
  <2>2. Calls(h, "daemon", x)
    BY <1>5 DEF Send
  <2> HIDE DEF x
  <2>3. r.status # "ABSENT"
    BY <1>1, <1>5 DEF HostSound, Placed
  <2>4. HostSound(r, d, w, x, c)
    BY <1>1, <1>5, <2>1, <2>3 DEF HostSound, Assigned, Lonely, Placed
  <2>5. QED
    BY <1>1, <1>2, <1>5, <2>1, <2>2, <2>4, DaemonMoves
<1>6. CASE SendHeartbeat(h)
  BY <1>1, <1>5, <1>6 DEF SendHeartbeat
<1>7. CASE SendLease(h)
  <2> DEFINE w == [v EXCEPT !.state = "up"]
  <2>1. w \in [state : {"off", "up", "clear"}, token : Serials]
    BY <1>1
  <2>2. service' = [service EXCEPT ![h] = w] /\ Send(h, "daemon", "lease", v.token)
        /\ disk' = disk /\ v.state # "off"
    BY <1>1, <1>7 DEF SendLease
  <2> HIDE DEF w
  <2>3. QED
    BY <1>5, <2>1, <2>2
<1>8. QED
  BY <1>3, <1>4, <1>6, <1>7

\* A heartbeat is accepted only with an approved boundary; a lease changes nothing else.
LEMMA AnswerSteps ==
  ASSUME IdInv, NEW h \in Hosts,
         \/ \E b \in Boundaries : HeartbeatCommit(h, b)
         \/ HeartbeatAnswer(h) \/ LeaseCommit(h)
  PROVE  IdInv'
<1> DEFINE r == registry[h]
           d == disk[h]
           v == service[h]
           a == calls[h]["daemon"]
           c == calls[h]["operator"]
<1>1. /\ r \in Registration /\ d \in Disk /\ a \in Call /\ c \in Call
      /\ v \in [state : {"off", "up", "clear"}, token : Serials]
      /\ HostSound(r, d, v, a, c)
      /\ registry = [registry EXCEPT ![h] = r] /\ disk = [disk EXCEPT ![h] = d]
      /\ service = [service EXCEPT ![h] = v]
  BY HostFacts
<1>2. UNCHANGED <<deployment, invites, hostFaults>> /\ a.op # "none" /\ Busy(h, "daemon")
  BY DEF HeartbeatCommit, HeartbeatAnswer, LeaseCommit, At, Busy
<1>3. r.status # "ABSENT"
  BY <1>1, <1>2 DEF HostSound, Placed
<1>4. ASSUME NEW r2 \in Registration, NEW d2 \in Disk,
             NEW w \in [state : {"off", "up", "clear"}, token : Serials], NEW x \in Call,
             registry' = [registry EXCEPT ![h] = r2], disk' = [disk EXCEPT ![h] = d2],
             service' = [service EXCEPT ![h] = w], Calls(h, "daemon", x),
             x.op \in {"none", "heartbeat", "lease"}, r2.status # "ABSENT",
             r2.key = r.key, r2.token = r.token, r2.invite = r.invite, Bounded(r2),
             d2.key = d.key, d2.token = d.token, d2 = d \/ d2.drain = "yes"
      PROVE  IdInv'
  <2>1. HostSound(r2, d2, w, x, c)
    BY <1>1, <1>3, <1>4 DEF HostSound, Assigned, Lonely, Placed, Commanded, Drained
  <2>2. r2.invite = registry[h].invite
    BY <1>4
  <2>3. QED
    BY <1>2, <1>4, <2>1, <2>2, DaemonMoves
<1>5. ASSUME NEW r2 \in Registration, r2.sandbox = r.sandbox, r2.region = r.region,
             r2.boundary = r.boundary
      PROVE  Bounded(r2)
  BY <1>1, <1>3, <1>5 DEF HostSound, Bounded
<1>6. ASSUME NEW b \in Boundaries, HeartbeatCommit(h, b) PROVE IdInv'
  <2>1. CASE a.seen = "REVOKED"
    BY <1>2, <1>6, <2>1, DaemonRejected DEF HeartbeatCommit
  <2>2. CASE a.seen # "REVOKED" /\ BoundaryApproved(b, r.region)
    <3> DEFINE s == IF a.seen = "ACTIVE" THEN r.status ELSE "ACTIVE"
               r2 == [r EXCEPT !.fresh = "yes", !.boundary = b, !.status = s]
               x == [a EXCEPT !.phase = "answered"]
    <3>1. s \in Statuses /\ s # "ABSENT"
      BY <1>1, <1>3 DEF Registration, Statuses
    <3>2. /\ r2 \in Registration /\ r2.key = r.key /\ r2.token = r.token
          /\ r2.invite = r.invite /\ r2.status = s /\ r2.sandbox = r.sandbox
          /\ r2.region = r.region /\ r2.boundary = b
      BY <1>1, <1>6, <3>1 DEF Registration
    <3>3. x \in Call /\ x.op = a.op
      BY <1>1 DEF Call
    <3>4. /\ registry' = [registry EXCEPT ![h] = r2] /\ Calls(h, "daemon", x)
          /\ disk' = disk /\ service' = service
      BY <1>1, <1>6, <2>2 DEF HeartbeatCommit, Heartbeaten, Reaches, IdInv, IdTypeOK
    <3>5. a.op \in {"none", "heartbeat", "lease"}
      BY <1>1 DEF HostSound, Assigned
    <3> HIDE DEF r2, x, s
    <3>6. Bounded(r2)
      BY <1>1, <1>3, <2>2, <3>2, IdAssumption DEF HostSound, Bounded, BoundaryApproved
    <3>7. QED
      BY <1>1, <1>4, <3>1, <3>2, <3>3, <3>4, <3>5, <3>6
  <2>3. CASE a.seen # "REVOKED" /\ ~BoundaryApproved(b, r.region)
    <3>1. Calls(h, "daemon", NoCall) /\ UNCHANGED <<registry, disk, service>>
      BY <1>6, <2>3 DEF HeartbeatCommit, Ends
    <3>2. QED
      BY <1>1, <1>3, <1>4, <1>5, <3>1, NoCallIs
  <2>4. QED
    BY <2>1, <2>2, <2>3
<1>7. CASE HeartbeatAnswer(h)
  <2>1. CASE r.status = "REVOKED"
    BY <1>2, <1>7, <2>1, DaemonRejected DEF HeartbeatAnswer
  <2>2. CASE r.status # "REVOKED"
    <3> DEFINE s == IF Directed(r) \/ d.drain = "yes" THEN "up" ELSE "clear"
               w == [v EXCEPT !.state = s]
               n == IF Directed(r) THEN "yes" ELSE d.drain
               e == [d EXCEPT !.drain = n]
    <3>1. w \in [state : {"off", "up", "clear"}, token : Serials]
      BY <1>1
    <3>2. e \in Disk /\ e.key = d.key /\ e.token = d.token /\ (e = d \/ e.drain = "yes")
      BY <1>1 DEF Disk
    <3>3. /\ Calls(h, "daemon", NoCall) /\ disk' = [disk EXCEPT ![h] = e]
          /\ service' = [service EXCEPT ![h] = w] /\ registry' = registry
      BY <1>1, <1>7, <2>2 DEF HeartbeatAnswer, Ends
    <3> HIDE DEF w, e
    <3>4. QED
      BY <1>1, <1>3, <1>4, <1>5, <3>1, <3>2, <3>3, NoCallIs
  <2>3. QED
    BY <2>1, <2>2
<1>8. CASE LeaseCommit(h)
  <2>1. CASE a.seen # "ACTIVE"
    BY <1>2, <1>8, <2>1, DaemonRejected DEF LeaseCommit
  <2>2. CASE a.seen = "ACTIVE"
    <3> DEFINE r2 == [r EXCEPT !.fresh = "yes"]
    <3>1. /\ r2 \in Registration /\ r2.key = r.key /\ r2.token = r.token
          /\ r2.invite = r.invite /\ r2.status = r.status /\ r2.sandbox = r.sandbox
          /\ r2.region = r.region /\ r2.boundary = r.boundary
      BY <1>1 DEF Registration
    <3>2. /\ registry' = [registry EXCEPT ![h] = r2] /\ Calls(h, "daemon", NoCall)
          /\ disk' = disk /\ service' = service
      BY <1>1, <1>8, <2>2 DEF LeaseCommit, Ends
    <3> HIDE DEF r2
    <3>3. QED
      BY <1>1, <1>3, <1>4, <1>5, <3>1, <3>2, NoCallIs
  <2>3. QED
    BY <2>1, <2>2
<1>9. QED
  BY <1>6, <1>7, <1>8

\* A rotation ends its drain when disk and registration agree.
LEMMA RotateSteps ==
  ASSUME IdInv, NEW h \in Hosts,
         RotateBegin(h) \/ RotateCommit(h) \/ RotateKey(h) \/ RotateToken(h) \/ RotateEnd(h)
  PROVE  IdInv'
<1> DEFINE r == registry[h]
           d == disk[h]
           v == service[h]
           a == calls[h]["daemon"]
           c == calls[h]["operator"]
<1>1. /\ r \in Registration /\ d \in Disk /\ a \in Call /\ c \in Call
      /\ HostSound(r, d, v, a, c)
      /\ registry = [registry EXCEPT ![h] = r] /\ disk = [disk EXCEPT ![h] = d]
  BY HostFacts
<1>2. UNCHANGED <<deployment, invites, service, hostFaults>>
  BY DEF RotateBegin, RotateCommit, RotateKey, RotateToken, RotateEnd
<1>3. /\ r.key \in Serials /\ r.token \in Serials /\ d.key \in Serials /\ d.token \in Serials
      /\ c.token \in Serials /\ r.key \in Nat /\ r.token \in Nat /\ d.key \in Nat
      /\ d.token \in Nat /\ RotationBound \in Nat
  BY <1>1, SerialFacts, IdAssumption DEF Registration, Disk, Call
<1>4. c.op = "rotate" => c.invite = {} /\ r.status # "ABSENT"
  BY <1>1 DEF HostSound, Placed, Commanded
<1>5. CASE RotateBegin(h)
  <2> DEFINE e == [d EXCEPT !.drain = "yes", !.cleared = "no"]
             x == [NoCall EXCEPT !.op = "rotate", !.token = d.token]
  <2>1. e \in Disk /\ e.key = d.key /\ e.token = d.token /\ e.drain = "yes"
    BY <1>1 DEF Disk
  <2>2. x \in Call /\ x.op = "rotate" /\ x.phase = "sent" /\ x.invite = {}
    BY <1>3, NoCallIs DEF Call
  <2>3. /\ Calls(h, "operator", x) /\ disk' = [disk EXCEPT ![h] = e] /\ registry' = registry
        /\ r.key <= RotationBound /\ d.token # 0
    BY <1>1, <1>5 DEF RotateBegin, Send, Draining
  <2> HIDE DEF x, e
  <2>4. HostSound(r, e, v, a, x)
    BY <1>1, <2>1, <2>2, <2>3 DEF HostSound, Assigned, Lonely, Placed, Commanded, Drained
  <2>5. QED
    BY <1>1, <1>2, <2>1, <2>2, <2>3, <2>4, OperatorMoves
<1>6. CASE RotateCommit(h)
  <2> DEFINE n == r.key + 1
             r2 == [r EXCEPT !.key = n, !.token = n]
             x == [c EXCEPT !.phase = "answered", !.token = n]
  <2>1. c.op = "rotate" /\ c.phase = "ready"
    BY <1>6 DEF RotateCommit, At
  <2>2. r.key <= RotationBound /\ r.token = r.key /\ d.key <= r.key /\ d.drain = "yes"
    BY <1>1, <1>4, <2>1 DEF HostSound, Placed, Commanded
  <2>3. n \in Serials /\ n > 0 /\ d.key <= n
    BY <1>3, <2>2, SerialFacts
  <2>4. Later(r.key, d.key) = n /\ r.token + 1 = n
    BY <1>3, <2>2 DEF Later
  <2> HIDE DEF n
  <2>5. /\ r2 \in Registration /\ r2.key = n /\ r2.token = n /\ r2.invite = r.invite
        /\ r2.status = r.status /\ r2.sandbox = r.sandbox /\ r2.region = r.region
        /\ r2.boundary = r.boundary
    BY <1>1, <2>3 DEF Registration
  <2>6. x \in Call /\ x.op = "rotate" /\ x.phase = "answered" /\ x.token = n /\ x.invite = {}
    BY <1>1, <1>4, <2>1, <2>3 DEF Call
  <2>7. /\ registry' = [registry EXCEPT ![h] = r2] /\ Calls(h, "operator", x) /\ disk' = disk
    BY <1>1, <1>6, <2>4 DEF RotateCommit, IdInv, IdTypeOK
  <2> HIDE DEF r2, x
  <2>8. HostSound(r2, d, v, a, x)
    BY <1>1, <1>4, <2>1, <2>2, <2>3, <2>5, <2>6 DEF HostSound, Assigned, Lonely, Placed, Commanded,
       Drained, Bounded
  <2>9. QED
    BY <1>1, <1>2, <2>5, <2>6, <2>7, <2>8, OperatorMoves
<1>7. ASSUME NEW e \in Disk, NEW x \in Call, disk' = [disk EXCEPT ![h] = e],
             Calls(h, "operator", x), registry' = registry, x.invite = {},
             HostSound(r, e, v, a, x)
      PROVE  IdInv'
  BY <1>1, <1>2, <1>7, OperatorMoves
<1>8. CASE RotateKey(h)
  <2> DEFINE e == [d EXCEPT !.key = r.key]
             x == [c EXCEPT !.phase = "keyed"]
  <2>1. c.op = "rotate" /\ c.phase = "answered"
    BY <1>8 DEF RotateKey, At
  <2>2. e \in Disk /\ e.key = r.key /\ e.token = d.token /\ e.drain = d.drain
    BY <1>1, <1>3 DEF Disk
  <2>3. x \in Call /\ x.op = "rotate" /\ x.phase = "keyed" /\ x.token = c.token /\ x.invite = {}
    BY <1>1, <1>4, <2>1 DEF Call
  <2>4. disk' = [disk EXCEPT ![h] = e] /\ Calls(h, "operator", x) /\ registry' = registry
    BY <1>1, <1>8 DEF RotateKey, Reaches
  <2> HIDE DEF e, x
  <2>5. HostSound(r, e, v, a, x)
    BY <1>1, <1>3, <1>4, <2>1, <2>2, <2>3 DEF HostSound, Assigned, Lonely, Placed, Commanded, Drained
  <2>6. QED
    BY <1>7, <2>2, <2>3, <2>4, <2>5
<1>9. CASE RotateToken(h)
  <2> DEFINE e == [d EXCEPT !.token = c.token]
             x == [c EXCEPT !.phase = "stored"]
  <2>1. c.op = "rotate" /\ c.phase = "keyed"
    BY <1>9 DEF RotateToken, At
  <2>2. e \in Disk /\ e.key = d.key /\ e.token = c.token /\ e.drain = d.drain
    BY <1>1, <1>3 DEF Disk
  <2>3. x \in Call /\ x.op = "rotate" /\ x.phase = "stored" /\ x.token = c.token /\ x.invite = {}
    BY <1>1, <1>4, <2>1 DEF Call
  <2>4. disk' = [disk EXCEPT ![h] = e] /\ Calls(h, "operator", x) /\ registry' = registry
    BY <1>1, <1>9 DEF RotateToken, Reaches
  <2> HIDE DEF e, x
  <2>5. HostSound(r, e, v, a, x)
    BY <1>1, <1>3, <1>4, <2>1, <2>2, <2>3 DEF HostSound, Assigned, Lonely, Placed, Commanded, Drained
  <2>6. QED
    BY <1>7, <2>2, <2>3, <2>4, <2>5
<1>10. CASE RotateEnd(h)
  <2> DEFINE e == [d EXCEPT !.drain = "no"]
  <2>1. c.op = "rotate" /\ c.phase = "stored"
    BY <1>10 DEF RotateEnd, At
  <2>2. d.key = r.key /\ d.token = r.token
    BY <1>1, <2>1 DEF HostSound, Commanded
  <2>3. e \in Disk /\ e.key = d.key /\ e.token = d.token
    BY <1>1 DEF Disk
  <2>4. disk' = [disk EXCEPT ![h] = e] /\ Calls(h, "operator", NoCall) /\ registry' = registry
    BY <1>1, <1>10 DEF RotateEnd, Ends
  <2> HIDE DEF e
  <2>5. HostSound(r, e, v, a, NoCall)
    BY <1>1, <1>4, <2>1, <2>2, <2>3, NoCallIs DEF HostSound, Assigned, Lonely, Placed, Commanded,
       Drained
  <2>6. QED
    BY <1>7, <2>3, <2>4, <2>5, NoCallIs
<1>11. QED
  BY <1>5, <1>6, <1>8, <1>9, <1>10

\* Drain, resume, revocation, age, and the first key.
LEMMA AdminSteps ==
  ASSUME IdInv, NEW h \in Hosts,
         Drain(h) \/ Resume(h) \/ RevokeExecutor(h) \/ HeartbeatAges(h) \/ Initialize(h)
  PROVE  IdInv'
<1> DEFINE r == registry[h]
           d == disk[h]
           v == service[h]
           a == calls[h]["daemon"]
           c == calls[h]["operator"]
<1>1. /\ r \in Registration /\ d \in Disk /\ a \in Call /\ c \in Call
      /\ v \in [state : {"off", "up", "clear"}, token : Serials]
      /\ HostSound(r, d, v, a, c)
      /\ registry = [registry EXCEPT ![h] = r] /\ disk = [disk EXCEPT ![h] = d]
      /\ service = [service EXCEPT ![h] = v]
  BY HostFacts
<1>2. UNCHANGED <<deployment, invites, service, calls, hostFaults>>
  BY DEF Drain, Resume, RevokeExecutor, HeartbeatAges, Initialize
<1>3. ASSUME NEW e \in Disk, disk' = [disk EXCEPT ![h] = e], registry' = registry,
             HostSound(r, e, v, a, c)
      PROVE  IdInv'
  BY <1>1, <1>2, <1>3, CallsRest
<1>4. CASE Drain(h)
  <2> DEFINE e == [d EXCEPT !.drain = "yes"]
  <2>1. e \in Disk /\ e.key = d.key /\ e.token = d.token /\ e.drain = "yes"
    BY <1>1 DEF Disk
  <2>2. disk' = [disk EXCEPT ![h] = e] /\ registry' = registry
    BY <1>1, <1>4 DEF Drain
  <2> HIDE DEF e
  <2>3. HostSound(r, e, v, a, c)
    BY <1>1, <2>1 DEF HostSound, Placed, Commanded, Drained
  <2>4. QED
    BY <1>3, <2>1, <2>2, <2>3
<1>5. CASE Resume(h)
  <2> DEFINE e == [d EXCEPT !.drain = "no", !.cleared = "yes"]
  <2>1. e \in Disk /\ e.key = d.key /\ e.token = d.token /\ e.cleared = "yes"
    BY <1>1 DEF Disk
  <2>2. disk' = [disk EXCEPT ![h] = e] /\ registry' = registry /\ c.op = "none"
    BY <1>1, <1>5 DEF Resume, Busy
  <2> HIDE DEF e
  <2>3. HostSound(r, e, v, a, c)
    BY <1>1, <2>1, <2>2 DEF HostSound, Placed, Commanded, Drained
  <2>4. QED
    BY <1>3, <2>1, <2>2, <2>3
<1>6. CASE Initialize(h)
  <2> DEFINE e == [d EXCEPT !.key = 1]
  <2>1. e \in Disk /\ e.key = 1 /\ e.token = d.token /\ e.drain = d.drain
    BY <1>1, SerialFacts DEF Disk
  <2>2. disk' = [disk EXCEPT ![h] = e] /\ registry' = registry /\ d.key = 0
    BY <1>1, <1>6 DEF Initialize
  <2> HIDE DEF e
  <2>3. r.status = "ABSENT" /\ c.op = "none"
    BY <1>1, <2>2 DEF HostSound, Assigned, Lonely, Placed, Commanded
  <2>4. HostSound(r, e, v, a, c)
    BY <1>1, <2>1, <2>2, <2>3 DEF HostSound, Placed, Commanded, Drained
  <2>5. QED
    BY <1>3, <2>1, <2>2, <2>4
<1>7. ASSUME NEW r2 \in Registration, registry' = [registry EXCEPT ![h] = r2], disk' = disk,
             r2.key = r.key, r2.token = r.token, r2.invite = r.invite,
             r2.status = "ABSENT" <=> r.status = "ABSENT", r2.sandbox = r.sandbox,
             r2.region = r.region, r2.boundary = r.boundary
      PROVE  IdInv'
  <2>1. HostSound(r2, d, v, a, c)
    BY <1>1, <1>7 DEF HostSound, Placed, Commanded, Drained, Bounded
  <2>2. /\ r2.invite = registry[h].invite /\ registry' = [registry EXCEPT ![h] = r2]
        /\ disk' = [disk EXCEPT ![h] = d] /\ service' = [service EXCEPT ![h] = v]
    BY <1>1, <1>2, <1>7
  <2>3. QED
    BY <1>1, <1>2, <2>1, <2>2, CallsRest
<1>8. CASE RevokeExecutor(h)
  <2> DEFINE r2 == [r EXCEPT !.status = "REVOKED"]
  <2>1. /\ r2 \in Registration /\ r2.key = r.key /\ r2.token = r.token /\ r2.invite = r.invite
        /\ r2.status = "REVOKED" /\ r2.sandbox = r.sandbox /\ r2.region = r.region
        /\ r2.boundary = r.boundary
    BY <1>1 DEF Registration, Statuses
  <2>2. registry' = [registry EXCEPT ![h] = r2] /\ disk' = disk /\ r.status # "ABSENT"
    BY <1>1, <1>8 DEF RevokeExecutor
  <2> HIDE DEF r2
  <2>3. QED
    BY <1>7, <2>1, <2>2
<1>9. CASE HeartbeatAges(h)
  <2> DEFINE r2 == [r EXCEPT !.fresh = "no"]
  <2>1. /\ r2 \in Registration /\ r2.key = r.key /\ r2.token = r.token /\ r2.invite = r.invite
        /\ r2.status = r.status /\ r2.sandbox = r.sandbox /\ r2.region = r.region
        /\ r2.boundary = r.boundary
    BY <1>1 DEF Registration
  <2>2. registry' = [registry EXCEPT ![h] = r2] /\ disk' = disk
    BY <1>1, <1>9 DEF HeartbeatAges
  <2> HIDE DEF r2
  <2>3. QED
    BY <1>7, <2>1, <2>2
<1>10. QED
  BY <1>4, <1>5, <1>6, <1>8, <1>9

\* Enrollment tokens are issued and expire.
LEMMA InviteSteps ==
  ASSUME IdInv, NEW i \in Invites, IssueToken(i) \/ ExpireToken(i)
  PROVE  IdInv'
<1>1. /\ invites \in [Invites -> {"absent", "open", "used", "expired"}]
      /\ UNCHANGED <<deployment, registry, disk, service, calls, hostFaults>>
  BY DEF IdInv, IdTypeOK, IssueToken, ExpireToken
<1>2. /\ invites' \in [Invites -> {"absent", "open", "used", "expired"}]
      /\ \A j \in Invites : invites[j] = "used" => invites'[j] = "used"
      /\ \A j \in Invites : invites[j] \in {"open", "expired"} => invites'[j] \in {"open", "expired"}
  BY <1>1 DEF IssueToken, ExpireToken
<1>3. IdTypeOK' /\ InviteUsedOnce'
  BY <1>1, <1>2 DEF IdInv, IdTypeOK, InviteUsedOnce
<1>4. \A h \in Hosts : registry[h].invite \subseteq Invites /\ calls[h]["operator"].invite \subseteq Invites
  BY HostFacts DEF Registration, Call
<1>5. InvitesFit'
  BY <1>1, <1>2, <1>4 DEF IdInv, InvitesFit
<1>6. ASSUME NEW h \in Hosts
      PROVE  HostSound(registry[h], disk[h], service[h], calls[h]["daemon"],
                       calls[h]["operator"])'
  <2>1. HostSound(registry[h], disk[h], service[h], calls[h]["daemon"], calls[h]["operator"])
    BY DEF IdInv
  <2>2. QED
    BY <1>1, <2>1 DEF HostSound, Assigned, Lonely, Placed, Commanded, Granted, Drained, Bounded,
       Production, SandboxApproved
<1>7. QED
  BY <1>3, <1>5, <1>6 DEF IdInv

\* The row of the token is locked by one enrollment.
LEMMA EnrollReadStep ==
  ASSUME IdInv, NEW h \in Hosts, NEW i \in Invites, NEW b \in Boundaries,
         NEW s \in {"verified", "unverified"}, EnrollRead(h, i, b, s)
  PROVE  IdInv'
<1> DEFINE r == registry[h]
           d == disk[h]
           v == service[h]
           a == calls[h]["daemon"]
           c == calls[h]["operator"]
           x == [NoCall EXCEPT !.op = "enroll", !.phase = "ready", !.payload = b,
                               !.invite = {i}, !.sandbox = s]
<1>1. /\ r \in Registration /\ d \in Disk /\ a \in Call /\ c \in Call
      /\ v \in [state : {"off", "up", "clear"}, token : Serials]
      /\ HostSound(r, d, v, a, c)
      /\ registry = [registry EXCEPT ![h] = r] /\ disk = [disk EXCEPT ![h] = d]
      /\ service = [service EXCEPT ![h] = v]
      /\ hostFaults \in 0 .. HostFaultBound
      /\ invites \in [Invites -> {"absent", "open", "used", "expired"}]
  BY HostFacts DEF IdInv, IdTypeOK
<1>2. /\ x \in Call /\ x.op = "enroll" /\ x.phase = "ready" /\ x.invite = {i}
      /\ x.payload = b /\ x.sandbox = s
  BY NoCallIs DEF Call
<1>3. /\ UNCHANGED <<deployment, invites, registry, disk, service, hostFaults>>
      /\ Calls(h, "operator", x) /\ c.op = "none" /\ d.key # 0 /\ r.status = "ABSENT"
      /\ invites[i] = "open" /\ RowFree(i) /\ SandboxApproved(s)
      /\ StorageAllowed(b.region) /\ BoundaryApproved(b, b.region)
  BY DEF EnrollRead, Busy
<1> HIDE DEF x
<1>4. SandboxApproved(x.sandbox)
  BY <1>2, <1>3
<1>5. Production => b.region \in AllowedRegions /\ b.pins = "right"
  <2>1. Production => b.schema = "v1" /\ b.pins = "right"
    BY <1>3 DEF BoundaryApproved
  <2>2. b.schema = "v1" => b.region # "none"
    BY IdAssumption DEF Boundaries, Unversioned
  <2>3. QED
    BY <1>3, <2>1, <2>2 DEF StorageAllowed
<1>6. HostSound(r, d, v, a, x)
  BY <1>1, <1>2, <1>3, <1>4, <1>5 DEF HostSound, Assigned, Lonely, Placed, Commanded, Granted, Drained
<1>7. /\ calls' \in [Hosts -> [Processes -> Call]] /\ calls'[h]["operator"] = x
      /\ calls'[h]["daemon"] = a /\ \A g \in Hosts : g # h => calls'[g] = calls[g]
  BY <1>2, <1>3, CallMoves DEF Processes
<1>8. /\ IdTypeOK'
      /\ \A g \in Hosts :
           HostSound(registry[g], disk[g], service[g], calls[g]["daemon"],
                     calls[g]["operator"])'
  BY <1>1, <1>2, <1>3, <1>6, <1>7, HostMoves
<1>9. InviteUsedOnce'
  BY <1>3 DEF IdInv, InviteUsedOnce
<1>10. InvitesFit'
  <2> SUFFICES ASSUME deployment.dialect = "postgresql" PROVE InvitesFit'
    BY <1>3 DEF InvitesFit
  <2>1. \A g \in Hosts : i \notin calls[g]["operator"].invite
    <3>1. ASSUME NEW g \in Hosts, i \in calls[g]["operator"].invite PROVE FALSE
      <4>1. calls[g]["operator"] \in Call /\ calls[g]["operator"].invite # {i}
        BY <1>3, HostFacts DEF RowFree
      <4>2. Lonely(calls[g]["operator"])
        BY HostFacts DEF HostSound
      <4>3. QED
        BY <3>1, <4>1, <4>2 DEF Lonely
    <3>2. QED
      BY <3>1
  <2>2. \A g \in Hosts : \A j \in registry'[g].invite : invites'[j] = "used"
    BY <1>3 DEF IdInv, InvitesFit
  <2>3. \A g \in Hosts : \A j \in calls'[g]["operator"].invite :
           invites'[j] \in {"open", "expired"}
    BY <1>2, <1>3, <1>7 DEF IdInv, InvitesFit
  <2>4. \A g, k \in Hosts : g # k =>
           calls'[g]["operator"].invite \cap calls'[k]["operator"].invite = {}
    BY <1>2, <1>7, <2>1 DEF IdInv, InvitesFit
  <2>5. QED
    BY <2>2, <2>3, <2>4 DEF InvitesFit
<1>11. QED
  BY <1>8, <1>9, <1>10 DEF IdInv

\* The token makes this host and no other.
LEMMA EnrollCommitStep ==
  ASSUME IdInv, NEW h \in Hosts, EnrollCommit(h)
  PROVE  IdInv'
<1> DEFINE r == registry[h]
           d == disk[h]
           v == service[h]
           a == calls[h]["daemon"]
           c == calls[h]["operator"]
           r2 == [status |-> "ACTIVE", fresh |-> "yes", key |-> d.key, token |-> 1,
                  invite |-> c.invite, region |-> c.payload.region,
                  boundary |-> c.payload, sandbox |-> c.sandbox]
           x == [NoCall EXCEPT !.op = "enroll", !.phase = "answered", !.token = 1]
<1>1. /\ r \in Registration /\ d \in Disk /\ a \in Call /\ c \in Call
      /\ v \in [state : {"off", "up", "clear"}, token : Serials]
      /\ HostSound(r, d, v, a, c)
      /\ disk = [disk EXCEPT ![h] = d] /\ service = [service EXCEPT ![h] = v]
      /\ hostFaults \in 0 .. HostFaultBound
      /\ invites \in [Invites -> {"absent", "open", "used", "expired"}]
  BY HostFacts DEF IdInv, IdTypeOK
<1>2. /\ c.op = "enroll" /\ c.phase = "ready" /\ UNCHANGED <<deployment, disk, service, hostFaults>>
      /\ registry' = [registry EXCEPT ![h] = r2] /\ Calls(h, "operator", x)
      /\ invites' = [i \in Invites |-> IF i \in c.invite THEN "used" ELSE invites[i]]
  BY DEF EnrollCommit, At
<1>3. d.key = 1 /\ Granted(c) /\ r.status = "ABSENT" /\ d.token = 0 /\ r.invite = {}
  BY <1>1, <1>2 DEF HostSound, Placed, Commanded
<1>4. /\ r2 \in Registration /\ r2.status = "ACTIVE" /\ r2.key = 1 /\ r2.token = 1
      /\ r2.invite = c.invite /\ r2.region = c.payload.region /\ r2.boundary = c.payload
      /\ r2.sandbox = c.sandbox
  <2>1. c.payload.region \in Regions \cup {"none"}
    BY <1>1 DEF Call, Boundaries, Unversioned
  <2>2. QED
    BY <1>1, <1>3, <2>1, SerialFacts DEF Registration, Statuses, Call
<1>5. x \in Call /\ x.op = "enroll" /\ x.phase = "answered" /\ x.token = 1 /\ x.invite = {}
  BY NoCallIs, SerialFacts DEF Call, NoCall
<1> HIDE DEF r2, x
<1>6. Bounded(r2)
  BY <1>3, <1>4 DEF Bounded, Granted, SandboxApproved
<1>7. HostSound(r2, d, v, a, x)
  BY <1>1, <1>3, <1>4, <1>5, <1>6 DEF HostSound, Assigned, Lonely, Placed, Commanded, Drained
<1>8. /\ calls' \in [Hosts -> [Processes -> Call]] /\ calls'[h]["operator"] = x
      /\ calls'[h]["daemon"] = a /\ \A g \in Hosts : g # h => calls'[g] = calls[g]
  BY <1>2, <1>5, CallMoves DEF Processes
<1>9. /\ invites' \in [Invites -> {"absent", "open", "used", "expired"}]
      /\ disk' = [disk EXCEPT ![h] = d] /\ service' = [service EXCEPT ![h] = v]
      /\ deployment' = deployment /\ hostFaults' \in 0 .. HostFaultBound
      /\ registry' = [registry EXCEPT ![h] = r2]
  BY <1>1, <1>2
<1>10. /\ IdTypeOK'
       /\ registry'[h] = r2 /\ \A g \in Hosts : g # h => registry'[g] = registry[g]
       /\ \A g \in Hosts :
            HostSound(registry[g], disk[g], service[g], calls[g]["daemon"],
                      calls[g]["operator"])'
  BY <1>1, <1>4, <1>5, <1>7, <1>8, <1>9, HostMoves
<1>11. \A g \in Hosts : registry[g].invite \subseteq Invites /\ calls[g]["operator"].invite \subseteq Invites
  BY HostFacts DEF Registration, Call
<1>12. InviteUsedOnce' /\ InvitesFit'
  <2>1. CASE deployment.dialect # "postgresql"
    BY <1>2, <2>1 DEF InviteUsedOnce, InvitesFit
  <2>2. CASE deployment.dialect = "postgresql"
    <3>1. \A g \in Hosts : \A i \in registry[g].invite : invites[i] = "used"
      BY <2>2 DEF IdInv, InvitesFit
    <3>2. \A i \in c.invite : invites[i] \in {"open", "expired"}
      BY <2>2 DEF IdInv, InvitesFit
    <3>3. \A g \in Hosts : g # h => calls[g]["operator"].invite \cap c.invite = {}
      BY <2>2 DEF IdInv, InvitesFit
    <3>4. \A g \in Hosts : registry[g].invite \cap c.invite = {}
      BY <3>1, <3>2
    <3>5. InviteUsedOnce'
      BY <1>4, <1>10, <2>2, <3>4 DEF IdInv, InviteUsedOnce
    <3>6. \A g \in Hosts : \A i \in registry'[g].invite : invites'[i] = "used"
      BY <1>2, <1>4, <1>10, <1>11, <3>1
    <3>7. \A g \in Hosts : \A i \in calls'[g]["operator"].invite :
             invites'[i] \in {"open", "expired"}
      BY <1>2, <1>5, <1>8, <1>11, <2>2, <3>3 DEF IdInv, InvitesFit
    <3>8. \A g, k \in Hosts : g # k =>
             calls'[g]["operator"].invite \cap calls'[k]["operator"].invite = {}
      BY <1>5, <1>8, <2>2 DEF IdInv, InvitesFit
    <3>9. QED
      BY <3>5, <3>6, <3>7, <3>8 DEF InvitesFit
  <2>3. QED
    BY <2>1, <2>2
<1>13. QED
  BY <1>10, <1>12 DEF IdInv

\* The host has what was registered.
LEMMA EnrollStoreStep ==
  ASSUME IdInv, NEW h \in Hosts, EnrollStore(h)
  PROVE  IdInv'
<1> DEFINE r == registry[h]
           d == disk[h]
           c == calls[h]["operator"]
           e == [d EXCEPT !.token = c.token]
<1>1. /\ r \in Registration /\ d \in Disk /\ c \in Call
      /\ HostSound(r, d, service[h], calls[h]["daemon"], c)
      /\ registry = [registry EXCEPT ![h] = r] /\ disk = [disk EXCEPT ![h] = d]
  BY HostFacts
<1>2. /\ c.op = "enroll" /\ c.phase = "answered" /\ disk' = [disk EXCEPT ![h] = e]
      /\ Calls(h, "operator", NoCall)
      /\ UNCHANGED <<deployment, invites, registry, service, hostFaults>>
  BY <1>1 DEF EnrollStore, At, Ends
<1>3. c.token = 1 /\ r.key = 1 /\ r.token = 1 /\ d.key = 1 /\ r.status # "ABSENT"
  BY <1>1, <1>2 DEF HostSound, Placed, Commanded
<1>4. e \in Disk /\ e.key = 1 /\ e.token = 1
  BY <1>1, <1>3, SerialFacts DEF Disk
<1> HIDE DEF e
<1>5. HostSound(r, e, service[h], calls[h]["daemon"], NoCall)
  BY <1>1, <1>3, <1>4, NoCallIs DEF HostSound, Assigned, Lonely, Placed, Commanded, Drained
<1>6. QED
  BY <1>1, <1>2, <1>4, <1>5, NoCallIs, OperatorMoves

\* IdInv holds in every state.
THEOREM HostInvariant == IdSpec => []IdInv
<1>1. IdInit => IdInv
  <2> SUFFICES ASSUME IdInit PROVE IdInv
    OBVIOUS
  <2> DEFINE r == [status |-> "ABSENT", fresh |-> "no", key |-> 0, token |-> 0, invite |-> {},
                   region |-> "none", boundary |-> Unversioned, sandbox |-> "unverified"]
             d == [key |-> 0, token |-> 0, drain |-> "no", cleared |-> "no"]
             v == [state |-> "off", token |-> 0]
  <2>1. /\ r \in Registration /\ d \in Disk
        /\ v \in [state : {"off", "up", "clear"}, token : Serials]
    BY SerialFacts DEF Registration, Disk, Statuses, Boundaries
  <2>2. \A h \in Hosts : /\ registry[h] = r /\ disk[h] = d /\ service[h] = v
                         /\ calls[h]["daemon"] = NoCall /\ calls[h]["operator"] = NoCall
    BY DEF IdInit, Processes
  <2>3. IdTypeOK
    BY <2>1, NoCallIs, IdAssumption DEF IdInit, IdTypeOK
  <2>4. HostSound(r, d, v, NoCall, NoCall)
    BY NoCallIs DEF HostSound, Assigned, Lonely, Placed, Commanded, Drained, Bounded
  <2>5. InviteUsedOnce /\ InvitesFit
    BY <2>2, NoCallIs DEF InviteUsedOnce, InvitesFit
  <2>6. QED
    BY <2>2, <2>3, <2>4, <2>5 DEF IdInv
<1>2. IdInv /\ [IdNext]_idVars => IdInv'
  <2> SUFFICES ASSUME IdInv, [IdNext]_idVars PROVE IdInv'
    OBVIOUS
  <2>1. CASE UNCHANGED idVars
    BY <2>1 DEF idVars, IdInv, IdTypeOK, InviteUsedOnce, InvitesFit, HostSound, Assigned, Lonely,
       Placed, Commanded, Granted, Drained, Bounded, Production, SandboxApproved
  <2>2. CASE Enrolling
    BY <2>2, InviteSteps, AdminSteps, EnrollReadStep, EnrollCommitStep, EnrollStoreStep
       DEF Enrolling
  <2>3. ASSUME NEW h \in Hosts, Operating(h) PROVE IdInv'
    BY <2>3, ServiceSteps, AnswerSteps, CallSteps, RotateSteps, AdminSteps DEF Operating
  <2>4. QED
    BY <2>1, <2>2, <2>3 DEF IdNext
<1>3. QED
  BY <1>1, <1>2, PTL DEF IdSpec

\* For any hosts, enrollment tokens, regions, rotations and faults: a token makes one
\* executor where its row is locked, a host whose rotation was cut short is draining or was
\* resumed by its operator, and a production executor stays in its boundary (enroll,
\* rotate, heartbeat_executor).
THEOREM HostsRemainSound == IdSpec => []HostsStaySound
<1>1. IdInv => HostsStaySound
  BY HostFacts DEF IdInv, HostsStaySound, HostSound, Drained, Bounded, HalfRotatedIsDrained,
     StaysInBoundary
<1>2. QED
  BY <1>1, HostInvariant, PTL

\* Without a request that was let in, a revoked host stays quiet.
LEMMA QuietCalls ==
  ASSUME IdTypeOK, NEW h \in Hosts, Quiet(h),
         NEW q \in Processes, NEW x \in Call, Calls(h, q, x), registry'[h].status = "REVOKED",
         x.op = "none" \/ x.phase \notin {"stale", "reload", "ready"}
  PROVE  Quiet(h)'
<1>1. /\ calls'[h][q] = x
      /\ \A o \in Processes : o # q => calls'[h][o] = calls[h][o]
  BY DEF IdTypeOK, Calls
<1>2. QED
  BY <1>1 DEF Quiet, Busy

\* Once an executor is revoked and the requests it was let in with have ended, it stays
\* revoked and no request of it is let in again (authenticate_executor).
THEOREM RevocationsSettle == IdSpec => RevocationSettles
<1>1. IdInv /\ [IdNext]_idVars => [\A h \in Hosts : Quiet(h) => Quiet(h)']_idVars
  <2> SUFFICES ASSUME IdInv, IdNext, NEW h \in Hosts, Quiet(h) PROVE Quiet(h)'
    BY DEF idVars
  <2>1. /\ registry \in [Hosts -> Registration] /\ calls \in [Hosts -> [Processes -> Call]]
        /\ registry[h].status = "REVOKED"
        /\ \A p \in Processes : calls[h][p].op # "none" =>
              calls[h][p].phase \notin {"stale", "reload", "ready"}
    BY DEF IdInv, IdTypeOK, Quiet, Busy
  <2>2. ASSUME registry'[h] = registry[h], calls'[h] = calls[h] PROVE Quiet(h)'
    BY <2>1, <2>2 DEF Quiet, Busy
  <2>3. ASSUME NEW p \in Processes, NEW x \in Call, Calls(h, p, x),
               registry'[h].status = "REVOKED",
               x.op = "none" \/ x.phase \notin {"stale", "reload", "ready"}
        PROVE  Quiet(h)'
    BY <2>3, QuietCalls DEF IdInv
  <2>4. "daemon" \in Processes /\ "operator" \in Processes
    BY DEF Processes
  <2>5. CASE Enrolling
    <3>1. ASSUME NEW i \in Invites, IssueToken(i) \/ ExpireToken(i) PROVE Quiet(h)'
      BY <2>2, <3>1 DEF IssueToken, ExpireToken
    <3>2. ASSUME NEW g \in Hosts, Initialize(g) PROVE Quiet(h)'
      BY <2>2, <3>2 DEF Initialize
    <3>3. ASSUME NEW g \in Hosts, g # h,
                 \/ EnrollCommit(g) \/ EnrollStore(g)
                 \/ \E i \in Invites, b \in Boundaries, s \in {"verified", "unverified"} :
                      EnrollRead(g, i, b, s)
          PROVE  Quiet(h)'
      <4>1. registry'[h] = registry[h] /\ calls'[h] = calls[h]
        BY <2>1, <3>3 DEF EnrollCommit, EnrollStore, EnrollRead, Calls, Ends
      <4>2. QED
        BY <2>2, <4>1
    <3>4. ~EnrollCommit(h) /\ \A i, b, s : ~EnrollRead(h, i, b, s)
      BY <2>1, <2>4 DEF EnrollCommit, EnrollRead, At
    <3>5. CASE EnrollStore(h)
      BY <2>1, <2>3, <2>4, <3>5, NoCallIs DEF EnrollStore, Ends
    <3>6. QED
      BY <2>5, <3>1, <3>2, <3>3, <3>4, <3>5 DEF Enrolling
  <2>6. ASSUME NEW g \in Hosts, g # h, Operating(g) PROVE Quiet(h)'
    <3>1. registry'[h] = registry[h] /\ calls'[h] = calls[h]
      BY <2>1, <2>6 DEF Operating, DaemonStart, DaemonStop, SendHeartbeat, HeartbeatAnswer,
         SendLease, LeaseCommit, HeartbeatCommit, Authenticate, MarkOffline, Reload, CutShort,
         RotateBegin, RotateCommit, RotateKey, RotateToken, RotateEnd, Drain, Resume,
         RevokeExecutor, HeartbeatAges, Rejected, Ends, Reaches, Send, Calls
    <3>2. QED
      BY <2>2, <3>1
  <2>7. CASE Operating(h)
    <3>1. CASE DaemonStart(h) \/ DaemonStop(h) \/ Drain(h) \/ Resume(h)
      BY <2>2, <3>1 DEF DaemonStart, DaemonStop, Drain, Resume
    <3>2. ASSUME NEW op \in {"heartbeat", "lease", "rotate"}, NEW t \in Serials,
                 NEW p \in Processes, Send(h, p, op, t), registry' = registry
          PROVE  Quiet(h)'
      <4> DEFINE x == [NoCall EXCEPT !.op = op, !.token = t]
      <4>1. x \in Call /\ x.phase = "sent"
        BY <3>2, NoCallIs DEF Call
      <4>2. Calls(h, p, x)
        BY <3>2 DEF Send
      <4> HIDE DEF x
      <4>3. QED
        BY <2>1, <2>3, <3>2, <4>1, <4>2
    <3>3. CASE SendHeartbeat(h) \/ SendLease(h) \/ RotateBegin(h)
      <4>1. service[h].token \in Serials /\ disk[h].token \in Serials
        BY HostFacts DEF Disk
      <4>2. QED
        BY <2>4, <3>2, <3>3, <4>1 DEF SendHeartbeat, SendLease, RotateBegin
    <3>4. ASSUME NEW p \in Processes, Ends(h, p), registry' = registry PROVE Quiet(h)'
      BY <2>1, <2>3, <3>4, NoCallIs DEF Ends
    <3>5. CASE HeartbeatAnswer(h)
      BY <2>1, <2>4, <3>4, <3>5 DEF HeartbeatAnswer, Rejected
    <3>6. CASE RotateEnd(h)
      BY <2>4, <3>4, <3>6 DEF RotateEnd
    <3>7. ASSUME NEW p \in Processes, CutShort(h, p) \/ Authenticate(h, p) PROVE Quiet(h)'
      <4>1. ~Known(h, calls[h][p].token)
        BY <2>1 DEF Known
      <4>2. QED
        BY <3>4, <3>7, <4>1 DEF CutShort, Authenticate, Rejected
    <3>8. ASSUME NEW p \in Processes, MarkOffline(h, p) \/ Reload(h, p) PROVE FALSE
      BY <2>1, <3>8 DEF MarkOffline, Reload
    <3>9. ~LeaseCommit(h) /\ ~RotateCommit(h) /\ \A b : ~HeartbeatCommit(h, b)
      BY <2>1, <2>4 DEF LeaseCommit, RotateCommit, HeartbeatCommit, At
    <3>10. CASE RotateKey(h) \/ RotateToken(h)
      <4> DEFINE x(phase) == [calls[h]["operator"] EXCEPT !.phase = phase]
      <4>1. ASSUME NEW phase \in {"keyed", "stored"}
            PROVE  x(phase) \in Call /\ x(phase).phase = phase
        <5>1. calls[h]["operator"] \in Call
          BY HostFacts
        <5>2. QED
          BY <4>1, <5>1 DEF Call
      <4>2. \E phase \in {"keyed", "stored"} : Calls(h, "operator", x(phase))
        BY <3>10 DEF RotateKey, RotateToken, Reaches
      <4>3. registry' = registry
        BY <3>10 DEF RotateKey, RotateToken
      <4> HIDE DEF x
      <4>4. QED
        BY <2>1, <2>3, <2>4, <4>1, <4>2, <4>3
    <3>11. ~RevokeExecutor(h)
      BY <2>1 DEF RevokeExecutor
    <3>12. CASE HeartbeatAges(h)
      <4>1. registry'[h].status = registry[h].status /\ calls' = calls
        BY <2>1, <3>12 DEF HeartbeatAges, Registration
      <4>2. QED
        BY <2>1, <4>1 DEF Quiet, Busy
    <3>13. QED
      BY <2>7, <3>1, <3>3, <3>5, <3>6, <3>7, <3>8, <3>9, <3>10, <3>11, <3>12 DEF Operating
  <2>8. QED
    BY <2>5, <2>6, <2>7 DEF IdNext
<1>2. QED
  BY <1>1, HostInvariant, PTL DEF IdSpec, RevocationSettles
=============================================================================
