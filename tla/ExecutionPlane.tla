---------------------------- MODULE ExecutionPlane ----------------------------
(***************************************************************************)
(* The remote execution plane: ExecutionPlaneService                       *)
(* (sacm/core/execution_plane_service.py) and RemoteWorkflowBackend        *)
(* (workflow_backend.py) of the control plane, and the daemons of          *)
(* sacm/customer_executor, for one run whose work is one agent step.       *)
(*                                                                         *)
(* A run has one job for its first execution (key 0) and one for every     *)
(* scheduled recovery (key n), the idempotency keys of schedule.  A lease  *)
(* token is the number of the lease it came with; 0 is no token.           *)
(*                                                                         *)
(* A request of an executor reads the job's row, checks it, and writes it  *)
(* in a later commit, without a lock.  With Overlap = "no" the row is still *)
(* what was read when it is written; with "yes" it need not be.  Revoking  *)
(* a job's credential leases is left to a model of credential leases.      *)
(***************************************************************************)
EXTENDS Naturals, FiniteSets

CONSTANTS Executors, None,
          MaxAttempts,    \* max_attempts of a job
          MaxRecovery,    \* SACM_MAX_RECOVERY_ATTEMPTS
          RecoveryTargets,  \* the statuses that a recovery gives the run
          Overlap,        \* whether writes to a job come between read and write
          RequeueBound,   \* bound: requeues of dead-lettered jobs
          CrashBound      \* bound: requests cut off between two commits

ASSUME PlaneAssumption ==
  /\ None \notin Executors /\ Overlap \in {"no", "yes"}
  /\ RecoveryTargets \subseteq {"FIXING", "PLANNING", "IMPLEMENTING"}
  /\ MaxAttempts \in Nat \ {0} /\ MaxRecovery \in Nat
  /\ RequeueBound \in Nat /\ CrashBound \in Nat

VARIABLES
  run,        \* status, recovery_attempt_count, status of the recovery state
  step,       \* the status of the agent step, NONE before it is added
  jobs,       \* jobs[k]: the row of execution_jobs with key k
  issued,     \* issued[k]: how many leases of job k were granted
  resets,     \* resets[k]: how often the attempts of job k were reset
  executors,  \* executors[e]: status of the registration
  daemon,     \* daemon[e]: where the executor's process stands, its lease
  request,    \* request[e]: what a request of e has checked and will write
  backend,    \* where RemoteWorkflowBackend.execute stands
  requeues, crashes

vars == <<run, step, jobs, issued, resets, executors, daemon, request, backend,
          requeues, crashes>>

Keys == 0 .. MaxRecovery
Leased == {"LEASED", "RUNNING"}
Active == Leased \cup {"QUEUED"}
Finished == {"COMPLETED", "FAILED"}

JobStates == Active \cup Finished \cup {"NONE", "CANCELLED", "DEAD_LETTER"}
Job == [state: JobStates, attempt: Nat, owner: Executors \cup {None},
        token: Nat, lease: {"none", "live", "expired"}]
NoJob == [state |-> "NONE", attempt |-> 0, owner |-> None, token |-> 0,
          lease |-> "none"]
Queued == [NoJob EXCEPT !.state = "QUEUED"]

RunStatuses == {"CREATED", "PLANNING", "IMPLEMENTING", "FIXING", "FAILED",
                "CANCELLED"}
Run == [status: RunStatuses, attempts: Nat,
        recovery: {"NONE", "SCHEDULED", "ESCALATED"}]
StepStatuses == {"NONE", "PENDING", "RUNNING", "AWAITING_APPROVAL",
                 "COMPLETED", "FAILED"}
Daemon == [pc: {"idle", "leased", "running", "stopped"}, job: Keys, token: Nat]
Kinds == {"COMPLETED", "NEEDS_APPROVAL", "FAILED"}
Request == [op: Kinds \cup {"none", "start", "startRun", "release", "complete",
                            "await"},
            job: Keys, token: Nat, attempt: Nat]

IdleDaemon == [pc |-> "idle", job |-> 0, token |-> 0]
NoRequest == [op |-> "none", job |-> 0, token |-> 0, attempt |-> 0]

Init ==
  /\ run = [status |-> "CREATED", attempts |-> 0, recovery |-> "NONE"]
  /\ step = "NONE"
  /\ jobs = [k \in Keys |-> NoJob]
  /\ issued = [k \in Keys |-> 0] /\ resets = [k \in Keys |-> 0]
  /\ executors = [e \in Executors |-> "NONE"]
  /\ daemon = [e \in Executors |-> IdleDaemon]
  /\ request = [e \in Executors |-> NoRequest]
  /\ backend = "idle" /\ requeues = 0 /\ crashes = 0

-----------------------------------------------------------------------------
(* Releasing a lease                                                       *)

\* _release_or_expire, for a row that was read with this number of attempts.
Released(job, attempt) ==
  [job EXCEPT !.state = IF attempt >= MaxAttempts THEN "DEAD_LETTER" ELSE "QUEUED",
              !.owner = None, !.token = 0, !.lease = "none"]

ReleaseAll(ks) ==
  [k \in Keys |-> IF k \in ks THEN Released(jobs[k], jobs[k].attempt) ELSE jobs[k]]

\* recover_expired
ExpiredJobs == {k \in Keys : jobs[k].state \in Leased /\ jobs[k].lease = "expired"}
ReclaimExpired == ReleaseAll(ExpiredJobs)

ExpiredOrphans == ExpiredJobs

\* recover_orphaned: a lease that expired or lost its owner, its owner's
\* registration or its token.
Orphans ==
  {k \in Keys :
     /\ jobs[k].state \in Leased
     /\ \/ jobs[k].lease # "live" \/ jobs[k].owner = None \/ jobs[k].token = 0
        \/ jobs[k].owner # None /\ executors[jobs[k].owner] = "REVOKED"}

\* ... which also reconciles the step of the first job that it recovers.
RecoverOrphaned ==
  /\ Orphans # {}
  /\ jobs' = ReleaseAll(Orphans)
  /\ \E k \in Orphans :
       step' = IF step # "RUNNING" THEN step
               ELSE IF jobs'[k].state = "DEAD_LETTER" THEN "FAILED" ELSE "PENDING"
  /\ UNCHANGED <<run, issued, resets, executors, daemon, request, backend,
                 requeues, crashes>>

\* Nobody renews the lease in time.
Expire(k) ==
  /\ jobs[k].state \in Leased /\ jobs[k].lease = "live"
  /\ jobs' = [jobs EXCEPT ![k].lease = "expired"]
  /\ UNCHANGED <<run, step, issued, resets, executors, daemon, request, backend,
                 requeues, crashes>>

ResetAttempt(job) == [job EXCEPT !.state = "QUEUED", !.attempt = 0]

\* requeue_dead_letter
Requeue(k, reset) ==
  /\ jobs[k].state = "DEAD_LETTER" /\ requeues < RequeueBound
  /\ jobs' = [jobs EXCEPT ![k] = IF reset = "yes" THEN ResetAttempt(jobs[k])
                                 ELSE [jobs[k] EXCEPT !.state = "QUEUED"]]
  /\ resets' = IF reset = "yes" THEN [resets EXCEPT ![k] = @ + 1] ELSE resets
  /\ step' = IF step = "FAILED" THEN "PENDING" ELSE step
  /\ requeues' = requeues + 1
  /\ UNCHANGED <<run, issued, executors, daemon, request, backend, crashes>>

-----------------------------------------------------------------------------
(* Registrations                                                           *)

Enroll(e) ==
  /\ executors[e] = "NONE"
  /\ executors' = [executors EXCEPT ![e] = "ACTIVE"]
  /\ UNCHANGED <<run, step, jobs, issued, resets, daemon, request, backend,
                 requeues, crashes>>

\* authenticate_executor, for an executor that was silent for too long: its
\* daemon works on a job and its heartbeats are lost.
GoOffline(e) ==
  /\ executors[e] = "ACTIVE" /\ daemon[e].pc \in {"leased", "running"}
  /\ executors' = [executors EXCEPT ![e] = "OFFLINE"]
  /\ UNCHANGED <<run, step, jobs, issued, resets, daemon, request, backend,
                 requeues, crashes>>

\* revoke_executor releases the leases of the executor.
Revoke(e) ==
  /\ executors[e] \in {"ACTIVE", "OFFLINE"}
  /\ executors' = [executors EXCEPT ![e] = "REVOKED"]
  /\ jobs' = ReleaseAll({k \in Keys : jobs[k].owner = e /\ jobs[k].state \in Leased})
  /\ UNCHANGED <<run, step, issued, resets, daemon, request, backend, requeues,
                 crashes>>

\* The main loop of a daemon: the answer 401 stops it for good.
Heartbeat(e) ==
  /\ daemon[e].pc = "idle"
  /\ \/ /\ executors[e] = "OFFLINE"
        /\ executors' = [executors EXCEPT ![e] = "ACTIVE"]
        /\ UNCHANGED daemon
     \/ /\ executors[e] = "REVOKED"
        /\ daemon' = [daemon EXCEPT ![e].pc = "stopped"]
        /\ UNCHANGED executors
  /\ UNCHANGED <<run, step, jobs, issued, resets, request, backend, requeues,
                 crashes>>

-----------------------------------------------------------------------------
(* Scheduling                                                              *)

JobKey == IF run.recovery = "SCHEDULED" THEN run.attempts ELSE 0

\* execute: the run is planned (and committed) before the job is scheduled.
\* An escalated recovery is refused after a FAILED run was resumed.  That a job
\* that exists is scheduled again changes nothing and is not modelled.
ExecuteRun ==
  /\ backend = "idle"
  /\ run.status # "CANCELLED"
  /\ run' = IF run.status \in {"CREATED", "FAILED"}
            THEN [run EXCEPT !.status = "PLANNING"] ELSE run
  /\ backend' = IF run.recovery = "ESCALATED" \/ jobs[JobKey].state # "NONE"
                THEN "idle" ELSE "schedule"
  /\ UNCHANGED <<step, jobs, issued, resets, executors, daemon, request,
                 requeues, crashes>>

\* schedule: the job of this key, or a new one.
Scheduled(js, k) == IF js[k].state = "NONE" THEN [js EXCEPT ![k] = Queued] ELSE js

ScheduleRun ==
  /\ backend = "schedule" /\ backend' = "idle"
  /\ step' = IF step = "NONE" THEN "PENDING" ELSE step
  /\ jobs' = Scheduled(jobs, JobKey)
  /\ UNCHANGED <<run, issued, resets, executors, daemon, request, requeues,
                 crashes>>

\* cancel
CancelRun ==
  /\ run.status # "CANCELLED"
  /\ run' = [run EXCEPT !.status = "CANCELLED"]
  /\ jobs' = [k \in Keys |->
                IF jobs[k].state \in Active
                THEN [jobs[k] EXCEPT !.state = "CANCELLED", !.owner = None,
                                     !.token = 0, !.lease = "none"]
                ELSE jobs[k]]
  /\ UNCHANGED <<step, issued, resets, executors, daemon, request, backend,
                 requeues, crashes>>

\* schedule_recovery of a FAILED step within the budget, or its escalation.
RecoverySchedules(target) ==
  /\ run.attempts < MaxRecovery
  /\ run' = [status |-> target, attempts |-> run.attempts + 1,
             recovery |-> "SCHEDULED"]
  /\ step' = "PENDING"
RecoveryEscalates ==
  /\ run' = [status |-> "FAILED", attempts |-> run.attempts + 1,
             recovery |-> "ESCALATED"]
  /\ step' = "FAILED"

\* POST /recover of a failed step (a second escalation changes nothing but the
\* count).
RecoverStep ==
  /\ step = "FAILED" /\ run.attempts <= MaxRecovery
  /\ \/ \E target \in RecoveryTargets : RecoverySchedules(target)
     \/ RecoveryEscalates
  /\ UNCHANGED <<jobs, issued, resets, executors, daemon, request, backend,
                 requeues, crashes>>

-----------------------------------------------------------------------------
(* acquire_lease                                                           *)

Leasable(job) == job.state = "QUEUED" /\ job.attempt < MaxAttempts

\* The attempt is not counted.
GrantUncounted(js, k, e) ==
  [js EXCEPT ![k] = [state |-> "LEASED", attempt |-> js[k].attempt,
                     owner |-> e, token |-> issued[k] + 1, lease |-> "live"]]

\* The lease of job k in js for executor e, with a new token.
Grant(js, k, e) ==
  [js EXCEPT ![k] = [state |-> "LEASED", attempt |-> js[k].attempt + 1,
                     owner |-> e, token |-> issued[k] + 1, lease |-> "live"]]

\* Expired leases are recovered first; the answer may be lost.
Acquire(e) ==
  /\ daemon[e].pc = "idle" /\ executors[e] = "ACTIVE"
  /\ LET js   == ReclaimExpired
         free == {k \in Keys : Leasable(js[k])}
     IN  \/ /\ free = {} /\ js # jobs
            /\ jobs' = js /\ UNCHANGED <<issued, daemon>>
         \/ \E k \in free :
              /\ jobs' = Grant(js, k, e)
              /\ issued' = [issued EXCEPT ![k] = @ + 1]
              /\ \/ daemon' = [daemon EXCEPT ![e] = [pc |-> "leased", job |-> k,
                                                     token |-> issued[k] + 1]]
                 \/ UNCHANGED daemon
  /\ UNCHANGED <<run, step, resets, executors, request, backend, requeues, crashes>>

-----------------------------------------------------------------------------
(* The requests of an executor that holds a lease                          *)

OwnedByAnyToken(e, k, token) == executors[e] = "ACTIVE" /\ jobs[k].owner = e

\* _owned_job
Owned(e, k, token) ==
  executors[e] = "ACTIVE" /\ jobs[k].owner = e /\ jobs[k].token = token

\* The answer to a request that _owned_job refuses: 403 for another owner's
\* job, 401 for an executor that is not active or a token that is not current.
\* The daemon takes a 401 for its revocation.
Refusal(e, k, token) ==
  IF executors[e] = "ACTIVE" /\ jobs[k].owner # e THEN "idle" ELSE "stopped"

Op(op, e) == [op |-> op, job |-> daemon[e].job, token |-> daemon[e].token,
              attempt |-> jobs[daemon[e].job].attempt]

\* start_job and heartbeat_job (_leased_job) of the lease that the daemon has:
\* a request to start, or to give up a lease that expired.
BeginLeased(e) ==
  LET k == daemon[e].job IN
  /\ daemon[e].pc \in {"leased", "running"} /\ request[e] = NoRequest
  /\ \/ /\ ~Owned(e, k, daemon[e].token) /\ daemon[e].pc = "leased"
        /\ daemon' = [daemon EXCEPT ![e] =
                        [IdleDaemon EXCEPT !.pc = Refusal(e, k, daemon[e].token)]]
        /\ UNCHANGED request
     \/ /\ Owned(e, k, daemon[e].token)
        /\ jobs[k].state \in Leased /\ jobs[k].lease # "live"
        /\ request' = [request EXCEPT ![e] = Op("release", e)]
        /\ UNCHANGED daemon
     \/ /\ Owned(e, k, daemon[e].token) /\ daemon[e].pc = "leased"
        /\ jobs[k].state = "LEASED" /\ jobs[k].lease = "live"
        /\ request' = [request EXCEPT ![e] = Op("start", e)]
        /\ UNCHANGED daemon
     \/ /\ Owned(e, k, daemon[e].token) /\ daemon[e].pc = "leased"
        /\ \/ jobs[k].state = "RUNNING" /\ jobs[k].lease = "live"
              /\ daemon' = [daemon EXCEPT ![e].pc = "running"]
           \/ jobs[k].state \in Finished
              /\ daemon' = [daemon EXCEPT ![e] = IdleDaemon]
        /\ UNCHANGED request
  /\ UNCHANGED <<run, step, jobs, issued, resets, executors, backend, requeues,
                 crashes>>

\* complete_job and fail_job: no test of the lease's expiry.
BeginFinish(e, kind) ==
  LET k == daemon[e].job IN
  /\ daemon[e].pc = "running" /\ request[e] = NoRequest
  /\ \/ /\ ~Owned(e, k, daemon[e].token)
        /\ daemon' = [daemon EXCEPT ![e] =
                        [IdleDaemon EXCEPT !.pc = Refusal(e, k, daemon[e].token)]]
        /\ UNCHANGED request
     \/ /\ Owned(e, k, daemon[e].token) /\ jobs[k].state \in Leased
        /\ request' = [request EXCEPT ![e] = Op(kind, e)]
        /\ UNCHANGED daemon
  /\ UNCHANGED <<run, step, jobs, issued, resets, executors, backend, requeues,
                 crashes>>

\* What the request found in the job's row still holds.
Current(e) ==
  LET r == request[e] IN
  Owned(e, r.job, r.token) /\ jobs[r.job].state \in Leased

MayWrite(e, ops) == request[e].op \in ops /\ (Overlap = "yes" \/ Current(e))

\* The daemon still waits for the answer to the request.
Waiting(e) ==
  /\ daemon[e].pc \in {"leased", "running"}
  /\ daemon[e].job = request[e].job /\ daemon[e].token = request[e].token

\* The answer: the daemon starts to run the job, or is done with it.
Answered(e, pc) ==
  IF ~Waiting(e) THEN daemon
  ELSE IF pc = "running" THEN [daemon EXCEPT ![e].pc = "running"]
  ELSE [daemon EXCEPT ![e] = [IdleDaemon EXCEPT !.pc = pc]]
Done(e) == request' = [request EXCEPT ![e] = NoRequest]
Then(e, op) == request' = [request EXCEPT ![e].op = op]
SetState(k, state) == jobs' = [jobs EXCEPT ![k].state = state]

\* The release of an expired lease.  A daemon that heartbeats works on.
CommitRelease(e) ==
  /\ MayWrite(e, {"release"}) /\ Done(e)
  /\ jobs' = [jobs EXCEPT ![request[e].job] =
                Released(jobs[request[e].job], request[e].attempt)]
  /\ daemon' = IF daemon[e].pc = "leased" THEN Answered(e, "idle") ELSE daemon
  /\ UNCHANGED <<run, step, issued, resets, executors, backend, requeues, crashes>>

\* The transition of start_job, which also answers the daemon.
StartRun(e) ==
  /\ run' = IF run.status = "PLANNING" THEN [run EXCEPT !.status = "IMPLEMENTING"]
            ELSE run
  /\ daemon' = Answered(e, "running") /\ Done(e)

\* start_job: the job starts with its step, the run in a commit of its own; or
\* with the run, if the step was not PENDING.
CommitStart(e) ==
  /\ MayWrite(e, {"start"})
  /\ SetState(request[e].job, "RUNNING")
  /\ \/ /\ step = "PENDING" /\ step' = "RUNNING"
        /\ Then(e, "startRun") /\ UNCHANGED <<run, daemon>>
     \/ /\ step # "PENDING" /\ StartRun(e) /\ UNCHANGED step
  /\ UNCHANGED <<issued, resets, executors, backend, requeues, crashes>>

CommitStartRun(e) ==
  /\ request[e].op = "startRun" /\ StartRun(e)
  /\ UNCHANGED <<step, jobs, issued, resets, executors, backend, requeues, crashes>>

Open == {"PENDING", "RUNNING"}

\* _finish_job of a result that is no failure: the job is committed with the
\* result, the step after it.
CommitResult(e) ==
  /\ MayWrite(e, {"COMPLETED", "NEEDS_APPROVAL"}) /\ step \in Open
  /\ SetState(request[e].job, "COMPLETED")
  /\ Then(e, IF request[e].op = "COMPLETED" THEN "complete" ELSE "await")
  /\ UNCHANGED <<run, step, issued, resets, executors, daemon, backend, requeues,
                 crashes>>

CommitStep(e) ==
  /\ request[e].op \in {"complete", "await"} /\ Done(e)
  /\ step' = IF step \notin Open THEN step
             ELSE IF request[e].op = "complete" THEN "COMPLETED"
             ELSE "AWAITING_APPROVAL"
  /\ daemon' = Answered(e, "idle")
  /\ UNCHANGED <<run, jobs, issued, resets, executors, backend, requeues, crashes>>

\* A failure that a recovery has already taken up is not taken up again.
Replayed == step = "PENDING" /\ run.recovery = "SCHEDULED"

ReleasedAndRetried(k, n) ==
  Scheduled([jobs EXCEPT ![k] = Released(jobs[k], jobs[k].attempt)], n)

\* The failed job, with the job of recovery n, which its failure scheduled.
FailedAndRetried(k, n) ==
  Scheduled([jobs EXCEPT ![k].state = "FAILED"], n)

\* _finish_job of a failure: the job, its step, the decision of the recovery
\* and the job it schedules in one commit.
CommitFailure(e) ==
  /\ MayWrite(e, {"FAILED"}) /\ step \in Open /\ Done(e)
  /\ daemon' = Answered(e, "idle")
  /\ \/ /\ Replayed
        /\ jobs' = FailedAndRetried(request[e].job, run.attempts)
        /\ UNCHANGED <<run, step>>
     \/ /\ ~Replayed
        /\ \/ \E target \in RecoveryTargets :
                /\ RecoverySchedules(target)
                /\ jobs' = FailedAndRetried(request[e].job, run.attempts + 1)
           \/ RecoveryEscalates /\ SetState(request[e].job, "FAILED")
  /\ UNCHANGED <<issued, resets, executors, backend, requeues, crashes>>

\* A request whose row has changed is refused as if it had come later.
RefuseStale(e) ==
  LET r == request[e] IN
  /\ Overlap = "no" /\ r.op \in {"start", "release"} \cup Kinds /\ ~Current(e)
  /\ Done(e)
  /\ daemon' = IF r.op = "release" /\ daemon[e].pc = "running" THEN daemon
               ELSE Answered(e, IF Owned(e, r.job, r.token) THEN "idle"
                                ELSE Refusal(e, r.job, r.token))
  /\ UNCHANGED <<run, step, jobs, issued, resets, executors, backend, requeues,
                 crashes>>

\* A result for a step that takes none any more is rolled back.
RefuseResult(e) ==
  /\ MayWrite(e, Kinds) /\ step \notin Open
  /\ Done(e) /\ daemon' = Answered(e, "idle")
  /\ UNCHANGED <<run, step, jobs, issued, resets, executors, backend, requeues,
                 crashes>>

\* The daemon gives up: its request timed out, or it was restarted.
Drop(e) ==
  /\ daemon[e].pc \in {"leased", "running"}
  /\ daemon' = [daemon EXCEPT ![e] = IdleDaemon]
  /\ UNCHANGED <<run, step, jobs, issued, resets, executors, request, backend,
                 requeues, crashes>>

\* The control plane dies between two commits of a request.
Crash(e) ==
  /\ request[e].op \in {"startRun", "complete", "await"} /\ crashes < CrashBound
  /\ crashes' = crashes + 1 /\ Done(e)
  /\ UNCHANGED <<run, step, jobs, issued, resets, executors, daemon, backend,
                 requeues>>

-----------------------------------------------------------------------------
Serve(e) ==
  \/ CommitRelease(e) \/ CommitStart(e) \/ CommitStartRun(e) \/ CommitResult(e)
  \/ CommitStep(e) \/ CommitFailure(e) \/ RefuseStale(e) \/ RefuseResult(e)

Work(e) == BeginLeased(e) \/ \E kind \in Kinds : BeginFinish(e, kind)

Next ==
  \/ \E e \in Executors :
       \/ Enroll(e) \/ GoOffline(e) \/ Revoke(e) \/ Heartbeat(e)
       \/ Acquire(e) \/ Work(e) \/ Serve(e) \/ Drop(e) \/ Crash(e)
  \/ \E k \in Keys : Expire(k) \/ \E reset \in {"no", "yes"} : Requeue(k, reset)
  \/ RecoverOrphaned \/ ExecuteRun \/ ScheduleRun \/ CancelRun \/ RecoverStep

Spec == Init /\ [][Next]_vars

\* No daemon works under the lease of job k, so that nobody renews it.
Abandoned(k) ==
  \A e \in Executors : daemon[e].pc \in {"leased", "running"} =>
                         daemon[e].job # k \/ daemon[e].token # jobs[k].token

\* Requests end, runners end (they have a timeout), time passes, and the
\* recovery job runs every two minutes.
FairSpec ==
  /\ Spec
  /\ \A e \in Executors : WF_vars(Serve(e)) /\ WF_vars(Work(e))
  /\ \A k \in Keys : WF_vars(Expire(k) /\ Abandoned(k))
  /\ WF_vars(RecoverOrphaned)

-----------------------------------------------------------------------------
(* Properties                                                              *)

\* The run, its step, the jobs, the executors and their requests keep their shape.
TypeOK ==
  /\ run \in Run /\ step \in StepStatuses /\ jobs \in [Keys -> Job]
  /\ issued \in [Keys -> Nat] /\ resets \in [Keys -> Nat]
  /\ executors \in [Executors -> {"NONE", "ACTIVE", "OFFLINE", "REVOKED"}]
  /\ daemon \in [Executors -> Daemon] /\ request \in [Executors -> Request]
  /\ backend \in {"idle", "schedule"} /\ requeues \in Nat /\ crashes \in Nat

\* However leases expire, are lost, are given up or are taken back, a job is
\* leased at most max_attempts times for every time its attempts were reset.
LeaseBudget ==
  \A k \in Keys : issued[k] <= MaxAttempts * (resets[k] + 1)

\* Two executors never work for the same step: but for a requeue by an
\* operator, at most one job of the run can be leased or is leased.
OneActiveJob ==
  requeues = 0 => Cardinality({k \in Keys : jobs[k].state \in Active}) <= 1

\* A running job has a running step (until its result is committed), so that
\* the step takes the result.
RunningJobRunsStep ==
  requeues = 0 => \A k \in Keys : jobs[k].state = "RUNNING" => step = "RUNNING"

\* Only the holder of the latest lease of a job finishes it, and what finished
\* stays finished: the answer of an executor that lost its lease is rejected.
StaleTokensRejected ==
  [][\A k \in Keys :
       /\ jobs'[k].state \in Finished /\ jobs[k].state \notin Finished =>
            \E e \in Executors : /\ request[e].job = k
                                 /\ request[e].token = issued[k]
                                 /\ executors[e] = "ACTIVE"
       /\ jobs[k].state \in Finished => jobs'[k].state = jobs[k].state]_vars

\* Every lease ends, by a result or by recovery: no job stays with an executor
\* that died, was revoked or never got the answer to its request.
LeasesEnd ==
  \A k \in Keys : jobs[k].state \in Leased ~> jobs[k].state \notin Leased

\* What docs/enterprise-resilience.md says of recovery: the RUNNING step of a
\* job whose attempts are exhausted is reconciled to FAILED.
DeadLetterFailsStep ==
  \A k \in Keys :
    jobs[k].state = "DEAD_LETTER" /\ step = "RUNNING"
      ~> jobs[k].state # "DEAD_LETTER" \/ step = "FAILED"

\* One executor at a time works for the run, and for a step that takes its result.
ActiveJobIsSole == OneActiveJob /\ RunningJobRunsStep
=============================================================================
