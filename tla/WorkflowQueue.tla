---------------------------- MODULE WorkflowQueue ----------------------------
(***************************************************************************)
(* The durable queue of workflow jobs (sacm/core/workflow_queue_service.py)*)
(* with the worker processes that drain it (apps/worker/main.py) and the   *)
(* API handlers that submit and cancel jobs (apps/api/routes/runs.py).     *)
(*                                                                         *)
(* A run has at most one job row.  The service reads a row, decides, and   *)
(* commits its changes later.  Sessions use the default isolation of the   *)
(* database and no row lock, so every read and the commit that follows it  *)
(* are two actions here and any other process may act between them.  Only  *)
(* claim and renew are compare-and-set updates: one action each.  A commit *)
(* writes the columns whose value differs from the one that was read.      *)
(*                                                                         *)
(* Time is abstract: a lease is live until Expire, a delayed job is not    *)
(* due until BecomeDue.  A lease token (a uuid) is the number of the claim *)
(* that drew it; 0 is NULL.                                                *)
(***************************************************************************)
EXTENDS Naturals

CONSTANTS Runs, Workers, Clients,
          NoRun,         \* a worker or a client that works on no run
          MaxAttempts,   \* max_attempts of a job
          SubmitBound,   \* bound: submissions per run
          CrashBound     \* bound: crashes of workers and handlers

ASSUME BoundsAssumption ==
  /\ MaxAttempts \in Nat \ {0} /\ SubmitBound \in Nat /\ CrashBound \in Nat
  /\ NoRun \notin Runs

VARIABLES
  job,      \* job[r]: the row of workflow_jobs, state NONE when there is none
  run,      \* run[r]: the class of the run's status
  claims,   \* claims[r]: how many tokens were ever drawn for the job
  submits,  \* submits[r]: how many submissions put the job in the queue
  worker,   \* worker[w]: where the process stands in process_one
  client,   \* client[c]: where an API handler stands
  crashes

vars == <<job, run, claims, submits, worker, client, crashes>>

Terminal == {"COMPLETED", "FAILED", "CANCELLED"}
JobStates == {"NONE", "QUEUED", "RUNNING"} \cup Terminal

\* GATED: CREATED, which no failure may leave (AWAITING_APPROVAL is the other
\* such status, but nothing ever gives it to a run).
RunClasses == {"GATED", "OPEN", "FAILED", "COMPLETED", "CANCELLED"}

Jobs == [state: JobStates, attempt: Nat, token: Nat,
         lease: {"null", "live", "expired"}, due: {"now", "later"}]

NoJob == [state |-> "NONE", attempt |-> 0, token |-> 0, lease |-> "null",
          due |-> "later"]

WorkerPCs == {"idle", "recovering", "selecting", "claiming", "executing",
              "completing", "completeCommit", "failing", "failCommit", "dead"}

WorkerStates == [pc: WorkerPCs, r: Runs \cup {NoRun}, token: Nat,
                 beat: {"on", "lost"}, seen: [Runs -> Nat]]

\* seen[r]: the attempt read from a row about to be changed, 0 if none was.
IdleWorker == [pc |-> "idle", r |-> NoRun, token |-> 0, beat |-> "on",
               seen |-> [r \in Runs |-> 0]]

ClientPCs == {"idle", "submitCommit", "cancelRead", "cancelCommit"}
ClientStates == [pc: ClientPCs, r: Runs \cup {NoRun}, state: JobStates,
                 token: Nat]
IdleClient == [pc |-> "idle", r |-> NoRun, state |-> "NONE", token |-> 0]

Init ==
  /\ job = [r \in Runs |-> NoJob]
  /\ run = [r \in Runs |-> "GATED"]
  /\ claims = [r \in Runs |-> 0]
  /\ submits = [r \in Runs |-> 0]
  /\ worker = [w \in Workers |-> IdleWorker]
  /\ client = [c \in Clients |-> IdleClient]
  /\ crashes = 0

-----------------------------------------------------------------------------
(* API handlers: submit and cancel                                         *)

\* submit, up to the row it finds; QUEUED and RUNNING rows are returned.
SubmitRead(c, r) ==
  /\ client[c].pc = "idle"
  /\ run[r] \notin {"COMPLETED", "CANCELLED"}
  /\ submits[r] < SubmitBound
  /\ job[r].state \notin {"QUEUED", "RUNNING"}
  /\ client' = [client EXCEPT ![c] =
       [pc |-> "submitCommit", r |-> r, state |-> job[r].state,
        token |-> job[r].token]]
  /\ UNCHANGED <<job, run, claims, submits, worker, crashes>>

\* The columns a write to NULL of the lease touches: none if they were read NULL.
ClearLease(j, readToken) ==
  IF readToken = 0 THEN j ELSE [j EXCEPT !.token = 0, !.lease = "null"]

\* A finished row put back in the queue: the attempt counter is kept.
Requeued(j, readToken) ==
  [ClearLease(j, readToken) EXCEPT !.state = "QUEUED", !.due = "now"]

\* submit's commit.  The insert loses to a concurrent one (one job per run).
SubmitCommit(c) ==
  LET r == client[c].r
      loses == client[c].state = "NONE" /\ job[r].state # "NONE"
  IN  /\ client[c].pc = "submitCommit"
      /\ job' = IF loses THEN job
                ELSE [job EXCEPT ![r] = Requeued(@, client[c].token)]
      /\ submits' = IF loses THEN submits
                    ELSE [submits EXCEPT ![r] = @ + 1]
      /\ client' = [client EXCEPT ![c] = IdleClient]
      /\ UNCHANGED <<run, claims, worker, crashes>>

\* cancel_run's first commit (RunService.cancel).
CancelRun(c, r) ==
  /\ client[c].pc = "idle"
  /\ run[r] \notin {"COMPLETED", "CANCELLED"}
  /\ run' = [run EXCEPT ![r] = "CANCELLED"]
  /\ client' = [client EXCEPT ![c] = [IdleClient EXCEPT !.pc = "cancelRead", !.r = r]]
  /\ UNCHANGED <<job, claims, submits, worker, crashes>>

\* The queue's cancel: finished jobs are returned as they are.
CancelRead(c) ==
  LET r == client[c].r
  IN  /\ client[c].pc = "cancelRead"
      /\ client' = [client EXCEPT ![c] =
           IF job[r].state \in {"NONE"} \cup Terminal THEN IdleClient
           ELSE [pc |-> "cancelCommit", r |-> r, state |-> job[r].state,
                 token |-> job[r].token]]
      /\ UNCHANGED <<job, run, claims, submits, worker, crashes>>

CancelCommit(c) ==
  /\ client[c].pc = "cancelCommit"
  /\ job' = [job EXCEPT ![client[c].r] =
       [ClearLease(@, client[c].token) EXCEPT !.state = "CANCELLED"]]
  /\ client' = [client EXCEPT ![c] = IdleClient]
  /\ UNCHANGED <<run, claims, submits, worker, crashes>>

-----------------------------------------------------------------------------
(* claim: recover expired jobs, select a candidate, compare-and-set        *)

ExpiredAnyRunning(r) == job[r].state = "RUNNING"

ExpiredWithAttempts(r) ==
  /\ job[r].state = "RUNNING" /\ job[r].lease = "expired"
  /\ job[r].attempt < MaxAttempts

\* The rows _recover_expired selects.
Expired(r) == job[r].state = "RUNNING" /\ job[r].lease = "expired"

RecoverRead(w) ==
  /\ worker[w].pc = "idle"
  /\ worker' = [worker EXCEPT ![w] =
       [@ EXCEPT !.pc = IF \E r \in Runs : Expired(r) THEN "recovering"
                        ELSE "selecting",
                 !.seen = [r \in Runs |->
                             IF Expired(r) THEN job[r].attempt ELSE 0]]]
  /\ UNCHANGED <<job, run, claims, submits, client, crashes>>

ReleasedFresh(j, attempt, due) ==
  [j EXCEPT !.state = IF attempt < MaxAttempts THEN "QUEUED" ELSE "FAILED",
            !.attempt = 0, !.token = 0, !.lease = "null", !.due = due]

\* A RUNNING row given up: queued again while attempts (as read) remain.
Released(j, attempt, due) ==
  [j EXCEPT !.state = IF attempt < MaxAttempts THEN "QUEUED" ELSE "FAILED",
            !.token = 0, !.lease = "null",
            !.due = IF attempt < MaxAttempts THEN due ELSE @]

RecoverCommit(w) ==
  LET seen == worker[w].seen
  IN  /\ worker[w].pc = "recovering"
      /\ job' = [r \in Runs |-> IF seen[r] = 0 THEN job[r]
                                ELSE Released(job[r], seen[r], "now")]
      /\ worker' = [worker EXCEPT ![w] = [IdleWorker EXCEPT !.pc = "selecting"]]
      /\ UNCHANGED <<run, claims, submits, client, crashes>>

\* Which of several due jobs is the oldest is left open.
Select(w) ==
  /\ worker[w].pc = "selecting"
  /\ \/ \E r \in Runs :
          /\ job[r].state = "QUEUED" /\ job[r].due = "now"
          /\ worker' = [worker EXCEPT ![w] =
                          [IdleWorker EXCEPT !.pc = "claiming", !.r = r]]
     \/ /\ \A r \in Runs : ~(job[r].state = "QUEUED" /\ job[r].due = "now")
        /\ worker' = [worker EXCEPT ![w] = IdleWorker]
  /\ UNCHANGED <<job, run, claims, submits, client, crashes>>

\* The condition of the compare-and-set; available_at is not tested again.
Claimable(r) == job[r].state = "QUEUED"

ClaimedNoExpiry(j, token) ==
  [j EXCEPT !.state = "RUNNING", !.attempt = @ + 1, !.token = token]

Claimed(j, token) ==
  [j EXCEPT !.state = "RUNNING", !.attempt = @ + 1, !.token = token,
            !.lease = "live"]

Claim(w) ==
  LET r == worker[w].r
      token == claims[r] + 1
  IN  /\ worker[w].pc = "claiming"
      /\ IF Claimable(r)
         THEN /\ job' = [job EXCEPT ![r] = Claimed(@, token)]
              /\ claims' = [claims EXCEPT ![r] = token]
              /\ worker' = [worker EXCEPT ![w] =
                   [@ EXCEPT !.pc = "executing", !.token = token]]
         ELSE /\ worker' = [worker EXCEPT ![w] = IdleWorker]
              /\ UNCHANGED <<job, claims>>
      /\ UNCHANGED <<run, submits, client, crashes>>

-----------------------------------------------------------------------------
(* process_one after the claim                                             *)

RenewableEvenExpired(r, token) ==
  job[r].state = "RUNNING" /\ job[r].token = token

\* The condition of renew's compare-and-set.
Renewable(r, token) ==
  /\ job[r].state = "RUNNING"
  /\ job[r].token = token
  /\ job[r].lease = "live"

\* One turn of the heartbeat thread; a thread that did not stop in time may
\* still take one while its worker is failing the job.
Heartbeat(w) ==
  LET r == worker[w].r
  IN  /\ worker[w].pc \in {"executing", "failing", "failCommit"}
      /\ worker[w].beat = "on"
      /\ IF Renewable(r, worker[w].token)
         THEN job' = [job EXCEPT ![r].lease = "live"] /\ UNCHANGED worker
         ELSE worker' = [worker EXCEPT ![w].beat = "lost"] /\ UNCHANGED job
      /\ UNCHANGED <<run, claims, submits, client, crashes>>

\* LocalWorkflow.execute returns or raises; a lost heartbeat turns a result
\* into an exception.
ExecuteReturn(w) ==
  /\ worker[w].pc = "executing"
  /\ \/ /\ worker[w].beat = "on"
        /\ worker' = [worker EXCEPT ![w].pc = "completing"]
     \/ worker' = [worker EXCEPT ![w].pc = "failing"]
  /\ UNCHANGED <<job, run, claims, submits, client, crashes>>

Owned(r, token) == job[r].state = "RUNNING" /\ job[r].token = token

\* complete: _require_owned; its RuntimeError is not caught and ends the worker.
CompleteRead(w) ==
  /\ worker[w].pc = "completing"
  /\ worker' = [worker EXCEPT ![w] =
       IF Owned(@.r, @.token) THEN [@ EXCEPT !.pc = "completeCommit"]
       ELSE [IdleWorker EXCEPT !.pc = "dead"]]
  /\ UNCHANGED <<job, run, claims, submits, client, crashes>>

CompleteCommit(w) ==
  /\ worker[w].pc = "completeCommit"
  /\ job' = [job EXCEPT ![worker[w].r] =
       [@ EXCEPT !.state = "COMPLETED", !.token = 0, !.lease = "null"]]
  /\ worker' = [worker EXCEPT ![w] = IdleWorker]
  /\ UNCHANGED <<run, claims, submits, client, crashes>>

\* fail: a lost lease is reported and the worker goes on.
FailRead(w) ==
  /\ worker[w].pc = "failing"
  /\ worker' = [worker EXCEPT ![w] =
       IF Owned(@.r, @.token)
       THEN [@ EXCEPT !.pc = "failCommit",
                      !.seen = [r \in Runs |-> IF r = worker[w].r
                                               THEN job[r].attempt ELSE 0]]
       ELSE IdleWorker]
  /\ UNCHANGED <<job, run, claims, submits, client, crashes>>

\* fail's commit, with the run failed when the attempts are exhausted.  A
\* GATED run may not fail: the ValueError ends the worker before any commit.
FailCommit(w) ==
  LET r == worker[w].r
      exhausted == worker[w].seen[r] >= MaxAttempts
  IN  /\ worker[w].pc = "failCommit"
      /\ IF exhausted /\ run[r] = "GATED"
         THEN /\ worker' = [worker EXCEPT ![w] = [IdleWorker EXCEPT !.pc = "dead"]]
              /\ UNCHANGED <<job, run>>
         ELSE /\ job' = [job EXCEPT ![r] = Released(@, worker[w].seen[r], "later")]
              /\ run' = [run EXCEPT ![r] =
                           IF exhausted /\ @ = "OPEN" THEN "FAILED" ELSE @]
              /\ worker' = [worker EXCEPT ![w] = IdleWorker]
      /\ UNCHANGED <<claims, submits, client, crashes>>

-----------------------------------------------------------------------------
(* The environment                                                         *)

\* The workflow, approvals and resumes move a run (RunService.transition).
RunMoves(r) ==
  /\ \E s \in RunClasses :
       /\ <<run[r], s>> \in {<<"GATED", "OPEN">>, <<"OPEN", "FAILED">>,
                             <<"OPEN", "COMPLETED">>, <<"FAILED", "OPEN">>}
       /\ run' = [run EXCEPT ![r] = s]
  /\ UNCHANGED <<job, claims, submits, worker, client, crashes>>

Expire(r) ==
  /\ job[r].lease = "live"
  /\ job' = [job EXCEPT ![r].lease = "expired"]
  /\ UNCHANGED <<run, claims, submits, worker, client, crashes>>

BecomeDue(r) ==
  /\ job[r].state = "QUEUED" /\ job[r].due = "later"
  /\ job' = [job EXCEPT ![r].due = "now"]
  /\ UNCHANGED <<run, claims, submits, worker, client, crashes>>

Crash(w) ==
  /\ worker[w].pc # "dead" /\ crashes < CrashBound
  /\ crashes' = crashes + 1
  /\ worker' = [worker EXCEPT ![w] = [IdleWorker EXCEPT !.pc = "dead"]]
  /\ UNCHANGED <<job, run, claims, submits, client>>

\* The supervisor starts the worker again.
Restart(w) ==
  /\ worker[w].pc = "dead"
  /\ worker' = [worker EXCEPT ![w] = IdleWorker]
  /\ UNCHANGED <<job, run, claims, submits, client, crashes>>

ClientCrash(c) ==
  /\ client[c].pc # "idle" /\ crashes < CrashBound
  /\ crashes' = crashes + 1
  /\ client' = [client EXCEPT ![c] = IdleClient]
  /\ UNCHANGED <<job, run, claims, submits, worker>>

-----------------------------------------------------------------------------
ClientStep(c) == SubmitCommit(c) \/ CancelRead(c) \/ CancelCommit(c)

WorkerStep(w) ==
  \/ RecoverRead(w) \/ RecoverCommit(w) \/ Select(w) \/ Claim(w)
  \/ ExecuteReturn(w) \/ CompleteRead(w) \/ CompleteCommit(w)
  \/ FailRead(w) \/ FailCommit(w) \/ Restart(w)

Next ==
  \/ \E c \in Clients, r \in Runs : SubmitRead(c, r) \/ CancelRun(c, r)
  \/ \E c \in Clients : ClientStep(c) \/ ClientCrash(c)
  \/ \E w \in Workers : WorkerStep(w) \/ Heartbeat(w) \/ Crash(w)
  \/ \E r \in Runs : RunMoves(r) \/ Expire(r) \/ BecomeDue(r)

Spec == Init /\ [][Next]_vars

\* Polling, execution and commits end; processes restart; time passes.
Fairness ==
  /\ \A w \in Workers : WF_vars(WorkerStep(w))
  /\ \A c \in Clients : WF_vars(ClientStep(c))
  /\ \A r \in Runs : WF_vars(Expire(r)) /\ WF_vars(BecomeDue(r))

FairSpec == Spec /\ Fairness

-----------------------------------------------------------------------------
(* Properties                                                              *)

\* Every row, process and counter keeps its shape.
TypeOK ==
  /\ job \in [Runs -> Jobs]
  /\ run \in [Runs -> RunClasses]
  /\ claims \in [Runs -> Nat]
  /\ submits \in [Runs -> Nat]
  /\ worker \in [Workers -> WorkerStates]
  /\ client \in [Clients -> ClientStates]
  /\ crashes \in Nat

\* A RUNNING row always carries a token and an expiry, whatever stale commit
\* lands on it.  _recover_expired selects rows by lease_expires_at <= now, which
\* NULL never satisfies: a row without an expiry would be stuck for good.
RunningIsRecoverable ==
  \A r \in Runs : job[r].state = "RUNNING" => /\ job[r].token # 0
                                              /\ job[r].lease # "null"

\* attempt counts every claim that was ever made, so no execution goes
\* unaccounted for: commits by stale workers never take an attempt back.
AttemptCountsClaims == \A r \in Runs : job[r].attempt = claims[r]

\* The lease a worker lost is lost: no renewal ever revives an expired lease,
\* only a new claim, with its own token, makes the row's lease live again.
ExpiredLeaseStaysLost ==
  [][\A r \in Runs : /\ job[r].lease = "expired"
                     /\ job'[r].lease = "live"
                     => job'[r].token # job[r].token]_job

\* Every queued job ends, although workers crash with a lease in hand, lose
\* leases, overwrite each other's rows or die on a GATED run.
JobSettles ==
  \A r \in Runs :
    job[r].state \in {"QUEUED", "RUNNING"} ~> job[r].state \in Terminal

\* What tests/test_workflow_queue_service.py expects of cancel: a job that was
\* cancelled is never claimed again.
CancelledNeverClaimed ==
  [][\A r \in Runs : job[r].state = "CANCELLED" => job'[r].state # "QUEUED"]_job
=============================================================================
