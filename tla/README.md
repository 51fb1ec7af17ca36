# TLA+ models of the SACM agent runtime

The runtime executes software tasks with agents: a task becomes a run, a run is
executed by a worker of this control plane or leased to a customer's executor,
its results pass policy, approval and verification, and everything is audited.
Almost all of it is control over rows of one SQL database, changed by several
processes (API handlers, workers, scheduled scripts, customer executors) that
keep no lock between a read and the commit that follows it. The models are about
what these processes do to each other.

1. [Inventory](#1-inventory)
2. [Modules](#2-modules)
3. [Runs](#3-runs)
4. [Disagreements with the repository's own words](#4-disagreements)
5. [Fairness](#5-fairness)
6. [Proofs](#6-proofs)
7. [Abstractions and limits](#7-abstractions-and-limits)
8. [Plan](#8-plan)

`PROJECT.json` has the machine-readable side: the lines each definition stands
for, the changed definition that each property detects, the hazards and their
properties.

## 1. Inventory

Sources are relative to `src/`; `core` is `src/sacm/core`. "Hard" names what a
test hardly reaches.

**Workflow queue** (`core/workflow_queue_service.py`, `apps/worker/main.py`,
`apps/api/routes/runs.py`). State: a row of `workflow_jobs` per run (status,
attempt, lease token and expiry, `available_at`). Operations: submit, cancel,
claim (which first recovers expired leases), renew, complete, fail. Actors:
worker processes with a heartbeat thread, API handlers. Hard: claim and renew
are compare-and-set updates, all else reads a row and commits later. Correct
when a job that is RUNNING can always be recovered, no execution is uncounted,
a lost lease stays lost and every job ends.

**Run lifecycle** (`core/run_service.py`, `core/local_workflow.py`,
`core/recovery_service.py`, `core/snapshot_service.py`, the handlers of
`apps/api/routes/runs.py`). State: the status of a run, its steps, a counter of
recoveries, snapshots, the evidence pack, the lease of the task. Operations:
execute, the transitions, steps added, started, finished, retried; cancel,
resume, recover, restore. Hard: an execution makes a dozen commits and may be
overtaken between any two by a cancel, an agent's result, a restore or a second
execution. Correct when cancelled means cancelled, the recovery loop is bounded,
and nothing brings back a step that nobody executes.

**Orchestrator** (`core/orchestrator.py`, `core/task_run_lease_service.py`,
`core/task_service.py`, `core/state_machine.py`, `core/verifier.py`,
`core/task_recovery_service.py`). State: the task's status and version, its lease,
the reports of its agents, the draft pull request. Operations: `run_task` with
acquire, heartbeat, route, execute, verify, recover, publish, mark done, block,
release. Hard: the lease runs out while an agent works and another run takes the
task; a person answers a question meanwhile; the pull request is published
before the task is compared. Correct when done means delivered, an answer is
never overwritten unread, and every run ends and lets go of its lease.

**Agent results and approvals** (`core/external_agent_service.py`,
`core/policy_service.py`). State: approvals bound to a digest of the result and
the plan, with a decision and an expiry; the step that waits for one.
Operations: submit, request, decide. Hard: submit commits three times; plans are
revised and decisions lapse in between. Correct when a step completes only on a
decision about this content under this plan.

**Execution plane** (`core/execution_plane_service.py`,
`core/workflow_backend.py`, `sacm/customer_executor`). State: `execution_jobs`
with attempt, owner and lease token, the step a job is for, the daemon that
believes it holds a lease. Operations: schedule, acquire, start, heartbeat,
complete, fail, release, expiry, orphan recovery, requeue. Hard: the answer of a
request is lost, the executor is slow, the control plane dies between the commit
of the job and that of the step. Correct when one lease at a time may finish a
job, the attempts are bounded and no lease is held for ever.

**Executor identity** (`core/execution_plane_service.py`,
`sacm/customer_executor/cli.py`, `daemon.py`, `identity.py`). State: invitations,
registrations with key, token, boundary and status; the key, token and drain
files of a host; the requests under way. Operations: invite, enroll, heartbeat,
mark offline, rotate, revoke, drain, resume. Hard: two hosts present one
invitation; a rotation changes three places one after the other and may stop
between them; a request that was let in commits after a revocation. Correct when
an invitation makes one executor, a half-rotated host drains, a production host
stays in its boundary and a revocation settles.

**Credential leases** (`core/credential_lease_service.py`,
`core/secret_broker.py`). State: grants with uses, expiry and revocation, bound
to the lease of a job; provider configurations. Operations: configure, issue,
exchange, renew, revoke, revoke for a job. Hard: the job's owner is checked, the
provider called, the row written. Correct when a grant ends with the lease it was
issued for, yields its material once and never outlives its absolute limit.

**Cognitive state and its queue** (`core/cognitive_state_service.py`,
`core/cognitive_commit_queue_service.py`). State: a chain of events per project,
relations, snapshots, a job per Git commit. Operations: record, relate, hand off,
ingest, snapshot; enqueue, claim, complete, fail. Hard: events get their time
before their commit; an ingestion commits twice. Correct when the history is one
chain, a snapshot holds all of it up to its point, and a commit is indexed once.

**Tenancy and authorization** (`core/tenancy_service.py`, `core/auth_service.py`,
`apps/api/routes`). State: organizations, projects, memberships, service
credentials, the tenant columns of tasks and runs. Operations: the requests of
all routes, each with its check; founding, granting, minting, revoking,
attribution and backfill. Hard: rights change between authentication,
authorization and effect. Correct when a request is served within the rights its
caller has when it is served.

**Audit trail and its delivery** (`core/tenancy_service.py` `record`,
`core/governance_service.py` `AuditExportService`, `SIEMService`,
`scripts/drain-siem.py`). State: a hash chain of events per organization, sinks
with a cursor, batches with attempts. Operations: record, export, verify, create
a sink, pause, enable, drain, retry a dead letter. Hard: two drains at once, a
receiver that got a batch whose answer is lost. Correct when the cursor never
passes an event that was not received, scopes are kept, and every event arrives.

**Data governance** (`core/governance_service.py` `ResidencyService.rule`,
`GovernancePolicyService`, `GovernanceRequestService`,
`apps/api/routes/governance.py`). State: versions of a policy per scope, legal
holds, a request to export or delete with its approval, its items, a durable
cursor and two counters. Operations: create, activate and retire a policy;
create and release a hold; create, approve, inventory and process a request.
Hard: a batch is decided, then committed, while another handler replaces the
items, creates a hold or processes the same batch; a call is cut off between
batches. Correct when no standing hold is passed over, and when the ledger of
the request agrees with its items wherever it is resumed.

**Evidence and supply chain** (`core/evidence_service.py`,
`core/supply_chain_service.py`). State: packs with their directory, predecessor
and attached records; mandatory records and the run's report; attestations and
their chain. Operations: build, verify, ingest, refresh, attest. Hard: two builds
choose a directory and a predecessor before either commits; the report is
measured before it is written. Correct when a pack verifies while its files are
intact and COMPLETE is true.

**Backups and drills** (`core/resilience_service.py`). State: backup records,
dump files plain and encrypted, restore drills, scratch databases. Operations:
plan, execute, verify, drill, clean up. Hard: a command fails or the process dies
between dump, encryption, restore and drop. Correct when nothing is left behind
unreported and a drill that passed restored what was recorded.

**Jira delivery and intake** (`core/jira_service.py`,
`core/jira_orchestration_service.py`, `core/task_intake_service.py`). State:
webhook deliveries, the issue's contract, clarifications, orchestration state,
operations, comments. Operations: receive, ingest, answer, start, synchronize,
finalize. Hard: Jira repeats deliveries and answers get lost after their effect.
Correct when a delivery takes effect once, what is missing is asked for, and the
issue shows what happened.

**Snapshots and handoff** (`core/snapshot_service.py`,
`core/snapshot_handoff_service.py`,
`core/run_service.py` `_append_event`). State: the event
chain of a run, snapshots anchored in it, a handoff with its quorum, Redis, the
leases of subtask scopes with fencing tokens. Operations: append, create,
validate, replay; propose, approve, accept; claim, release, validate. Hard: a
snapshot is read in several queries; two evaluators accept; two claims overlap.
Correct when state never runs ahead of its anchor, acceptance is independent and
a lost scope is fenced off.

**Traceability** (`core/traceability_service.py`, `core/bdd_traceability.py`).
State: the requirements of a task in order, derived and external links, the
records they are derived from. Operations: refresh, submit a link, report
coverage. Hard: a refresh rewrites positions under a unique constraint and
rebuilds links in a session that does not flush. Correct when a refresh commits,
keeps external links and the report agrees with the records.

### Not modelled

Agents and adapters (calls to language models, shells, containers), benchmarks,
analytics and metrics, application context and code intelligence, the context
engine and memory retrieval, the routing model and the router's scores, the
dashboard, migrations and release scripts: I/O, text, statistics or
presentation whose results are inputs of the models. `PROJECT.json` has the
reason for each.

## 2. Modules

| Module | Models | Processes |
| --- | --- | --- |
| `WorkflowQueue` | queue, worker, submit and cancel handlers | `Workers`, `Clients` |
| `LeasedWork` | what a queue promises about one job: the abstract specification | |
| `QueueRefinement` | the mapping from `WorkflowQueue` to `LeasedWork` | |
| `RunLifecycle` | one run with the step of LocalWorkflow and those of agents | `Flows`, `Agents`, a user |
| `TaskOrchestration` | one task, its lease, its reports and delivery | `Orchestrators`, the intake |
| `AgentApproval` | one agent step with its approvals | `Agents`, an approver, the clock |
| `ExecutionPlane` | one run, the step of its jobs, the jobs, executors | `Executors`, control plane |
| `ExecutorIdentity` | invitations, registrations, the files of hosts | a daemon and an operator per host, the administrator |
| `CredentialLease` | grants, configurations, the job's lease | `Handlers`, executors, the clock |
| `CognitiveHistory` | one project's history and the commit queue | `Workers`, `Clients` |
| `TenantAccess` | organizations, credentials, tasks, all routes | request `Slots`, administrators |
| `AuditDelivery` | one organization's chain, one sink | `Drains`, an operator, the receiver |
| `DataGovernance` | policies, holds and one request of an organization | `Handlers`, administrators, an approver |
| `EvidenceChain` | packs, records and attestations of one run | `Builders`, `Ingesters`, `Attesters` |
| `BackupDrill` | backups, dumps, drills and scratch databases | `BackupWorkers` |
| `JiraDelivery` | one issue, its deliveries and operations | `Hooks`, `Syncs`, a person |
| `SnapshotHandoff` | the event chain, snapshots, one handoff, scopes | `Peers` |
| `Traceability` | requirements, links and records of one task | `Sessions` |
| `WorkflowQueueProofs` | proofs about `WorkflowQueue`, and the refinement | |
| `RunLifecycleProofs`, `AuditDeliveryProofs`, `DataGovernanceProofs` | proofs about the module before `Proofs` | |
| `ExecutionPlaneProofs` | proofs about `ExecutionPlane` and `ExecutorIdentity` | |
| `ServicesProofs` | proofs about `AgentApproval`, `SnapshotHandoff` and `Traceability` | |
| `PlatformProofs` | proofs about `CredentialLease`, `CognitiveHistory`, `EvidenceChain`, `BackupDrill` and `TenantAccess` | |
| `DeliveryProofs` | proofs about `TaskOrchestration` and `JiraDelivery` | |
| `MC*` | instances for TLC; those of several modules are in section 3 | |

The state variables are the columns that control reads; their comments name
them. An action is a commit with everything it writes. Where the code reads in
one statement and writes in a later one without a lock, the read and the commit
are two actions and what was read is kept in the state of the process
(`worker[w].seen`, `client[c].state`, `drain[d].row`, `request[e]`,
`handler[h].read`, `call[h].read`, `orch[o].version`, `sessions[s].seen`).
SQLAlchemy's update of only those columns whose value differs from the value
that was read is part of the commits of `WorkflowQueue` (`ClearLease`,
`Requeued`), `DataGovernance` (`Merged`), `CredentialLease` (`Written`),
`ExecutorIdentity` (`Heartbeaten`) and `SnapshotHandoff` (`Claimed`): two stale
commits merge column by column, and that merge is what `RunningIsRecoverable`,
`GrantsOnlyEnd` and `RevocationSettles` are about.

How the components meet: a worker of `WorkflowQueue` calls `execute`, whose
steps are the flow of `RunLifecycle`, and sees of the run only whether it can
fail; the flow calls `run_task`, which is `TaskOrchestration`, and takes the
verdict as an input; `RemoteWorkflowBackend` replaces the flow by the jobs of
`ExecutionPlane`, which executors lease with the identity of `ExecutorIdentity`
and for which they get the grants of `CredentialLease`; the result of a job, like
that of an agent, passes the gate of `AgentApproval`; `JiraDelivery` starts runs
and reports on them; `SnapshotHandoff`, `EvidenceChain`, `Traceability` and
`CognitiveHistory` keep what runs leave behind; each handler passes
`TenantAccess` and records events in the chain of `AuditDelivery`;
`DataGovernance` works on the records of all of them. The component modules share
no variable: each takes what its neighbours do as an input that may happen at
any time (in `CredentialLease` the job's lease is granted, extended and lost as
`ExecutionPlane` allows; in `TaskOrchestration` the intake answers).

`LeasedWork` says what a job is to everyone else: it is offered, taken within a
budget, held under a lease, and taken back from its holder only once the lease
has lapsed. `ImplementsLeasedWork` maps the rows, the tokens in the workers'
hands and the number of submissions to it. A step of the queue may recover
several rows, so that it is a step, or a stutter, of every job. The abstract
specification has one action that nobody wants, `Revive`: work that was withdrawn
is offered again by a commit that read it before. It is what the run
`queue_cancel_race` shows; without it the refinement fails.

Time is abstract everywhere: a lease, an approval or a delay is live until an
action of the clock ends it, so no property depends on the length of an interval.
`CredentialLease`, which computes expiries from one another, counts in units.
Tokens (uuid) are the number of the draw, which keeps them unique as uuids are.

## 3. Runs

A bound is a CONSTANT whose name ends in `Bound`; it only limits how often the
environment (a user, a crash) acts. Every other constant is a parameter of the
code.

Components that share no row are checked side by side: a run has a variable
`part`, chosen at the start, and a behaviour is one of the part it names while
the others rest in their initial state. The state space is the sum of the parts,
not their product, and fairness applies to each part alone.

| Run (module) | Parts and instances | Shows |
| --- | --- | --- |
| `services` (`MCServices`), 1.3 million states | governance: 2 handlers, 2 records (one of the project, one of none), 1 rule, 2 policies or holds, 2 inventories | `StandingHoldsProtect`, `SerialCallsAgree`. Two records are needed for a batch that ends between them, two inventories for rows that vanish under a batch. |
| | approval gate: 2 contents, 1 agent process, 3 requests, 1 plan revision, 1 retry, 1 cut-off | `ApprovalGateHolds`, `UndecidedNeverAuthorizes`. Three requests: one superseded by the plan, one lapsed, one open. |
| | snapshots (3 peers, 3 events, 2 snapshots, a replay) and handoffs (quorum 2, one subtask, 3 tokens) | `HandoffsHold`, `ValidStaysValid`, `LiveScopeKept`. Three peers: a creator and two that evaluate and compete. |
| `background` (`MCBackground`), fair | queue: 1 job, 1 worker, 1 handler, 2 attempts, 2 submissions, 2 crashes | `RunningIsRecoverable`, `AttemptCountsClaims`, `ExpiredLeaseStaysLost`, `ImplementsLeasedWork`, `JobSettles`, in the shape of `docker-compose.yml`. Jobs share only the worker. With two workers `ImplementsLeasedWork` fails: a worker that read an expired row commits after the other has claimed it; the first three are proved for any number of both, the refinement for one of each. |
| | audit: 3 events in batches of 2, 1 project, 1 drain, 2 attempts, 1 pause, 1 crash | `NothingSkipped`, `ScopeKept`, `EventsArrive`. Three events make a full batch, a part of one and overlapping ranges; any number of drains is left to the proofs. |
| `lifecycle_races` (`MCRunLifecycle`), fair | races: 2 executions, 1 agent, 3 requests by users, 1 crash; restores: 1 execution, no agent, 4 requests, 1 restore from any snapshot, 1 crash | `CancelWins`, `SnapshotsAreQuiescent`, `RecoveryBudget`, `ClosedLeftOnlyByRecovery`, `ExecutionReturns`. A restore needs more requests than a race before it matters (start, cancel, restore, recover), and is worth nothing without them; a second execution is not needed for it. |
| `plane_leases` (`MCExecutors`), 2.2 million states | jobs: 2 executors, 2 attempts, 1 recovery, 1 crash, `Overlap = "no"` | `LeaseBudget`, `ActiveJobIsSole`, `StaleTokensRejected` |
| | enrollment: 2 hosts, 1 invitation, both databases; host: 1 host with daemon and operator, 1 rotation, 1 fault | `HostsStaySound`, `RevocationSettles` |
| `delivery` (`MCDelivery`), fair | task: 2 orchestrators, 2 steps, 1 recovery, reports that pass, fail or say nothing, 1 fault | `TaskEndsDecided`, `LiveLeaseKept`, `AnswersAreRead`, `RunTaskReturns`. Two runs, one of which stalls until the other takes its lease. |
| | jira: 2 deliveries, 1 webhook handler, 2 synchronizations one after the other, a contract with and without a repository, 1 crash | `IssueFollowsTask` |
| | plane: 1 executor, 2 attempts, 2 requeues, `Overlap = "yes"` | `LeasesEnd`, even when a request writes the row it checked earlier |
| `platform` (`MCPlatform`), 0.9 million states | access: 2 organizations, 2 projects, a user, a credential, 1 task, one request under way and 2 changes of rights (a credential minted and revoked, a task attributed twice) | `AccessHolds` |
| | credentials: 2 executors, 2 handlers, 2 grants, 2 leases of the job | `GrantsAreBound`, `GrantsOnlyEnd` |
| | history: 2 workers and a client over one commit, 3 events, both databases; long history: 4 events, one crash, one worker at a time | `HistoryIsComplete`, `CommitsIngestedOnce`. Four events index, report and snapshot a commit. |
| | packs (2 builds), records (2 ingesters, 2 mandatory types), attestations (3) with 1 damaged file or key | `EvidenceVerifies` |
| | backup: 2 processes, 1 record, 2 dumps, 1 crash, with and without encryption | `BackupsAreClean` |
| | trace: 2 sessions, 2 requirement texts, a record of each kind, 3 links to submit (one with the relation "source", which covers nothing), 2 changes, flushing or not | `TraceIsTrue`, `ExternalLinksKept` |
| `queue_cancel_race`, `approval_stale`, `lifecycle_cancel_reopened`, `plane_dead_letter`, `governance_receipts`, `traceability_refresh` | smallest instances | the six counterexamples of section 4 |

A property named for a whole component is the conjunction of named parts, which
its module states one by one (the modules checked side by side include their type
invariant in it):

| Property | Parts |
| --- | --- |
| `SerialCallsAgree` | `LedgerAgrees`, `OneActivePolicy` |
| `ApprovalGateHolds` | `AwaitingIsBound`, `OneOpenRequest`, `RecoveryIsBudgeted` |
| `HandoffsHold` | `SnapshotsLagBehind`, `AcceptedIndependently`, `PublishedIsCommitted`, `SolitaryClaimsFence` |
| `ActiveJobIsSole` | `OneActiveJob`, `RunningJobRunsStep` |
| `HostsStaySound` | `InviteUsedOnce`, `HalfRotatedIsDrained`, `StaysInBoundary` |
| `TaskEndsDecided` | `DoneIsDelivered`, `PublishedIsComplete`, `LoopEndsDecided`, `LiveLeaseIsUsed` |
| `IssueFollowsTask` | `WebhookAppliedOnce`, `MissingIsAsked`, `OneStatusComment`, `CompletedIsVisible`, `CompletedAfterRun`, `RunNeedsContract` |
| `AccessHolds` | `ViewersOnlyObserve`, `RevokedStaysOut`, `ScopeHolds`, `AttributionIsFinal`, `LegacyClosed` |
| `GrantsAreBound` | `GrantWithinLease`, `OneTimeExchange`, `AbsoluteLimit` |
| `HistoryIsComplete` | `OneChain`, `SnapshotsAreComplete` |
| `CommitsIngestedOnce` | `IngestedOnce`, `CompletedIsIndexed` |
| `EvidenceVerifies` | `SolitaryPacksVerify`, `CompleteIsTrue`, `AttachmentIsFinal`, `SolitaryAttestationsVerify` |
| `BackupsAreClean` | `NoPlainDump`, `DrillsCleanUp`, `PassedIsRecorded` |
| `TraceIsTrue` | `FlushedRefreshCommits`, `AloneReportIsTrue`, `WorkFollowsThePlan` |

Several parts hold only while no two calls overlap, or only on PostgreSQL, and
say so in their premise (`overlap`, `raced`, `doubled`, `alone`, `overlapped`,
`disturbed`, `database`, `dialect`); the history variable records what the premise needs.
Without the premise TLC refutes them: section 4 lists what it finds.

Symmetry is used where the processes are interchangeable and only safety is
checked. `CHECK_DEADLOCK FALSE` stands where a system may stop because it is
finished: a run that completed, a step that was decided, a request that is
settled, an issue that is done. In `background` deadlock is checked: a worker and
a drain can always go on.

`Overlap` in `ExecutionPlane` says whether a request's check of a job and its
write may be separated by another request. The service reads the row without a
lock, so they may; `"no"` is a deployment that serves the requests of a job one
at a time. `StaleTokensRejected` and `OneActiveJob` need it: with `"yes"` TLC
finds two executors that both finish one job.

## 4. Disagreements

Each is a run that TLC must refute; `PROJECT.json` quotes the lines.

- `queue_cancel_race`: recovery and `fail` write rows that they read earlier. A
  cancel committed in between is overwritten with QUEUED and the cancelled job
  is executed.
- `approval_stale`: `submit` tests the status of an approval, never its expiry;
  and it accepts, at the next submission, the approval that it had itself marked
  SUPERSEDED. The acceptance criteria exclude both.
- `lifecycle_cancel_reopened`: `schedule_recovery` assigns the run's status
  without the test that `transition` makes, so that a recovery decision reopens
  a cancelled run. Such a run still never completes (`CancelWins`), unless a
  second execution, a restore or a recovery through the API comes in while an
  execution is under way.
- `plane_dead_letter`: only `recover_orphaned` tells the step what became of its
  job. A job dead-lettered elsewhere (a revocation, the expiry that
  `acquire_lease` finds) leaves its step RUNNING for good.
- `governance_receipts`: a request that a hold blocked in part may be
  inventoried again, which deletes all its items. The receipts of the records
  that were erased go with them, and those records are PENDING once more.
- `traceability_refresh`: `_link` looks for a link by a query, but deployed
  sessions do not flush before queries. Two steps of a plan, or two events, that
  ask for the same link make the refresh insert it twice and fail. The tests'
  sessions flush (`FlushedRefreshCommits`).

Observations that no document contradicts, met while modelling and covered by the
premises of the properties:

- Audit and governance. An export that holds a character outside ASCII never
  verifies (`record` hashes JSON with escapes, `verify` without). A batch of a
  project's sink whose range holds another project's event is never delivered, so
  that `EventsArrive` is about sinks of an organization. A deletion for an
  organization looks only at the organization's own holds (`Stops`). Overlapping
  inventories and batches leave PENDING items behind the cursor; overlapping
  activations leave two ACTIVE versions; the last batch leaves its request
  PROCESSING until one more call.
- Runs and tasks. A cancelled run may complete: a restore in the middle of an
  execution (`snapshot_service.py` does not look for one) brings back a FAILED
  step, the run is cancelled after the execution's last look at it, POST
  `/recover` reopens it for that step, and the execution completes it. Two
  executions reach the same. After a failure between REVIEWING and COMPLETED the step is
  COMPLETED and cannot be started again. The pull request is published before the
  task's status is compared. A run that lost its lease may take another run's
  "done" back to "testing" on its way out (`orchestrator.py`, near line 707); from
  step 3 on `SWITCH_MODEL` is overridden; `_latest` of the verifier counts reports
  of earlier steps.
- Executors. A request let in before a revocation may undo it. On SQLite two hosts
  enroll with one token. `rotate` promises atomicity, but a lost answer leaves the
  host with its old key or token, drained and locked out; a running daemon keeps
  the old token and stops as if revoked; SIGTERM leaves the drain file; `resume`
  makes none of the checks its docstring names; an executor found OFFLINE by a
  job's heartbeat is answered 401.
- Credentials. A grant exchanged by two overlapping calls yields its material
  twice; one issued while its job ends stays live until it expires.
- History. A crash between the two commits of `ingest_commit` completes the job
  without a snapshot on retry; overlapping ingestions index a commit twice.
- Evidence. Two first builds of a run share its directory; records ingested during
  a build are attached to a pack whose manifest lacks them; `_copy_recorded_file`
  finds its run by the name of the directory; overlapping attestations fork the
  chain; overlapping ingestions may leave a stale INCOMPLETE.
- Backups. A crash leaves a backup RUNNING for good; two records with one
  `storage_uri` overwrite each other; the file may change between checksum and
  decryption.
- Jira. A delivery that FAILED or crashed is a duplicate for good; operation keys
  make the return to an earlier state skip its comment and transition; ingesting
  again after an answer leaves an answered clarification for a missing field; a
  second finalize records PR_FAILED though the draft exists; two overlapping
  synchronizations may create two comments.
- Handoff. Overlapping claims of a scope may let the fencing token fall back; a
  late creator publishes PENDING over ACCEPTED in Redis; a snapshot may anchor
  older state at a newer event.
- Traceability. Removing a criterion deletes its external links, and restoring it
  does not bring them back; overlapping refreshes leave gaps in positions or a
  requirement without derived links, and a report read across a commit may count
  more than 100 % and be refused; any evidence pack covers every requirement;
  a link from outside with the relation "source" is accepted and covers nothing; in
  deployed sessions artifact links never fall back on plan steps.
- Access. `require_role`, which analytics uses, looks at no project scope; in
  development mode rows without an organization are open to everyone.

## 5. Fairness

Safety properties are checked without fairness. The liveness runs assume, and
nothing more:

- `WorkflowQueue`: a worker and a handler go on with what they started
  (a crashed worker is restarted: `restart: unless-stopped` in
  `docker-compose.yml`); clocks reach an expiry and an `available_at`.
- `RunLifecycle`: an execution makes its next commit; the orchestrator and the
  verifier return, which their own timeouts enforce. No user is assumed to act.
- `TaskOrchestration`: a run takes its next step, or dies; an agent's call
  returns, fails or is cut off by its timeout. Nothing is assumed of the intake
  or of the other run.
- `ExecutionPlane`: the server finishes a request; a daemon that holds a job goes
  on or its lease runs out; orphan recovery runs (the CronJob of
  `deploy/kubernetes/enterprise-resilience.yaml`, every two minutes). Executors
  are not assumed to ask for work.
- `AuditDelivery`: drains are scheduled; operators enable a paused sink and retry
  dead letters, as the runbook of `docs/enterprise-governance.md` tells them to;
  a receiver that is tried again and again accepts at last (strong fairness of
  the send that is answered, the only strong fairness in the project).

## 6. Proofs

TLC shows the properties on the instances above. The theorems hold for every
value of the constants that satisfies the ASSUME of the module: any number of
runs, workers, handlers, executions, agents, executors, drains, projects,
records and events, any limits. The bounds occur in the guards only, and are
arbitrary natural numbers in the proofs. Every safety property that a run expects
to pass, 35 of the 40, is a theorem; the other five are liveness properties.

The pattern is the same throughout: a lemma per helper for the shape of what it
returns, a lemma per action or group of actions, an invariance theorem that
combines them, and the listed theorems, which follow from it by PTL. A property
is seldom inductive, because it speaks of rows and says nothing of what a process
has read and is about to write. What is added is nearly always of one kind: what
each process relies on at each of its places (`Heeds`, `Follows`, `PeerKnows`,
`ActorFits`, `CallFresh`, `Knows`, `Current`, `Commanded`).

### Workflow queue, `WorkflowQueueProofs`

`TypeCorrect`, `Recoverable`, `AttemptsCounted`, `LostLeases` (`IInv`): a busy
process has a run, and no token is larger than the number of claims. Without the
latter a new claim could draw a token that is still in use. `NextRowStep` reduces
every action to what it may write to a row.

`QueueRefines`: one worker and one API process implement `LeasedWork`, for every
run and any number of runs. `SoleInv` says that what the worker read of a row is
still so but for a cancel (`WorkerKept`), and that a row the handler is about to
submit was touched by nobody since (`ClientKept`). Each action is mapped to an abstract step or a stutter of
each job; the cancel that is overwritten maps to `Revive`. The hypotheses are the
deployment of `docker-compose.yml`; with two workers TLC refutes the statement.

### Run lifecycle, `RunLifecycleProofs`

`LifecycleTyped`, `Quiescent`, `Budgeted`, `ClosedRuns` (`Inv`, which adds
`BudgetUsed`): every restore explains MaxRecovery of the recoveries scheduled and
the counter of the run the others. The budget alone is not inductive: what it
bounds is not what the code compares, and a restore lowers that counter.

`CancelStands`: while nobody broke into an execution there is only one, and a run
that was cancelled behind its last look stays CANCELLED until it ends
(`Undisturbed`). The premise came out of the proof: with "one execution" in its
place the induction fails at `Restore`, and TLC with one more request confirms it
(section 4).

### Execution plane and executors, `ExecutionPlaneProofs`

`PlaneTyped`, `LeasesBudgeted`, for both values of `Overlap` (`Inv`): a job that
does not exist has no leases, and the leases issued are those of earlier resets
plus the attempt counter.

`OneJobWorks`, `StaleTokensLose`, for `Overlap = "no"` (`SoleInv`): a job is
created when no other is at work, since the step of the job before it has failed
and no request is about to close that step (`SoleWork`); the first job exists once
the step does and none is ahead of the recoveries (`KeysInOrder`). A leased job has
the token of its latest lease (`TokensKnown`). An operator's requeue ends the first
claim, which the property says.

`HostsRemainSound`, `RevocationsSettle` (`IdInv`): for each host, how far
registration, key file and token file can be apart at each place of a command
(`HostSound`), and that an invitation's row is locked by one command (`InvitesFit`,
PostgreSQL).

### Audit, `AuditDeliveryProofs`

`DeliveryTyped`, `CursorSafe`, `ScopedDelivery`, `AsciiExports` (`Inv`): each event
is linked to the one before; all events up to a batch's first one are received,
since the batch was cut beyond the cursor; what a drain holds follows the state:
the cursor it read is reached, the batch whose answer it got was received. The last
two are why writing another drain's cursor back, or advancing out of order, skips
nothing.

### Data governance, `DataGovernanceProofs`

`GovernanceTyped`, `HoldsProtect` (`Inv`): a batch whose item rows still exist was
decided under every hold that stands now (`Heeds`), no call belongs to a later
inventory, nobody works on a request that does not exist. A batch may be committed
long after it was decided, but then either no hold has come to stand since, or an
inventory has removed its rows and the commit fails.

`SerialLedger` (`SerialInv`): as long as no calls overlapped there is one call under
way (`Alone`), what it read is still so (`Current`), and a request has items once
it was inventoried (`Reached`). The counters are sums over sets of items; the
lemmas on disjoint sets carry them through a batch.

### Approvals, handoffs, traceability, `ServicesProofs`

`GateHolds` (`GateInv`), for any agent processes: no request is of a plan that does
not exist yet, a submission knows the request it will wait for, and a waiting step
is bound to a row. `GateDecides`, for one agent process: what it is about to
complete was decided when it passed the gate (`CompletesDecided`), and only
submissions bind the step to another request, of which there is one at a time.

`HandoffsAreSound`, `ValidationLasts`, `LiveScopeIsKept` (`HandInv`): snapshots are
anchored at events that exist, each call knows what it read (`PeerKnows`), and a
scope whose claims did not overlap was lost under lower tokens only.

`TraceStaysTrue`, `OutsideLinksStay` (`TraceInv`): positions and the identities of
links are unique; a refresh that nothing overlapped knows the candidates and the
rows at each stage (`Knows`), and once it has written, the links are those of the
current records (`LinksCurrent`). `LinksCurrent` failed at first for links from
outside with the relation "source"; the model now submits one, and the property
counts only links that the report counts.

### Platform services, `PlatformProofs`

`GrantsBound`, `GrantsEnd` (`CredInv`): what a call will commit keeps the absolute
limit whatever was written since (`CallSound`); unless a call was overtaken, one
call is under way and what it read is so (`CallsFresh`).

`HistoryStaysComplete`, `IngestionIsOnce` (`CogInv`): on PostgreSQL the writer has
the last time drawn and the newest event, and a snapshot not committed yet is of a
part of the history that no writer adds to (`Serialised`); an indexed commit has
its snapshot or a process that is about to take it (`CommitFits`).

`EvidenceStaysVerifiable` (`EviInv`, of three independent parts for packs, records
and attestations): a builder, ingester or attester that nothing overtook knows its
predecessor and what it measured.

`BackupsStayClean` (`BakInv`): while executions of a backup did not overlap there
is one at a time and none after it was sealed (`BackupSealed`), and a drill reads
what the backup recorded (`DrillSound`).

`AccessIsBound` (`AccInv`): a task with an organization has a project that exists,
and the tenants of a target, once it has any, never change (`TenantsKept`). So
what authorized a project's credential still ties its target to that project
(`ScopeBound`) when the request is served, after any number of attributions in
between. `RoutesFit` shows for all tables of routes that a handler which writes
asks for a permission that viewers lack.

### Delivery, `DeliveryProofs`

`TaskIsDecided`, `LiveLeaseIsKept`, `AnswersStayRead` (`OrchInv`): a run that goes on
has a step left, and a delivery is recorded before the task is marked (`RunFits`).

`IssueIsFollowed` (`IntakeInv` and `SyncInv`, which share no variable): a delivery is
worked on by one process (`HooksFit`), and a synchronization reports only what has
happened (`SyncFits`).

### Assumptions

Each is an ASSUME of the component's module, which TLC evaluates in the runs.
Most say only that bounds and limits are natural numbers, that attempts, batch
sizes and steps are at least 1, that a constant takes the values its comment lists,
and that model values such as `None` are not members of the sets they stand beside:
`BoundsAssumption`, `LifecycleAssumption`, `GovernanceAssumption`,
`DeliveryAssumption`, `PlaneAssumption`, `GateAssumption`, `CogAssumption`,
`NothingAssumption` and `IdAssumption`. The others add:

- `CredAssumption`: requested times to live do not exceed the absolute one; `issue` and
  `renew` cut them off at a configured maximum of 900 seconds at most, the absolute one.
- `BackupAssumption`, `HandAssumption`, `JiraAssumption`: there is a backup, a
  subtask, a delivery to speak of.
- `JiraAssumption`: one synchronization at a time. The code has no lock for it; two
  at once can create two comments (section 4).
- `EvidenceAssumption`, `AccAssumption`, `TraceAssumption`: the sets of builders,
  projects and texts are finite; users and credentials are different actors.
- `TraceAssumption`: contracts are sequences of texts, registrations have
  identifiers enough, identifiers tell events apart, and the types of link that an
  event's details name are not those that other records derive.
- `OrchAssumption`: a phase hint is a phase, and a report gives one of the verifier's verdicts for a check.

Hypotheses in a theorem's own statement: one worker and one client (`QueueRefines`),
one agent process (`GateDecides`), `Overlap = "no"` (`OneJobWorks`, `StaleTokensLose`).
All other premises are parts of the properties and are recorded by history
variables (section 3).

### Only model-checked

`JobSettles`, `EventsArrive`, `ExecutionReturns`, `RunTaskReturns` and `LeasesEnd` are
liveness under fairness, which the prover does not handle. The six runs of section 4
are counterexamples. That the models can reach the interesting cases is shown by
the mutants and by the coverage of actions in the runs.

## 7. Abstractions and limits

- Atomicity is a commit. Reads of one transaction that precede its commit are
  split off where the code can be overtaken between them with an effect; in
  `RunLifecycle` and `AgentApproval` a method and its commit are one action, and
  what the identity map of a session may have kept from earlier is not modelled.
- Unique constraints of the database make the second of two concurrent inserts
  fail; that insert is then no step, or a call that failed.
- Contents (results, plans, events, payloads, keys) are model values; a digest is
  the content it stands for. Only the encoding that differs between `record` and
  `verify` is kept, as the bytes it produces.
- `RunLifecycle` abstracts `updated_at` to whether it still is what a flow read,
  `TaskOrchestration` to a counter of changes.
- `AuditDelivery` has one sink; `limit` of a drain (20 batches) is larger than
  the number of batches of the instance.
- `DataGovernance` has one request and one category of rules. The filters of a
  hold are the record it names, or all; the three ways to delete are ERASED;
  drafts that lack a category, which `activate` refuses, are left out; `approve`
  is one action. The columns that `ResidencyService.resolve` and `backfill` fill
  are not modelled.
- `TenantAccess` abstracts a route to its need (which check, permission, target
  and effect); the table of needs is one row per group of routes. Tokens are
  their actors.
- `BackupDrill` has dumps as numbers: a checksum is the dump it was taken of.
- `JiraDelivery` weighs the fields of a contract as the intake does; texts of
  questions and comments are left out.
- `Traceability` has texts as model values with a relation `Near` for texts that
  contain one another.
- Crashes lose what is not committed. The database itself does not fail.
- Not modelled: the evaluation of policies by OPA, cryptography, the content of
  evidence, sandboxes, language models, Jira, GitHub, Redis, Vault and STS as
  servers (they are inputs), the dashboard, migrations.

## 8. Plan

1. `LeasedWork` for the jobs of `ExecutionPlane` (`Overlap = "no"`) and for the commit
   queue on PostgreSQL, as for the workflow queue: first the mapping and a run, then
   the theorem from `SoleInv` and `CogInv`.
2. A compromise for the premises: what remains true of `SerialCallsAgree` and
   `GrantsAreBound` when calls do overlap (a bound on how far the counters or the
   uses can be off), so that the overlapping case is proved about too.
3. The three hazards without a property of a run: two submissions for one step, a
   control plane that dies between the job and its step, and the encoding of an
   export (proved as `AsciiExports`, not repeated in a run).
4. `resilience_service.py` (objectives and alerts), the filters of a governance
   request, and the residency columns.
