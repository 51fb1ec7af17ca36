---------------------------- MODULE AgentApproval ----------------------------
(***************************************************************************)
(* The approval gate in front of an external agent's result: submit of     *)
(* sacm/core/external_agent_service.py with the durable approvals of       *)
(* sacm/core/policy_service.py, for one agent step of one run.             *)
(*                                                                         *)
(* submit commits several times (the result, the approval request, the     *)
(* step), so a handler is a process that other handlers, an approver, a    *)
(* plan revision, the clock or a crash may interrupt between commits.  A   *)
(* result is abstracted to its kind and its content (summary and actions); *)
(* the digest an approval binds is the content with the plan revision.     *)
(* Submissions that only replay a recorded result or raise change nothing  *)
(* and are not actions.                                                    *)
(***************************************************************************)
EXTENDS Naturals, Sequences

CONSTANTS Contents, NoContent, Agents,
          Expiring,        \* SACM_APPROVAL_TTL_SECONDS > 0 (the default is 0)
          MaxRecovery,     \* SACM_MAX_RECOVERY_ATTEMPTS
          PlanBound,       \* bound: plan revisions
          RequestBound,    \* bound: approval requests
          RetryBound,      \* bound: step retries by a user
          CrashBound       \* bound: handlers cut off between two commits

ASSUME GateAssumption ==
  /\ Expiring \in BOOLEAN /\ MaxRecovery \in Nat
  /\ PlanBound \in Nat /\ RequestBound \in Nat /\ RetryBound \in Nat
  /\ CrashBound \in Nat

VARIABLES
  plan,       \* the latest revision of the task's execution plan, 0 for none
  approvals,  \* the rows of approvals, oldest first
  step,       \* status, the approval its output names (0: none), recovery
  agent,      \* agent[h]: the commit that a running submit makes next
  attempts,   \* recovery_attempt_count of the run
  retries, cutoffs

gateVars == <<plan, approvals, step, agent, attempts, retries, cutoffs>>

ApprovalStatuses == {"PENDING", "APPROVED", "REJECTED", "EXPIRED", "SUPERSEDED"}
Approvals == [content: Contents, plan: Nat, status: ApprovalStatuses,
              lapsed: BOOLEAN]
StepStatuses == {"PENDING", "AWAITING_APPROVAL", "COMPLETED", "FAILED"}
Results == {"NEEDS_APPROVAL", "COMPLETED", "FAILED"}
NoSubmit == [pc |-> "idle", content |-> NoContent, approval |-> 0]

GateInit ==
  /\ plan = 0 /\ approvals = <<>>
  /\ step = [status |-> "PENDING", approval |-> 0, recovered |-> FALSE]
  /\ agent = [h \in Agents |-> NoSubmit]
  /\ attempts = 0 /\ retries = 0 /\ cutoffs = 0

-----------------------------------------------------------------------------
(* The approvals of PolicyService                                          *)

\* The requests with the digest of this content under the current plan.
Matching(content) ==
  {i \in DOMAIN approvals : approvals[i].content = content
                            /\ approvals[i].plan = plan}

\* The newest request that matches and has not lapsed, 0 if there is none.
Standing(content) ==
  LET live == {i \in Matching(content) : ~approvals[i].lapsed}
  IN  IF live = {} THEN 0 ELSE CHOOSE i \in live : \A j \in live : j <= i

\* request_approval: the matching request whatever was decided of it, or a new
\* one; requests passed over because they lapsed are marked EXPIRED.
Requested(content) ==
  IF Standing(content) # 0 THEN approvals
  ELSE Append([i \in DOMAIN approvals |->
                 IF /\ i \in Matching(content)
                    /\ approvals[i].status \in {"PENDING", "APPROVED"}
                 THEN [approvals[i] EXCEPT !.status = "EXPIRED"]
                 ELSE approvals[i]],
              [content |-> content, plan |-> plan, status |-> "PENDING",
               lapsed |-> FALSE])

\* decide: a lapsed request becomes EXPIRED whatever was decided of it before.
Decide(i) ==
  /\ \/ /\ approvals[i].lapsed
        /\ approvals' = [approvals EXCEPT ![i].status = "EXPIRED"]
     \/ /\ ~approvals[i].lapsed
        /\ approvals[i].status = "PENDING"
        /\ \E verdict \in {"APPROVED", "REJECTED"} :
             approvals' = [approvals EXCEPT ![i].status = verdict]
  /\ UNCHANGED <<plan, step, agent, attempts, retries, cutoffs>>

\* The time to live of a request runs out, the oldest request's first.
Lapse(i) ==
  /\ Expiring /\ ~approvals[i].lapsed
  /\ \A j \in 1 .. i - 1 : approvals[j].lapsed
  /\ approvals' = [approvals EXCEPT ![i].lapsed = TRUE]
  /\ UNCHANGED <<plan, step, agent, attempts, retries, cutoffs>>

-----------------------------------------------------------------------------
(* submit, up to its first commit                                          *)

Bound == approvals[step.approval]
Awaiting == step.status = "AWAITING_APPROVAL"

\* The bound request was approved for a plan that is no longer the latest.
Outdated == Bound.status = "APPROVED" /\ Bound.plan # plan

PassesGateUndecided ==
  \/ step.status = "PENDING"
  \/ Awaiting /\ Bound.status # "REJECTED" /\ ~Outdated

\* What submit lets through: a PENDING step, or one whose bound request is not
\* pending, not rejected and not approved for an older plan.
PassesGate ==
  \/ step.status = "PENDING"
  \/ Awaiting /\ Bound.status \notin {"PENDING", "REJECTED"} /\ ~Outdated

\* The output of fail_step replaces the approval or the result.
Failed == [status |-> "FAILED", approval |-> 0, recovered |-> FALSE]

SubmitRejected(h) ==
  /\ agent[h].pc = "idle" /\ Awaiting /\ Bound.status = "REJECTED"
  /\ step' = Failed
  /\ UNCHANGED <<plan, approvals, agent, attempts, retries, cutoffs>>

SubmitOutdated(h) ==
  /\ agent[h].pc = "idle" /\ Awaiting /\ Outdated
  /\ approvals' = [approvals EXCEPT ![step.approval].status = "SUPERSEDED"]
  /\ UNCHANGED <<plan, step, agent, attempts, retries, cutoffs>>

\* Any other result is persisted first.  A step that waits after a recovery
\* takes a failure for a replay of the one already handled.
SubmitResult(h, kind, content) ==
  /\ agent[h].pc = "idle" /\ PassesGate
  /\ kind = "FAILED" => ~(step.status = "PENDING" /\ step.recovered)
  /\ kind = "NEEDS_APPROVAL" => Len(approvals) < RequestBound
  /\ agent' = [agent EXCEPT ![h] =
                 [pc |-> kind, content |-> content, approval |-> 0]]
  /\ UNCHANGED <<plan, approvals, step, attempts, retries, cutoffs>>

-----------------------------------------------------------------------------
(* submit, after the result is persisted                                   *)

\* A NEEDS_APPROVAL result: the request is committed before the step.
CommitRequest(h) ==
  /\ agent[h].pc = "NEEDS_APPROVAL"
  /\ LET content == agent[h].content
         found   == Standing(content)
     IN  /\ approvals' = Requested(content)
         /\ agent' = [agent EXCEPT
              ![h].pc = "await",
              ![h].approval = IF found # 0 THEN found ELSE Len(approvals) + 1]
  /\ UNCHANGED <<plan, step, attempts, retries, cutoffs>>

AwaitedUnbound(approval) ==
  [status |-> "AWAITING_APPROVAL", approval |-> 0, recovered |-> FALSE]

Awaited(approval) ==
  [status |-> "AWAITING_APPROVAL", approval |-> approval, recovered |-> FALSE]

\* await_step_approval: also binds a waiting step to its new request.
CommitAwait(h) ==
  /\ agent[h].pc = "await"
  /\ step' = IF step.status \in {"PENDING", "AWAITING_APPROVAL"}
             THEN Awaited(agent[h].approval) ELSE step
  /\ agent' = [agent EXCEPT ![h] = NoSubmit]
  /\ UNCHANGED <<plan, approvals, attempts, retries, cutoffs>>

\* complete_step tests the status again, not the approval.
CommitComplete(h) ==
  /\ agent[h].pc = "COMPLETED"
  /\ step' = IF step.status \in {"PENDING", "AWAITING_APPROVAL"}
             THEN [step EXCEPT !.status = "COMPLETED"] ELSE step
  /\ agent' = [agent EXCEPT ![h] = NoSubmit]
  /\ UNCHANGED <<plan, approvals, attempts, retries, cutoffs>>

\* fail_step tests nothing.
CommitFail(h) ==
  /\ agent[h].pc = "FAILED"
  /\ step' = Failed
  /\ agent' = [agent EXCEPT ![h].pc = "recover"]
  /\ UNCHANGED <<plan, approvals, attempts, retries, cutoffs>>

\* decide of RecoveryService: a retry needs an attempt left.
Recovers == step.status = "FAILED" /\ attempts < MaxRecovery

\* handle: schedules a retry or escalates; both count as an attempt.
CommitRecover(h) ==
  /\ agent[h].pc = "recover"
  /\ IF step.status # "FAILED" THEN UNCHANGED <<step, attempts>>
     ELSE /\ attempts' = attempts + 1
          /\ \/ UNCHANGED step
             \/ /\ Recovers
                /\ step' = [status |-> "PENDING", approval |-> 0, recovered |-> TRUE]
  /\ agent' = [agent EXCEPT ![h] = NoSubmit]
  /\ UNCHANGED <<plan, approvals, retries, cutoffs>>

-----------------------------------------------------------------------------
(* The environment                                                         *)

Revise ==
  /\ plan < PlanBound
  /\ plan' = plan + 1
  /\ UNCHANGED <<approvals, step, agent, attempts, retries, cutoffs>>

RetryStep ==
  /\ step.status = "FAILED" /\ retries < RetryBound
  /\ retries' = retries + 1
  /\ step' = [step EXCEPT !.status = "PENDING"]
  /\ UNCHANGED <<plan, approvals, agent, attempts, cutoffs>>

Crash(h) ==
  /\ agent[h].pc # "idle" /\ cutoffs < CrashBound
  /\ cutoffs' = cutoffs + 1
  /\ agent' = [agent EXCEPT ![h] = NoSubmit]
  /\ UNCHANGED <<plan, approvals, step, attempts, retries>>

GateNext ==
  \/ \E i \in DOMAIN approvals : Decide(i) \/ Lapse(i)
  \/ \E h \in Agents :
       \/ SubmitRejected(h) \/ SubmitOutdated(h)
       \/ \E kind \in Results, content \in Contents : SubmitResult(h, kind, content)
       \/ CommitRequest(h) \/ CommitAwait(h) \/ CommitComplete(h)
       \/ CommitFail(h) \/ CommitRecover(h) \/ Crash(h)
  \/ Revise \/ RetryStep

GateSpec == GateInit /\ [][GateNext]_gateVars

-----------------------------------------------------------------------------
(* Properties                                                              *)

\* The plan, the requests, the step and the handlers keep their shape.
GateTypeOK ==
  /\ plan \in Nat /\ approvals \in Seq(Approvals)
  /\ step \in [status: StepStatuses, approval: Nat, recovered: BOOLEAN]
  /\ agent \in [Agents -> [pc: {"idle", "await", "recover"} \cup Results,
                           content: Contents \cup {NoContent},
                           approval: Nat]]
  /\ attempts \in Nat /\ retries \in Nat /\ cutoffs \in Nat

\* A waiting step is always bound to a recorded request, made for the plan it was
\* submitted under: "The step is missing its approval record" is unreachable.
AwaitingIsBound ==
  Awaiting => /\ step.approval \in DOMAIN approvals
              /\ Bound.plan <= plan

\* A step that waits for a decision completes only after one that is not a
\* rejection, when one agent process submits at a time.
UndecidedNeverAuthorizes ==
  [][Awaiting /\ step'.status = "COMPLETED"
     => Bound.status \notin {"PENDING", "REJECTED"}]_gateVars

\* A submit that is cut off after the request was committed and is made again
\* finds that request: nobody is asked twice about the same content and plan.
OneOpenRequest ==
  \A i, j \in DOMAIN approvals :
    /\ approvals[i].content = approvals[j].content
    /\ approvals[i].plan = approvals[j].plan
    /\ approvals[i].status = "PENDING" /\ approvals[j].status = "PENDING"
    /\ ~approvals[i].lapsed /\ ~approvals[j].lapsed
    => i = j

\* A step that recovery put back to PENDING used one of MaxRecovery attempts,
\* however many users retried and handlers were cut off in between.
RecoveryIsBudgeted == step.recovered => attempts <= MaxRecovery

\* A waiting step is bound to a recorded request of the plan it was submitted
\* under, a submission that is made again finds its open request, and a step that
\* recovery put back used one of the recovery attempts; for any number of agents.
ApprovalGateHolds ==
  GateTypeOK /\ AwaitingIsBound /\ OneOpenRequest /\ RecoveryIsBudgeted

\* docs/enterprise/acceptance-criteria.md: a changed plan "cannot authorize
\* delivery" and "an expired decision cannot authorize": no step completes on a
\* request that was superseded or has lapsed since it was made.
StaleNeverAuthorizes ==
  [][Awaiting /\ step'.status = "COMPLETED"
     => Bound.status # "SUPERSEDED" /\ ~Bound.lapsed]_gateVars
=============================================================================
