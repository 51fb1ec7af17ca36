----------------------------- MODULE JiraDelivery -----------------------------
(***************************************************************************)
(* One Jira issue: its webhooks, the task contract and its clarifications  *)
(* (TaskIntakeService), orchestration of the ready task, and the           *)
(* synchronisation of a status comment and of the issue's status           *)
(* (JiraService.sync_status), whose calls to Jira may fail, or take effect *)
(* and lose their answer.  A contract is the set of fields it fills; the   *)
(* rendered comment is the state it reports.                               *)
(***************************************************************************)
EXTENDS Naturals

CONSTANTS Ids,        \* webhook delivery ids
          Hooks,      \* processes that handle webhooks
          Syncs,      \* processes that orchestrate or finalize
          Contracts,  \* the fields an issue may arrive with
          Mapped,     \* the delivery states with a Jira status of their own
          NoIssue,
          SyncBound, JiraCrashBound

VARIABLES contract, asked, hookRows, hooks, ingests,
          state, jiraRun, ops, syncs, calls, issue, falls

jiraVars == <<contract, asked, hookRows, hooks, ingests,
              state, jiraRun, ops, syncs, calls, issue, falls>>
intakeVars == <<contract, asked, hookRows, hooks, ingests>>
deliveryVars == <<state, jiraRun, ops, syncs, calls, issue>>

Fields == {"description", "acceptance_criteria", "repositories", "requested_by"}
Targets == {"AWAITING_CLARIFICATION", "WAITING_FOR_EXECUTOR", "EXECUTION_QUEUED", "COMPLETED"}

\* A synchronisation is one process at a time: two that overlap would each look
\* for the comment's marker before either has written it.
ASSUME JiraAssumption ==
   /\ Ids # {} /\ Contracts \subseteq SUBSET Fields /\ Mapped \subseteq Targets
   /\ \A s, t \in Syncs : s = t

Clarification == {"none", "open", "answered"}
Delivery == [status : {"ABSENT", "RECEIVED", "PROCESSED", "FAILED"}]
DeliveryState == [status : Targets \cup {"INGESTED"}, jira : Targets \cup {"unknown"},
                  comment : {"none", "kept"}, run : {"none", "run"},
                  pr : {"PR_NOT_CONFIGURED", "PR_FAILED", "DRAFT_PR_CREATED"}]
Operation == {"absent", "PENDING", "FAILED", "COMPLETED"}

\* The issue in Jira and the draft on GitHub.
Issue == [status : Targets \cup {"new"}, comments : 0 .. 2,
          text : Targets \cup {"none"}, pulls : 0 .. 1]

JiraTypeOK ==
   /\ contract = NoIssue \/ contract \subseteq Fields
   /\ asked \in [Fields -> Clarification]
   /\ hookRows \in [Ids -> Delivery] /\ ingests \in [Ids -> 0 .. 2]
   /\ state \in DeliveryState
   /\ jiraRun \in {"none", "PLANNING", "IMPLEMENTING", "COMPLETED"}
   /\ ops \in [{"comment", "transition"} -> [Targets -> Operation]]
   /\ issue \in Issue

Waiting == [pc |-> "idle", id |-> CHOOSE i \in Ids : TRUE, fields |-> {}, answer |-> "none"]
Resting == [pc |-> "idle", target |-> "COMPLETED", said |-> "no", moved |-> "no",
            pr |-> "PR_NOT_CONFIGURED"]

JiraInit ==
   /\ contract = NoIssue
   /\ asked = [f \in Fields |-> "none"]
   /\ hookRows = [i \in Ids |-> [status |-> "ABSENT"]]
   /\ hooks = [h \in Hooks |-> Waiting] /\ ingests = [i \in Ids |-> 0]
   /\ state = [status |-> "INGESTED", jira |-> "unknown", comment |-> "none",
               run |-> "none", pr |-> "PR_NOT_CONFIGURED"]
   /\ jiraRun = "none"
   /\ ops = [k \in {"comment", "transition"} |-> [t \in Targets |-> "absent"]]
   /\ syncs = [s \in Syncs |-> Resting] /\ calls = 0
   /\ issue = [status |-> "new", comments |-> 0, text |-> "none", pulls |-> 0]
   /\ falls = 0

-----------------------------------------------------------------------------
(* Readiness                                                               *)

\* In hundredths, as the weights of READINESS_WEIGHTS.
Weight == [description |-> 25, acceptance_criteria |-> 35, repositories |-> 25,
           requested_by |-> 15]
Score(fields) ==
   LET counted(f) == IF f \in fields THEN Weight[f] ELSE 0
   IN counted("description") + counted("acceptance_criteria")
      + counted("repositories") + counted("requested_by")
ReadyAt(fields) == Score(fields) >= 80
Ready(fields) == ReadyAt(fields)

Missing(fields) == Fields \ fields

\* Clarifications are opened for missing fields that never had one.
AskedFor(fields) ==
   [f \in Fields |-> IF f \in Missing(fields) /\ asked[f] = "none" THEN "open" ELSE asked[f]]
Ask(fields) == AskedFor(fields)

Ingest(fields) ==
   /\ contract' = fields
   /\ asked' = Ask(fields)

\* An answer fills its field, whatever the clarification's status.
Answer(f) ==
   /\ contract # NoIssue
   /\ asked[f] # "none"
   /\ contract' = contract \cup {f}
   /\ asked' = [asked EXCEPT ![f] = "answered"]

\* The HTTP endpoint for answers.
AnswerClarification(f) ==
   /\ Answer(f)
   /\ UNCHANGED <<hookRows, hooks, ingests, deliveryVars, falls>>

-----------------------------------------------------------------------------
(* Webhooks                                                                *)

\* A known delivery id is a duplicate, whatever became of it.
Known(i) == hookRows[i].status # "ABSENT"
\* A failed delivery may be tried again.
KnownUnlessFailed(i) == hookRows[i].status \notin {"ABSENT", "FAILED"}
Duplicate(i) == Known(i)

Receive(h, i) ==
   /\ hooks[h].pc = "idle" /\ ~ Duplicate(i)
   /\ \E fields \in Contracts, a \in Fields \cup {"none"} :
        hooks' = [hooks EXCEPT ![h] = [pc |-> "process", id |-> i, fields |-> fields,
                                       answer |-> a]]
   /\ hookRows' = [hookRows EXCEPT ![i].status = "RECEIVED"]
   /\ UNCHANGED <<contract, asked, ingests, deliveryVars, falls>>

Settle(h, status) ==
   /\ hookRows' = [hookRows EXCEPT ![hooks[h].id].status = status]
   /\ hooks' = [hooks EXCEPT ![h] = Waiting]

\* An issue is ingested (and committed) or a comment's answer applied.
Process(h) ==
   /\ hooks[h].pc = "process"
   /\ IF hooks[h].answer = "none" THEN Ingest(hooks[h].fields) ELSE Answer(hooks[h].answer)
   /\ ingests' = [ingests EXCEPT ![hooks[h].id] = @ + 1]
   /\ hooks' = [hooks EXCEPT ![h].pc = "settle"]
   /\ UNCHANGED <<hookRows, deliveryVars, falls>>

\* A malformed issue, a comment without a task or a marker that is not its own.
Reject(h) ==
   /\ hooks[h].pc = "process"
   /\ Settle(h, "FAILED")
   /\ UNCHANGED <<contract, asked, ingests, deliveryVars, falls>>

Settled(h) ==
   /\ hooks[h].pc = "settle"
   /\ \E s \in {"PROCESSED", "FAILED"} : Settle(h, s)
   /\ UNCHANGED <<contract, asked, ingests, deliveryVars, falls>>

HookDies(h) ==
   /\ hooks[h].pc # "idle" /\ falls < JiraCrashBound
   /\ falls' = falls + 1
   /\ hooks' = [hooks EXCEPT ![h] = Waiting]
   /\ UNCHANGED <<contract, asked, hookRows, ingests, deliveryVars>>

-----------------------------------------------------------------------------
(* Orchestration                                                           *)

Begin(s, target, pr) ==
   syncs' = [syncs EXCEPT ![s] = [Resting EXCEPT !.pc = "comment", !.target = target,
                                                 !.pr = pr]]

\* An unready task asks; a ready one gets its context, plan, run and jobs, if
\* an executor is there to run them.
Orchestrate(s) ==
   /\ syncs[s].pc = "idle" /\ calls < SyncBound /\ contract # NoIssue
   /\ calls' = calls + 1
   /\ IF ~ Ready(contract)
      THEN Begin(s, "AWAITING_CLARIFICATION", state.pr) /\ UNCHANGED <<jiraRun, state>>
      ELSE /\ state' = [state EXCEPT !.run = "run"]
           /\ \/ /\ jiraRun' = "IMPLEMENTING" /\ jiraRun # "COMPLETED"
                 /\ Begin(s, "EXECUTION_QUEUED", state.pr)
              \/ /\ jiraRun' = IF jiraRun = "none" THEN "PLANNING" ELSE jiraRun
                 /\ Begin(s, "WAITING_FOR_EXECUTOR", state.pr)
   /\ UNCHANGED <<intakeVars, ops, issue, falls>>

RunCompletes ==
   /\ jiraRun = "IMPLEMENTING"
   /\ jiraRun' = "COMPLETED"
   /\ UNCHANGED <<intakeVars, state, ops, syncs, calls, issue, falls>>

\* A delivery is finalized only when its run has completed.
Finishable == jiraRun = "COMPLETED"
Completed == Finishable

Finalize(s) ==
   /\ syncs[s].pc = "idle" /\ calls < SyncBound /\ state.run = "run"
   /\ calls' = calls + 1
   /\ IF Completed
      THEN /\ \/ /\ issue.pulls = 0 /\ issue' = [issue EXCEPT !.pulls = 1]
                 /\ Begin(s, "COMPLETED", "DRAFT_PR_CREATED")
              \/ UNCHANGED issue /\ Begin(s, "COMPLETED", "PR_FAILED")
              \/ UNCHANGED issue /\ Begin(s, "COMPLETED", "PR_NOT_CONFIGURED")
           /\ UNCHANGED state
      ELSE /\ state' = [state EXCEPT !.status = "WAITING_FOR_EXECUTOR"]
           /\ UNCHANGED <<syncs, issue>>
   /\ UNCHANGED <<intakeVars, jiraRun, ops, falls>>

-----------------------------------------------------------------------------
(* sync_status                                                             *)

\* What a commit of the session makes durable before the end of the call.
Flushed(s) ==
   LET me == syncs[s]
   IN [state EXCEPT !.status = IF me.target = "COMPLETED" THEN "COMPLETED" ELSE @,
                    !.pr = me.pr,
                    !.comment = IF me.said = "yes" THEN "kept" ELSE @]

Op(kind, s) == ops[kind][syncs[s].target]
Opened(kind, s) == [ops EXCEPT ![kind][syncs[s].target] = "PENDING"]
Closed(kind, s) == [ops EXCEPT ![kind][syncs[s].target] = "COMPLETED"]

\* The outcomes of a call that writes: done, not done, done without an answer.
Outcomes == {"ok", "failed", "lost"}

\* The operation row is committed before Jira is called.
OpenComment(s) ==
   /\ syncs[s].pc = "comment"
   /\ IF Op("comment", s) = "COMPLETED"
      THEN /\ syncs' = [syncs EXCEPT ![s].pc = "transition"]
           /\ UNCHANGED <<ops, state>>
      ELSE /\ syncs' = [syncs EXCEPT ![s].pc = "say"]
           /\ IF Op("comment", s) = "absent"
              THEN ops' = Opened("comment", s) /\ state' = Flushed(s)
              ELSE UNCHANGED <<ops, state>>
   /\ UNCHANGED <<intakeVars, jiraRun, calls, issue, falls>>

\* The comment with the marker is updated; without one it is created.
Marked == issue.comments > 0
HasComment == Marked

Said(s, effect) ==
   IF effect = "failed" THEN issue
   ELSE [issue EXCEPT !.text = syncs[s].target,
                      !.comments = IF HasComment \/ @ = 2 THEN @ ELSE @ + 1]

\* A creation whose answer is lost is found again by its marker.
SayStatus(s) ==
   /\ syncs[s].pc = "say"
   /\ \E effect \in Outcomes :
        /\ issue' = Said(s, effect)
        /\ IF effect = "ok" \/ (effect = "lost" /\ ~ HasComment)
           THEN /\ syncs' = [syncs EXCEPT ![s].pc = "transition", ![s].said = "yes"]
                /\ UNCHANGED <<ops, state>>
           ELSE /\ syncs' = [syncs EXCEPT ![s] = Resting]
                /\ ops' = [ops EXCEPT !["comment"][syncs[s].target] = "FAILED"]
                /\ state' = Flushed(s)
   /\ UNCHANGED <<intakeVars, jiraRun, calls, falls>>

\* The comment's completion is committed with the row of the transition.
Recorded(s) == IF syncs[s].said = "yes" THEN Closed("comment", s) ELSE ops

OpenTransition(s) ==
   /\ syncs[s].pc = "transition"
   /\ IF syncs[s].target \notin Mapped \/ Op("transition", s) = "COMPLETED"
      THEN /\ syncs' = [syncs EXCEPT ![s].pc = "close",
                          ![s].moved = IF syncs[s].target \in Mapped THEN "yes" ELSE "no"]
           /\ UNCHANGED <<ops, state>>
      ELSE /\ syncs' = [syncs EXCEPT ![s].pc = "move"]
           /\ IF Op("transition", s) = "absent"
              THEN /\ ops' = [Recorded(s) EXCEPT !["transition"][syncs[s].target] = "PENDING"]
                   /\ state' = Flushed(s)
              ELSE UNCHANGED <<ops, state>>
   /\ UNCHANGED <<intakeVars, jiraRun, calls, issue, falls>>

\* A transition whose answer is lost is confirmed by reading the issue again.
MoveIssue(s) ==
   /\ syncs[s].pc = "move"
   /\ \E effect \in {"ok", "failed"} :
        IF effect = "ok" \/ issue.status = syncs[s].target
        THEN /\ issue' = [issue EXCEPT !.status = syncs[s].target]
             /\ syncs' = [syncs EXCEPT ![s].pc = "close", ![s].moved = "yes"]
        ELSE UNCHANGED issue /\ syncs' = [syncs EXCEPT ![s] = Resting]
   /\ UNCHANGED <<intakeVars, state, jiraRun, ops, calls, falls>>

Synchronized(s) ==
   /\ syncs[s].pc = "close"
   /\ LET me == syncs[s]
          kept == Recorded(s)
      IN /\ ops' = IF me.moved = "yes" THEN [kept EXCEPT !["transition"][me.target] = "COMPLETED"]
                   ELSE kept
         /\ state' = [Flushed(s) EXCEPT !.status = me.target,
                         !.jira = IF me.moved = "yes" THEN me.target ELSE @]
   /\ syncs' = [syncs EXCEPT ![s] = Resting]
   /\ UNCHANGED <<intakeVars, jiraRun, calls, issue, falls>>

SyncDies(s) ==
   /\ syncs[s].pc # "idle" /\ falls < JiraCrashBound
   /\ falls' = falls + 1
   /\ syncs' = [syncs EXCEPT ![s] = Resting]
   /\ UNCHANGED <<intakeVars, state, jiraRun, ops, calls, issue>>

JiraNext ==
   \/ \E f \in Fields : AnswerClarification(f)
   \/ \E h \in Hooks : \/ \E i \in Ids : Receive(h, i)
                       \/ Process(h) \/ Reject(h) \/ Settled(h) \/ HookDies(h)
   \/ \E s \in Syncs : \/ Orchestrate(s) \/ Finalize(s) \/ OpenComment(s) \/ SayStatus(s)
                       \/ OpenTransition(s) \/ MoveIssue(s) \/ Synchronized(s) \/ SyncDies(s)
   \/ RunCompletes

JiraSpec == JiraInit /\ [][JiraNext]_jiraVars

-----------------------------------------------------------------------------
(* Properties.                                                             *)

(* A delivery id takes effect at most once, although the sender repeats it *)
(* and the process may fail after the effect.                              *)
WebhookAppliedOnce == \A i \in Ids : ingests[i] <= 1

(* Work starts only on a task whose contract says what to change, when it  *)
(* is accepted and where: no single weighty field can be missing from a    *)
(* task that a run was created for at the time it was created.             *)
RunNeedsContract ==
   [][jiraRun = "none" /\ jiraRun' # "none" =>
        {"description", "acceptance_criteria", "repositories"} \subseteq contract]_jiraVars

(* Every field that keeps the task from being ready has a clarification    *)
(* that someone can answer, after any sequence of updates and answers.     *)
MissingIsAsked ==
   contract # NoIssue => \A f \in Missing(contract) : asked[f] # "none"

(* The issue carries one status comment, whatever answers are lost and     *)
(* however often a synchronisation is repeated one at a time.              *)
OneStatusComment == issue.comments <= 1

(* A delivery counts as completed only if its run has completed.           *)
CompletedAfterRun == state.status = "COMPLETED" => jiraRun = "COMPLETED"

(* An operation recorded as completed has taken effect in Jira: a comment  *)
(* exists once a comment operation has completed.                          *)
CompletedIsVisible ==
   (\E t \in Targets : ops["comment"][t] = "COMPLETED") => issue.comments > 0

(* The issue follows the task through repeated webhooks, lost answers and  *)
(* crashes: one ingest per delivery, a question for each missing field, a  *)
(* run only with a contract, one comment, and completion only after a run. *)
IssueFollowsTask ==
   /\ [](/\ JiraTypeOK /\ WebhookAppliedOnce /\ MissingIsAsked /\ OneStatusComment
         /\ CompletedIsVisible /\ CompletedAfterRun)
   /\ RunNeedsContract
=============================================================================
