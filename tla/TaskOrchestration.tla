--------------------------- MODULE TaskOrchestration ---------------------------
(***************************************************************************)
(* The orchestrator loop over one task (Orchestrator.run_task): the task   *)
(* lease with its heartbeats, the choice of an agent, the verification     *)
(* matrix, recovery, the draft pull request and the compare-and-set writes *)
(* of the task's status.  Another orchestrator, the intake and crashes     *)
(* interleave with its steps.  updated_at is a counter of the changes of   *)
(* the task; an agent is opaque and its result one of Reports.             *)
(***************************************************************************)
EXTENDS Naturals, FiniteSets

CONSTANTS Orchestrators, Nobody,
          MaxSteps,       \* steps of one run_task, after the assessment
          MaxRecoveries,  \* SACM_MAX_RECOVERY_ATTEMPTS
          Reports,        \* what a result reports, by check
          Hints,          \* next_state_hint of a result that has not FAILED
          FaultBound,     \* leases that run out, processes that die, answers
          StartBound

VARIABLES task, lease, orch, reports, pulls, delivered, starts, faults, deaths

orchVars == <<task, lease, orch, reports, pulls, delivered, starts, faults, deaths>>

Checks == {"requirements", "build", "regression", "contract", "security", "integrity"}
Verdicts == {"MISSING", "FAIL", "PASS", "UNPROVEN"}    \* UNPROVEN: PASS without evidence
Phases == {"pending", "planning", "coding", "testing", "reviewing", "debugging",
           "blocked", "done", "awaiting_clarification"}
Places == {"idle", "start", "plan", "route", "agent", "judge", "evidence",
           "recover", "deliver", "record", "mark", "finish", "repair", "release"}

\* A result may report some checks and hint at any phase.
ASSUME OrchAssumption ==
  /\ MaxSteps \in Nat \ {0} /\ MaxRecoveries \in Nat
  /\ FaultBound \in Nat /\ StartBound \in Nat
  /\ Hints \subseteq Phases
  /\ \A r \in Reports : \A c \in Checks \cap DOMAIN r : r[c] \in Verdicts

\* strict: whether the task has requirements.
TaskState == [status : Phases, version : Nat, strict : {"yes", "no"}]
Lease == [owner : Orchestrators, live : {"yes", "no"}]

\* The local variables of run_task: what it read of the task, its step and
\* recovery counts, the outcome signatures seen and the status it
\* last wrote.
Local == [pc : Places, status : Phases, version : Nat, step : 0 .. MaxSteps,
          attempts : Nat,
          hint : Hints \cup {"failed"}, verified : {"yes", "no"},
          seen : SUBSET [Checks -> Verdicts], left : Phases \cup {"unset"}]

Fresh == [pc |-> "idle", status |-> "pending", version |-> 0, step |-> 0, attempts |-> 0,
          hint |-> "failed",
          verified |-> "no", seen |-> {}, left |-> "unset"]

OrchTypeOK ==
   /\ task \in TaskState
   /\ lease = Nobody \/ lease \in Lease
   /\ orch \in [Orchestrators -> Local]
   /\ reports \in [Checks -> Verdicts]
   /\ pulls \in 0 .. 1
   /\ delivered \subseteq {"skipped", "failed", "delivered"}

OrchInit ==
   /\ task \in [status : {"pending"}, version : {0}, strict : {"yes", "no"}]
   /\ lease = Nobody
   /\ orch = [o \in Orchestrators |-> Fresh]
   /\ reports = [c \in Checks |-> "MISSING"]
   /\ pulls = 0 /\ delivered = {}
   /\ starts = 0 /\ faults = 0 /\ deaths = 0

-----------------------------------------------------------------------------
(* The lease                                                               *)

At(o, pc) == orch[o].pc = pc
Goto(o, pc) == orch' = [orch EXCEPT ![o].pc = pc]

\* The row is inserted, or taken over once it has expired.
Available == IF lease = Nobody THEN TRUE ELSE lease.live = "no"

Acquire(o) ==
   /\ At(o, "idle") /\ Available /\ starts < StartBound
   /\ starts' = starts + 1
   /\ lease' = [owner |-> o, live |-> "yes"]
   /\ orch' = [orch EXCEPT ![o] = [Fresh EXCEPT !.pc = "start"]]
   /\ UNCHANGED <<task, reports, pulls, delivered, faults, deaths>>

Beats(o) == IF lease = Nobody THEN FALSE ELSE lease.owner = o /\ lease.live = "yes"
BeatsAlways(o) == TRUE
Heartbeat(o) == Beats(o)

\* The step is tried again.
RaiseIgnored(o) == UNCHANGED orch
\* An error leaves the loop for the finally clause.
Raise(o) == Goto(o, "release")

\* A process stalls, or its heartbeat thread fails: the lease runs out.
Stall ==
   /\ lease # Nobody /\ faults < FaultBound
   /\ lease.live = "yes"
   /\ lease' = [lease EXCEPT !.live = "no"]
   /\ faults' = faults + 1
   /\ UNCHANGED <<task, orch, reports, pulls, delivered, starts, deaths>>

\* Any row of the task is deleted.
ReleasedAll(o) == Nobody
Released(o) == IF lease = Nobody THEN Nobody ELSE IF lease.owner = o THEN Nobody ELSE lease
Release(o) ==
   /\ At(o, "release")
   /\ lease' = Released(o)
   /\ orch' = [orch EXCEPT ![o] = Fresh]
   /\ UNCHANGED <<task, reports, pulls, delivered, starts, faults, deaths>>

Crash(o) ==
   /\ ~ At(o, "idle") /\ faults < FaultBound
   /\ deaths' = deaths + 1 /\ faults' = faults + 1
   /\ orch' = [orch EXCEPT ![o] = Fresh]
   /\ UNCHANGED <<task, lease, reports, pulls, delivered, starts>>

-----------------------------------------------------------------------------
(* The task row                                                            *)

Unchanged(o) == task.status = orch[o].status /\ task.version = orch[o].version
UnchangedStatus(o) == task.status = orch[o].status
IsCurrent(o) == Unchanged(o)

Write(status) == task' = [task EXCEPT !.status = status, !.version = @ + 1]

\* update_status with what was read: the write, or the error of a stale result.
UpdateStatus(o, status, then) ==
   IF IsCurrent(o)
   THEN /\ Write(status)
        /\ orch' = [orch EXCEPT ![o] = [then EXCEPT !.left = status]]
   ELSE UNCHANGED task /\ Raise(o)

\* A clarification is answered, or the task ingested again.
IntakeAnswer ==
   /\ faults < FaultBound
   /\ faults' = faults + 1
   /\ \E s \in {"pending", "awaiting_clarification"} : Write(s)
   /\ UNCHANGED <<lease, orch, reports, pulls, delivered, starts, deaths>>

Read(o) == [orch[o] EXCEPT !.status = task.status, !.version = task.version]

-----------------------------------------------------------------------------
(* The loop                                                                *)

Start(o) ==
   /\ At(o, "start")
   /\ IF Heartbeat(o)
      THEN orch' = [orch EXCEPT ![o] = [Read(o) EXCEPT !.pc =
                      IF task.status = "pending" THEN "plan" ELSE "route"]]
      ELSE Raise(o)
   /\ UNCHANGED <<task, lease, reports, pulls, delivered, starts, faults, deaths>>

InitializePlanning(o) ==
   /\ At(o, "plan")
   /\ UpdateStatus(o, "planning", [orch[o] EXCEPT !.pc = "route"])
   /\ UNCHANGED <<lease, reports, pulls, delivered, starts, faults, deaths>>

\* The task is read, an agent chosen and given its compiled context.
Route(o) ==
   /\ At(o, "route")
   /\ IF Heartbeat(o)
      THEN orch' = [orch EXCEPT ![o] = [Read(o) EXCEPT !.pc = "agent", !.step = @ + 1]]
      ELSE Raise(o)
   /\ UNCHANGED <<task, lease, reports, pulls, delivered, starts, faults, deaths>>

Reported(r) == [c \in Checks |-> IF c \in DOMAIN r THEN r[c] ELSE reports[c]]

\* The agent returns; its result is kept only if the lease and the task are
\* still the ones it was started under.
AgentReturns(o) ==
   /\ At(o, "agent")
   /\ IF Heartbeat(o) /\ IsCurrent(o)
      THEN \E r \in Reports, h \in Hints \cup {"failed"} :
             /\ reports' = Reported(r)
             /\ orch' = [orch EXCEPT ![o].pc = "judge", ![o].hint = h]
      ELSE Raise(o) /\ UNCHANGED reports
   /\ UNCHANGED <<task, lease, pulls, delivered, starts, faults, deaths>>

\* Verifier.evaluate: every check passes with valid evidence.
Blocking == {c \in Checks : reports[c] # "PASS"}
TechnicalComplete == Blocking = {}
Complete == TechnicalComplete

\* Without requirements a passing build or test and the hint decide.
LegacyComplete(o) ==
   /\ \E c \in {"build", "regression"} : reports[c] \in {"PASS", "UNPROVEN"}
   /\ orch[o].hint \notin {"blocked", "debugging"}
   /\ orch[o].hint = "done"

Judge(o) ==
   /\ At(o, "judge")
   /\ IF Heartbeat(o)
      THEN Goto(o, CASE task.strict = "yes" /\ Complete -> "evidence"
                     [] task.strict = "no" /\ LegacyComplete(o) -> "deliver"
                     [] OTHER -> "recover")
      ELSE Raise(o)
   /\ UNCHANGED <<task, lease, reports, pulls, delivered, starts, faults, deaths>>

\* A provisional and a final evidence pack are built and verified.
FinalizeEvidence(o) ==
   /\ At(o, "evidence")
   /\ IF Heartbeat(o)
      THEN \E provisional, final \in {"VALID", "INVALID"} :
             Goto(o, IF provisional = "VALID" /\ final = "VALID" THEN "deliver"
                     ELSE "recover")
      ELSE Raise(o)
   /\ UNCHANGED <<task, lease, reports, pulls, delivered, starts, faults, deaths>>

\* The branch is pushed and a draft opened unless one is open; the answer of
\* GitHub may be lost.  The guard looks at the lease only afterwards.
Publish(o) ==
   /\ At(o, "deliver")
   /\ \E result \in {"skipped", "failed", "delivered"} :
        /\ pulls' \in (IF result = "delivered" THEN {1}
                       ELSE IF result = "failed" THEN {pulls, 1} ELSE {pulls})
        /\ IF Heartbeat(o)
           THEN /\ delivered' = delivered \cup {result}
                /\ orch' = [orch EXCEPT ![o].pc = "mark", ![o].verified = "yes"]
           ELSE Raise(o) /\ UNCHANGED delivered
   /\ UNCHANGED <<task, lease, reports, starts, faults, deaths>>

MarkDone(o) ==
   /\ At(o, "mark")
   /\ UpdateStatus(o, "done", [orch[o] EXCEPT !.pc = "finish"])
   /\ UNCHANGED <<lease, reports, pulls, delivered, starts, faults, deaths>>

-----------------------------------------------------------------------------
(* Recovery of an incomplete step                                          *)

VerificationFailure ==
   CASE reports["build"] = "FAIL" -> "COMPILATION"
     [] reports["regression"] \in {"FAIL", "MISSING"} /\ task.strict = "yes" -> "TEST_REGRESSION"
     [] reports["contract"] = "FAIL" -> "API_INCOMPATIBILITY"
     [] reports["integrity"] = "FAIL" -> "TEST_REGRESSION"
     [] reports["security"] = "FAIL" -> "WRONG_ASSUMPTION"
     [] OTHER -> "none"

\* The first of the tests of diagnose that applies.
Diagnosed(o) ==
   CASE VerificationFailure # "none" -> VerificationFailure
     [] orch[o].hint = "blocked" -> "MISSING_CONTEXT"
     [] orch[o].hint = "failed" -> "ENVIRONMENT"
     [] reports \in orch[o].seen -> "MODEL_STUCK"
     [] orch[o].step >= MaxSteps -> "MODEL_STUCK"
     [] OTHER -> "none"
Diagnose(o) == Diagnosed(o)

ActionFor == [COMPILATION |-> "REPAIR_CODE", TEST_REGRESSION |-> "DEBUG",
              WRONG_ASSUMPTION |-> "REPLAN", MISSING_CONTEXT |-> "EXPAND_CONTEXT",
              API_INCOMPATIBILITY |-> "REPAIR_CODE", ENVIRONMENT |-> "RETRY",
              MODEL_STUCK |-> "SWITCH_MODEL"]
PhaseFor == [REPAIR_CODE |-> "coding", DEBUG |-> "debugging", REPLAN |-> "planning",
             EXPAND_CONTEXT |-> "planning", SWITCH_MODEL |-> "planning", RETRY |-> "coding"]

\* A hint of "done" that nothing verified becomes "testing".
Unverified(hint) == IF hint = "done" THEN "testing" ELSE hint
Trusted(hint) == hint
UnverifiedNextState(hint) == Unverified(hint)

Exhausted(o) == orch[o].step >= MaxSteps
Following(o) == IF Exhausted(o) THEN "finish" ELSE "route"

Recover(o) ==
   /\ At(o, "recover")
   /\ LET me == orch[o]
          kept == [me EXCEPT !.seen = @ \cup {reports}, !.hint = "failed"]
          failure == Diagnose(o)
          lost == Exhausted(o) \/ me.attempts + 1 > MaxRecoveries
      IN IF failure = "none"
         THEN UpdateStatus(o, UnverifiedNextState(me.hint),
                           [kept EXCEPT !.pc = Following(o)])
         ELSE IF lost
         THEN UpdateStatus(o, "blocked", [kept EXCEPT !.pc = "finish",
                                                      !.attempts = @ + 1])
         ELSE UpdateStatus(o, PhaseFor[ActionFor[failure]],
                 [kept EXCEPT !.pc = "route", !.attempts = @ + 1])
   /\ UNCHANGED <<lease, reports, pulls, delivered, starts, faults, deaths>>

-----------------------------------------------------------------------------
(* The end of run_task                                                     *)

\* The task is read again; "done" that this run did not verify is taken back.
Conclude(o) ==
   /\ At(o, "finish")
   /\ orch' = [orch EXCEPT ![o] = [Read(o) EXCEPT !.pc =
                 IF task.status = "done" /\ orch[o].verified = "no"
                 THEN "repair" ELSE "release"]]
   /\ UNCHANGED <<task, lease, reports, pulls, delivered, starts, faults, deaths>>

TakeBack(o) ==
   /\ At(o, "repair")
   /\ UpdateStatus(o, "testing", [orch[o] EXCEPT !.pc = "release"])
   /\ UNCHANGED <<lease, reports, pulls, delivered, starts, faults, deaths>>

OrchStep(o) ==
   \/ Start(o) \/ InitializePlanning(o) \/ Route(o) \/ AgentReturns(o) \/ Judge(o)
   \/ FinalizeEvidence(o) \/ Publish(o) \/ MarkDone(o) \/ Recover(o)
   \/ Conclude(o) \/ TakeBack(o) \/ Release(o)

OrchNext ==
   \/ \E o \in Orchestrators : Acquire(o) \/ OrchStep(o) \/ Crash(o)
   \/ Stall \/ IntakeAnswer

\* Processes keep running; nobody has to start one.
OrchFairness == \A o \in Orchestrators : WF_orchVars(OrchStep(o))
OrchSpec == OrchInit /\ [][OrchNext]_orchVars
OrchFairSpec == OrchSpec /\ OrchFairness

-----------------------------------------------------------------------------
(* Properties.                                                             *)

(* A task is "done" only after the outcome of a delivery was recorded for  *)
(* it: no hint of an agent completes a task that nothing verified.         *)
DoneIsDelivered == task.status = "done" => delivered # {}

(* What is published was complete: while a run that verified the task is   *)
(* between verification and completion and holds its lease, every check    *)
(* still passes.                                                           *)
PublishedIsComplete ==
   \A o \in Orchestrators :
      task.strict = "yes" /\ orch[o].pc \in {"evidence", "deliver", "mark"} /\ Beats(o) =>
         Blocking = {}

(* The loop never ends with the task in a working phase: when it is left   *)
(* without an error, the run has marked the task done or blocked it.       *)
LoopEndsDecided ==
   \A o \in Orchestrators : At(o, "finish") => orch[o].left \in {"done", "blocked"}

(* A lease that is still live belongs to a run that is under way, unless a *)
(* process died: every way out of run_task releases it.                    *)
LiveLeaseIsUsed ==
   lease # Nobody => (~ At(lease.owner, "idle") \/ deaths > 0)

(* The lease of a run that beats is taken away by nobody else: a live row  *)
(* changes hands only after it ran out.                                    *)
LiveLeaseKept ==
   [][\A o \in Orchestrators :
        (Beats(o) /\ lease' # lease) =>
           (lease' = Nobody /\ At(o, "release")) \/ lease' = [lease EXCEPT !.live = "no"]]_orchVars

(* An answer the intake recorded is not overwritten by a run that did not  *)
(* read it: a run only changes the version of the task that it read.       *)
AnswersAreRead ==
   [][\A o \in Orchestrators :
        (task' # task /\ orch'[o] # orch[o]) => task.version = orch[o].version]_orchVars

(* Every run ends: its steps are bounded and an error releases the lease.  *)
RunTaskReturns == \A o \in Orchestrators : At(o, "start") ~> At(o, "idle")

(* Runs that contend for a task, stall and die leave it decided: done only *)
(* by a delivery, published only when complete, never in a working phase,  *)
(* its lease not held by a run that is over.                               *)
TaskEndsDecided ==
   OrchTypeOK /\ DoneIsDelivered /\ PublishedIsComplete /\ LoopEndsDecided /\ LiveLeaseIsUsed
=============================================================================
