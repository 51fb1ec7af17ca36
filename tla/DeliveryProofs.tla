--------------------------- MODULE DeliveryProofs ---------------------------
(***************************************************************************)
(* Proofs about TaskOrchestration and JiraDelivery, for any orchestrators, *)
(* webhook processes and deliveries and any bounds.                        *)
(*                                                                         *)
(* What the loop of the orchestrator promises is inductive once a run that *)
(* goes on is known to have a step left and a delivery to be recorded      *)
(* before the task is marked (RunFits).  The promises about an issue need  *)
(* that a delivery has one process (HooksFit) and that a synchronisation   *)
(* reports only what has happened (SyncFits); its intake and its delivery  *)
(* share no variable, so that each has an invariant of its own.            *)
(***************************************************************************)
EXTENDS TaskOrchestration, JiraDelivery, TLAPS

-----------------------------------------------------------------------------
(* The loop of the orchestrator.                                           *)

\* A run that may still take a step has one left; "mark" follows a recorded delivery.
RunFits(o) ==
  /\ orch[o].pc \in {"start", "plan", "route"} => orch[o].step < MaxSteps
  /\ At(o, "mark") => delivered # {}

\* The inductive invariant of the loop.
OrchInv ==
  /\ TaskEndsDecided /\ deaths \in Nat
  /\ \A o \in Orchestrators : RunFits(o)

\* What an orchestrator starts with.
LEMMA FreshIs ==
  /\ \A pc \in Places : [Fresh EXCEPT !.pc = pc] \in Local
  /\ Fresh \in Local /\ Fresh.pc = "idle" /\ Fresh.step = 0
  BY OrchAssumption DEF Fresh, Local, Places, Phases

\* No failure is diagnosed only while the agent hints at none and steps are left.
LEMMA DiagnosisIs ==
  ASSUME NEW o \in Orchestrators
  PROVE  /\ Diagnose(o) \in {"COMPILATION", "TEST_REGRESSION", "WRONG_ASSUMPTION",
                             "MISSING_CONTEXT", "API_INCOMPATIBILITY", "ENVIRONMENT",
                             "MODEL_STUCK", "none"}
         /\ Diagnose(o) = "none" =>
              orch[o].hint \notin {"blocked", "failed"} /\ ~Exhausted(o)
<1>1. VerificationFailure \in {"COMPILATION", "TEST_REGRESSION", "API_INCOMPATIBILITY",
                               "WRONG_ASSUMPTION", "none"}
  BY DEF VerificationFailure
<1>2. QED
  BY <1>1 DEF Diagnose, Diagnosed, Exhausted

\* Every recovery leads to a phase, and none to "done".
LEMMA RecoveryPhase ==
  ASSUME NEW f \in {"COMPILATION", "TEST_REGRESSION", "WRONG_ASSUMPTION",
                    "MISSING_CONTEXT", "API_INCOMPATIBILITY", "ENVIRONMENT",
                    "MODEL_STUCK"}
  PROVE  PhaseFor[ActionFor[f]] \in Phases \ {"done"}
  BY DEF PhaseFor, ActionFor, Phases

\* What one orchestrator may change: its own place, the task, the reports while it holds
\* the live lease, and what was delivered, which only grows.
LEMMA OwnStep ==
  ASSUME OrchInv, NEW o \in Orchestrators, NEW x \in Local,
         orch' = [orch EXCEPT ![o] = x], UNCHANGED <<lease, deaths>>,
         task' \in TaskState, task'.strict = task.strict,
         reports' \in [Checks -> Verdicts], pulls' \in 0 .. 1,
         delivered' \subseteq {"skipped", "failed", "delivered"}, delivered \subseteq delivered',
         reports' = reports \/ Beats(o),
         task'.status = "done" => delivered' # {},
         x.pc # "idle",
         x.pc \in {"start", "plan", "route"} => x.step < MaxSteps,
         x.pc = "mark" => delivered' # {},
         x.pc = "finish" => x.left \in {"done", "blocked"},
         task.strict = "yes" /\ x.pc \in {"evidence", "deliver", "mark"} /\ Beats(o)
           => Blocking' = {}
  PROVE  OrchInv'
<1>1. orch \in [Orchestrators -> Local]
  BY DEF OrchInv, TaskEndsDecided, OrchTypeOK
<1>2. orch'[o] = x /\ \A q \in Orchestrators : q # o => orch'[q] = orch[q]
  BY <1>1
<1>3. OrchTypeOK' /\ deaths' \in Nat
  BY <1>1, <1>2 DEF OrchInv, TaskEndsDecided, OrchTypeOK
<1>4. DoneIsDelivered'
  BY DEF DoneIsDelivered
<1>5. PublishedIsComplete'
  <2> SUFFICES ASSUME NEW q \in Orchestrators, task'.strict = "yes",
                      orch'[q].pc \in {"evidence", "deliver", "mark"}, Beats(q)'
               PROVE  Blocking' = {}
    BY DEF PublishedIsComplete
  <2>1. Beats(q)
    BY DEF Beats
  <2>2. CASE q = o
    BY <1>2, <2>1, <2>2
  <2>3. CASE q # o
    <3>1. ~Beats(o)
      BY <2>1, <2>3 DEF Beats
    <3>2. Blocking = {}
      BY <1>2, <2>1, <2>3 DEF OrchInv, TaskEndsDecided, PublishedIsComplete
    <3>3. QED
      BY <3>1, <3>2 DEF Blocking
  <2>4. QED
    BY <2>2, <2>3
<1>6. LoopEndsDecided'
  BY <1>2 DEF LoopEndsDecided, OrchInv, TaskEndsDecided, At
<1>7. LiveLeaseIsUsed'
  <2> SUFFICES ASSUME lease' # Nobody PROVE ~(orch'[lease'.owner].pc = "idle") \/ deaths' > 0
    BY DEF LiveLeaseIsUsed, At
  <2>1. lease.owner \in Orchestrators
    BY DEF OrchInv, TaskEndsDecided, OrchTypeOK, Lease
  <2>2. ~(orch[lease.owner].pc = "idle") \/ deaths > 0
    BY DEF LiveLeaseIsUsed, OrchInv, TaskEndsDecided, At
  <2>3. QED
    BY <1>2, <2>1, <2>2
<1>8. \A q \in Orchestrators : RunFits(q)'
  BY <1>2 DEF OrchInv, RunFits, At
<1>9. QED
  BY <1>3, <1>4, <1>5, <1>6, <1>7, <1>8 DEF OrchInv, TaskEndsDecided

\* An exception leads to the release of the lease.
LEMMA RaiseStep ==
  ASSUME OrchInv, NEW o \in Orchestrators, Raise(o), ~At(o, "idle"),
         UNCHANGED <<task, lease, reports, delivered, deaths>>, pulls' \in 0 .. 1
  PROVE  OrchInv'
<1> DEFINE x == [orch[o] EXCEPT !.pc = "release"]
<1>1. /\ orch \in [Orchestrators -> Local] /\ task \in TaskState
      /\ reports \in [Checks -> Verdicts] /\ delivered \subseteq {"skipped", "failed", "delivered"}
      /\ (task.status = "done" => delivered # {})
  BY DEF OrchInv, TaskEndsDecided, OrchTypeOK, DoneIsDelivered
<1>2. x \in Local /\ x.pc = "release"
  BY <1>1 DEF Local, Places
<1>3. orch' = [orch EXCEPT ![o] = x]
  BY <1>1 DEF Raise, Goto
<1> HIDE DEF x
<1>4. QED
  BY <1>1, <1>2, <1>3, OwnStep

\* A step that only moves the orchestrator on.
LEMMA MoveStep ==
  ASSUME OrchInv, NEW o \in Orchestrators, NEW x \in Local, orch' = [orch EXCEPT ![o] = x],
         UNCHANGED <<task, lease, reports, pulls, delivered, deaths>>,
         x.pc # "idle",
         x.pc \in {"start", "plan", "route"} => x.step < MaxSteps,
         x.pc = "mark" => delivered # {},
         x.pc = "finish" => x.left \in {"done", "blocked"},
         task.strict = "yes" /\ x.pc \in {"evidence", "deliver", "mark"} /\ Beats(o)
           => Blocking = {}
  PROVE  OrchInv'
<1>1. /\ task \in TaskState /\ pulls \in 0 .. 1
      /\ reports \in [Checks -> Verdicts] /\ delivered \subseteq {"skipped", "failed", "delivered"}
      /\ (task.status = "done" => delivered # {})
  BY DEF OrchInv, TaskEndsDecided, OrchTypeOK, DoneIsDelivered
<1>2. Blocking' = Blocking
  BY DEF Blocking
<1>3. QED
  BY <1>1, <1>2, OwnStep

\* The steps of the loop that do not write the task.
LEMMA LoopSteps ==
  ASSUME OrchInv, NEW o \in Orchestrators,
         \/ Start(o) \/ Route(o) \/ AgentReturns(o) \/ Judge(o) \/ FinalizeEvidence(o)
         \/ Conclude(o)
  PROVE  OrchInv'
<1> DEFINE me == orch[o]
<1>1. /\ orch \in [Orchestrators -> Local] /\ me \in Local /\ task \in TaskState
      /\ reports \in [Checks -> Verdicts] /\ pulls \in 0 .. 1
      /\ delivered \subseteq {"skipped", "failed", "delivered"}
      /\ (task.status = "done" => delivered # {})
      /\ me.step \in 0 .. MaxSteps /\ me.step \in Nat /\ MaxSteps \in Nat
      /\ (me.pc \in {"start", "plan", "route"} => me.step < MaxSteps)
  BY OrchAssumption DEF OrchInv, TaskEndsDecided, OrchTypeOK, DoneIsDelivered, Local, RunFits
<1>2. \A pc \in Places : [Read(o) EXCEPT !.pc = pc] \in Local
  BY <1>1 DEF Read, Local, TaskState
<1>3. ASSUME NEW pc \in Places PROVE [Read(o) EXCEPT !.pc = pc].pc = pc
                                     /\ [Read(o) EXCEPT !.pc = pc].step = me.step
  BY <1>1, <1>3 DEF Read, Local
<1>4. ASSUME Raise(o), ~At(o, "idle"),
             UNCHANGED <<task, lease, reports, pulls, delivered, deaths>>
      PROVE  OrchInv'
  BY <1>1, <1>4, RaiseStep
<1>5. CASE Start(o)
  <2>1. At(o, "start") /\ ~At(o, "idle")
    BY <1>5 DEF Start, At
  <2>2. CASE Heartbeat(o)
    <3> DEFINE pc == IF task.status = "pending" THEN "plan" ELSE "route"
               x == [Read(o) EXCEPT !.pc = pc]
    <3>1. x \in Local /\ x.pc \in {"plan", "route"} /\ x.step < MaxSteps
      BY <1>1, <1>2, <1>3, <2>1 DEF Places, At
    <3>2. orch' = [orch EXCEPT ![o] = x]
      BY <1>5, <2>2 DEF Start
    <3> HIDE DEF x
    <3>3. QED
      BY <1>5, <3>1, <3>2, MoveStep DEF Start
  <2>3. CASE ~Heartbeat(o)
    BY <1>4, <1>5, <2>1, <2>3 DEF Start
  <2>4. QED
    BY <2>2, <2>3
<1>6. CASE Route(o)
  <2>1. At(o, "route") /\ ~At(o, "idle")
    BY <1>6 DEF Route, At
  <2>2. CASE Heartbeat(o)
    <3> DEFINE x == [Read(o) EXCEPT !.pc = "agent", !.step = @ + 1]
    <3>1. me.step + 1 \in 0 .. MaxSteps
      BY <1>1, <2>1 DEF At
    <3>2. Read(o) \in Local /\ Read(o).step = me.step
      BY <1>1 DEF Read, Local, TaskState
    <3>3. x \in Local /\ x.pc = "agent"
      BY <3>1, <3>2 DEF Local, Places
    <3>4. orch' = [orch EXCEPT ![o] = x]
      BY <1>6, <2>2 DEF Route
    <3> HIDE DEF x
    <3>5. QED
      BY <1>6, <3>3, <3>4, MoveStep DEF Route
  <2>3. CASE ~Heartbeat(o)
    BY <1>4, <1>6, <2>1, <2>3 DEF Route
  <2>4. QED
    BY <2>2, <2>3
<1>7. CASE AgentReturns(o)
  <2>1. At(o, "agent") /\ ~At(o, "idle")
    BY <1>7 DEF AgentReturns, At
  <2>2. CASE Heartbeat(o) /\ IsCurrent(o)
    <3>1. PICK r \in Reports, h \in Hints \cup {"failed"} :
            /\ reports' = Reported(r)
            /\ orch' = [orch EXCEPT ![o].pc = "judge", ![o].hint = h]
      BY <1>7, <2>2 DEF AgentReturns
    <3> DEFINE x == [me EXCEPT !.pc = "judge", !.hint = h]
    <3>2. x \in Local /\ x.pc = "judge"
      BY <1>1 DEF Local, Places
    <3>3. orch' = [orch EXCEPT ![o] = x]
      BY <1>1, <3>1
    <3>4. reports' \in [Checks -> Verdicts]
      BY <1>1, <3>1, OrchAssumption DEF Reported
    <3> HIDE DEF x
    <3>5. Beats(o)
      BY <2>2 DEF Heartbeat
    <3>6. QED
      BY <1>1, <1>7, <3>2, <3>3, <3>4, <3>5, OwnStep DEF AgentReturns
  <2>3. CASE ~(Heartbeat(o) /\ IsCurrent(o))
    BY <1>4, <1>7, <2>1, <2>3 DEF AgentReturns
  <2>4. QED
    BY <2>2, <2>3
<1>8. ASSUME NEW pc \in {"evidence", "deliver", "recover"}, Goto(o, pc),
             UNCHANGED <<task, lease, reports, pulls, delivered, deaths>>,
             task.strict = "yes" /\ pc \in {"evidence", "deliver"} /\ Beats(o) => Blocking = {}
      PROVE  OrchInv'
  <2> DEFINE x == [me EXCEPT !.pc = pc]
  <2>1. x \in Local /\ x.pc = pc
    BY <1>1, <1>8 DEF Local, Places
  <2>2. orch' = [orch EXCEPT ![o] = x]
    BY <1>1, <1>8 DEF Goto
  <2> HIDE DEF x
  <2>3. QED
    BY <1>8, <2>1, <2>2, MoveStep
<1>9. CASE Judge(o)
  <2>1. At(o, "judge") /\ ~At(o, "idle")
    BY <1>9 DEF Judge, At
  <2>2. CASE Heartbeat(o)
    <3> DEFINE pc == CASE task.strict = "yes" /\ Complete -> "evidence"
                       [] task.strict = "no" /\ LegacyComplete(o) -> "deliver"
                       [] OTHER -> "recover"
    <3>1. /\ pc \in {"evidence", "deliver", "recover"}
          /\ task.strict = "yes" /\ pc \in {"evidence", "deliver"} => Complete
      OBVIOUS
    <3>2. Goto(o, pc)
      BY <1>9, <2>2 DEF Judge
    <3> HIDE DEF pc
    <3>3. QED
      BY <1>8, <1>9, <3>1, <3>2 DEF Judge, Complete, TechnicalComplete
  <2>3. CASE ~Heartbeat(o)
    BY <1>4, <1>9, <2>1, <2>3 DEF Judge
  <2>4. QED
    BY <2>2, <2>3
<1>10. CASE FinalizeEvidence(o)
  <2>1. At(o, "evidence") /\ ~At(o, "idle")
    BY <1>10 DEF FinalizeEvidence, At
  <2>2. task.strict = "yes" /\ Beats(o) => Blocking = {}
    BY <2>1 DEF OrchInv, TaskEndsDecided, PublishedIsComplete, At
  <2>3. CASE Heartbeat(o)
    <3>1. Goto(o, "deliver") \/ Goto(o, "recover")
      BY <1>10, <2>3 DEF FinalizeEvidence
    <3>2. QED
      BY <1>8, <1>10, <2>2, <3>1 DEF FinalizeEvidence
  <2>4. CASE ~Heartbeat(o)
    BY <1>4, <1>10, <2>1, <2>4 DEF FinalizeEvidence
  <2>5. QED
    BY <2>3, <2>4
<1>11. CASE Conclude(o)
  <2> DEFINE pc == IF task.status = "done" /\ orch[o].verified = "no" THEN "repair"
                   ELSE "release"
             x == [Read(o) EXCEPT !.pc = pc]
  <2>1. x \in Local /\ x.pc \in {"repair", "release"}
    BY <1>2, <1>3 DEF Places
  <2>2. orch' = [orch EXCEPT ![o] = x]
    BY <1>11 DEF Conclude
  <2> HIDE DEF x
  <2>3. QED
    BY <1>11, <2>1, <2>2, MoveStep DEF Conclude
<1>12. QED
  BY <1>5, <1>6, <1>7, <1>9, <1>10, <1>11

\* A write changes the status and counts the version.
LEMMA WrittenTask ==
  ASSUME task \in TaskState, NEW status \in Phases, Write(status)
  PROVE  task' \in TaskState /\ task'.strict = task.strict /\ task'.status = status
<1> DEFINE n == task.version + 1
<1>1. n \in Nat
  BY DEF TaskState
<1>2. task' = [task EXCEPT !.status = status, !.version = n]
  BY DEF Write
<1> HIDE DEF n
<1>3. QED
  BY <1>1, <1>2 DEF TaskState

\* update_status writes the task, or raises when its version is stale.
LEMMA UpdateStep ==
  ASSUME OrchInv, NEW o \in Orchestrators, ~At(o, "idle"),
         NEW status \in Phases, NEW then \in Local, UpdateStatus(o, status, then),
         UNCHANGED <<lease, reports, pulls, delivered, deaths>>,
         status = "done" => delivered # {},
         then.pc \in {"route", "finish", "release"},
         then.pc = "route" => then.step < MaxSteps,
         then.pc = "finish" => status \in {"done", "blocked"}
  PROVE  OrchInv'
<1>1. /\ orch \in [Orchestrators -> Local] /\ task \in TaskState
      /\ reports \in [Checks -> Verdicts] /\ pulls \in 0 .. 1
      /\ delivered \subseteq {"skipped", "failed", "delivered"}
  BY DEF OrchInv, TaskEndsDecided, OrchTypeOK
<1>2. CASE IsCurrent(o)
  <2> DEFINE x == [then EXCEPT !.left = status]
  <2>1. orch' = [orch EXCEPT ![o] = x] /\ Write(status)
    BY <1>2 DEF UpdateStatus
  <2>2. x \in Local /\ x.pc = then.pc /\ x.step = then.step /\ x.left = status
    BY DEF Local
  <2>3. task' \in TaskState /\ task'.strict = task.strict /\ task'.status = status
    BY <1>1, <2>1, WrittenTask
  <2> HIDE DEF x
  <2>4. QED
    BY <1>1, <2>1, <2>2, <2>3, OwnStep
<1>3. CASE ~IsCurrent(o)
  BY <1>1, <1>3, RaiseStep DEF UpdateStatus
<1>4. QED
  BY <1>2, <1>3

\* The steps that write the task: planning, done, a recovery, and a done taken back.
LEMMA WriteSteps ==
  ASSUME OrchInv, NEW o \in Orchestrators,
         InitializePlanning(o) \/ MarkDone(o) \/ Recover(o) \/ TakeBack(o)
  PROVE  OrchInv'
<1> DEFINE me == orch[o]
           at(pc) == [me EXCEPT !.pc = pc]
<1>1. /\ me \in Local /\ me.step \in Nat /\ MaxSteps \in Nat
      /\ me.attempts \in Nat /\ me.attempts + 1 \in Nat
      /\ reports \in [Checks -> Verdicts]
      /\ (me.pc \in {"start", "plan", "route"} => me.step < MaxSteps)
      /\ (me.pc = "mark" => delivered # {})
  BY OrchAssumption DEF OrchInv, TaskEndsDecided, OrchTypeOK, Local, RunFits, At
<1>2. \A pc \in Places : at(pc) \in Local /\ at(pc).pc = pc /\ at(pc).step = me.step
  BY <1>1 DEF Local
<1>3. CASE InitializePlanning(o)
  <2>1. /\ ~At(o, "idle") /\ UpdateStatus(o, "planning", at("route"))
        /\ me.step < MaxSteps
    BY <1>1, <1>3 DEF InitializePlanning, At
  <2>2. at("route") \in Local /\ at("route").pc = "route" /\ at("route").step < MaxSteps
    BY <1>2, <2>1 DEF Places
  <2> HIDE DEF at
  <2>3. QED
    BY <1>3, <2>1, <2>2, UpdateStep DEF InitializePlanning, Phases
<1>4. CASE MarkDone(o)
  <2>1. ~At(o, "idle") /\ UpdateStatus(o, "done", at("finish")) /\ delivered # {}
    BY <1>1, <1>4 DEF MarkDone, At
  <2>2. at("finish") \in Local /\ at("finish").pc = "finish"
    BY <1>2 DEF Places
  <2> HIDE DEF at
  <2>3. QED
    BY <1>4, <2>1, <2>2, UpdateStep DEF MarkDone, Phases
<1>5. CASE TakeBack(o)
  <2>1. ~At(o, "idle") /\ UpdateStatus(o, "testing", at("release"))
    BY <1>5 DEF TakeBack, At
  <2>2. at("release") \in Local /\ at("release").pc = "release"
    BY <1>2 DEF Places
  <2> HIDE DEF at
  <2>3. QED
    BY <1>5, <2>1, <2>2, UpdateStep DEF TakeBack, Phases
<1>6. CASE Recover(o)
  <2> DEFINE kept == [me EXCEPT !.seen = @ \cup {reports}, !.hint = "failed"]
             failure == Diagnose(o)
             lost == Exhausted(o) \/ me.attempts + 1 > MaxRecoveries
             none == [kept EXCEPT !.pc = Following(o)]
             again(pc) == [kept EXCEPT !.pc = pc, !.attempts = @ + 1]
  <2>1. ~At(o, "idle") /\ UNCHANGED <<lease, reports, pulls, delivered, deaths>>
    BY <1>6 DEF Recover, At
  <2>2. /\ kept \in Local /\ kept.step = me.step /\ kept.attempts = me.attempts
    BY <1>1 DEF Local
  <2>3. /\ Following(o) \in {"finish", "route"}
        /\ (Exhausted(o) => Following(o) = "finish")
        /\ (~Exhausted(o) => Following(o) = "route" /\ me.step < MaxSteps)
    BY <1>1 DEF Following, Exhausted
  <2>4. none \in Local /\ none.pc = Following(o) /\ none.step = me.step
    BY <2>2, <2>3 DEF Local, Places
  <2>5. \A pc \in Places : again(pc) \in Local /\ again(pc).pc = pc
                           /\ again(pc).step = me.step
    BY <1>1, <2>2 DEF Local
  <2>6. /\ failure = "none" => UpdateStatus(o, UnverifiedNextState(me.hint), none)
        /\ failure # "none" /\ lost => UpdateStatus(o, "blocked", again("finish"))
        /\ failure # "none" /\ ~lost =>
             UpdateStatus(o, PhaseFor[ActionFor[failure]], again("route"))
    BY <1>6 DEF Recover
  <2>7. /\ failure \in {"COMPILATION", "TEST_REGRESSION", "WRONG_ASSUMPTION",
                        "MISSING_CONTEXT", "API_INCOMPATIBILITY", "ENVIRONMENT",
                        "MODEL_STUCK", "none"}
        /\ failure = "none" => me.hint \notin {"blocked", "failed"} /\ ~Exhausted(o)
    BY DiagnosisIs
  <2> HIDE DEF kept, failure, none, again, at
  <2>8. CASE failure = "none"
    <3>1. me.hint \in Phases /\ me.hint \notin {"blocked", "failed"}
      BY <1>1, <2>7, <2>8, OrchAssumption DEF Local
    <3>2. UnverifiedNextState(me.hint) \in Phases \ {"done"}
      BY <3>1 DEF UnverifiedNextState, Unverified, Phases
    <3>3. none.pc = "route" /\ none.step < MaxSteps
      BY <2>3, <2>4, <2>7, <2>8
    <3>4. QED
      BY <2>1, <2>4, <2>6, <2>8, <3>2, <3>3, UpdateStep
  <2>9. CASE failure # "none" /\ lost
    <3>1. again("finish") \in Local /\ again("finish").pc = "finish"
      BY <2>5 DEF Places
    <3>2. QED
      BY <2>1, <2>6, <2>9, <3>1, UpdateStep DEF Phases
  <2>10. CASE failure # "none" /\ ~lost
    <3>1. PhaseFor[ActionFor[failure]] \in Phases \ {"done"}
      BY <2>7, <2>10, RecoveryPhase
    <3>2. again("route") \in Local /\ again("route").pc = "route"
          /\ again("route").step < MaxSteps
      BY <2>3, <2>5, <2>10 DEF Places
    <3>3. QED
      BY <2>1, <2>6, <2>10, <3>1, <3>2, UpdateStep
  <2>11. QED
    BY <2>8, <2>9, <2>10
<1>7. QED
  BY <1>3, <1>4, <1>5, <1>6

\* A delivery is recorded before the task may be marked as done.
LEMMA PublishStep ==
  ASSUME OrchInv, NEW o \in Orchestrators, Publish(o)
  PROVE  OrchInv'
<1> DEFINE x == [orch[o] EXCEPT !.pc = "mark", !.verified = "yes"]
<1>1. /\ orch \in [Orchestrators -> Local] /\ task \in TaskState
      /\ reports \in [Checks -> Verdicts] /\ pulls \in 0 .. 1
      /\ delivered \subseteq {"skipped", "failed", "delivered"}
      /\ (task.status = "done" => delivered # {})
  BY DEF OrchInv, TaskEndsDecided, OrchTypeOK, DoneIsDelivered
<1>2. At(o, "deliver") /\ ~At(o, "idle") /\ UNCHANGED <<task, lease, reports, deaths>>
  BY DEF Publish, At
<1>3. task.strict = "yes" /\ Beats(o) => Blocking = {}
  BY <1>2 DEF OrchInv, TaskEndsDecided, PublishedIsComplete, At
<1>4. PICK result \in {"skipped", "failed", "delivered"} :
        /\ pulls' \in (IF result = "delivered" THEN {1}
                       ELSE IF result = "failed" THEN {pulls, 1} ELSE {pulls})
        /\ IF Heartbeat(o)
           THEN /\ delivered' = delivered \cup {result}
                /\ orch' = [orch EXCEPT ![o].pc = "mark", ![o].verified = "yes"]
           ELSE Raise(o) /\ UNCHANGED delivered
  BY DEF Publish
<1>5. pulls' \in 0 .. 1
  BY <1>1, <1>4
<1>6. CASE Heartbeat(o)
  <2>1. x \in Local /\ x.pc = "mark"
    BY <1>1 DEF Local, Places
  <2>2. orch' = [orch EXCEPT ![o] = x]
    BY <1>1, <1>4, <1>6
  <2>3. /\ delivered' \subseteq {"skipped", "failed", "delivered"}
        /\ delivered \subseteq delivered' /\ delivered' # {}
    BY <1>1, <1>4, <1>6
  <2>4. Blocking' = Blocking
    BY <1>2 DEF Blocking
  <2> HIDE DEF x
  <2>5. QED
    BY <1>1, <1>2, <1>3, <1>5, <2>1, <2>2, <2>3, <2>4, OwnStep
<1>7. CASE ~Heartbeat(o)
  BY <1>2, <1>4, <1>5, <1>7, RaiseStep
<1>8. QED
  BY <1>6, <1>7

\* The lease is taken, given back, or left by an orchestrator that dies.
LEMMA LeaseMoves ==
  ASSUME OrchInv, NEW o \in Orchestrators, Acquire(o) \/ Release(o) \/ Crash(o)
  PROVE  OrchInv'
<1>1. /\ orch \in [Orchestrators -> Local] /\ task \in TaskState
      /\ reports \in [Checks -> Verdicts] /\ pulls \in 0 .. 1 /\ deaths \in Nat
      /\ delivered \subseteq {"skipped", "failed", "delivered"}
      /\ (lease = Nobody \/ lease \in Lease) /\ UNCHANGED <<task, reports, pulls, delivered>>
  BY DEF OrchInv, TaskEndsDecided, OrchTypeOK, Acquire, Release, Crash
<1>2. PICK x \in Local :
        /\ orch' = [orch EXCEPT ![o] = x] /\ x.pc \in {"idle", "start"} /\ x.step = 0
        /\ x.pc = "idle" \/ Acquire(o)
  <2>1. CASE Acquire(o)
    <3>1. /\ [Fresh EXCEPT !.pc = "start"] \in Local
          /\ [Fresh EXCEPT !.pc = "start"].pc = "start"
          /\ [Fresh EXCEPT !.pc = "start"].step = 0
      BY FreshIs DEF Places, Fresh
    <3>2. QED
      BY <2>1, <3>1 DEF Acquire
  <2>2. CASE Release(o) \/ Crash(o)
    BY <2>2, FreshIs DEF Release, Crash
  <2>3. QED
    BY <2>1, <2>2
<1>3. orch'[o] = x /\ \A q \in Orchestrators : q # o => orch'[q] = orch[q]
  BY <1>1, <1>2
<1>4. lease' = Nobody \/ lease' \in Lease
  BY <1>1 DEF Acquire, Release, Crash, Released, Lease
<1>5. OrchTypeOK' /\ deaths' \in Nat
  BY <1>1, <1>2, <1>3, <1>4 DEF OrchTypeOK, Acquire, Release, Crash
<1>6. DoneIsDelivered' /\ LoopEndsDecided' /\ \A q \in Orchestrators : RunFits(q)'
  <2>1. 0 < MaxSteps
    BY OrchAssumption
  <2>2. QED
    BY <1>1, <1>2, <1>3, <2>1 DEF OrchInv, TaskEndsDecided, DoneIsDelivered, LoopEndsDecided,
       RunFits, At
<1>7. PublishedIsComplete'
  <2> SUFFICES ASSUME NEW q \in Orchestrators, task'.strict = "yes",
                      orch'[q].pc \in {"evidence", "deliver", "mark"}, Beats(q)'
               PROVE  Blocking' = {}
    BY DEF PublishedIsComplete
  <2>1. q # o /\ orch'[q] = orch[q]
    BY <1>2, <1>3
  <2>2. Beats(q)
    BY <1>1, <2>1 DEF Beats, Acquire, Release, Crash, Released
  <2>3. QED
    BY <1>1, <2>1, <2>2 DEF OrchInv, TaskEndsDecided, PublishedIsComplete, Blocking
<1>8. LiveLeaseIsUsed'
  <2> SUFFICES ASSUME lease' # Nobody PROVE ~(orch'[lease'.owner].pc = "idle") \/ deaths' > 0
    BY DEF LiveLeaseIsUsed, At
  <2>1. CASE Acquire(o)
    <3>1. lease'.owner = o /\ orch'[o].pc = "start"
      BY <1>1, <2>1, FreshIs DEF Acquire, Fresh
    <3>2. QED
      BY <3>1
  <2>2. CASE Release(o)
    <3>1. lease' = lease /\ lease # Nobody /\ lease.owner # o /\ lease.owner \in Orchestrators
      BY <1>1, <2>2 DEF Release, Released, Lease
    <3>2. QED
      BY <1>3, <2>2, <3>1 DEF Release, OrchInv, TaskEndsDecided, LiveLeaseIsUsed, At
  <2>3. CASE Crash(o)
    BY <1>1, <2>3 DEF Crash
  <2>4. QED
    BY <2>1, <2>2, <2>3
<1>9. QED
  BY <1>5, <1>6, <1>7, <1>8 DEF OrchInv, TaskEndsDecided

\* A lease that runs out ends the claim of its owner; an answer writes the task.
LEMMA WorldSteps ==
  ASSUME OrchInv, Stall \/ IntakeAnswer
  PROVE  OrchInv'
<1>1. CASE Stall
  <2>1. /\ lease # Nobody /\ lease \in Lease
        /\ UNCHANGED <<task, orch, reports, pulls, delivered, deaths>>
        /\ lease' = [lease EXCEPT !.live = "no"]
    BY <1>1 DEF Stall, OrchInv, TaskEndsDecided, OrchTypeOK
  <2>2. lease' \in Lease /\ lease'.owner = lease.owner /\ lease'.live = "no"
    BY <2>1 DEF Lease
  <2>3. \A o \in Orchestrators : ~Beats(o)'
    BY <2>2 DEF Beats
  <2>4. OrchTypeOK' /\ deaths' \in Nat
    BY <2>1, <2>2 DEF OrchInv, TaskEndsDecided, OrchTypeOK
  <2>5. PublishedIsComplete'
    BY <2>3 DEF PublishedIsComplete
  <2>6. QED
    BY <2>1, <2>2, <2>4, <2>5 DEF OrchInv, TaskEndsDecided, DoneIsDelivered, LoopEndsDecided,
       LiveLeaseIsUsed, RunFits, At
<1>2. CASE IntakeAnswer
  <2>1. /\ UNCHANGED <<lease, orch, reports, pulls, delivered, deaths>> /\ task \in TaskState
    BY <1>2 DEF IntakeAnswer, OrchInv, TaskEndsDecided, OrchTypeOK
  <2>2. task' \in TaskState /\ task'.strict = task.strict /\ task'.status # "done"
    BY <1>2, <2>1, WrittenTask DEF IntakeAnswer, Phases
  <2>3. OrchTypeOK' /\ deaths' \in Nat
    BY <2>1, <2>2 DEF OrchInv, TaskEndsDecided, OrchTypeOK
  <2>4. PublishedIsComplete'
    BY <2>1, <2>2 DEF OrchInv, TaskEndsDecided, PublishedIsComplete, Beats, Blocking
  <2>5. QED
    BY <2>1, <2>2, <2>3, <2>4 DEF OrchInv, TaskEndsDecided, DoneIsDelivered, LoopEndsDecided,
       LiveLeaseIsUsed, RunFits, At
<1>3. QED
  BY <1>1, <1>2

\* OrchInv holds in every state.
THEOREM OrchInvariant == OrchSpec => []OrchInv
<1>1. OrchInit => OrchInv
  <2> SUFFICES ASSUME OrchInit PROVE OrchInv
    OBVIOUS
  <2>1. /\ task \in TaskState /\ task.status = "pending"
    BY DEF OrchInit, TaskState, Phases
  <2>2. \A o \in Orchestrators : orch[o] = Fresh
    BY DEF OrchInit
  <2>3. OrchTypeOK /\ deaths \in Nat
    BY <2>1, FreshIs DEF OrchInit, OrchTypeOK, Verdicts
  <2>4. QED
    BY <2>1, <2>2, <2>3, FreshIs DEF OrchInit, OrchInv, TaskEndsDecided, DoneIsDelivered,
       PublishedIsComplete, LoopEndsDecided, LiveLeaseIsUsed, RunFits, At
<1>2. OrchInv /\ [OrchNext]_orchVars => OrchInv'
  <2> SUFFICES ASSUME OrchInv, [OrchNext]_orchVars PROVE OrchInv'
    OBVIOUS
  <2>1. CASE UNCHANGED orchVars
    BY <2>1 DEF orchVars, OrchInv, TaskEndsDecided, OrchTypeOK, DoneIsDelivered,
       PublishedIsComplete, LoopEndsDecided, LiveLeaseIsUsed, RunFits, At, Beats, Blocking
  <2>2. ASSUME NEW o \in Orchestrators, OrchStep(o) PROVE OrchInv'
    BY <2>2, LoopSteps, WriteSteps, PublishStep, LeaseMoves DEF OrchStep
  <2>3. QED
    BY <2>1, <2>2, LeaseMoves, WorldSteps DEF OrchNext
<1>3. QED
  BY <1>1, <1>2, PTL DEF OrchSpec

\* For any orchestrators, reports, hints and bounds: a task is done only after a delivery
\* was recorded, a strict one is published by the owner of the live lease only when no
\* check blocks it, a loop that ends has decided, and a lease that nobody uses was left by
\* a crash (run_task).
THEOREM TaskIsDecided == OrchSpec => []TaskEndsDecided
<1>1. OrchInv => TaskEndsDecided
  BY DEF OrchInv
<1>2. QED
  BY <1>1, OrchInvariant, PTL

\* The place of an orchestrator is moved by its own steps only.
LEMMA OthersRest ==
  ASSUME OrchTypeOK, OrchNext, NEW o \in Orchestrators, orch'[o] # orch[o]
  PROVE  Acquire(o) \/ OrchStep(o) \/ Crash(o)
<1>1. orch \in [Orchestrators -> Local]
  BY DEF OrchTypeOK
<1>2. ASSUME NEW q \in Orchestrators, q # o, Acquire(q) \/ OrchStep(q) \/ Crash(q)
      PROVE  orch'[o] = orch[o]
  BY <1>1, <1>2 DEF Acquire, Crash, OrchStep, Start, InitializePlanning, Route, AgentReturns,
     Judge, FinalizeEvidence, Publish, MarkDone, Recover, Conclude, TakeBack, Release, Raise,
     Goto, UpdateStatus
<1>3. QED
  BY <1>2 DEF OrchNext, Stall, IntakeAnswer

\* A live lease leaves its owner only by its own release or when it runs out
\* (TaskRunLeaseService.acquire, release).
THEOREM LiveLeaseIsKept == OrchSpec => LiveLeaseKept
<1>1. OrchInv /\ [OrchNext]_orchVars =>
        [\A o \in Orchestrators :
           (Beats(o) /\ lease' # lease) =>
              (lease' = Nobody /\ At(o, "release")) \/ lease' = [lease EXCEPT !.live = "no"]]_orchVars
  <2> SUFFICES ASSUME OrchInv, OrchNext, NEW o \in Orchestrators, Beats(o), lease' # lease
               PROVE  (lease' = Nobody /\ At(o, "release"))
                        \/ lease' = [lease EXCEPT !.live = "no"]
    BY DEF orchVars
  <2>1. lease # Nobody /\ lease.owner = o /\ lease.live = "yes"
    BY DEF Beats
  <2>2. ASSUME NEW q \in Orchestrators, Acquire(q) PROVE FALSE
    BY <2>1, <2>2 DEF Acquire, Available
  <2>3. ASSUME NEW q \in Orchestrators, Release(q) PROVE lease' = Nobody /\ At(o, "release")
    BY <2>1, <2>3 DEF Release, Released
  <2>4. CASE Stall
    BY <2>4 DEF Stall
  <2>5. ASSUME NEW q \in Orchestrators, OrchStep(q) \/ Crash(q), ~Release(q) PROVE FALSE
    BY <2>5 DEF OrchStep, Crash, Start, InitializePlanning, Route, AgentReturns, Judge,
       FinalizeEvidence, Publish, MarkDone, Recover, Conclude, TakeBack
  <2>6. CASE IntakeAnswer
    BY <2>6 DEF IntakeAnswer
  <2>7. QED
    BY <2>2, <2>3, <2>4, <2>5, <2>6 DEF OrchNext
<1>2. QED
  BY <1>1, OrchInvariant, PTL DEF OrchSpec, LiveLeaseKept

\* An orchestrator writes the task only in the version that it has read: an answer that
\* came in between is never overwritten (update_status).
THEOREM AnswersStayRead == OrchSpec => AnswersAreRead
<1>1. OrchInv /\ [OrchNext]_orchVars =>
        [\A o \in Orchestrators :
           (task' # task /\ orch'[o] # orch[o]) => task.version = orch[o].version]_orchVars
  <2> SUFFICES ASSUME OrchInv, OrchNext, NEW o \in Orchestrators, task' # task,
                      orch'[o] # orch[o]
               PROVE  task.version = orch[o].version
    BY DEF orchVars
  <2>1. Acquire(o) \/ OrchStep(o) \/ Crash(o)
    BY OthersRest DEF OrchInv, TaskEndsDecided
  <2>2. ASSUME NEW status, NEW then, UpdateStatus(o, status, then)
        PROVE  task.version = orch[o].version
    BY <2>2 DEF UpdateStatus, IsCurrent, Unchanged
  <2>3. InitializePlanning(o) \/ MarkDone(o) \/ Recover(o) \/ TakeBack(o)
    BY <2>1 DEF Acquire, Crash, OrchStep, Start, Route, AgentReturns, Judge, FinalizeEvidence,
       Publish, Conclude, Release
  <2>4. CASE InitializePlanning(o) \/ MarkDone(o) \/ TakeBack(o)
    BY <2>2, <2>4 DEF InitializePlanning, MarkDone, TakeBack
  <2>5. CASE Recover(o)
    BY <2>2, <2>5 DEF Recover
  <2>6. QED
    BY <2>3, <2>4, <2>5
<1>2. QED
  BY <1>1, OrchInvariant, PTL DEF OrchSpec, AnswersAreRead

-----------------------------------------------------------------------------
(* The issue in Jira.                                                      *)

\* What a webhook process and a synchronisation keep between two steps.
HookLocal == [pc : {"idle", "process", "settle"}, id : Ids, fields : SUBSET Fields,
              answer : Fields \cup {"none"}]
SyncLocal == [pc : {"idle", "comment", "say", "transition", "move", "close"},
              target : Targets, said : {"no", "yes"}, moved : {"no", "yes"},
              pr : {"PR_NOT_CONFIGURED", "PR_FAILED", "DRAFT_PR_CREATED"}]

IntakeTypeOK ==
  /\ contract = NoIssue \/ contract \subseteq Fields
  /\ asked \in [Fields -> Clarification]
  /\ hookRows \in [Ids -> Delivery] /\ ingests \in [Ids -> 0 .. 2]
  /\ hooks \in [Hooks -> HookLocal]

\* A delivery is worked on by one process, which alone may ingest it; one that no
\* process has is as it was ingested.
HooksFit ==
  /\ \A h \in Hooks : hooks[h].pc # "idle" => hookRows[hooks[h].id].status # "ABSENT"
  /\ \A h \in Hooks : hooks[h].pc = "process" => ingests[hooks[h].id] = 0
  /\ \A h, g \in Hooks : hooks[h].pc # "idle" /\ hooks[g].pc # "idle" /\ h # g
                           => hooks[h].id # hooks[g].id
  /\ \A i \in Ids : hookRows[i].status = "ABSENT" => ingests[i] = 0

IntakeInv == IntakeTypeOK /\ WebhookAppliedOnce /\ MissingIsAsked /\ HooksFit

SyncTypeOK ==
  /\ state \in DeliveryState
  /\ jiraRun \in {"none", "PLANNING", "IMPLEMENTING", "COMPLETED"}
  /\ ops \in [{"comment", "transition"} -> [Targets -> Operation]]
  /\ issue \in Issue
  /\ syncs \in [Syncs -> SyncLocal]

\* A synchronisation has said what it reports as said, and reports completion only
\* of a completed run.
SyncFits(s) ==
  /\ syncs[s].said = "yes" => issue.comments > 0
  /\ syncs[s].pc # "idle" /\ syncs[s].target = "COMPLETED" => jiraRun = "COMPLETED"

SyncInv ==
  /\ SyncTypeOK /\ OneStatusComment /\ CompletedIsVisible /\ CompletedAfterRun
  /\ \A s \in Syncs : SyncFits(s)

\* Where processes begin and end.
LEMMA RestingIs ==
  /\ Waiting \in HookLocal /\ Waiting.pc = "idle"
  /\ Resting \in SyncLocal /\ Resting.pc = "idle" /\ Resting.said = "no"
  BY JiraAssumption DEF Waiting, HookLocal, Resting, SyncLocal, Targets

\* An ingest asks for every field that is missing and was never asked for.
LEMMA AskedIs ==
  ASSUME asked \in [Fields -> Clarification], NEW fields \in SUBSET Fields, Ingest(fields)
  PROVE  /\ contract' \subseteq Fields /\ asked' \in [Fields -> Clarification]
         /\ MissingIsAsked'
<1>1. asked' \in [Fields -> Clarification]
  BY DEF Ingest, Ask, AskedFor, Clarification
<1>2. \A f \in Missing(fields) : asked'[f] # "none"
  BY DEF Ingest, Ask, AskedFor, Missing
<1>3. QED
  BY <1>1, <1>2 DEF Ingest, MissingIsAsked

\* An answer fills its field and leaves the other questions.
LEMMA AnsweredIs ==
  ASSUME IntakeTypeOK, MissingIsAsked, NEW f \in Fields, Answer(f)
  PROVE  /\ contract' \subseteq Fields /\ asked' \in [Fields -> Clarification]
         /\ MissingIsAsked'
<1>1. contract # NoIssue /\ contract \subseteq Fields /\ asked \in [Fields -> Clarification]
  BY DEF Answer, IntakeTypeOK
<1>2. contract' \subseteq Fields /\ asked' \in [Fields -> Clarification]
  BY <1>1 DEF Answer, Clarification
<1>3. ASSUME NEW g \in Missing(contract') PROVE asked'[g] # "none"
  <2>1. g # f /\ g \in Missing(contract)
    BY <1>3 DEF Missing, Answer
  <2>2. asked[g] # "none"
    BY <1>1, <2>1 DEF MissingIsAsked
  <2>3. QED
    BY <1>1, <1>3, <2>1, <2>2 DEF Answer, Missing
<1>4. QED
  BY <1>2, <1>3 DEF MissingIsAsked

\* A new delivery id is given to one process.
LEMMA ReceiveStep ==
  ASSUME IntakeInv, NEW h \in Hooks, NEW i \in Ids, Receive(h, i)
  PROVE  IntakeInv'
<1>1. /\ hooks \in [Hooks -> HookLocal] /\ hookRows \in [Ids -> Delivery]
      /\ ingests \in [Ids -> 0 .. 2] /\ UNCHANGED <<contract, asked, ingests>>
  BY DEF IntakeInv, IntakeTypeOK, Receive
<1>2. PICK fields \in Contracts, a \in Fields \cup {"none"} :
        hooks' = [hooks EXCEPT ![h] = [pc |-> "process", id |-> i, fields |-> fields,
                                       answer |-> a]]
  BY DEF Receive
<1> DEFINE x == [pc |-> "process", id |-> i, fields |-> fields, answer |-> a]
<1>3. x \in HookLocal /\ x.pc = "process" /\ x.id = i
  BY JiraAssumption DEF HookLocal
<1> HIDE DEF x
<1>4. hooks' = [hooks EXCEPT ![h] = x]
  BY <1>2 DEF x
<1>5. hooks'[h] = x /\ \A g \in Hooks : g # h => hooks'[g] = hooks[g]
  BY <1>1, <1>4
<1>6. /\ hookRows[i].status = "ABSENT" /\ hookRows' \in [Ids -> Delivery]
      /\ hookRows'[i].status = "RECEIVED"
      /\ \A j \in Ids : j # i => hookRows'[j] = hookRows[j]
  BY <1>1 DEF Receive, Duplicate, Known, Delivery
<1>7. IntakeTypeOK' /\ WebhookAppliedOnce' /\ MissingIsAsked'
  BY <1>1, <1>3, <1>4, <1>6 DEF IntakeInv, IntakeTypeOK, WebhookAppliedOnce, MissingIsAsked
<1>8. \A g \in Hooks : g # h /\ hooks[g].pc # "idle" => hooks[g].id # i
  BY <1>6 DEF IntakeInv, HooksFit
<1>9. \A g \in Hooks : hooks[g].id \in Ids
  BY <1>1 DEF HookLocal
<1>10. \A g \in Hooks : hooks'[g].pc # "idle" => hookRows'[hooks'[g].id].status # "ABSENT"
  BY <1>3, <1>5, <1>6, <1>8, <1>9 DEF IntakeInv, HooksFit
<1>11. \A g \in Hooks : hooks'[g].pc = "process" => ingests'[hooks'[g].id] = 0
  BY <1>1, <1>3, <1>5, <1>6 DEF IntakeInv, HooksFit
<1>12. \A g, k \in Hooks : hooks'[g].pc # "idle" /\ hooks'[k].pc # "idle" /\ g # k
                              => hooks'[g].id # hooks'[k].id
  BY <1>3, <1>5, <1>8 DEF IntakeInv, HooksFit
<1>13. \A j \in Ids : hookRows'[j].status = "ABSENT" => ingests'[j] = 0
  BY <1>1, <1>6 DEF IntakeInv, HooksFit
<1>14. QED
  BY <1>7, <1>10, <1>11, <1>12, <1>13 DEF IntakeInv, HooksFit

\* The process that has the delivery applies it once.
LEMMA ProcessStep ==
  ASSUME IntakeInv, NEW h \in Hooks, Process(h)
  PROVE  IntakeInv'
<1> DEFINE i == hooks[h].id
           x == [hooks[h] EXCEPT !.pc = "settle"]
           n == ingests[i] + 1
<1>1. /\ hooks \in [Hooks -> HookLocal] /\ hookRows \in [Ids -> Delivery]
      /\ ingests \in [Ids -> 0 .. 2] /\ UNCHANGED hookRows /\ hooks[h] \in HookLocal
      /\ asked \in [Fields -> Clarification]
  BY DEF IntakeInv, IntakeTypeOK, Process
<1>2. i \in Ids /\ hookRows[i].status # "ABSENT" /\ ingests[i] = 0 /\ hooks[h].pc = "process"
  BY <1>1 DEF IntakeInv, HooksFit, Process, HookLocal
<1>3. x \in HookLocal /\ x.pc = "settle" /\ x.id = i
  BY <1>1 DEF HookLocal
<1>4. n = 1
  BY <1>2
<1>5. hooks' = [hooks EXCEPT ![h] = x] /\ ingests' = [ingests EXCEPT ![i] = n]
  BY <1>1 DEF Process
<1> HIDE DEF x, n, i
<1>6. hooks'[h] = x /\ \A g \in Hooks : g # h => hooks'[g] = hooks[g]
  BY <1>1, <1>5
<1>7. /\ ingests' \in [Ids -> 0 .. 2] /\ ingests'[i] = 1
      /\ \A j \in Ids : j # i => ingests'[j] = ingests[j]
  BY <1>1, <1>2, <1>4, <1>5
<1>8. contract' \subseteq Fields /\ asked' \in [Fields -> Clarification] /\ MissingIsAsked'
  <2>1. CASE hooks[h].answer = "none"
    <3>1. hooks[h].fields \in SUBSET Fields
      BY <1>1 DEF HookLocal
    <3>2. Ingest(hooks[h].fields)
      BY <2>1 DEF Process
    <3>3. QED
      BY <1>1, <3>1, <3>2, AskedIs
  <2>2. CASE hooks[h].answer # "none"
    <3>1. hooks[h].answer \in Fields
      BY <1>1, <2>2 DEF HookLocal
    <3>2. Answer(hooks[h].answer)
      BY <2>2 DEF Process
    <3>3. QED
      BY <3>1, <3>2, AnsweredIs DEF IntakeInv
  <2>3. QED
    BY <2>1, <2>2
<1>9. IntakeTypeOK' /\ WebhookAppliedOnce'
  BY <1>1, <1>3, <1>5, <1>7, <1>8 DEF IntakeInv, IntakeTypeOK, WebhookAppliedOnce
<1>10. \A g \in Hooks : g # h /\ hooks[g].pc # "idle" => hooks[g].id # i
  BY <1>2 DEF IntakeInv, HooksFit, i
<1>11. \A g \in Hooks : hooks[g].id \in Ids
  BY <1>1 DEF HookLocal
<1>12. \A g \in Hooks : hooks'[g].pc # "idle" => hookRows'[hooks'[g].id].status # "ABSENT"
  BY <1>1, <1>2, <1>3, <1>6 DEF IntakeInv, HooksFit
<1>13. \A g \in Hooks : hooks'[g].pc = "process" => ingests'[hooks'[g].id] = 0
  BY <1>3, <1>6, <1>7, <1>10, <1>11 DEF IntakeInv, HooksFit
<1>14. \A g, k \in Hooks : hooks'[g].pc # "idle" /\ hooks'[k].pc # "idle" /\ g # k
                              => hooks'[g].id # hooks'[k].id
  BY <1>3, <1>6, <1>10 DEF IntakeInv, HooksFit
<1>15. \A j \in Ids : hookRows'[j].status = "ABSENT" => ingests'[j] = 0
  BY <1>1, <1>2, <1>7 DEF IntakeInv, HooksFit
<1>16. QED
  BY <1>8, <1>9, <1>12, <1>13, <1>14, <1>15 DEF IntakeInv, HooksFit

\* A delivery that was settled or left by a crash stays known.
LEMMA EndStep ==
  ASSUME IntakeInv, NEW h \in Hooks, Reject(h) \/ Settled(h) \/ HookDies(h)
  PROVE  IntakeInv'
<1>1. /\ hooks \in [Hooks -> HookLocal] /\ hookRows \in [Ids -> Delivery]
      /\ ingests \in [Ids -> 0 .. 2] /\ UNCHANGED <<contract, asked, ingests>>
      /\ hooks[h].id \in Ids /\ hooks[h].pc # "idle"
  BY DEF IntakeInv, IntakeTypeOK, Reject, Settled, HookDies, HookLocal
<1>2. hooks' = [hooks EXCEPT ![h] = Waiting]
  BY DEF Reject, Settled, HookDies, Settle
<1>3. hookRows[hooks[h].id].status # "ABSENT"
  BY <1>1 DEF IntakeInv, HooksFit
<1>4. /\ hookRows' \in [Ids -> Delivery]
      /\ \A j \in Ids : hookRows'[j].status = "ABSENT" <=> hookRows[j].status = "ABSENT"
  BY <1>1, <1>3 DEF Reject, Settled, HookDies, Settle, Delivery
<1>5. hooks'[h] = Waiting /\ \A g \in Hooks : g # h => hooks'[g] = hooks[g]
  BY <1>1, <1>2
<1>6. \A g \in Hooks : hooks[g].id \in Ids
  BY <1>1 DEF HookLocal
<1>7. IntakeTypeOK' /\ WebhookAppliedOnce' /\ MissingIsAsked'
  BY <1>1, <1>2, <1>4, RestingIs DEF IntakeInv, IntakeTypeOK, WebhookAppliedOnce, MissingIsAsked
<1>8. HooksFit'
  BY <1>1, <1>4, <1>5, <1>6, RestingIs DEF IntakeInv, HooksFit
<1>9. QED
  BY <1>7, <1>8 DEF IntakeInv

\* Nothing of the intake changes in the other steps.
LEMMA IntakeRests ==
  ASSUME IntakeInv, UNCHANGED intakeVars
  PROVE  IntakeInv'
  BY DEF intakeVars, IntakeInv, IntakeTypeOK, WebhookAppliedOnce, MissingIsAsked, HooksFit,
     Missing

\* Every step keeps IntakeInv.
LEMMA IntakeNext ==
  ASSUME IntakeInv, [JiraNext]_jiraVars
  PROVE  IntakeInv'
<1>1. ASSUME NEW f \in Fields, AnswerClarification(f) PROVE IntakeInv'
  <2>1. Answer(f) /\ UNCHANGED <<hookRows, hooks, ingests>>
    BY <1>1 DEF AnswerClarification
  <2>2. contract' \subseteq Fields /\ asked' \in [Fields -> Clarification] /\ MissingIsAsked'
    BY <2>1, AnsweredIs DEF IntakeInv
  <2>3. QED
    BY <2>1, <2>2 DEF IntakeInv, IntakeTypeOK, WebhookAppliedOnce, HooksFit
<1>2. ASSUME NEW s \in Syncs,
             \/ Orchestrate(s) \/ Finalize(s) \/ OpenComment(s) \/ SayStatus(s)
             \/ OpenTransition(s) \/ MoveIssue(s) \/ Synchronized(s) \/ SyncDies(s)
      PROVE  UNCHANGED intakeVars
  BY <1>2 DEF Orchestrate, Finalize, OpenComment, SayStatus, OpenTransition, MoveIssue,
     Synchronized, SyncDies
<1>3. RunCompletes \/ UNCHANGED jiraVars => UNCHANGED intakeVars
  BY DEF RunCompletes, jiraVars, intakeVars
<1>4. QED
  BY <1>1, <1>2, <1>3, ReceiveStep, ProcessStep, EndStep, IntakeRests DEF JiraNext

\* What a commit in the middle of a call makes durable.
LEMMA FlushedIs ==
  ASSUME SyncInv, NEW s \in Syncs, syncs[s].pc # "idle"
  PROVE  /\ Flushed(s) \in DeliveryState
         /\ Flushed(s).status = "COMPLETED" => jiraRun = "COMPLETED"
<1>1. syncs[s] \in SyncLocal /\ state \in DeliveryState
  BY DEF SyncInv, SyncTypeOK
<1>2. Flushed(s) \in DeliveryState
  BY <1>1 DEF Flushed, DeliveryState, SyncLocal
<1>3. Flushed(s).status = IF syncs[s].target = "COMPLETED" THEN "COMPLETED" ELSE state.status
  BY <1>1 DEF Flushed, DeliveryState
<1>4. QED
  BY <1>2, <1>3 DEF SyncInv, SyncFits, CompletedAfterRun

\* The completion of a comment is recorded when the comment is there.
LEMMA RecordedIs ==
  ASSUME SyncInv, NEW s \in Syncs
  PROVE  /\ Recorded(s) \in [{"comment", "transition"} -> [Targets -> Operation]]
         /\ \A u \in Targets : Recorded(s)["comment"][u] = "COMPLETED" =>
              ops["comment"][u] = "COMPLETED" \/ issue.comments > 0
<1>1. /\ ops \in [{"comment", "transition"} -> [Targets -> Operation]]
      /\ syncs[s].target \in Targets
  BY DEF SyncInv, SyncTypeOK, SyncLocal
<1>2. CASE syncs[s].said = "yes"
  <2>1. issue.comments > 0
    BY <1>2 DEF SyncInv, SyncFits
  <2>2. Recorded(s) \in [{"comment", "transition"} -> [Targets -> Operation]]
    BY <1>1, <1>2 DEF Recorded, Closed, Operation
  <2>3. QED
    BY <2>1, <2>2
<1>3. CASE syncs[s].said # "yes"
  BY <1>1, <1>3 DEF Recorded
<1>4. QED
  BY <1>2, <1>3

\* What a synchronisation may change.
LEMMA SyncStep ==
  ASSUME SyncInv, NEW s \in Syncs, NEW x \in SyncLocal, syncs' = [syncs EXCEPT ![s] = x],
         state' \in DeliveryState, issue' \in Issue,
         jiraRun' \in {"none", "PLANNING", "IMPLEMENTING", "COMPLETED"},
         jiraRun = "COMPLETED" => jiraRun' = "COMPLETED",
         ops' \in [{"comment", "transition"} -> [Targets -> Operation]],
         issue.comments <= issue'.comments, issue'.comments <= 1,
         \A u \in Targets : ops'["comment"][u] = "COMPLETED" =>
            ops["comment"][u] = "COMPLETED" \/ issue'.comments > 0,
         state'.status = "COMPLETED" => state.status = "COMPLETED" \/ jiraRun = "COMPLETED",
         x.said = "yes" => issue'.comments > 0,
         x.pc # "idle" /\ x.target = "COMPLETED" => jiraRun = "COMPLETED"
  PROVE  SyncInv'
<1>1. /\ syncs \in [Syncs -> SyncLocal] /\ issue.comments \in Nat /\ issue'.comments \in Nat
  BY DEF SyncInv, SyncTypeOK, Issue
<1>2. syncs'[s] = x /\ \A r \in Syncs : r # s => syncs'[r] = syncs[r]
  BY <1>1
<1>3. SyncTypeOK' /\ OneStatusComment' /\ CompletedAfterRun'
  BY <1>1 DEF SyncInv, SyncTypeOK, OneStatusComment, CompletedAfterRun
<1>4. CompletedIsVisible'
  BY <1>1 DEF SyncInv, CompletedIsVisible
<1>5. \A r \in Syncs : SyncFits(r)'
  BY <1>1, <1>2 DEF SyncInv, SyncFits
<1>6. QED
  BY <1>3, <1>4, <1>5 DEF SyncInv

\* Nothing of the delivery changes in the other steps.
LEMMA SyncRests ==
  ASSUME SyncInv, UNCHANGED deliveryVars
  PROVE  SyncInv'
  BY DEF deliveryVars, SyncInv, SyncTypeOK, OneStatusComment, CompletedIsVisible,
     CompletedAfterRun, SyncFits

\* Completion is reported only of a completed run.
LEMMA BeginSteps ==
  ASSUME SyncInv, NEW s \in Syncs, Orchestrate(s) \/ Finalize(s)
  PROVE  SyncInv'
<1> DEFINE begun(target, pr) == [Resting EXCEPT !.pc = "comment", !.target = target, !.pr = pr]
<1>1. /\ state \in DeliveryState /\ issue \in Issue /\ syncs \in [Syncs -> SyncLocal]
      /\ jiraRun \in {"none", "PLANNING", "IMPLEMENTING", "COMPLETED"}
      /\ ops \in [{"comment", "transition"} -> [Targets -> Operation]] /\ ops' = ops
      /\ state.pr \in {"PR_NOT_CONFIGURED", "PR_FAILED", "DRAFT_PR_CREATED"}
      /\ issue.comments \in Nat /\ issue.comments <= 1
  BY DEF SyncInv, SyncTypeOK, OneStatusComment, Orchestrate, Finalize, Issue, DeliveryState
<1>2. ASSUME NEW target \in Targets,
             NEW pr \in {"PR_NOT_CONFIGURED", "PR_FAILED", "DRAFT_PR_CREATED"}
      PROVE  /\ begun(target, pr) \in SyncLocal /\ begun(target, pr).pc = "comment"
             /\ begun(target, pr).said = "no" /\ begun(target, pr).target = target
  BY <1>2 DEF Resting, SyncLocal
<1>3. ASSUME NEW target \in Targets,
             NEW pr \in {"PR_NOT_CONFIGURED", "PR_FAILED", "DRAFT_PR_CREATED"},
             Begin(s, target, pr), state' \in DeliveryState, state'.status = state.status,
             issue' \in Issue, issue'.comments = issue.comments,
             jiraRun' \in {"none", "PLANNING", "IMPLEMENTING", "COMPLETED"},
             jiraRun = "COMPLETED" => jiraRun' = "COMPLETED",
             target = "COMPLETED" => jiraRun = "COMPLETED"
      PROVE  SyncInv'
  <2> DEFINE x == begun(target, pr)
  <2>1. x \in SyncLocal /\ x.pc = "comment" /\ x.said = "no" /\ x.target = target
    BY <1>2
  <2>2. syncs' = [syncs EXCEPT ![s] = x]
    BY <1>3 DEF Begin
  <2>3. issue.comments <= issue'.comments /\ issue'.comments <= 1
    BY <1>1, <1>3
  <2> HIDE DEF x, begun
  <2>4. QED
    BY <1>1, <1>3, <2>1, <2>2, <2>3, SyncStep
<1>4. CASE Orchestrate(s)
  <2>1. issue' = issue
    BY <1>4 DEF Orchestrate
  <2>2. CASE ~Ready(contract)
    <3>1. Begin(s, "AWAITING_CLARIFICATION", state.pr) /\ UNCHANGED <<jiraRun, state>>
      BY <1>4, <2>2 DEF Orchestrate
    <3>2. QED
      BY <1>1, <1>3, <2>1, <3>1 DEF Targets
  <2>3. CASE Ready(contract)
    <3>1. /\ state' = [state EXCEPT !.run = "run"]
          /\ \/ jiraRun' = "IMPLEMENTING" /\ jiraRun # "COMPLETED"
                /\ Begin(s, "EXECUTION_QUEUED", state.pr)
             \/ jiraRun' = (IF jiraRun = "none" THEN "PLANNING" ELSE jiraRun)
                /\ Begin(s, "WAITING_FOR_EXECUTOR", state.pr)
      BY <1>4, <2>3 DEF Orchestrate
    <3>2. state' \in DeliveryState /\ state'.status = state.status
      BY <1>1, <3>1 DEF DeliveryState
    <3>3. QED
      BY <1>1, <1>3, <2>1, <3>1, <3>2 DEF Targets
  <2>4. QED
    BY <2>2, <2>3
<1>5. CASE Finalize(s)
  <2>1. jiraRun' = jiraRun
    BY <1>5 DEF Finalize
  <2>2. CASE Completed
    <3>1. /\ jiraRun = "COMPLETED" /\ state' = state
          /\ issue' = issue \/ issue' = [issue EXCEPT !.pulls = 1]
          /\ \E pr \in {"PR_NOT_CONFIGURED", "PR_FAILED", "DRAFT_PR_CREATED"} :
               Begin(s, "COMPLETED", pr)
      BY <1>5, <2>2 DEF Finalize, Completed, Finishable
    <3>2. issue' \in Issue /\ issue'.comments = issue.comments
      BY <1>1, <3>1 DEF Issue
    <3>3. QED
      BY <1>1, <1>3, <2>1, <3>1, <3>2 DEF Targets
  <2>3. CASE ~Completed
    <3>1. state' = [state EXCEPT !.status = "WAITING_FOR_EXECUTOR"] /\ UNCHANGED <<syncs, issue>>
      BY <1>5, <2>3 DEF Finalize
    <3>2. state' \in DeliveryState /\ state'.status = "WAITING_FOR_EXECUTOR"
      BY <1>1, <3>1 DEF DeliveryState, Targets
    <3>3. QED
      BY <1>1, <2>1, <3>1, <3>2 DEF SyncInv, SyncTypeOK, OneStatusComment,
         CompletedIsVisible, CompletedAfterRun, SyncFits
  <2>4. QED
    BY <2>2, <2>3
<1>6. QED
  BY <1>4, <1>5

\* A comment is created when none carries the marker.
LEMMA SayStep ==
  ASSUME SyncInv, NEW s \in Syncs, SayStatus(s)
  PROVE  SyncInv'
<1> DEFINE me == syncs[s]
<1>1. /\ state \in DeliveryState /\ issue \in Issue /\ syncs \in [Syncs -> SyncLocal]
      /\ jiraRun \in {"none", "PLANNING", "IMPLEMENTING", "COMPLETED"} /\ jiraRun' = jiraRun
      /\ ops \in [{"comment", "transition"} -> [Targets -> Operation]]
      /\ me \in SyncLocal /\ me.target \in Targets /\ me.pc = "say"
      /\ issue.comments \in 0 .. 2 /\ issue.comments <= 1
      /\ (me.target = "COMPLETED" => jiraRun = "COMPLETED")
  BY DEF SyncInv, SyncTypeOK, OneStatusComment, SayStatus, Issue, SyncLocal, SyncFits
<1>2. PICK effect \in Outcomes :
        /\ issue' = Said(s, effect)
        /\ IF effect = "ok" \/ (effect = "lost" /\ ~ HasComment)
           THEN /\ syncs' = [syncs EXCEPT ![s].pc = "transition", ![s].said = "yes"]
                /\ UNCHANGED <<ops, state>>
           ELSE /\ syncs' = [syncs EXCEPT ![s] = Resting]
                /\ ops' = [ops EXCEPT !["comment"][syncs[s].target] = "FAILED"]
                /\ state' = Flushed(s)
  BY DEF SayStatus
<1>3. /\ issue' \in Issue /\ issue.comments <= issue'.comments /\ issue'.comments <= 1
      /\ effect # "failed" => issue'.comments > 0
  <2>1. CASE effect = "failed"
    BY <1>1, <1>2, <2>1 DEF Said
  <2>2. CASE effect # "failed"
    <3> DEFINE n == IF issue.comments > 0 \/ issue.comments = 2 THEN issue.comments
                    ELSE issue.comments + 1
    <3>1. n \in 0 .. 2 /\ issue.comments <= n /\ n <= 1 /\ n > 0
      BY <1>1
    <3>2. issue' = [issue EXCEPT !.text = me.target, !.comments = n]
      BY <1>2, <2>2 DEF Said, HasComment, Marked
    <3> HIDE DEF n
    <3>3. QED
      BY <1>1, <3>1, <3>2 DEF Issue
  <2>3. QED
    BY <2>1, <2>2
<1>4. CASE effect = "ok" \/ (effect = "lost" /\ ~ HasComment)
  <2> DEFINE x == [me EXCEPT !.pc = "transition", !.said = "yes"]
  <2>1. x \in SyncLocal /\ x.target = me.target
    BY <1>1 DEF SyncLocal
  <2>2. syncs' = [syncs EXCEPT ![s] = x] /\ UNCHANGED <<ops, state>>
    BY <1>1, <1>2, <1>4
  <2> HIDE DEF x
  <2>3. QED
    BY <1>1, <1>3, <1>4, <2>1, <2>2, SyncStep
<1>5. CASE ~(effect = "ok" \/ (effect = "lost" /\ ~ HasComment))
  <2>1. /\ syncs' = [syncs EXCEPT ![s] = Resting] /\ state' = Flushed(s)
        /\ ops' = [ops EXCEPT !["comment"][me.target] = "FAILED"]
    BY <1>2, <1>5
  <2>2. /\ ops' \in [{"comment", "transition"} -> [Targets -> Operation]]
        /\ \A u \in Targets : ops'["comment"][u] = "COMPLETED" => ops["comment"][u] = "COMPLETED"
    BY <1>1, <2>1 DEF Operation
  <2>3. state' \in DeliveryState /\ (state'.status = "COMPLETED" => jiraRun = "COMPLETED")
    BY <1>1, <2>1, FlushedIs
  <2>4. QED
    BY <1>1, <1>3, <2>1, <2>2, <2>3, RestingIs, SyncStep
<1>6. QED
  BY <1>4, <1>5

\* The commits around the calls to Jira, and their end.
LEMMA OpenSteps ==
  ASSUME SyncInv, NEW s \in Syncs,
         OpenComment(s) \/ OpenTransition(s) \/ MoveIssue(s) \/ Synchronized(s) \/ SyncDies(s)
  PROVE  SyncInv'
<1> DEFINE me == syncs[s]
           at(pc) == [me EXCEPT !.pc = pc]
           moved(v) == [me EXCEPT !.pc = "close", !.moved = v]
<1>1. /\ state \in DeliveryState /\ issue \in Issue /\ syncs \in [Syncs -> SyncLocal]
      /\ jiraRun \in {"none", "PLANNING", "IMPLEMENTING", "COMPLETED"} /\ jiraRun' = jiraRun
      /\ ops \in [{"comment", "transition"} -> [Targets -> Operation]]
      /\ me \in SyncLocal /\ me.target \in Targets /\ me.pc # "idle" /\ me.moved \in {"no", "yes"}
      /\ issue.comments \in 0 .. 2 /\ issue.comments <= 1
      /\ (me.target = "COMPLETED" => jiraRun = "COMPLETED")
      /\ (me.said = "yes" => issue.comments > 0)
  BY DEF SyncInv, SyncTypeOK, OneStatusComment, OpenComment, OpenTransition, MoveIssue,
     Synchronized, SyncDies, Issue, SyncLocal, SyncFits
<1>2. issue' \in Issue /\ issue'.comments = issue.comments
  BY <1>1 DEF OpenComment, OpenTransition, MoveIssue, Synchronized, SyncDies, Issue
<1>3. Flushed(s) \in DeliveryState /\ (Flushed(s).status = "COMPLETED" => jiraRun = "COMPLETED")
  BY <1>1, FlushedIs
<1>4. \E x \in SyncLocal : /\ syncs' = [syncs EXCEPT ![s] = x] /\ x.target \in Targets
                           /\ (x.said = "yes" => me.said = "yes")
                           /\ (x.pc # "idle" => x.target = me.target)
  <2>1. ASSUME NEW pc \in {"say", "transition", "move"}
        PROVE  at(pc) \in SyncLocal /\ at(pc).target = me.target /\ at(pc).said = me.said
    BY <1>1, <2>1 DEF SyncLocal
  <2>2. ASSUME NEW v \in {"no", "yes"}
        PROVE  /\ moved(v) \in SyncLocal /\ moved(v).target = me.target
               /\ moved(v).said = me.said
    BY <1>1, <2>2 DEF SyncLocal
  <2>3. \/ \E pc \in {"say", "transition", "move"} : syncs' = [syncs EXCEPT ![s] = at(pc)]
        \/ \E v \in {"no", "yes"} : syncs' = [syncs EXCEPT ![s] = moved(v)]
        \/ syncs' = [syncs EXCEPT ![s] = Resting]
    <3>1. CASE OpenComment(s)
      BY <1>1, <3>1 DEF OpenComment
    <3>2. CASE OpenTransition(s)
      BY <1>1, <3>2 DEF OpenTransition
    <3>3. CASE MoveIssue(s)
      BY <1>1, <3>3 DEF MoveIssue
    <3>4. CASE Synchronized(s) \/ SyncDies(s)
      BY <3>4 DEF Synchronized, SyncDies
    <3>5. QED
      BY <3>1, <3>2, <3>3, <3>4
  <2> HIDE DEF at, moved
  <2>4. QED
    BY <1>1, <2>1, <2>2, <2>3, RestingIs DEF SyncLocal
<1>5. /\ ops' \in [{"comment", "transition"} -> [Targets -> Operation]]
      /\ \A u \in Targets : ops'["comment"][u] = "COMPLETED" =>
           ops["comment"][u] = "COMPLETED" \/ issue'.comments > 0
  <2> DEFINE kept == Recorded(s)
  <2>1. /\ kept \in [{"comment", "transition"} -> [Targets -> Operation]]
        /\ \A u \in Targets : kept["comment"][u] = "COMPLETED" =>
             ops["comment"][u] = "COMPLETED" \/ issue.comments > 0
    BY RecordedIs
  <2>2. \/ ops' = ops \/ ops' = kept
        \/ ops' = [ops EXCEPT !["comment"][me.target] = "PENDING"]
        \/ \E v \in {"PENDING", "COMPLETED"} :
             ops' = [kept EXCEPT !["transition"][me.target] = v]
    BY DEF OpenComment, OpenTransition, MoveIssue, Synchronized, SyncDies, Opened
  <2> HIDE DEF kept
  <2>3. QED
    BY <1>1, <1>2, <2>1, <2>2 DEF Operation
<1>6. /\ state' \in DeliveryState
      /\ state'.status = "COMPLETED" => state.status = "COMPLETED" \/ jiraRun = "COMPLETED"
  <2>1. CASE Synchronized(s)
    <3> DEFINE base == Flushed(s)
               j == IF me.moved = "yes" THEN me.target ELSE base.jira
    <3>1. state' = [base EXCEPT !.status = me.target, !.jira = j]
      BY <2>1 DEF Synchronized
    <3>2. base \in DeliveryState
      BY <1>3
    <3>3. j \in Targets \cup {"unknown"}
      BY <1>1, <3>2 DEF DeliveryState
    <3> HIDE DEF base, j
    <3>4. state' \in DeliveryState /\ state'.status = me.target
      BY <1>1, <3>1, <3>2, <3>3 DEF DeliveryState
    <3>5. QED
      BY <1>1, <3>4
  <2>2. CASE OpenComment(s) \/ OpenTransition(s) \/ MoveIssue(s) \/ SyncDies(s)
    <3>1. state' = state \/ state' = Flushed(s)
      BY <2>2 DEF OpenComment, OpenTransition, MoveIssue, SyncDies
    <3>2. QED
      BY <1>1, <1>3, <3>1
  <2>3. QED
    BY <2>1, <2>2
<1>7. issue.comments <= issue'.comments /\ issue'.comments <= 1
  BY <1>1, <1>2
<1>8. QED
  BY <1>1, <1>2, <1>4, <1>5, <1>6, <1>7, SyncStep

\* Every step keeps SyncInv.
LEMMA SyncNext ==
  ASSUME SyncInv, [JiraNext]_jiraVars
  PROVE  SyncInv'
<1>1. ASSUME NEW h \in Hooks,
             (\E i \in Ids : Receive(h, i)) \/ Process(h) \/ Reject(h) \/ Settled(h) \/ HookDies(h)
      PROVE  UNCHANGED deliveryVars
  BY <1>1 DEF Receive, Process, Reject, Settled, HookDies
<1>2. ASSUME NEW f \in Fields, AnswerClarification(f) PROVE UNCHANGED deliveryVars
  BY <1>2 DEF AnswerClarification
<1>3. UNCHANGED jiraVars => UNCHANGED deliveryVars
  BY DEF jiraVars, deliveryVars
<1>4. CASE RunCompletes
  BY <1>4 DEF RunCompletes, SyncInv, SyncTypeOK, OneStatusComment, CompletedIsVisible,
     CompletedAfterRun, SyncFits
<1>5. QED
  BY <1>1, <1>2, <1>3, <1>4, BeginSteps, SayStep, OpenSteps, SyncRests DEF JiraNext

\* Without one of the three weighty fields the score stays under the threshold.
LEMMA ReadyIs ==
  ASSUME NEW fields \in SUBSET Fields, Ready(fields)
  PROVE  {"description", "acceptance_criteria", "repositories"} \subseteq fields
  BY DEF Ready, ReadyAt, Score, Weight, Fields

\* IntakeInv and SyncInv hold in every state.
THEOREM JiraInvariant == JiraSpec => [](IntakeInv /\ SyncInv)
<1>1. JiraInit => IntakeInv /\ SyncInv
  <2> SUFFICES ASSUME JiraInit PROVE IntakeInv /\ SyncInv
    OBVIOUS
  <2>1. IntakeInv
    BY RestingIs DEF JiraInit, IntakeInv, IntakeTypeOK, WebhookAppliedOnce, MissingIsAsked,
       HooksFit, Clarification, Delivery
  <2>2. state \in DeliveryState /\ state.status = "INGESTED"
    BY DEF JiraInit, DeliveryState
  <2>3. issue \in Issue /\ issue.comments = 0
    BY DEF JiraInit, Issue
  <2>4. /\ ops \in [{"comment", "transition"} -> [Targets -> Operation]]
        /\ \A t \in Targets : ops["comment"][t] = "absent"
    BY DEF JiraInit, Operation
  <2>5. SyncInv
    BY <2>2, <2>3, <2>4, RestingIs DEF JiraInit, SyncInv, SyncTypeOK, OneStatusComment,
       CompletedIsVisible, CompletedAfterRun, SyncFits
  <2>6. QED
    BY <2>1, <2>5
<1>2. (IntakeInv /\ SyncInv) /\ [JiraNext]_jiraVars => (IntakeInv /\ SyncInv)'
  BY IntakeNext, SyncNext
<1>3. QED
  BY <1>1, <1>2, PTL DEF JiraSpec

\* For any deliveries, webhook processes, contracts and bounds, one synchronisation at a
\* time: a delivery takes effect once, every missing field is asked for, a run is created
\* only for a task that says what, where and when it is accepted, there is one status
\* comment, and completion is reported only of a completed run (JiraService,
\* TaskIntakeService, JiraOrchestrationService).
THEOREM IssueIsFollowed == JiraSpec => IssueFollowsTask
<1>1. IntakeInv /\ SyncInv =>
        /\ JiraTypeOK /\ WebhookAppliedOnce /\ MissingIsAsked /\ OneStatusComment
        /\ CompletedIsVisible /\ CompletedAfterRun
  BY DEF IntakeInv, SyncInv, IntakeTypeOK, SyncTypeOK, JiraTypeOK
<1>2. IntakeInv /\ [JiraNext]_jiraVars =>
        [jiraRun = "none" /\ jiraRun' # "none" =>
           {"description", "acceptance_criteria", "repositories"} \subseteq contract]_jiraVars
  <2> SUFFICES ASSUME IntakeInv, JiraNext, jiraRun = "none", jiraRun' # "none"
               PROVE  {"description", "acceptance_criteria", "repositories"} \subseteq contract
    BY DEF jiraVars
  <2>1. PICK s \in Syncs : Orchestrate(s)
    BY DEF JiraNext, AnswerClarification, Receive, Process, Reject, Settled, HookDies,
       Finalize, OpenComment, SayStatus, OpenTransition, MoveIssue, Synchronized, SyncDies,
       RunCompletes, deliveryVars
  <2>2. contract # NoIssue /\ Ready(contract)
    BY <2>1 DEF Orchestrate
  <2>3. contract \subseteq Fields
    BY <2>2 DEF IntakeInv, IntakeTypeOK
  <2>4. QED
    BY <2>2, <2>3, ReadyIs
<1>3. QED
  BY <1>1, <1>2, JiraInvariant, PTL DEF JiraSpec, IssueFollowsTask, RunNeedsContract
=============================================================================
