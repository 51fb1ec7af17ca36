--------------------------- MODULE ServicesProofs ---------------------------
(***************************************************************************)
(* Proofs about AgentApproval, SnapshotHandoff and Traceability, for any   *)
(* sets of agents, contents, peers, subtasks, sessions and records and any *)
(* bounds.  The services read rows and commit later; the inductive         *)
(* invariants say what of a read still holds at the commit (SubmitsKnow,   *)
(* PeersKnow, SessionSound).  The rows that a CHOOSE finds exist because a *)
(* set of naturals has a least member, and a greatest one if it is bounded. *)
(***************************************************************************)
EXTENDS AgentApproval, SnapshotHandoff, Traceability, SequenceTheorems,
        FiniteSetTheorems, WellFoundedInduction, TLAPS

\* The order of the naturals as a relation.
Below == {p \in Nat \X Nat : p[1] < p[2]}
\* The order of the naturals is well founded.
LEMMA BelowWF == IsWellFoundedOn(Below, Nat)
BY NatLessThanWellFounded DEF OpToRel, Below

\* A set of naturals that is not empty has a least member,
LEMMA LeastExists ==
  ASSUME NEW T \in SUBSET Nat, T # {}
  PROVE  \E x \in T : \A y \in T : x <= y
<1>1. PICK u \in T : \A v \in T : ~ (<<v, u>> \in Below)
  BY BelowWF, WFMin
<1>2. ASSUME NEW v \in T, v < u PROVE FALSE
  <2>1. v \in Nat /\ u \in Nat
    OBVIOUS
  <2>2. <<v, u>> \in Below
    BY <1>2, <2>1 DEF Below
  <2> QED BY <1>1, <2>2
<1>3. ASSUME NEW v \in T PROVE u <= v
  <2>1. v \in Nat /\ u \in Nat
    OBVIOUS
  <2> QED BY <1>2, <2>1
<1> QED BY <1>3

\* and a greatest one if it is bounded.
LEMMA GreatestExists ==
  ASSUME NEW n \in Nat, NEW T \in SUBSET (0 .. n), T # {}
  PROVE  \E x \in T : \A y \in T : y <= x
<1> DEFINE U == {n - t : t \in T}
<1>1. U \in SUBSET Nat /\ U # {}
  <2>1. ASSUME NEW t \in T PROVE n - t \in Nat
    BY SMT
  <2>2. PICK t \in T : TRUE
    OBVIOUS
  <2>3. n - t \in U
    OBVIOUS
  <2> QED BY <2>1, <2>3
<1>2. PICK u \in U : \A v \in U : u <= v
  BY <1>1, LeastExists
<1>3. PICK x \in T : u = n - x
  OBVIOUS
<1>4. ASSUME NEW y \in T PROVE y <= x
  <2>1. n - y \in U /\ n - x <= n - y
     BY <1>2, <1>3
  <2>2. x \in Nat /\ y \in Nat
     OBVIOUS
  <2> QED BY <2>1, <2>2
<1> QED BY <1>4

-----------------------------------------------------------------------------
(* The approval gate                                                       *)

\* Rows of the submissions and of the step.
Submits == [pc: {"idle", "await", "recover"} \cup Results,
            content: Contents \cup {NoContent}, approval: Nat]
Steps == [status: StepStatuses, approval: Nat, recovered: BOOLEAN]

\* No request was made for a plan that does not exist yet.
RequestsDated == \A i \in DOMAIN approvals : approvals[i].plan <= plan
\* A submission under way knows its content, and the request it will wait for.
SubmitKnows(x) == /\ x.pc \in Results => x.content \in Contents
                  /\ x.pc = "await" => x.approval \in DOMAIN approvals
SubmitsKnow == \A h \in Agents : SubmitKnows(agent[h])
\* A waiting step is bound to a row, and a failed one has no recovery under way.
StepBound == /\ Awaiting => step.approval \in DOMAIN approvals
             /\ step.status = "FAILED" => ~step.recovered

GateInv == /\ GateTypeOK /\ RequestsDated /\ SubmitsKnow /\ StepBound
           /\ OneOpenRequest /\ RecoveryIsBudgeted

\* The requests are numbered from 1 and each is a row of approvals.
LEMMA RowsAre ==
  ASSUME GateTypeOK
  PROVE  /\ DOMAIN approvals = 1 .. Len(approvals) /\ Len(approvals) \in Nat
         /\ \A i \in DOMAIN approvals : approvals[i] \in Approvals
BY DEF GateTypeOK

\* _pending_or_approved finds a request that matches and has not lapsed, if there
\* is one.
LEMMA StandingIs ==
  ASSUME GateTypeOK, NEW content
  PROVE  LET live == {i \in Matching(content) : ~approvals[i].lapsed}
         IN  /\ Standing(content) = 0 <=> live = {}
             /\ Standing(content) # 0 => Standing(content) \in live
<1> DEFINE live == {i \in Matching(content) : ~approvals[i].lapsed}
<1>1. live \in SUBSET (0 .. Len(approvals)) /\ 0 \notin live
  BY RowsAre DEF Matching
<1>2. CASE live = {}
  BY <1>2 DEF Standing
<1>3. CASE live # {}
  <2>1. \E x \in live : \A y \in live : y <= x
    BY <1>1, <1>3, RowsAre, GreatestExists
  <2> DEFINE top == CHOOSE i \in live : \A j \in live : j <= i
  <2>2. top \in live
    BY <2>1
  <2>3. Standing(content) = top
    BY <1>3 DEF Standing
  <2> HIDE DEF top
  <2> QED
    BY <1>1, <2>2, <2>3
<1> QED
  BY <1>2, <1>3

\* A row that is edited in place.
\* A decision, a lapse or a superseding of one request opens no other one.
LEMMA EditKeeps ==
  ASSUME GateInv, NEW i \in DOMAIN approvals,
         NEW x \in Approvals, x.content = approvals[i].content, x.plan = approvals[i].plan,
         x.status = "PENDING" /\ ~x.lapsed =>
           approvals[i].status = "PENDING" /\ ~approvals[i].lapsed,
         approvals' = [approvals EXCEPT ![i] = x], plan' = plan
  PROVE  /\ approvals' \in Seq(Approvals) /\ DOMAIN approvals' = DOMAIN approvals
         /\ RequestsDated' /\ OneOpenRequest'
<1>1. approvals' \in Seq(Approvals) /\ DOMAIN approvals' = DOMAIN approvals
  BY RowsAre DEF GateInv, GateTypeOK
<1>2. \A j \in DOMAIN approvals : approvals'[j] = IF j = i THEN x ELSE approvals[j]
  BY DEF GateInv
<1>3. RequestsDated'
  BY <1>1, <1>2 DEF GateInv, RequestsDated
<1>4. OneOpenRequest'
  BY <1>1, <1>2 DEF GateInv, OneOpenRequest
<1> QED
  BY <1>1, <1>3, <1>4

\* The rows request_approval leaves.
\* A request is inserted only where none stands for its content and plan.
LEMMA RequestKeeps ==
  ASSUME GateInv, NEW content \in Contents, approvals' = Requested(content),
         plan' = plan
  PROVE  /\ approvals' \in Seq(Approvals) /\ DOMAIN approvals \subseteq DOMAIN approvals'
         /\ RequestsDated' /\ OneOpenRequest'
         /\ Standing(content) # 0 => Standing(content) \in DOMAIN approvals'
         /\ Standing(content) = 0 => Len(approvals) + 1 \in DOMAIN approvals'
<1>0. GateTypeOK
  BY DEF GateInv
<1>1. CASE Standing(content) # 0
  <2>1. approvals' = approvals
    BY <1>1 DEF Requested
  <2>2. Standing(content) \in DOMAIN approvals
    BY <1>0, <1>1, StandingIs DEF Matching
  <2> QED
    BY <1>1, <2>1, <2>2 DEF GateInv, GateTypeOK, RequestsDated, OneOpenRequest
<1>2. CASE Standing(content) = 0
  <2> DEFINE n == Len(approvals)
             old == [i \in DOMAIN approvals |->
                 IF /\ i \in Matching(content)
                    /\ approvals[i].status \in {"PENDING", "APPROVED"}
                 THEN [approvals[i] EXCEPT !.status = "EXPIRED"]
                 ELSE approvals[i]]
             new == [content |-> content, plan |-> plan, status |-> "PENDING",
                     lapsed |-> FALSE]
  <2>1. approvals' = Append(old, new)
    BY <1>2 DEF Requested
  <2>2. n \in Nat /\ DOMAIN approvals = 1 .. n
    BY <1>0, RowsAre
  <2>3. \A i \in DOMAIN approvals :
          /\ old[i] \in Approvals
          /\ old[i].content = approvals[i].content
          /\ old[i].plan = approvals[i].plan
          /\ old[i].lapsed = approvals[i].lapsed
          /\ old[i].status = "PENDING" => approvals[i].status = "PENDING"
    <3> SUFFICES ASSUME NEW i \in DOMAIN approvals
                 PROVE  /\ old[i] \in Approvals
                        /\ old[i].content = approvals[i].content
                        /\ old[i].plan = approvals[i].plan
                        /\ old[i].lapsed = approvals[i].lapsed
                        /\ old[i].status = "PENDING" => approvals[i].status = "PENDING"
      OBVIOUS
    <3>1. approvals[i] \in Approvals
      BY <1>0, RowsAre
    <3>2. old[i] \in {approvals[i], [approvals[i] EXCEPT !.status = "EXPIRED"]}
      OBVIOUS
    <3> HIDE DEF old
    <3> QED
      BY <3>1, <3>2 DEF Approvals, ApprovalStatuses
  <2>4. new \in Approvals
    BY <1>0 DEF Approvals, ApprovalStatuses, GateTypeOK
  <2>5. old \in [1 .. n -> Approvals]
    BY <2>2, <2>3
  <2>6. old \in Seq(Approvals) /\ Len(old) = n
    BY <2>2, <2>5
  <2> HIDE DEF old, new
  <2>7. /\ approvals' \in Seq(Approvals) /\ DOMAIN approvals' = 1 .. n + 1
        /\ approvals'[n + 1] = new
        /\ \A i \in 1 .. n : approvals'[i] = old[i]
    BY <2>1, <2>2, <2>4, <2>6
  <2>8. \A i \in 1 .. n : approvals[i].content = content /\ approvals[i].plan = plan
                            => approvals[i].lapsed
    BY <1>0, <1>2, <2>2, StandingIs DEF Matching
  <2>9. new.content = content /\ new.plan = plan /\ new.status = "PENDING" /\ ~new.lapsed
    BY DEF new
  <2>10. RequestsDated'
    <3>1. \A i \in 1 .. n : approvals'[i].plan <= plan
      BY <2>2, <2>3, <2>7 DEF GateInv, RequestsDated
    <3>2. approvals'[n + 1].plan <= plan
      BY <1>0, <2>7, <2>9 DEF GateTypeOK
    <3> QED
      BY <2>2, <2>7, <3>1, <3>2 DEF RequestsDated
  <2>11. OneOpenRequest'
    <3> SUFFICES ASSUME NEW i \in 1 .. n + 1, NEW j \in 1 .. n + 1,
                   approvals'[i].content = approvals'[j].content,
                   approvals'[i].plan = approvals'[j].plan,
                   approvals'[i].status = "PENDING", approvals'[j].status = "PENDING",
                   ~approvals'[i].lapsed, ~approvals'[j].lapsed
                 PROVE i = j
      BY <2>7 DEF OneOpenRequest
    <3>1. CASE i \in 1 .. n /\ j \in 1 .. n
      BY <2>2, <2>3, <2>7, <3>1 DEF GateInv, OneOpenRequest
    <3>2. CASE i \in 1 .. n /\ j = n + 1
      BY <2>2, <2>3, <2>7, <2>8, <2>9, <3>2
    <3>3. CASE j \in 1 .. n /\ i = n + 1
      BY <2>2, <2>3, <2>7, <2>8, <2>9, <3>3
    <3> QED
      BY <2>2, <3>1, <3>2, <3>3
  <2> QED
    BY <1>2, <2>2, <2>7, <2>10, <2>11
<1> QED
  BY <1>1, <1>2

\* A step that leaves the requests and the plan alone.
\* A step that changes no request is left to show of the step, the submissions and
\* the counters.
LEMMA RowsAlone ==
  ASSUME GateInv, UNCHANGED <<plan, approvals>>,
         step' \in Steps, StepBound', RecoveryIsBudgeted',
         agent' \in [Agents -> Submits], SubmitsKnow',
         attempts' \in Nat, retries' \in Nat, cutoffs' \in Nat
  PROVE  GateInv'
BY DEF GateInv, GateTypeOK, RequestsDated, OneOpenRequest, Steps, Submits

\* A step that edits a request in place.
\* A step that edits one request and nothing else preserves the invariant.
LEMMA RowsEdited ==
  ASSUME GateInv, UNCHANGED <<plan, step, agent, attempts, retries, cutoffs>>,
         NEW i \in DOMAIN approvals, NEW x \in Approvals,
         x.content = approvals[i].content, x.plan = approvals[i].plan,
         x.status = "PENDING" /\ ~x.lapsed =>
           approvals[i].status = "PENDING" /\ ~approvals[i].lapsed,
         approvals' = [approvals EXCEPT ![i] = x]
  PROVE  GateInv'
<1>1. /\ approvals' \in Seq(Approvals) /\ DOMAIN approvals' = DOMAIN approvals
      /\ RequestsDated' /\ OneOpenRequest'
  BY EditKeeps
<1>2. GateTypeOK' /\ SubmitsKnow' /\ StepBound' /\ RecoveryIsBudgeted'
  BY <1>1 DEF GateInv, GateTypeOK, SubmitsKnow, SubmitKnows, StepBound,
     Awaiting, RecoveryIsBudgeted
<1> QED
  BY <1>1, <1>2 DEF GateInv

\* Decisions, lapses and the SUPERSEDED mark.
\* Decisions, lapses and the superseding of an outdated request.
LEMMA EditSteps ==
  ASSUME GateInv,
         \/ \E i \in DOMAIN approvals : Decide(i) \/ Lapse(i)
         \/ \E h \in Agents : SubmitOutdated(h)
  PROVE  GateInv'
<1>1. \A i \in DOMAIN approvals : approvals[i] \in Approvals
  BY RowsAre DEF GateInv
<1>2. ASSUME NEW i \in DOMAIN approvals, Decide(i) PROVE GateInv'
  <2>1. PICK s \in {"EXPIRED", "APPROVED", "REJECTED"} :
          approvals' = [approvals EXCEPT ![i] = [approvals[i] EXCEPT !.status = s]]
    BY <1>2 DEF Decide
  <2> DEFINE x == [approvals[i] EXCEPT !.status = s]
  <2>2. /\ x \in Approvals /\ x.content = approvals[i].content
        /\ x.plan = approvals[i].plan /\ x.status # "PENDING"
    BY <1>1 DEF Approvals, ApprovalStatuses
  <2>3. UNCHANGED <<plan, step, agent, attempts, retries, cutoffs>>
    BY <1>2 DEF Decide
  <2> HIDE DEF x
  <2> QED
    BY <2>1, <2>2, <2>3, RowsEdited DEF x
<1>3. ASSUME NEW i \in DOMAIN approvals, Lapse(i) PROVE GateInv'
  <2> DEFINE x == [approvals[i] EXCEPT !.lapsed = TRUE]
  <2>1. approvals' = [approvals EXCEPT ![i] = x]
    BY <1>3 DEF Lapse
  <2>2. /\ x \in Approvals /\ x.content = approvals[i].content
        /\ x.plan = approvals[i].plan /\ x.lapsed
    BY <1>1 DEF Approvals
  <2>3. UNCHANGED <<plan, step, agent, attempts, retries, cutoffs>>
    BY <1>3 DEF Lapse
  <2> HIDE DEF x
  <2> QED
    BY <2>1, <2>2, <2>3, RowsEdited
<1>4. ASSUME NEW h \in Agents, SubmitOutdated(h) PROVE GateInv'
  <2> DEFINE i == step.approval
             x == [approvals[i] EXCEPT !.status = "SUPERSEDED"]
  <2>0. i \in DOMAIN approvals
    BY <1>4 DEF SubmitOutdated, GateInv, StepBound
  <2>1. approvals' = [approvals EXCEPT ![i] = x]
    BY <1>4 DEF SubmitOutdated
  <2>2. /\ x \in Approvals /\ x.content = approvals[i].content
        /\ x.plan = approvals[i].plan /\ x.status # "PENDING"
    BY <1>1, <2>0 DEF Approvals, ApprovalStatuses
  <2>3. UNCHANGED <<plan, step, agent, attempts, retries, cutoffs>>
    BY <1>4 DEF SubmitOutdated
  <2> HIDE DEF x, i
  <2> QED
    BY <2>0, <2>1, <2>2, <2>3, RowsEdited
<1> QED
  BY <1>2, <1>3, <1>4

\* The commits of submit, by the agent h.
\* The commits of submit that make no request.
LEMMA SubmitSteps ==
  ASSUME GateInv, NEW h \in Agents,
         \/ SubmitRejected(h)
         \/ \E kind \in Results, content \in Contents : SubmitResult(h, kind, content)
         \/ CommitAwait(h) \/ CommitComplete(h) \/ CommitFail(h)
         \/ CommitRecover(h) \/ Crash(h)
  PROVE  GateInv'
<1> USE DEF GateInv, GateTypeOK
<1>0. /\ step \in Steps /\ agent \in [Agents -> Submits] /\ agent[h] \in Submits
      /\ SubmitKnows(agent[h]) /\ NoSubmit \in Submits
  BY DEF Steps, Submits, SubmitsKnow, NoSubmit
<1>1. ASSUME NEW x \in Submits, agent' = [agent EXCEPT ![h] = x],
             x.pc \in Results => x.content \in Contents, x.pc # "await",
             UNCHANGED approvals
      PROVE  agent' \in [Agents -> Submits] /\ SubmitsKnow'
  BY <1>0, <1>1 DEF SubmitsKnow, SubmitKnows
<1>2. NoSubmit.pc = "idle" /\ "idle" \notin Results
  BY DEF NoSubmit, Results
<1>3. CASE SubmitRejected(h)
  <2>1. step' \in Steps /\ StepBound' /\ RecoveryIsBudgeted'
    BY <1>3 DEF SubmitRejected, Failed, Steps, StepStatuses, StepBound, Awaiting,
       RecoveryIsBudgeted
  <2> QED
    BY <1>0, <1>3, <2>1, RowsAlone DEF SubmitRejected, SubmitsKnow, SubmitKnows
<1>4. ASSUME NEW kind \in Results, NEW content \in Contents,
             SubmitResult(h, kind, content)
      PROVE  GateInv'
  <2> DEFINE x == [pc |-> kind, content |-> content, approval |-> 0]
  <2>1. x \in Submits /\ x.content \in Contents /\ x.pc # "await"
    BY DEF Submits, Results
  <2>2. agent' = [agent EXCEPT ![h] = x]
    BY <1>4 DEF SubmitResult
  <2>3. UNCHANGED <<plan, approvals, step, attempts, retries, cutoffs>>
    BY <1>4 DEF SubmitResult
  <2> HIDE DEF x
  <2>4. agent' \in [Agents -> Submits] /\ SubmitsKnow'
    BY <1>1, <2>1, <2>2, <2>3
  <2>5. StepBound' /\ RecoveryIsBudgeted'
    BY <2>3 DEF StepBound, Awaiting, RecoveryIsBudgeted
  <2> QED
    BY <1>0, <2>3, <2>4, <2>5, RowsAlone
<1>5. CASE CommitAwait(h)
  <2>1. step' \in Steps /\ StepBound' /\ RecoveryIsBudgeted'
    <3>1. agent[h].approval \in DOMAIN approvals /\ agent[h].approval \in Nat
      BY <1>0, <1>5 DEF CommitAwait, SubmitKnows, Submits
    <3>2. CASE step' = step
      BY <1>0, <1>5, <3>2 DEF CommitAwait, StepBound, Awaiting, RecoveryIsBudgeted
    <3>3. CASE step' = Awaited(agent[h].approval)
      BY <1>5, <3>1, <3>3 DEF CommitAwait, Awaited, Steps, StepStatuses, StepBound,
         Awaiting, RecoveryIsBudgeted
    <3> QED
      BY <1>5, <3>2, <3>3 DEF CommitAwait
  <2>2. agent' \in [Agents -> Submits] /\ SubmitsKnow'
    BY <1>0, <1>1, <1>2, <1>5 DEF CommitAwait
  <2> QED
    BY <1>5, <2>1, <2>2, RowsAlone DEF CommitAwait
<1>6. CASE CommitComplete(h)
  <2>1. step' \in Steps /\ StepBound' /\ RecoveryIsBudgeted'
    BY <1>0, <1>6 DEF CommitComplete, Steps, StepStatuses, StepBound, Awaiting,
       RecoveryIsBudgeted
  <2>2. agent' \in [Agents -> Submits] /\ SubmitsKnow'
    BY <1>0, <1>1, <1>2, <1>6 DEF CommitComplete
  <2> QED
    BY <1>6, <2>1, <2>2, RowsAlone DEF CommitComplete
<1>7. CASE CommitFail(h)
  <2>1. step' \in Steps /\ StepBound' /\ RecoveryIsBudgeted'
    BY <1>7 DEF CommitFail, Failed, Steps, StepStatuses, StepBound, Awaiting,
       RecoveryIsBudgeted
  <2> DEFINE x == [agent[h] EXCEPT !.pc = "recover"]
  <2>2. x \in Submits /\ x.pc = "recover"
    BY <1>0 DEF Submits
  <2>3. agent' = [agent EXCEPT ![h] = x]
    BY <1>7 DEF CommitFail
  <2> HIDE DEF x
  <2>4. agent' \in [Agents -> Submits] /\ SubmitsKnow'
    BY <1>1, <1>7, <2>2, <2>3 DEF CommitFail, Results
  <2> QED
    BY <1>7, <2>1, <2>4, RowsAlone DEF CommitFail
<1>8. CASE CommitRecover(h)
  <2>1. /\ step' \in Steps /\ StepBound' /\ RecoveryIsBudgeted'
        /\ attempts' \in Nat
    <3>1. CASE step.status # "FAILED"
      BY <1>0, <1>8, <3>1 DEF CommitRecover, StepBound, Awaiting, RecoveryIsBudgeted
    <3>2. CASE step.status = "FAILED" /\ step' = step
      BY <1>0, <1>8, <3>2 DEF CommitRecover, StepBound, Awaiting, RecoveryIsBudgeted
    <3>3. CASE /\ step.status = "FAILED" /\ Recovers
               /\ step' = [status |-> "PENDING", approval |-> 0, recovered |-> TRUE]
      BY <1>8, <3>3, GateAssumption DEF CommitRecover, Recovers, Steps, StepStatuses,
         StepBound, Awaiting, RecoveryIsBudgeted
    <3> QED
      BY <1>8, <3>1, <3>2, <3>3 DEF CommitRecover
  <2>2. agent' \in [Agents -> Submits] /\ SubmitsKnow'
    BY <1>0, <1>1, <1>2, <1>8 DEF CommitRecover
  <2> QED
    BY <1>8, <2>1, <2>2, RowsAlone DEF CommitRecover
<1>9. CASE Crash(h)
  <2>1. agent' \in [Agents -> Submits] /\ SubmitsKnow'
    BY <1>0, <1>1, <1>2, <1>9 DEF Crash
  <2>2. step' \in Steps /\ StepBound' /\ RecoveryIsBudgeted' /\ cutoffs' \in Nat
    BY <1>0, <1>9 DEF Crash, StepBound, Awaiting, RecoveryIsBudgeted
  <2> QED
    BY <1>9, <2>1, <2>2, RowsAlone DEF Crash
<1> QED
  BY <1>3, <1>4, <1>5, <1>6, <1>7, <1>8, <1>9

\* The commit of submit that makes a request, or finds the one that stands.
LEMMA RequestStep ==
  ASSUME GateInv, NEW h \in Agents, CommitRequest(h)
  PROVE  GateInv'
<1> USE DEF GateInv, GateTypeOK
<1> DEFINE content == agent[h].content
           found == Standing(content)
           x == [agent[h] EXCEPT !.pc = "await",
                   !.approval = IF found # 0 THEN found ELSE Len(approvals) + 1]
<1>1. /\ agent \in [Agents -> Submits] /\ agent[h] \in Submits
      /\ content \in Contents
  BY DEF Submits, SubmitsKnow, SubmitKnows, CommitRequest, Results
<1>2. /\ approvals' = Requested(content) /\ agent' = [agent EXCEPT ![h] = x]
      /\ UNCHANGED <<plan, step, attempts, retries, cutoffs>>
  BY DEF CommitRequest
<1>3. /\ approvals' \in Seq(Approvals) /\ DOMAIN approvals \subseteq DOMAIN approvals'
      /\ RequestsDated' /\ OneOpenRequest'
      /\ found # 0 => found \in DOMAIN approvals'
      /\ found = 0 => Len(approvals) + 1 \in DOMAIN approvals'
  BY <1>1, <1>2, RequestKeeps
<1>4. x.approval \in DOMAIN approvals' /\ x.approval \in Nat
  <2>1. x.approval = IF found # 0 THEN found ELSE Len(approvals) + 1
    BY <1>1 DEF Submits
  <2>2. DOMAIN approvals' \subseteq Nat
    BY <1>3
  <2> QED
    BY <1>3, <2>1, <2>2
<1>5. x \in Submits /\ x.pc = "await"
  BY <1>1, <1>4 DEF Submits
<1> HIDE DEF x
<1>6. GateTypeOK'
  BY <1>1, <1>2, <1>3, <1>5 DEF Submits
<1>7. SubmitsKnow'
  BY <1>1, <1>2, <1>3, <1>4, <1>5 DEF SubmitsKnow, SubmitKnows, Results
<1>8. StepBound' /\ RecoveryIsBudgeted'
  BY <1>2, <1>3 DEF StepBound, Awaiting, RecoveryIsBudgeted
<1> QED
  BY <1>3, <1>6, <1>7, <1>8

\* GateInv holds in every state, for any number of agents that submit at once.
THEOREM GateInvariant == GateSpec => []GateInv
<1>1. GateInit => GateInv
  BY DEF GateInit, GateInv, GateTypeOK, RequestsDated, SubmitsKnow, SubmitKnows,
     StepBound, Awaiting, OneOpenRequest, RecoveryIsBudgeted, NoSubmit, StepStatuses,
     Results
<1>2. GateInv /\ [GateNext]_gateVars => GateInv'
  <2> SUFFICES ASSUME GateInv, [GateNext]_gateVars PROVE GateInv'
    OBVIOUS
  <2>1. CASE UNCHANGED gateVars
    BY <2>1 DEF gateVars, GateInv, GateTypeOK, RequestsDated, SubmitsKnow,
       SubmitKnows, StepBound, Awaiting, OneOpenRequest, RecoveryIsBudgeted
  <2>2. CASE Revise
    <3>1. /\ plan \in Nat /\ plan' = plan + 1
          /\ UNCHANGED <<approvals, step, agent, attempts, retries, cutoffs>>
      BY <2>2 DEF Revise, GateInv, GateTypeOK
    <3>2. \A i \in DOMAIN approvals : approvals[i].plan \in Nat
      BY RowsAre DEF GateInv, Approvals
    <3>3. RequestsDated'
      BY <3>1, <3>2 DEF GateInv, RequestsDated
    <3>4. GateTypeOK'
      BY <3>1 DEF GateInv, GateTypeOK
    <3> QED
      BY <3>1, <3>3, <3>4 DEF GateInv, SubmitsKnow, SubmitKnows, StepBound, Awaiting,
         OneOpenRequest, RecoveryIsBudgeted
  <2>3. CASE RetryStep
    BY <2>3 DEF RetryStep, GateInv, GateTypeOK, RequestsDated, SubmitsKnow,
       SubmitKnows, StepBound, Awaiting, OneOpenRequest, RecoveryIsBudgeted,
       StepStatuses
  <2> QED
    BY <2>1, <2>2, <2>3, EditSteps, SubmitSteps, RequestStep DEF GateNext
<1> QED
  BY <1>1, <1>2, PTL DEF GateSpec

\* A waiting step is bound to a recorded request that was made for no later plan, a
\* submission repeated after a cut-off opens no second request, and recoveries keep
\* their budget: for any agents, contents, plans and bounds, however submissions,
\* decisions, lapses, revisions and cut-offs interleave (ExternalAgentService.submit).
THEOREM GateHolds == GateSpec => []ApprovalGateHolds
<1>1. GateInv => ApprovalGateHolds
  BY DEF GateInv, ApprovalGateHolds, AwaitingIsBound, StepBound, RequestsDated, Bound
<1> QED
  BY <1>1, GateInvariant, PTL

\* The step does not wait for a request that is undecided or rejected.
Decided == ~ (Awaiting /\ Bound.status \in {"PENDING", "REJECTED"})

\* A completion was let through the gate.
CompletesDecided == \A h \in Agents : agent[h].pc = "COMPLETED" => Decided

\* With one agent that submits, as the run of TLC has, a waiting step never completes
\* on a request that is undecided or rejected.  The test of the status and the commit
\* of the step are two steps of submit; what keeps the answer from changing in between
\* is that only submissions bind the step to another request: see CompletesDecided.
THEOREM GateDecides ==
  ASSUME NEW h, Agents = {h}
  PROVE  GateSpec => UndecidedNeverAuthorizes
<1>1. GateInit => CompletesDecided
  BY DEF GateInit, CompletesDecided, NoSubmit
<1>2. GateInv /\ CompletesDecided /\ [GateNext]_gateVars => CompletesDecided'
  <2> SUFFICES ASSUME GateInv, CompletesDecided, [GateNext]_gateVars,
                      agent'[h].pc = "COMPLETED"
               PROVE  Decided'
    BY DEF CompletesDecided
  <2> USE DEF GateInv, GateTypeOK
  <2>0. \A i \in DOMAIN approvals : approvals[i] \in Approvals
    BY RowsAre
  <2>1. CASE agent[h].pc = "COMPLETED"
    <3>1. Decided
      BY <2>1 DEF CompletesDecided
    <3>2. ASSUME NEW i \in DOMAIN approvals, Decide(i) PROVE Decided'
      BY <2>0, <3>1, <3>2 DEF Decide, Decided, Awaiting, Bound, StepBound, Approvals
    <3>3. ASSUME NEW i \in DOMAIN approvals, Lapse(i) PROVE Decided'
      BY <2>0, <3>1, <3>3 DEF Lapse, Decided, Awaiting, Bound, StepBound, Approvals
    <3>4. CASE Revise \/ RetryStep \/ UNCHANGED gateVars
      BY <3>1, <3>4 DEF Revise, RetryStep, gateVars, Decided, Awaiting, Bound
    <3>5. CASE CommitComplete(h) \/ Crash(h)
      BY <3>5 DEF CommitComplete, Crash, NoSubmit
    <3> QED
      BY <2>1, <3>2, <3>3, <3>4, <3>5 DEF GateNext, SubmitRejected, SubmitOutdated,
         SubmitResult, CommitRequest, CommitAwait, CommitFail, CommitRecover
  <2>2. CASE agent[h].pc # "COMPLETED"
    <3>1. PICK content \in Contents, kind \in Results : SubmitResult(h, kind, content)
      BY <2>2 DEF GateNext, gateVars, Decide, Lapse, Revise, RetryStep, SubmitRejected,
         SubmitOutdated, CommitRequest, CommitAwait, CommitFail, CommitComplete,
         CommitRecover, Crash, NoSubmit
    <3> QED
      BY <3>1 DEF SubmitResult, PassesGate, Decided, Awaiting, Bound
  <2> QED
    BY <2>1, <2>2
<1>3. GateInv /\ CompletesDecided /\ [GateNext]_gateVars
        => [Awaiting /\ step'.status = "COMPLETED"
            => Bound.status \notin {"PENDING", "REJECTED"}]_gateVars
  <2> SUFFICES ASSUME GateInv, CompletesDecided, GateNext,
                      Awaiting, step'.status = "COMPLETED"
               PROVE  Bound.status \notin {"PENDING", "REJECTED"}
    BY DEF gateVars
  <2>1. agent[h].pc = "COMPLETED"
    BY DEF GateInv, GateTypeOK, GateNext, gateVars, Decide, Lapse, Revise, RetryStep,
       SubmitRejected, SubmitOutdated, SubmitResult, CommitRequest, CommitAwait, CommitFail,
       CommitComplete, CommitRecover, Crash, NoSubmit, Awaiting, Failed, Awaited
  <2> QED
    BY <2>1 DEF CompletesDecided, Decided
<1> QED
  BY <1>1, <1>2, <1>3, GateInvariant, PTL DEF GateSpec, UndecidedNeverAuthorizes

-----------------------------------------------------------------------------
(* Snapshots and handoffs                                                  *)

\* Every snapshot is anchored at an event of the chain, holds no newer state, and
\* its parent is a snapshot of an earlier event.
Anchored ==
  \A s \in Taken :
    /\ snapshots[s].event <= chain.length /\ snapshots[s].state <= snapshots[s].event
    /\ snapshots[s].parent # 0 =>
         /\ snapshots[s].parent \in Taken
         /\ snapshots[snapshots[s].parent].event < snapshots[s].event

\* What a call under way has read or committed still holds of the rows.
PeerKnows(p, x) ==
  /\ x.pc = "snapshot" => x.at <= chain.length
  /\ x.pc = "accept" => handoff.status # "NONE" /\ Quorum(handoff.notes, p)
  /\ x.pc = "publish" => /\ handoff.status # "NONE"
                         /\ x.status = "ACCEPTED" => handoff.status = "ACCEPTED"
  /\ x.pc = "claim" => /\ x.token < TokenBound
                       /\ x.token = 0 <=> x.owner = NoPeer
                       /\ x.token # 0 => lease[x.task].token # 0
                       /\ x.token = 0 \/ x.live = "no" \/ x.owner = p
PeersKnow == \A p \in Peers : PeerKnows(p, peers[p])

\* A scope without a row has no owner, and one whose claims did not overlap was
\* lost under lower tokens than the present one only.
LeaseSound(row) ==
  /\ row.token = 0 <=> row.owner = NoPeer
  /\ row.token = 0 => row.live = "no"
  /\ row.overlapped = "no" => \A pair \in row.lost : pair[2] < row.token
LeasesSound == \A t \in Subtasks : LeaseSound(lease[t])

HandInv == /\ HandTypeOK /\ Anchored /\ PeersKnow /\ LeasesSound
           /\ AcceptedIndependently /\ PublishedIsCommitted

\* A peer without a call is a row of peers.
LEMMA RestingIs ==
  /\ NoNotes \in Notes /\ Resting \in Peer /\ Resting.pc = "idle"
  /\ Resting.task \in Subtasks
<1>1. NoNotes \in Notes
  BY DEF NoNotes, Notes
<1>2. (CHOOSE t \in Subtasks : TRUE) \in Subtasks
  BY HandAssumption
<1> QED
  BY <1>1, <1>2, HandAssumption DEF Resting, Peer

\* A call that reads, or dies, changes no row but that of its peer.
LEMMA CallKeeps ==
  ASSUME HandInv, UNCHANGED <<chain, snapshots, replays, handoff, cache, lease>>,
         NEW p \in Peers, NEW x \in Peer, PeerKnows(p, x),
         peers' = [peers EXCEPT ![p] = x]
  PROVE  HandInv'
<1>1. HandTypeOK'
  BY DEF HandInv, HandTypeOK
<1>2. \A q \in Peers : peers'[q] = IF q = p THEN x ELSE peers[q]
  BY DEF HandInv, HandTypeOK
<1>3. PeersKnow'
  BY <1>2 DEF HandInv, PeersKnow, PeerKnows, Quorum
<1>4. Anchored' /\ LeasesSound' /\ AcceptedIndependently' /\ PublishedIsCommitted'
  BY DEF HandInv, Anchored, Taken, LeasesSound, LeaseSound, AcceptedIndependently,
     PublishedIsCommitted
<1> QED
  BY <1>1, <1>3, <1>4 DEF HandInv

\* A peer at rest has read nothing; the creator of a handoff relies on nothing.
LEMMA IdleKnows ==
  ASSUME NEW p, NEW x, x.pc = "idle" \/ x.pc = "handoff"
  PROVE  PeerKnows(p, x)
  BY DEF PeerKnows

\* The reads of the service calls, and a death.
LEMMA ReadSteps ==
  ASSUME HandInv, NEW p \in Peers,
         \/ SnapshotRead(p) \/ AcceptRead(p) \/ PeerDies(p)
         \/ \E s \in Slots, notes \in Notes : HandoffRead(p, s, notes)
         \/ \E t \in Subtasks : ClaimRead(p, t)
  PROVE  HandInv'
<1> USE DEF HandInv
<1>0. chain \in Chain /\ chain.length \in 0 .. EventBound
  BY HandAssumption DEF HandTypeOK, Chain
<1>1. CASE SnapshotRead(p)
  <2> DEFINE x == [Resting EXCEPT !.pc = "snapshot", !.at = chain.length]
  <2>1. x \in Peer /\ x.pc = "snapshot" /\ x.at = chain.length
    BY <1>0, RestingIs DEF Peer
  <2>2. PeerKnows(p, x)
    BY <1>0, <2>1 DEF PeerKnows
  <2>3. /\ UNCHANGED <<chain, snapshots, replays, handoff, cache, lease>>
        /\ peers' = [peers EXCEPT ![p] = x]
    BY <1>1 DEF SnapshotRead, Starts
  <2> QED
    BY <2>1, <2>2, <2>3, CallKeeps
<1>2. CASE AcceptRead(p)
  <2> DEFINE x == [Resting EXCEPT !.pc = "accept"]
  <2>1. x \in Peer /\ x.pc = "accept"
    BY RestingIs DEF Peer
  <2>2. PeerKnows(p, x)
    BY <1>2, <2>1 DEF PeerKnows, AcceptRead
  <2>3. /\ UNCHANGED <<chain, snapshots, replays, handoff, cache, lease>>
        /\ peers' = [peers EXCEPT ![p] = x]
    BY <1>2 DEF AcceptRead, Starts
  <2> QED
    BY <2>1, <2>2, <2>3, CallKeeps
<1>3. CASE PeerDies(p)
  BY <1>3, RestingIs, IdleKnows, CallKeeps DEF PeerDies, Rests
<1>4. ASSUME NEW s \in Slots, NEW notes \in Notes, HandoffRead(p, s, notes)
      PROVE  HandInv'
  <2> DEFINE x == [Resting EXCEPT !.pc = "handoff", !.snapshot = s, !.notes = notes]
  <2>1. x \in Peer /\ x.pc = "handoff"
    <3>1. s \in 0 .. SnapshotBound
      BY HandAssumption DEF Slots
    <3> QED
      BY <3>1, RestingIs DEF Peer
  <2>2. PeerKnows(p, x)
    BY <2>1, IdleKnows
  <2>3. /\ UNCHANGED <<chain, snapshots, replays, handoff, cache, lease>>
        /\ peers' = [peers EXCEPT ![p] = x]
    BY <1>4 DEF HandoffRead, Starts
  <2> QED
    BY <2>1, <2>2, <2>3, CallKeeps
<1>5. ASSUME NEW t \in Subtasks, ClaimRead(p, t) PROVE HandInv'
  <2> DEFINE x == [Resting EXCEPT !.pc = "claim", !.task = t, !.owner = lease[t].owner,
                                  !.token = lease[t].token, !.live = lease[t].live]
  <2>1. lease[t] \in Lease
    BY DEF HandTypeOK
  <2>2. /\ x \in Peer /\ x.pc = "claim" /\ x.task = t /\ x.owner = lease[t].owner
        /\ x.token = lease[t].token /\ x.live = lease[t].live
    BY <2>1, RestingIs DEF Peer, Lease
  <2>3. LeaseSound(lease[t])
    BY DEF LeasesSound
  <2>4. PeerKnows(p, x)
    BY <1>5, <2>2, <2>3 DEF PeerKnows, ClaimRead, Claimable, LeaseSound
  <2>5. /\ UNCHANGED <<chain, snapshots, replays, handoff, cache, lease>>
        /\ peers' = [peers EXCEPT ![p] = x]
    BY <1>5 DEF ClaimRead, Starts
  <2> QED
    BY <2>2, <2>4, <2>5, CallKeeps
<1> QED
  BY <1>1, <1>2, <1>3, <1>4, <1>5

\* The parent that create finds is a snapshot of an earlier event: the newest one
\* exists whenever there is any.
LEMMA ParentIs ==
  ASSUME HandTypeOK, NEW event \in Nat
  PROVE  /\ Parent(event) \in 0 .. SnapshotBound
         /\ Parent(event) # 0 => /\ Parent(event) \in Taken
                                 /\ snapshots[Parent(event)].event < event
<1> DEFINE older == {s \in Taken : snapshots[s].event < event}
<1>1. \A s \in Taken : s \in 1 .. SnapshotBound /\ snapshots[s].event \in 0 .. EventBound
  BY DEF HandTypeOK, Taken, Slots, Snapshot
<1>2. CASE older = {}
  BY <1>2, HandAssumption DEF Parent
<1>3. CASE older # {}
  <2> DEFINE times == {snapshots[s].event : s \in older}
  <2>1. times \in SUBSET (0 .. EventBound) /\ times # {} /\ EventBound \in Nat
    BY <1>1, <1>3, HandAssumption
  <2>2. PICK e \in times : \A f \in times : f <= e
    BY <2>1, GreatestExists
  <2> DEFINE last == {s \in older : snapshots[s].event = e}
  <2>3. last \in SUBSET (0 .. SnapshotBound) /\ last # {} /\ SnapshotBound \in Nat
    BY <1>1, <2>2, HandAssumption
  <2>4. PICK s \in last : \A o \in last : o <= s
    BY <2>3, GreatestExists
  <2>5. ASSUME NEW o \in older
        PROVE  \/ snapshots[o].event < snapshots[s].event
               \/ snapshots[o].event = snapshots[s].event /\ o <= s
    <3>1. snapshots[o].event <= e /\ snapshots[s].event = e
      BY <2>2, <2>4
    <3>2. snapshots[o].event \in Nat /\ e \in Nat
      BY <1>1, <2>1
    <3> QED
      BY <2>4, <3>1, <3>2
  <2>6. Parent(event) \in older
    BY <1>3, <2>4, <2>5 DEF Parent
  <2> QED
    BY <1>1, <2>6
<1> QED
  BY <1>2, <1>3

\* The commit of a snapshot fills a free slot and touches no other.
LEMMA SnapshotStep ==
  ASSUME HandInv, NEW p \in Peers, SnapshotCommit(p)
  PROVE  HandInv'
<1> USE DEF HandInv
<1> DEFINE new == Content(peers[p].at, chain.length)
<1>1. /\ peers[p] \in Peer /\ peers[p].at <= chain.length
      /\ chain.length \in 1 .. EventBound /\ chain.length \in Nat
  BY HandAssumption DEF HandTypeOK, SnapshotCommit, PeersKnow, PeerKnows, Chain
<1>2. CASE UNCHANGED snapshots
  BY <1>2, RestingIs, IdleKnows, CallKeeps DEF SnapshotCommit, Rests
<1>3. ASSUME NEW s \in Slots \ Taken, snapshots' = [snapshots EXCEPT ![s] = new]
      PROVE  HandInv'
  <2>1. /\ Parent(chain.length) \in 0 .. SnapshotBound
        /\ Parent(chain.length) # 0 =>
             /\ Parent(chain.length) \in Taken
             /\ snapshots[Parent(chain.length)].event < chain.length
    BY <1>1, ParentIs
  <2>2. /\ new \in Snapshot /\ new.event = chain.length /\ new.state = peers[p].at
        /\ new.parent = Parent(chain.length)
    BY <1>1, <2>1, HandAssumption DEF Content, Snapshot, Peer
  <2> HIDE DEF new
  <2>3. /\ UNCHANGED <<chain, replays, handoff, cache, lease>>
        /\ peers' = [peers EXCEPT ![p] = Resting]
    BY DEF SnapshotCommit, Rests
  <2>4. HandTypeOK'
    BY <1>3, <2>2, <2>3, RestingIs DEF HandTypeOK
  <2>5. \A q \in Peers : peers'[q] = IF q = p THEN Resting ELSE peers[q]
    BY <2>3 DEF HandTypeOK
  <2>6. PeersKnow'
    BY <2>3, <2>5, RestingIs DEF PeersKnow, PeerKnows, Quorum
  <2>7. /\ Taken' = Taken \cup {s} /\ s \notin Taken
        /\ \A o \in Taken : snapshots'[o] = snapshots[o]
        /\ snapshots'[s] = new
    BY <1>1, <1>3, <2>2 DEF HandTypeOK, Taken
  <2>8. Anchored'
    BY <1>1, <2>1, <2>2, <2>3, <2>7 DEF Anchored
  <2>9. LeasesSound' /\ AcceptedIndependently' /\ PublishedIsCommitted'
    BY <2>3 DEF LeasesSound, LeaseSound, AcceptedIndependently, PublishedIsCommitted
  <2> QED
    BY <2>4, <2>6, <2>8, <2>9
<1> QED
  BY <1>2, <1>3 DEF SnapshotCommit

\* Events, damage to rows and replays.
LEMMA GoingSteps ==
  ASSUME HandInv, Going
  PROVE  HandInv'
<1> USE DEF HandInv
<1>0. chain \in Chain /\ chain.length \in 1 .. EventBound /\ chain.length \in Nat
  BY HandAssumption DEF HandTypeOK, Chain
<1>1. ASSUME NEW running \in {"yes", "no"}, AppendEvent(running) PROVE HandInv'
  <2>1. /\ chain' \in Chain /\ chain'.length = chain.length + 1
        /\ UNCHANGED <<snapshots, replays, handoff, cache, lease, peers>>
    <3>1. chain.length + 1 \in 1 .. EventBound
      BY <1>0, <1>1, HandAssumption DEF AppendEvent
    <3> QED
      BY <1>0, <1>1, <3>1 DEF AppendEvent, Chain
  <2>2. HandTypeOK'
    BY <2>1 DEF HandTypeOK
  <2>3. Anchored'
    <3>1. \A s \in Taken : snapshots[s].event \in Nat
      BY HandAssumption DEF HandTypeOK, Taken, Snapshot
    <3>2. ASSUME NEW n \in Nat, n <= chain.length PROVE n <= chain'.length
      BY <1>0, <2>1, <3>2
    <3>3. Taken' = Taken
      BY <2>1 DEF Taken
    <3> QED
      BY <2>1, <3>1, <3>2, <3>3 DEF Anchored
  <2>4. PeersKnow'
    <3>1. \A q \in Peers : peers[q].at \in Nat
      BY HandAssumption DEF HandTypeOK, Peer
    <3> QED
      BY <1>0, <2>1, <3>1 DEF PeersKnow, PeerKnows, Quorum
  <2>5. LeasesSound' /\ AcceptedIndependently' /\ PublishedIsCommitted'
    BY <2>1 DEF LeasesSound, LeaseSound, AcceptedIndependently, PublishedIsCommitted
  <2> QED
    BY <2>2, <2>3, <2>4, <2>5
<1>2. ASSUME NEW e \in 1 .. EventBound, Damage(e) PROVE HandInv'
  <2>1. /\ chain' \in Chain /\ chain'.length = chain.length
        /\ UNCHANGED <<snapshots, replays, handoff, cache, lease, peers>>
    BY <1>0, <1>2, HandAssumption DEF Damage, Chain
  <2> QED
    BY <2>1 DEF HandTypeOK, Anchored, Taken, PeersKnow, PeerKnows, Quorum,
       LeasesSound, LeaseSound, AcceptedIndependently, PublishedIsCommitted
<1>3. ASSUME NEW s \in Slots, Alter(s) PROVE HandInv'
  <2>1. /\ UNCHANGED <<chain, replays, handoff, cache, lease, peers>>
        /\ snapshots' \in [Slots -> Snapshot]
        /\ \A o \in Slots : /\ snapshots'[o].event = snapshots[o].event
                            /\ snapshots'[o].state = snapshots[o].state
                            /\ snapshots'[o].parent = snapshots[o].parent
    BY <1>3 DEF Alter, HandTypeOK, Snapshot
  <2>2. Taken' = Taken /\ Taken \subseteq Slots
    BY <2>1 DEF Taken
  <2>3. Anchored'
    BY <2>1, <2>2 DEF Anchored
  <2> QED
    BY <2>1, <2>3 DEF HandTypeOK, PeersKnow, PeerKnows, Quorum,
       LeasesSound, LeaseSound, AcceptedIndependently, PublishedIsCommitted
<1>4. ASSUME NEW r \in 1 .. ReplayBound, NEW s \in Slots, StartReplay(r, s)
      PROVE  HandInv'
  <2>1. s \in 0 .. SnapshotBound
    BY HandAssumption DEF Slots
  <2> QED
    BY <1>4, <2>1 DEF StartReplay, HandTypeOK, Anchored, Taken, PeersKnow, PeerKnows,
       Quorum, LeasesSound, LeaseSound, AcceptedIndependently, PublishedIsCommitted
<1> QED
  BY <1>1, <1>2, <1>3, <1>4 DEF Going

\* The commits of handoffs, which only advance the status, and their publication.
LEMMA HandoffSteps ==
  ASSUME HandInv, NEW p \in Peers, HandoffCommit(p) \/ AcceptCommit(p) \/ Publish(p)
  PROVE  HandInv'
<1> USE DEF HandInv
<1>0. /\ peers \in [Peers -> Peer] /\ peers[p] \in Peer /\ handoff \in Handoff
      /\ PeerKnows(p, peers[p])
  BY DEF HandTypeOK, PeersKnow
<1>1. ASSUME UNCHANGED <<chain, snapshots, replays, cache, lease>>,
             handoff' \in Handoff, AcceptedIndependently',
             handoff.status # "NONE" => handoff'.notes = handoff.notes,
             handoff'.status # "NONE",
             handoff.status = "ACCEPTED" => handoff'.status = "ACCEPTED",
             NEW status \in {"PENDING", "ACCEPTED"}, Publishes(p, status),
             status = "ACCEPTED" => handoff'.status = "ACCEPTED"
      PROVE  HandInv'
  <2> DEFINE x == [Resting EXCEPT !.pc = "publish", !.status = status]
  <2>1. x \in Peer /\ x.pc = "publish" /\ x.status = status
    BY RestingIs DEF Peer
  <2>2. peers' = [peers EXCEPT ![p] = x]
    BY <1>1 DEF Publishes
  <2> HIDE DEF x
  <2>3. \A q \in Peers : peers'[q] = IF q = p THEN x ELSE peers[q]
    BY <1>0, <2>2
  <2>4. PeersKnow'
    BY <1>1, <2>1, <2>3 DEF PeersKnow, PeerKnows, Quorum
  <2>5. HandTypeOK'
    BY <1>1, <2>1, <2>2 DEF HandTypeOK
  <2>6. Anchored' /\ LeasesSound' /\ PublishedIsCommitted'
    BY <1>1 DEF Anchored, Taken, LeasesSound, LeaseSound, PublishedIsCommitted
  <2> QED
    BY <1>1, <2>4, <2>5, <2>6
<1>2. CASE HandoffCommit(p)
  <2>1. CASE handoff.status = "NONE"
    <3>1. /\ handoff' = [status |-> "PENDING", snapshot |-> peers[p].snapshot,
                         notes |-> peers[p].notes, by |-> NoPeer]
          /\ UNCHANGED <<chain, snapshots, replays, cache, lease>>
          /\ Publishes(p, "PENDING")
      BY <1>2, <2>1 DEF HandoffCommit
    <3>2. handoff' \in Handoff /\ handoff'.status = "PENDING"
      BY <1>0, <3>1 DEF Handoff, Peer
    <3>3. AcceptedIndependently'
      BY <3>2 DEF AcceptedIndependently
    <3> QED
      BY <1>1, <2>1, <3>1, <3>2, <3>3
  <2>2. CASE handoff.status # "NONE"
    BY <1>2, <2>2, RestingIs, IdleKnows, CallKeeps DEF HandoffCommit, Rests
  <2> QED
    BY <2>1, <2>2
<1>3. CASE AcceptCommit(p)
  <2>1. /\ handoff' = [handoff EXCEPT !.status = "ACCEPTED", !.by = p]
        /\ UNCHANGED <<chain, snapshots, replays, cache, lease>>
        /\ Publishes(p, "ACCEPTED")
    BY <1>3 DEF AcceptCommit
  <2>2. /\ handoff' \in Handoff /\ handoff'.status = "ACCEPTED" /\ handoff'.by = p
        /\ handoff'.notes = handoff.notes
    BY <1>0, <2>1 DEF Handoff
  <2>3. handoff.status # "NONE" /\ Quorum(handoff.notes, p)
    BY <1>0, <1>3 DEF AcceptCommit, PeerKnows
  <2>4. AcceptedIndependently'
    BY <2>2, <2>3 DEF AcceptedIndependently, Quorum
  <2> QED
    BY <1>1, <2>1, <2>2, <2>4
<1>4. CASE Publish(p)
  <2>1. /\ UNCHANGED <<chain, snapshots, replays, handoff, lease>>
        /\ peers' = [peers EXCEPT ![p] = Resting]
        /\ cache' \in {cache, peers[p].status} /\ peers[p].pc = "publish"
    BY <1>4 DEF Publish, Rests
  <2>2. HandTypeOK'
    BY <1>0, <2>1, RestingIs DEF HandTypeOK, Peer
  <2>3. PublishedIsCommitted'
    BY <1>0, <2>1 DEF PublishedIsCommitted, PeerKnows
  <2>4. \A q \in Peers : peers'[q] = IF q = p THEN Resting ELSE peers[q]
    BY <1>0, <2>1
  <2>5. PeersKnow'
    BY <2>1, <2>4, RestingIs DEF PeersKnow, PeerKnows, Quorum
  <2>6. Anchored' /\ LeasesSound' /\ AcceptedIndependently'
    BY <2>1 DEF Anchored, Taken, LeasesSound, LeaseSound, AcceptedIndependently
  <2> QED
    BY <2>2, <2>3, <2>5, <2>6
<1> QED
  BY <1>2, <1>3, <1>4

\* A step that writes one scope is left to show of that row.
LEMMA ScopeKeeps ==
  ASSUME HandInv, UNCHANGED <<chain, snapshots, replays, handoff, cache>>,
         NEW t \in Subtasks, NEW row \in Lease, LeaseSound(row),
         lease' = [lease EXCEPT ![t] = row],
         lease[t].token # 0 => row.token # 0,
         \/ UNCHANGED peers
         \/ \E p \in Peers : peers' = [peers EXCEPT ![p] = Resting]
  PROVE  HandInv'
<1> USE DEF HandInv
<1>1. HandTypeOK'
  BY RestingIs DEF HandTypeOK
<1>2. \A u \in Subtasks : lease'[u] = IF u = t THEN row ELSE lease[u]
  BY DEF HandTypeOK
<1>3. LeasesSound'
  BY <1>2 DEF LeasesSound, LeaseSound
<1>4. \A q \in Peers : peers'[q] = peers[q] \/ peers'[q] = Resting
  BY DEF HandTypeOK
<1>5. \A q \in Peers : peers[q].task \in Subtasks
  BY DEF HandTypeOK, Peer
<1>6. PeersKnow'
  BY <1>2, <1>4, <1>5, RestingIs DEF PeersKnow, PeerKnows, Quorum
<1>7. Anchored' /\ AcceptedIndependently' /\ PublishedIsCommitted'
  BY DEF Anchored, Taken, AcceptedIndependently, PublishedIsCommitted
<1> QED
  BY <1>1, <1>3, <1>6, <1>7

\* Claims of scopes and their expiry.
LEMMA ScopeSteps ==
  ASSUME HandInv, \/ \E p \in Peers : ClaimCommit(p)
                  \/ \E t \in Subtasks : LeaseExpires(t)
  PROVE  HandInv'
<1> USE DEF HandInv
<1>1. ASSUME NEW t \in Subtasks, LeaseExpires(t) PROVE HandInv'
  <2> DEFINE row == [lease[t] EXCEPT !.live = "no"]
  <2>1. lease[t] \in Lease /\ LeaseSound(lease[t])
    BY DEF HandTypeOK, LeasesSound
  <2>2. /\ row \in Lease /\ row.token = lease[t].token /\ row.owner = lease[t].owner
        /\ row.live = "no" /\ row.lost = lease[t].lost
        /\ row.overlapped = lease[t].overlapped
    BY <2>1 DEF Lease
  <2>3. LeaseSound(row)
    BY <2>1, <2>2 DEF LeaseSound
  <2>4. /\ lease' = [lease EXCEPT ![t] = row]
        /\ UNCHANGED <<chain, snapshots, replays, handoff, cache, peers>>
    BY <1>1 DEF LeaseExpires
  <2> QED
    BY <2>2, <2>3, <2>4, ScopeKeeps
<1>2. ASSUME NEW p \in Peers, ClaimCommit(p) PROVE HandInv'
  <2> DEFINE t == peers[p].task
             old == lease[t]
             new == Claimed(old, p, peers[p].owner, peers[p].token)
             lost == IF old.token # 0 /\ new.owner # old.owner
                     THEN new.lost \cup {<<old.owner, old.token>>} ELSE new.lost
             over == IF <<old.owner, old.token>> # <<peers[p].owner, peers[p].token>>
                     THEN "yes" ELSE new.overlapped
             row == [new EXCEPT !.lost = lost, !.overlapped = over]
  <2>1. /\ t \in Subtasks /\ peers[p] \in Peer /\ PeerKnows(p, peers[p])
        /\ old \in Lease /\ LeaseSound(old)
    BY DEF HandTypeOK, PeersKnow, LeasesSound, Peer
  <2>2. /\ UNCHANGED <<chain, snapshots, replays, handoff, cache>>
        /\ peers' = [peers EXCEPT ![p] = Resting] /\ peers[p].pc = "claim"
    BY <1>2 DEF ClaimCommit, Rests
  <2>3. CASE peers[p].token = 0 /\ old.token # 0
    BY <1>2, <2>2, <2>3, RestingIs, IdleKnows, CallKeeps DEF ClaimCommit
  <2>4. CASE ~(peers[p].token = 0 /\ old.token # 0)
    <3>1. lease' = [lease EXCEPT ![t] = row]
      BY <1>2, <2>4 DEF ClaimCommit
    <3>2. /\ peers[p].token \in Nat /\ peers[p].token + 1 \in 1 .. TokenBound
          /\ old.token \in Nat /\ old.owner \in Peers \cup {NoPeer}
          /\ old.lost \in SUBSET (Peers \X (1 .. TokenBound))
          /\ old.overlapped \in {"yes", "no"}
      BY <2>1, <2>2, HandAssumption DEF PeerKnows, Peer, Lease
    <3>3. (peers[p].owner = p => old.owner \in Peers) /\ (old.token # 0 => old.owner \in Peers)
      BY <2>1, <2>2, <3>2, HandAssumption DEF PeerKnows, LeaseSound
    <3>4. /\ new \in Lease /\ new.token = peers[p].token + 1
          /\ new.owner = (IF peers[p].owner = p THEN old.owner ELSE p)
          /\ new.owner \in Peers /\ new.lost = old.lost
          /\ new.overlapped = old.overlapped
      <4> DEFINE owner == IF peers[p].owner = p THEN old.owner ELSE p
                 token == peers[p].token + 1
      <4> HIDE DEF old
      <4>1. new = [old EXCEPT !.owner = owner, !.live = "yes", !.token = token]
        BY <2>1 DEF Claimed, Lease
      <4>2. owner \in Peers
        BY <3>3
      <4>3. token \in 0 .. TokenBound
        BY <3>2, HandAssumption
      <4> HIDE DEF owner, token, new
      <4>4. /\ new \in Lease /\ new.token = token /\ new.owner = owner
            /\ new.lost = old.lost /\ new.overlapped = old.overlapped
        BY <2>1, <4>1, <4>2, <4>3 DEF Lease
      <4> QED
        BY <4>2, <4>4 DEF owner, token
    <3> HIDE DEF new, old, t
    <3>5. /\ lost \in SUBSET (Peers \X (1 .. TokenBound))
          /\ lost \subseteq old.lost \cup {<<old.owner, old.token>>}
      <4>1. old.token # 0 => <<old.owner, old.token>> \in Peers \X (1 .. TokenBound)
        BY <2>1, <3>2, <3>3, HandAssumption DEF Lease
      <4> QED
        BY <3>2, <3>4, <4>1
    <3>6. /\ over \in {"yes", "no"}
          /\ over = "no" => /\ old.overlapped = "no"
                            /\ old.owner = peers[p].owner /\ old.token = peers[p].token
      BY <3>2, <3>4
    <3> HIDE DEF lost, over
    <3>7. /\ row \in Lease /\ row.token = peers[p].token + 1 /\ row.owner \in Peers
          /\ row.lost = lost /\ row.overlapped = over
      BY <3>4, <3>5, <3>6 DEF Lease
    <3> HIDE DEF row
    <3>8. ASSUME row.overlapped = "no", NEW pair \in row.lost PROVE pair[2] < row.token
      <4>1. row.token = old.token + 1 /\ old.overlapped = "no"
        BY <3>6, <3>7, <3>8
      <4>2. pair \in Peers \X (1 .. TokenBound)
        BY <3>5, <3>7, <3>8
      <4>3. pair[2] \in Nat
        BY <4>2, HandAssumption
      <4>4. CASE pair \in old.lost
        <5>1. pair[2] < old.token
          BY <2>1, <4>1, <4>4 DEF LeaseSound
        <5> QED
          BY <3>2, <4>1, <4>3, <5>1
      <4>5. CASE pair = <<old.owner, old.token>>
        BY <3>2, <4>1, <4>5
      <4> QED
        BY <3>5, <3>7, <4>4, <4>5
    <3>9. LeaseSound(row) /\ row.token # 0
      BY <3>2, <3>7, <3>8, HandAssumption DEF LeaseSound
    <3> QED
      BY <2>1, <2>2, <3>1, <3>7, <3>9, ScopeKeeps DEF t
  <2> QED
    BY <2>3, <2>4
<1> QED
  BY <1>1, <1>2

\* The invariant holds of a run without snapshots.
LEMMA HandInitInv == HandInit => HandInv
<1> SUFFICES ASSUME HandInit PROVE HandInv
  OBVIOUS
<1>1. HandTypeOK
  BY RestingIs, HandAssumption DEF HandInit, HandTypeOK, Chain, Snapshot, Handoff, Lease
<1>2. Taken = {}
  BY DEF HandInit, Taken
<1>3. PeersKnow
  BY RestingIs DEF HandInit, PeersKnow, PeerKnows
<1>4. LeasesSound
  BY DEF HandInit, LeasesSound, LeaseSound
<1> QED
  BY <1>1, <1>2, <1>3, <1>4 DEF HandInv, Anchored, HandInit, AcceptedIndependently,
     PublishedIsCommitted

\* HandInv holds in every state.
THEOREM HandInvariant == HandSpec => []HandInv
<1>1. HandInv /\ [HandNext]_snapVars => HandInv'
  <2> SUFFICES ASSUME HandInv, [HandNext]_snapVars PROVE HandInv'
    OBVIOUS
  <2>1. CASE UNCHANGED snapVars
    BY <2>1 DEF snapVars, HandInv, HandTypeOK, Anchored, Taken, PeersKnow, PeerKnows,
       Quorum, LeasesSound, LeaseSound, AcceptedIndependently, PublishedIsCommitted
  <2> QED
    BY <2>1, ReadSteps, SnapshotStep, GoingSteps, HandoffSteps, ScopeSteps
       DEF HandNext, Capturing, HandingOff
<1> QED
  BY HandInitInv, <1>1, PTL DEF HandSpec

\* For any peers, subtasks, quorum and bounds, whatever calls overlap or die: the state
\* in a snapshot lags behind its anchor, an accepted handoff had its quorum without the
\* peer that accepted it, Redis tells what was committed, and a scope whose claims did
\* not overlap is fenced off from its former owners (SnapshotService, SnapshotHandoffService).
THEOREM HandoffsAreSound == HandSpec => []HandoffsHold
<1>1. HandInv => HandoffsHold
  <2> SUFFICES ASSUME HandInv PROVE HandoffsHold
    OBVIOUS
  <2>1. SnapshotsLagBehind
    BY DEF HandInv, Anchored, SnapshotsLagBehind
  <2>2. SolitaryClaimsFence
    <3> SUFFICES ASSUME NEW t \in Subtasks, lease[t].overlapped = "no",
                        NEW pair \in lease[t].lost, lease[t].token = pair[2]
                 PROVE  FALSE
      BY DEF SolitaryClaimsFence, Fenced
    <3>1. pair[2] < lease[t].token /\ lease[t].token \in Nat
      BY HandAssumption DEF HandInv, HandTypeOK, Lease, LeasesSound, LeaseSound
    <3> QED
      BY <3>1
  <2> QED
    BY <2>1, <2>2 DEF HandInv, HandoffsHold
<1> QED
  BY HandInvariant, <1>1, PTL

\* A snapshot that validates keeps validating while events, snapshots and replays are
\* added, unless a row is altered (_validate_event_chain).
THEOREM ValidationLasts == HandSpec => ValidStaysValid
<1>1. HandInv /\ [HandNext]_snapVars =>
        [\A s \in Slots :
           Valid(s) /\ chain'.damage = chain.damage /\ snapshots'[s].altered = "no"
             => Valid(s)']_snapVars
  <2> SUFFICES ASSUME HandInv, HandNext, NEW s \in Slots, Valid(s),
                      chain'.damage = chain.damage, snapshots'[s].altered = "no"
               PROVE  Valid(s)'
    BY DEF snapVars
  <2>1. /\ chain.length \in Nat /\ snapshots \in [Slots -> Snapshot]
        /\ snapshots[s].event \in Nat /\ chain \in Chain
    BY HandAssumption DEF HandInv, HandTypeOK, Chain, Snapshot
  <2>2. s \in Taken /\ snapshots[s].event <= chain.length
    BY DEF Valid, ChainIntact
  <2>3. chain'.length \in Nat /\ chain.length <= chain'.length
    <3>1. CASE chain' = chain
      BY <2>1, <3>1
    <3>2. ASSUME NEW running, AppendEvent(running) PROVE chain'.length = chain.length + 1
      BY <2>1, <3>2 DEF AppendEvent, Chain
    <3>3. ASSUME NEW e, Damage(e) PROVE chain'.length = chain.length
      BY <2>1, <3>3 DEF Damage, Chain
    <3>4. \/ \E running \in {"yes", "no"} : AppendEvent(running)
          \/ \E e \in 1 .. EventBound : Damage(e)
          \/ chain' = chain
      BY DEF HandNext, Capturing, Going, HandingOff, SnapshotRead,
         SnapshotCommit, Alter, StartReplay, HandoffRead, HandoffCommit, AcceptRead,
         AcceptCommit, Publish, ClaimRead, ClaimCommit, PeerDies, LeaseExpires
    <3>5. chain'.length = chain.length \/ chain'.length = chain.length + 1
      BY <3>1, <3>2, <3>3, <3>4
    <3> QED
      BY <2>1, <3>5
  <2>4. snapshots'[s].event = snapshots[s].event
    <3>1. ASSUME NEW p \in Peers, SnapshotCommit(p) PROVE snapshots'[s] = snapshots[s]
      BY <2>1, <2>2, <3>1 DEF SnapshotCommit
    <3>2. ASSUME NEW o \in Slots, Alter(o)
          PROVE  snapshots'[s].event = snapshots[s].event
      BY <2>1, <3>2 DEF Alter, Snapshot
    <3> QED
      BY <3>1, <3>2 DEF HandNext, Capturing, Going, HandingOff, SnapshotRead, AppendEvent,
         Damage, StartReplay, HandoffRead, HandoffCommit, AcceptRead,
         AcceptCommit, Publish, ClaimRead, ClaimCommit, PeerDies, LeaseExpires
  <2>5. snapshots'[s].event <= chain'.length
    BY <2>1, <2>2, <2>3, <2>4
  <2>6. s \in Taken'
    BY <2>2, <2>4 DEF Taken
  <2> QED
    BY <2>4, <2>5, <2>6 DEF Valid, ChainIntact
<1> QED
  BY HandInvariant, <1>1, PTL DEF HandSpec, ValidStaysValid

\* The owner of a live scope changes only by a claim begun while the scope was free
\* (claim_scope).
THEOREM LiveScopeIsKept == HandSpec => LiveScopeKept
<1>1. HandInv /\ [HandNext]_snapVars =>
        [\A t \in Subtasks : lease[t].live = "yes" /\ lease'[t].owner # lease[t].owner =>
           \E p \in Peers : peers[p].pc = "claim" /\ peers[p].task = t
                              /\ peers[p].live = "no"]_snapVars
  <2> SUFFICES ASSUME HandInv, HandNext, NEW t \in Subtasks, lease[t].live = "yes",
                      lease'[t].owner # lease[t].owner
               PROVE  \E p \in Peers : peers[p].pc = "claim" /\ peers[p].task = t
                                         /\ peers[p].live = "no"
    BY DEF snapVars
  <2>0. lease \in [Subtasks -> Lease] /\ lease[t] \in Lease /\ LeaseSound(lease[t])
    BY DEF HandInv, HandTypeOK, LeasesSound
  <2>1. ASSUME NEW u \in Subtasks, LeaseExpires(u) PROVE FALSE
    BY <2>0, <2>1 DEF LeaseExpires, Lease
  <2>2. PICK p \in Peers : ClaimCommit(p)
    BY <2>1 DEF HandNext, Capturing, Going, HandingOff, SnapshotRead, AppendEvent,
       SnapshotCommit, Alter, Damage, StartReplay, HandoffRead, HandoffCommit, AcceptRead,
       AcceptCommit, Publish, ClaimRead, PeerDies
  <2> DEFINE u == peers[p].task
             new == Claimed(lease[u], p, peers[p].owner, peers[p].token)
  <2>3. /\ u \in Subtasks /\ PeerKnows(p, peers[p]) /\ lease[u] \in Lease
        /\ peers[p].pc = "claim" /\ peers[p] \in Peer
    BY <2>2 DEF HandInv, HandTypeOK, Peer, PeersKnow, ClaimCommit
  <2>4. new \in [owner : {IF peers[p].owner = p THEN lease[u].owner ELSE p},
                 token : {peers[p].token + 1}, live : {"yes"}, lost : {lease[u].lost},
                 overlapped : {lease[u].overlapped}]
    BY <2>3 DEF Claimed, Lease
  <2> DEFINE lost == IF lease[u].token # 0 /\ new.owner # lease[u].owner
                     THEN new.lost \cup {<<lease[u].owner, lease[u].token>>} ELSE new.lost
             over == IF <<lease[u].owner, lease[u].token>>
                          # <<peers[p].owner, peers[p].token>>
                     THEN "yes" ELSE new.overlapped
  <2>5. /\ lease' = [lease EXCEPT ![u] = [new EXCEPT !.lost = lost, !.overlapped = over]]
        /\ ~(peers[p].token = 0 /\ lease[u].token # 0)
    <3>1. ~(peers[p].token = 0 /\ lease[u].token # 0)
      BY <2>2 DEF ClaimCommit
    <3> QED
      BY <2>2, <3>1 DEF ClaimCommit
  <2> HIDE DEF new, lost, over
  <2>6. t = u /\ lease'[u].owner = new.owner
    BY <2>0, <2>3, <2>4, <2>5
  <2>7. peers[p].owner # p /\ peers[p].token # 0
    BY <2>0, <2>4, <2>5, <2>6 DEF LeaseSound
  <2> QED
    BY <2>3, <2>6, <2>7 DEF PeerKnows
<1> QED
  BY HandInvariant, <1>1, PTL DEF HandSpec, LiveScopeKept
-----------------------------------------------------------------------------
(* Traceability: the calls of _link                                        *)

\* The columns of a call, and of the link made of one.
LEMMA CallColumns ==
  ASSUME NEW t, NEW type, NEW target, NEW rel, NEW from
  PROVE  /\ LinkCall(t, type, target, rel, from).req = t
         /\ LinkCall(t, type, target, rel, from).type = type
         /\ LinkCall(t, type, target, rel, from).target = target
         /\ LinkCall(t, type, target, rel, from).rel = rel
BY DEF LinkCall

\* A plan step asks for links of the requirements it matches.
LEMMA StepCall ==
  ASSUME NEW R, NEW p, NEW s, NEW c \in StepCalls(R, p, s)
  PROVE  c.req \in R /\ c.type # "context_event"
<1>1. PICK t \in Matched(R, s.texts) :
        c \in {LinkCall(t, "execution_plan_step", s.id, "planned_by", <<p.id, s.id>>),
               LinkCall(t, "agent", s.agent, "assigned_to", <<p.id, s.id>>)}
         \cup {LinkCall(t, "policy_decision", d, "governed_by", <<p.id, s.id>>) : d \in p.policy}
         \cup {LinkCall(t, "security_finding", f.id, "reviewed_by", <<p.id, s.id>>) :
                 f \in {g \in p.findings : About(g, s)}}
         \cup {LinkCall(t, "approval", g.id, "gated_by", <<p.id, s.id>>) :
                 g \in {h \in p.gates : About(h, s)}}
  BY DEF StepCalls
<1>2. t \in R
  BY DEF Matched
<1>3. CASE \/ c = LinkCall(t, "execution_plan_step", s.id, "planned_by", <<p.id, s.id>>)
           \/ c = LinkCall(t, "agent", s.agent, "assigned_to", <<p.id, s.id>>)
  BY <1>2, <1>3, CallColumns
<1>4. CASE \E d \in p.policy :
             c = LinkCall(t, "policy_decision", d, "governed_by", <<p.id, s.id>>)
  BY <1>2, <1>4, CallColumns
<1>5. CASE \E f \in p.findings :
             c = LinkCall(t, "security_finding", f.id, "reviewed_by", <<p.id, s.id>>)
  BY <1>2, <1>5, CallColumns
<1>6. CASE \E g \in p.gates :
             c = LinkCall(t, "approval", g.id, "gated_by", <<p.id, s.id>>)
  BY <1>2, <1>6, CallColumns
<1> QED BY <1>1, <1>3, <1>4, <1>5, <1>6

\* So does a plan, if there is one.
LEMMA PlanCall ==
  ASSUME NEW R, NEW c \in PlanCalls(R)
  PROVE  c.req \in R /\ c.type # "context_event" /\ store # {}
<1>1. PICK x \in UNION {{<<p, s>> : s \in p.steps} : p \in store \cap Plans} :
        c \in StepCalls(R, x[1], x[2])
  BY DEF PlanCalls
<1>2. store # {}
  BY <1>1
<1> QED BY <1>1, <1>2, StepCall

\* A requirement that a step of a stored plan matches is linked to the step.
LEMMA PlannedCall ==
  ASSUME NEW R, NEW t \in R, NEW p \in store \cap Plans, NEW s \in p.steps,
         Matches(t, s.texts)
  PROVE  \E c \in PlanCalls(R) :
           c.req = t /\ c.type = "execution_plan_step" /\ c.rel = "planned_by"
<1> DEFINE c == LinkCall(t, "execution_plan_step", s.id, "planned_by", <<p.id, s.id>>)
           x == <<p, s>>
<1>1. t \in Matched(R, s.texts)
  BY DEF Matched
<1>2. c \in StepCalls(R, p, s)
  BY <1>1 DEF StepCalls
<1>3. /\ x \in UNION {{<<q, u>> : u \in q.steps} : q \in store \cap Plans}
      /\ x[1] = p /\ x[2] = s
  OBVIOUS
<1>4. c \in PlanCalls(R)
  <2> HIDE DEF c, x
  <2> QED BY <1>2, <1>3 DEF PlanCalls
<1> QED BY <1>4, CallColumns

\* What the plans link are requirements of the refresh.
LEMMA PlannedIn ==
  ASSUME NEW R
  PROVE  AllPlanned(R) \subseteq R /\ \A i : Planned(R, i) \subseteq R
BY PlanCall DEF AllPlanned, Planned

\* So is what an event concerns.
LEMMA EventRequirements ==
  ASSUME NEW R, NEW e PROVE RequirementsForEvent(R, e) \subseteq R
BY PlannedIn DEF RequirementsForEvent, RepositoryTargets, Matched

\* And a step of a run.
LEMMA RunStepRequirements ==
  ASSUME NEW R, NEW x PROVE RequirementsForRunStep(R, x) \subseteq R
BY PlannedIn DEF RequirementsForRunStep, Matched

\* The calls of an event are of what it concerns; only one of them has the
\* event as its target type.
LEMMA EventCall ==
  ASSUME NEW R, NEW c \in EventCalls(R)
  PROVE  \E e \in store \cap Events :
           /\ c.req \in RequirementsForEvent(R, e)
           /\ c.type # "execution_plan_step"
           /\ c.type = "context_event" => c.target = e.id
<1>0. PICK e \in store \cap Events : \E t \in RequirementsForEvent(R, e) :
        c \in {LinkCall(t, "context_event", e.id, EventRelation(e), <<e.id>>)}
                \cup DetailCalls(t, e)
  BY DEF EventCalls
<1>1. PICK t \in RequirementsForEvent(R, e) :
        c \in {LinkCall(t, "context_event", e.id, EventRelation(e), <<e.id>>)}
                \cup DetailCalls(t, e)
  BY <1>0
<1>2. CASE c = LinkCall(t, "context_event", e.id, EventRelation(e), <<e.id>>)
  BY <1>1, <1>2, CallColumns
<1>3. CASE c \in DetailCalls(t, e)
  <2>1. PICK d \in e.details : c = LinkCall(t, d.type, d.target, d.rel, <<e.id, d.field>>)
    BY <1>3 DEF DetailCalls
  <2>2. d.type \notin {"context_event", "execution_plan_step"}
    BY TraceAssumption
  <2> QED BY <1>1, <2>1, <2>2, CallColumns
<1> QED BY <1>1, <1>2, <1>3

\* The other records ask for links of their own types.
LEMMA OtherCall ==
  ASSUME NEW R, NEW c,
         c \in RunStepCalls(R) \cup RuntimeEventCalls(R) \cup ArtifactCalls(R)
                 \cup PackCalls(R)
  PROVE  c.req \in R /\ c.type \notin {"context_event", "execution_plan_step"}
         /\ store # {}
<1>1. CASE c \in RunStepCalls(R)
  <2> DEFINE own(x, t) ==
               {LinkCall(t, "run_step", x.id, "executed_by", <<x.id>>)}
                  \cup {LinkCall(t, "agent", a, "executed_by", <<x.id>>) : a \in x.agent}
             all(x) == UNION {own(x, t) : t \in RequirementsForRunStep(R, x)}
  <2> HIDE DEF all
  <2>8. PICK x \in store \cap RunSteps : c \in all(x)
    BY <1>1 DEF RunStepCalls, all
  <2> HIDE DEF own
  <2>9. \E t \in RequirementsForRunStep(R, x) : c \in own(x, t)
    BY <2>8 DEF all
  <2> USE DEF own
  <2>1. PICK t \in RequirementsForRunStep(R, x) :
          c \in {LinkCall(t, "run_step", x.id, "executed_by", <<x.id>>)}
                  \cup {LinkCall(t, "agent", a, "executed_by", <<x.id>>) : a \in x.agent}
    BY <2>9
  <2>2. t \in R
    BY <2>1, RunStepRequirements
  <2>3. CASE c = LinkCall(t, "run_step", x.id, "executed_by", <<x.id>>)
    BY <2>1, <2>2, <2>3, CallColumns
  <2>4. CASE \E a \in x.agent : c = LinkCall(t, "agent", a, "executed_by", <<x.id>>)
    BY <2>1, <2>2, <2>4, CallColumns
  <2> QED BY <2>1, <2>3, <2>4
<1>2. CASE c \in RuntimeEventCalls(R)
  <2> DEFINE linked(e) == UNION {RequirementsForRunStep(R, x) :
                                   x \in {y \in store \cap RunSteps : y.id = e.runStep}}
  <2>0. PICK e \in store \cap RuntimeEvents :
          \E t \in IF linked(e) # {} THEN linked(e) ELSE e.names \cap R :
            c = LinkCall(t, "runtime_event", e.id, "observed_in", <<e.id>>)
    BY <1>2 DEF RuntimeEventCalls
  <2>1. PICK t \in IF linked(e) # {} THEN linked(e) ELSE e.names \cap R :
          c = LinkCall(t, "runtime_event", e.id, "observed_in", <<e.id>>)
    BY <2>0
  <2>2. linked(e) \subseteq R
    BY RunStepRequirements
  <2>3. t \in R
    BY <2>1, <2>2
  <2> QED BY <2>1, <2>3, CallColumns
<1>3. CASE c \in ArtifactCalls(R)
  <2>0. PICK a \in store \cap Artifacts :
          \E t \in IF a.names \cap R # {} THEN a.names \cap R ELSE LinkedToPlan(R) \cap R :
            c = LinkCall(t, "artifact", a.id, "evidenced_by", <<a.id>>)
    BY <1>3 DEF ArtifactCalls
  <2>1. PICK t \in R : c = LinkCall(t, "artifact", a.id, "evidenced_by", <<a.id>>)
    BY <2>0
  <2>2. t \in R
    BY <2>1
  <2> QED BY <2>1, <2>2, CallColumns
<1>4. CASE c \in PackCalls(R)
  <2>1. PICK t \in R, p \in store \cap Packs :
          c = LinkCall(t, "evidence_pack", p.id, "packaged_in", <<p.id>>)
    BY <1>4 DEF PackCalls
  <2> QED BY <2>1, CallColumns
<1> QED BY <1>1, <1>2, <1>3, <1>4

\* What is true of every call of a refresh.
LEMMA CallIs ==
  ASSUME NEW R, NEW upto, \A i \in 1 .. upto : scenarios[i].text \in R,
         NEW c \in Calls(R, upto)
  PROVE  /\ c.req \in R
         /\ c.rel = "source" \/ store # {}
         /\ c.type = "execution_plan_step" => c \in PlanCalls(R)
         /\ c.type = "context_event" => \/ c.rel = "source"
                                        \/ \E e \in store \cap Events :
                                             /\ c.target = e.id
                                             /\ c.req \in RequirementsForEvent(R, e)
<1>1. CASE c \in SourceCalls(upto)
  <2>1. PICK i \in 1 .. upto :
          c = LinkCall(scenarios[i].text, "context_event", scenarios[i].event, "source",
                       <<"scenario", i>>)
    BY <1>1 DEF SourceCalls
  <2> QED BY <2>1, CallColumns
<1>2. CASE c \in PlanCalls(R)
  BY <1>2, PlanCall
<1>3. CASE c \in EventCalls(R)
  BY <1>3, EventCall, EventRequirements
<1>4. CASE c \in RunStepCalls(R) \cup RuntimeEventCalls(R) \cup ArtifactCalls(R)
                   \cup PackCalls(R)
  BY <1>4, OtherCall
<1> QED BY <1>1, <1>2, <1>3, <1>4 DEF Calls

\* A requirement that a stored record concerns is asked a link for.
LEMMA ConcernCall ==
  ASSUME NEW R, NEW upto, NEW t \in R, NEW r \in store, Concerns(t, r)
  PROVE  \E c \in Calls(R, upto) : c.req = t /\ c.rel # "source"
<1>1. CASE r \in Packs
  <2> DEFINE c == LinkCall(t, "evidence_pack", r.id, "packaged_in", <<r.id>>)
  <2>1. c \in PackCalls(R)
    BY <1>1 DEF PackCalls
  <2> QED BY <2>1, CallColumns DEF Calls
<1>2. CASE r \in Plans /\ \E p \in r.steps : Matches(t, p.texts)
  <2>1. PICK c \in PlanCalls(R) : c.req = t /\ c.rel = "planned_by"
    BY <1>2, PlannedCall
  <2> QED BY <2>1 DEF Calls
<1>3. CASE r \in Events /\ t \in r.names
  <2> DEFINE c == LinkCall(t, "context_event", r.id, EventRelation(r), <<r.id>>)
  <2>1. t \in RequirementsForEvent(R, r)
    BY <1>3 DEF RequirementsForEvent
  <2>2. c \in EventCalls(R)
    BY <1>3, <2>1 DEF EventCalls
  <2>3. EventRelation(r) # "source"
    BY DEF EventRelation
  <2> QED BY <2>2, <2>3, CallColumns DEF Calls
<1>4. CASE r \in Artifacts /\ t \in r.names
  <2> DEFINE c == LinkCall(t, "artifact", r.id, "evidenced_by", <<r.id>>)
  <2>1. c \in ArtifactCalls(R)
    BY <1>4 DEF ArtifactCalls
  <2> QED BY <2>1, CallColumns DEF Calls
<1> QED BY <1>1, <1>2, <1>3, <1>4 DEF Concerns

-----------------------------------------------------------------------------
(* Traceability: the invariant                                             *)

\* The tables.  A link has its columns, and the scenarios are a sequence.
TraceRows ==
  /\ contract \in Contracts
  /\ scenarios \in Seq([event : Range(EventIds), text : Texts])
  /\ store \subseteq Records
  /\ DOMAIN reqs \subseteq Texts
  /\ IsInjective(reqs) /\ Range(reqs) \subseteq 1 .. Cardinality(Texts)
  /\ \A l \in links : /\ l.req \in DOMAIN reqs /\ l.source \in {"derived", "external"}
                      /\ l = Sourced(l, l.source)
  /\ \A l, k \in links : Key(l) = Key(k) => l = k
  /\ autoflush \in {"on", "off"}

\* The positions a refresh is about to write are positions, one for each
\* candidate; the scenarios it read are among its candidates.
Numbered(x) ==
  /\ \A i \in 1 .. x.upto : scenarios[i].text \in x.cands
  /\ \A t \in x.cands : x.order[t] >= 1
  /\ \A t, u \in x.cands : x.order[t] = x.order[u] => t = u

\* The links are those of a refresh of the current records.
LinksCurrent ==
  /\ DOMAIN reqs = Range(Candidates)
  /\ store = {} => Material \subseteq External
  /\ \A t \in DOMAIN reqs, r \in store :
       Concerns(t, r) => \E l \in Material : l.req = t

\* What a refresh that nothing overlapped knows at each of its stages.
Knows(x) ==
  /\ x.pc = "write" => x.cands = Range(Candidates) /\ x.seen = DOMAIN reqs
  /\ x.pc \in {"list", "count", "done"} => LinksCurrent
  /\ x.pc \in {"count", "done"} => x.seen = DOMAIN reqs
  /\ x.pc = "done" => x.covered = {l.req : l \in Material}
  /\ x.pc = "failed" => autoflush = "off"

SessionSound(x) ==
  /\ x.pc = "write" => Numbered(x)
  /\ x.alone = "yes" => Knows(x)

TraceInv ==
  /\ TraceRows /\ WorkFollowsThePlan
  /\ sessions \in [Sessions -> Session] /\ changes \in 0 .. ChangeBound
  /\ \A s \in Sessions : SessionSound(sessions[s])

\* Texts are finitely many.
LEMMA TextCount ==
  ASSUME NEW S \in SUBSET Texts
  PROVE  /\ IsFiniteSet(S) /\ Cardinality(S) \in Nat
         /\ Cardinality(Texts) \in Nat /\ Cardinality(S) <= Cardinality(Texts)
BY TraceAssumption, FS_Subset, FS_CardinalityType

\* The candidates are texts: the criteria of the contract and the scenarios.
LEMMA CandidateShape ==
  ASSUME TraceRows
  PROVE  /\ Candidates \in Seq(Texts) /\ Range(Candidates) \subseteq Texts
         /\ \A i \in 1 .. Len(scenarios) : scenarios[i].text \in Range(Candidates)
<1> DEFINE told == [i \in DOMAIN scenarios |-> scenarios[i].text]
<1>1. contract \in Seq(Texts) /\ scenarios \in Seq([event : Range(EventIds), text : Texts])
  BY TraceAssumption DEF TraceRows
<1>2. told \in Seq(Texts) /\ Len(told) = Len(scenarios)
  <2>3. Len(scenarios) \in Nat /\ DOMAIN scenarios = 1 .. Len(scenarios)
    BY <1>1
  <2> DEFINE Scenario == [event : Range(EventIds), text : Texts]
  <2>4. \A i \in DOMAIN scenarios : scenarios[i] \in Scenario
    <3>1. scenarios \in Seq(Scenario)
      BY <1>1
    <3> HIDE DEF Scenario
    <3> QED BY <2>3, <3>1, ElementOfSeq
  <2>5. \A i \in DOMAIN scenarios : scenarios[i].text \in Texts
    BY <2>4
  <2>1. Len(scenarios) \in Nat /\ told \in [1 .. Len(scenarios) -> Texts]
    BY <2>3, <2>5
  <2> HIDE DEF told
  <2>2. told \in Seq(Texts)
    BY <2>1, SeqDef
  <2> QED BY <2>1, <2>2
<1>3. \A i \in 1 .. Len(scenarios) : told[i] = scenarios[i].text
  BY <1>1
<1>4. Candidates = contract \o told
  BY DEF Candidates
<1> HIDE DEF told
<1>5. /\ Candidates \in Seq(Texts) /\ Len(Candidates) = Len(contract) + Len(told)
      /\ \A i \in 1 .. Len(contract) + Len(told) :
           Candidates[i] = IF i <= Len(contract) THEN contract[i]
                           ELSE told[i - Len(contract)]
  BY <1>1, <1>2, <1>4, ConcatProperties
<1>6. Range(Candidates) \subseteq Texts
  BY <1>5 DEF Range
<1>7. ASSUME NEW i \in 1 .. Len(scenarios)
      PROVE  scenarios[i].text \in Range(Candidates)
  <2> DEFINE j == Len(contract) + i
  <2>1. j \in 1 .. Len(contract) + Len(told) /\ ~ (j <= Len(contract))
        /\ j - Len(contract) = i
    BY <1>1, <1>2
  <2>2. Candidates[j] = scenarios[i].text
    BY <1>2, <1>3, <1>5, <2>1
  <2>3. j \in DOMAIN Candidates
    BY <1>5, <2>1
  <2> QED BY <2>2, <2>3 DEF Range
<1> QED BY <1>5, <1>6, <1>7

\* Every candidate has a first place.
LEMMA FirstPlace ==
  ASSUME TraceRows, NEW t \in Range(Candidates)
  PROVE  First(t) \in Nat /\ First(t) \in DOMAIN Candidates /\ Candidates[First(t)] = t
<1> DEFINE places == {i \in DOMAIN Candidates : Candidates[i] = t}
<1>1. DOMAIN Candidates = 1 .. Len(Candidates) /\ Len(Candidates) \in Nat
  BY CandidateShape
<1>2. places \in SUBSET Nat /\ places # {}
  BY <1>1 DEF Range
<1>3. PICK i \in places : \A j \in places : i <= j
  BY <1>2, LeastExists
<1>4. \A j \in 1 .. i - 1 : Candidates[j] # t
  BY <1>1, <1>3
<1>5. i \in DOMAIN Candidates /\ Candidates[i] = t
  BY <1>3
<1>6. First(t) \in DOMAIN Candidates /\ Candidates[First(t)] = t
  BY <1>4, <1>5 DEF First
<1> QED BY <1>1, <1>6

\* The positions of a reading number its candidates from 1 on.
LEMMA OrderedIs ==
  ASSUME TraceRows
  PROVE  /\ Ordered \in [Texts -> 0 .. Cardinality(Texts)]
         /\ \A t \in Range(Candidates) : Ordered[t] >= 1
         /\ \A t, u \in Range(Candidates) : Ordered[t] = Ordered[u] => t = u
<1> DEFINE C == Range(Candidates)
           upTo(t) == {u \in C : First(u) <= First(t)}
<1>1. C \subseteq Texts
  BY CandidateShape
<1>2. \A t \in Texts : Ordered[t] = IF t \notin C THEN 0 ELSE Cardinality(upTo(t))
  BY DEF Ordered
<1>3. ASSUME NEW t \in C
      PROVE  /\ upTo(t) \in SUBSET Texts /\ t \in upTo(t)
             /\ Cardinality(upTo(t)) \in 1 .. Cardinality(Texts)
  <2>1. upTo(t) \in SUBSET Texts /\ t \in upTo(t)
    BY <1>1, FirstPlace
  <2>2. IsFiniteSet(upTo(t)) /\ Cardinality(upTo(t)) \in Nat
        /\ Cardinality(Texts) \in Nat /\ Cardinality(upTo(t)) <= Cardinality(Texts)
    BY <2>1, TextCount
  <2>3. Cardinality(upTo(t)) # 0
    BY <2>1, <2>2, FS_EmptySet
  <2> QED BY <2>1, <2>2, <2>3
<1>4. ASSUME NEW t \in C, NEW u \in C, First(t) <= First(u),
             Cardinality(upTo(t)) = Cardinality(upTo(u))
      PROVE  t = u
  <2>1. \A v \in C : First(v) \in Nat /\ Candidates[First(v)] = v
    BY FirstPlace
  <2>2. upTo(t) \in SUBSET upTo(u)
    BY <1>4, <2>1
  <2>3. IsFiniteSet(upTo(u))
    BY <1>3, TextCount
  <2>4. upTo(t) = upTo(u)
    BY <1>4, <2>2, <2>3, FS_Subset
  <2>5. First(u) <= First(t)
    BY <1>3, <2>4
  <2>6. First(t) = First(u)
    BY <1>4, <2>1, <2>5
  <2> QED BY <2>1, <2>6
<1> HIDE DEF C, upTo
<1>5. Ordered \in [Texts -> 0 .. Cardinality(Texts)]
  <2>1. \A t \in Texts : Ordered[t] \in 0 .. Cardinality(Texts)
    BY <1>2, <1>3, TextCount
  <2>2. Ordered = [t \in Texts |-> Ordered[t]]
    BY DEF Ordered
  <2> QED BY <2>1, <2>2
<1>6. \A t \in C : Ordered[t] >= 1
  BY <1>1, <1>2, <1>3, TextCount
<1>7. ASSUME NEW t \in C, NEW u \in C, Ordered[t] = Ordered[u] PROVE t = u
  <2>1. First(t) \in Nat /\ First(u) \in Nat
    BY FirstPlace DEF C
  <2>2. First(t) <= First(u) \/ First(u) <= First(t)
    BY <2>1
  <2>3. Cardinality(upTo(t)) = Cardinality(upTo(u))
    BY <1>1, <1>2, <1>7
  <2> QED BY <2>2, <2>3, <1>4
<1> QED BY <1>5, <1>6, <1>7 DEF C

\* A session at rest, and one that begins a refresh.
LEMMA FreshSessions ==
  ASSUME TraceRows, NEW goal \in SUBSET Packs
  PROVE  /\ Free \in Session /\ SessionSound(Free)
         /\ Begun(goal) \in Session /\ SessionSound(Begun(goal))
         /\ Begun(goal).pc = "read" /\ Free.pc = "idle"
<1>1. Len(scenarios) \in Nat /\ 0 \in 0 .. Cardinality(Texts)
  BY TextCount DEF TraceRows
<1> DEFINE zero == [t \in Texts |-> 0]
<1>3. zero \in [Texts -> 0 .. Cardinality(Texts)]
  BY <1>1
<1>4. Free = [pc |-> "idle", alone |-> "yes", goal |-> {}, cands |-> {}, order |-> zero,
              upto |-> 0, seen |-> {}, covered |-> {}, link |-> {}, found |-> "none"]
  BY DEF Free
<1> HIDE DEF zero
<1>5. Free \in Session /\ Free.pc = "idle"
  <2>1. 0 \in 0 .. Len(scenarios)
    BY <1>1
  <2> QED BY <2>1, <1>3, <1>4 DEF Session
<1>6. Begun(goal) \in Session /\ Begun(goal).pc = "read"
  BY <1>5 DEF Session, Begun
<1>2. /\ Free \in Session /\ Free.pc = "idle"
      /\ Begun(goal) \in Session /\ Begun(goal).pc = "read"
  BY <1>5, <1>6
<1> QED BY <1>2 DEF SessionSound, Knows

\* A session goes on and the tables stay.
LEMMA QuietStep ==
  ASSUME TraceInv, NEW s \in Sessions, NEW to \in Session, SessionSound(to), Goes(s, to),
         UNCHANGED <<contract, scenarios, store, reqs, links, autoflush>>,
         changes' \in 0 .. ChangeBound
  PROVE  TraceInv'
<1>1. /\ sessions' \in [Sessions -> Session]
      /\ \A r \in Sessions : sessions'[r] = IF r = s THEN to ELSE sessions[r]
  BY DEF Goes, TraceInv
<1>2. \A r \in Sessions : SessionSound(sessions'[r])
  BY <1>1 DEF TraceInv
<1>3. \A r \in Sessions : SessionSound(sessions[r])'
  BY <1>2 DEF SessionSound, Numbered, Knows, LinksCurrent, Material, External, Candidates
<1>4. (sessions \in [Sessions -> Session])'
  BY <1>1 DEF Session
<1>5. TraceRows' /\ WorkFollowsThePlan'
  BY DEF TraceInv, TraceRows, WorkFollowsThePlan
<1> QED BY <1>3, <1>4, <1>5 DEF TraceInv

\* A session commits: nobody else knows anything any more, but for the texts of
\* the scenarios it read.
LEMMA CommitStep ==
  ASSUME TraceInv, NEW s \in Sessions, NEW to, Moves(s, to),
         (to \in Session)', SessionSound(to)', TraceRows', WorkFollowsThePlan',
         Len(scenarios) <= Len(scenarios'),
         \A i \in 1 .. Len(scenarios) : scenarios'[i] = scenarios[i],
         autoflush' = autoflush, changes' \in 0 .. ChangeBound
  PROVE  TraceInv'
<1>1. /\ sessions' = [r \in Sessions |-> sessions'[r]]
      /\ sessions'[s] = to
      /\ \A r \in Sessions : r # s =>
           sessions'[r] = IF sessions[r].pc \in {"idle", "failed"} THEN sessions[r]
                          ELSE [sessions[r] EXCEPT !.alone = "no"]
  BY DEF Moves
<1>2. Len(scenarios) \in Nat /\ Len(scenarios') \in Nat
  BY DEF TraceInv, TraceRows
<1>3. ASSUME NEW r \in Sessions, r # s
      PROVE  (sessions[r] \in Session)' /\ SessionSound(sessions[r])'
  <2>1. sessions[r] \in Session /\ SessionSound(sessions[r])
    BY DEF TraceInv
  <2>2. sessions[r].upto \in 0 .. Len(scenarios)
    BY <2>1 DEF Session
  <2>3. CASE sessions[r].pc \in {"idle", "failed"}
    <3>1. sessions'[r] = sessions[r]
      BY <1>1, <1>3, <2>3
    <3>2. (sessions[r] \in Session)'
      BY <1>2, <2>1, <3>1 DEF Session
    <3>3. SessionSound(sessions[r])'
      BY <2>1, <2>3, <3>1 DEF SessionSound, Knows
    <3> QED BY <3>2, <3>3
  <2>4. CASE sessions[r].pc \notin {"idle", "failed"}
    <3> DEFINE x == [sessions[r] EXCEPT !.alone = "no"]
    <3>1. /\ x.pc = sessions[r].pc /\ x.alone = "no" /\ x.upto = sessions[r].upto
          /\ x.cands = sessions[r].cands /\ x.order = sessions[r].order
          /\ x.goal = sessions[r].goal /\ x.seen = sessions[r].seen
          /\ x.covered = sessions[r].covered /\ x.link = sessions[r].link
          /\ x.found = sessions[r].found
          /\ x \in Session
      BY <2>1 DEF Session
    <3>2. sessions'[r] = x
      BY <1>1, <1>3, <2>4
    <3> HIDE DEF x
    <3>3. (sessions[r] \in Session)'
      BY <1>2, <3>1, <3>2 DEF Session
    <3>4. x.pc = "write" => \A i \in 1 .. x.upto : scenarios'[i].text \in x.cands
      BY <1>2, <2>1, <2>2, <3>1 DEF SessionSound, Numbered
    <3>5. SessionSound(sessions[r])'
      BY <2>1, <3>1, <3>2, <3>4 DEF SessionSound, Numbered
    <3> QED BY <3>3, <3>5
  <2> QED BY <2>3, <2>4
<1>4. (sessions \in [Sessions -> Session])'
  BY <1>1, <1>3
<1>5. \A r \in Sessions : SessionSound(sessions[r])'
  <2>1. SessionSound(sessions[s])'
    BY <1>1 DEF SessionSound, Numbered, Knows
  <2> QED BY <1>3, <2>1
<1> QED BY <1>4, <1>5 DEF TraceInv

\* A refresh reads: its candidates are numbered.
LEMMA RefreshReadStep ==
  ASSUME TraceInv, NEW s \in Sessions, RefreshRead(s) PROVE TraceInv'
<1> DEFINE C == Range(Candidates)
           n == Len(scenarios)
           D == DOMAIN reqs
           o == Ordered
           to == [sessions[s] EXCEPT !.pc = "write", !.cands = C, !.order = o,
                                     !.upto = n, !.seen = D]
<1>1. Goes(s, to) /\ UNCHANGED <<contract, scenarios, store, reqs, links, autoflush, changes>>
  BY DEF RefreshRead
<1>2. /\ TraceRows /\ sessions[s] \in Session /\ changes \in 0 .. ChangeBound
      /\ C \in SUBSET Texts /\ n \in 0 .. Len(scenarios) /\ D \in SUBSET Texts
      /\ o \in [Texts -> 0 .. Cardinality(Texts)]
  BY CandidateShape, OrderedIs DEF TraceInv, TraceRows
<1>3. /\ \A i \in 1 .. n : scenarios[i].text \in C
      /\ \A t \in C : o[t] >= 1
      /\ \A t, u \in C : o[t] = o[u] => t = u
  BY <1>2, CandidateShape, OrderedIs
<1>4. C = Range(Candidates) /\ D = DOMAIN reqs
  OBVIOUS
<1> HIDE DEF C, n, D, o
<1>5. /\ to \in Session /\ to.pc = "write" /\ to.cands = C /\ to.order = o
      /\ to.upto = n /\ to.seen = D
  BY <1>2 DEF Session
<1> HIDE DEF to
<1>6. SessionSound(to)
  BY <1>3, <1>4, <1>5 DEF SessionSound, Numbered, Knows
<1> QED BY <1>1, <1>2, <1>5, <1>6, QuietStep

\* get reads the requirements.
LEMMA ListStep ==
  ASSUME TraceInv, NEW s \in Sessions, ListRequirements(s) PROVE TraceInv'
<1> DEFINE D == DOMAIN reqs
           to == [sessions[s] EXCEPT !.pc = "count", !.seen = D]
<1>1. /\ Goes(s, to) /\ sessions[s].pc = "list"
      /\ UNCHANGED <<contract, scenarios, store, reqs, links, autoflush, changes>>
  BY DEF ListRequirements
<1>2. /\ sessions[s] \in Session /\ SessionSound(sessions[s])
      /\ D \in SUBSET Texts /\ D = DOMAIN reqs /\ changes \in 0 .. ChangeBound
  BY DEF TraceInv, TraceRows
<1> HIDE DEF D
<1>3. to \in Session /\ to.pc = "count" /\ to.seen = D /\ to.alone = sessions[s].alone
  BY <1>2 DEF Session
<1> HIDE DEF to
<1>4. SessionSound(to)
  BY <1>1, <1>2, <1>3 DEF SessionSound, Knows
<1> QED BY <1>1, <1>2, <1>3, <1>4, QuietStep

\* The covered requirements of a refresh that is alone are among those listed.
LEMMA CountStep ==
  ASSUME TraceInv, NEW s \in Sessions, CountCoverage(s) PROVE TraceInv'
<1> DEFINE K == {l.req : l \in Material}
           pc == IF Cardinality(K) > Cardinality(sessions[s].seen)
                 THEN "failed" ELSE "done"
           to == [sessions[s] EXCEPT !.pc = pc, !.covered = K]
<1>1. /\ Goes(s, to) /\ sessions[s].pc = "count"
      /\ UNCHANGED <<contract, scenarios, store, reqs, links, autoflush, changes>>
  BY DEF CountCoverage
<1>2. /\ sessions[s] \in Session /\ SessionSound(sessions[s])
      /\ K \subseteq DOMAIN reqs /\ DOMAIN reqs \subseteq Texts
      /\ changes \in 0 .. ChangeBound /\ pc \in {"failed", "done"}
  BY DEF TraceInv, TraceRows, Material
<1>3. ASSUME sessions[s].alone = "yes" PROVE pc = "done"
  <2>1. sessions[s].seen = DOMAIN reqs
    BY <1>1, <1>2, <1>3 DEF SessionSound, Knows
  <2>2. IsFiniteSet(DOMAIN reqs) /\ Cardinality(DOMAIN reqs) \in Nat
        /\ Cardinality(K) \in Nat
    BY <1>2, TextCount
  <2>3. Cardinality(K) <= Cardinality(DOMAIN reqs)
    BY <1>2, <2>2, FS_Subset
  <2> QED BY <2>1, <2>2, <2>3
<1>4. K = {l.req : l \in Material}
  OBVIOUS
<1> HIDE DEF K, pc
<1>5. /\ to \in Session /\ to.pc = pc /\ to.seen = sessions[s].seen
      /\ to.covered = K /\ to.alone = sessions[s].alone
  BY <1>2 DEF Session
<1> HIDE DEF to
<1>6. SessionSound(to)
  BY <1>1, <1>2, <1>3, <1>4, <1>5 DEF SessionSound, Knows
<1> QED BY <1>1, <1>2, <1>5, <1>6, QuietStep

\* Handlers that answer, refresh, or are about to build a pack.
LEMMA RestSteps ==
  ASSUME TraceInv, NEW s \in Sessions,
         Answer(s) \/ RequestRefresh(s) \/ (\E p \in Packs : BuildPack(s, p))
  PROVE  TraceInv'
<1>0. TraceRows /\ changes \in 0 .. ChangeBound /\ ChangeBound \in Nat
  BY TraceAssumption DEF TraceInv
<1>1. CASE Answer(s)
  <2>1. Free \in Session /\ SessionSound(Free)
    BY <1>0, FreshSessions
  <2> QED BY <1>0, <1>1, <2>1, QuietStep DEF Answer
<1>2. CASE RequestRefresh(s)
  <2>1. Begun({}) \in Session /\ SessionSound(Begun({}))
    BY <1>0, FreshSessions
  <2> QED BY <1>0, <1>2, <2>1, QuietStep DEF RequestRefresh
<1>3. ASSUME NEW p \in Packs, BuildPack(s, p) PROVE TraceInv'
  <2>1. Begun({p}) \in Session /\ SessionSound(Begun({p}))
    BY <1>0, FreshSessions
  <2>2. changes' \in 0 .. ChangeBound
    BY <1>0, <1>3 DEF BuildPack, Changing
  <2> QED BY <1>3, <2>1, <2>2, QuietStep DEF BuildPack
<1> QED BY <1>1, <1>2, <1>3

\* A link from outside is looked up.
LEMMA SubmitReadStep ==
  ASSUME TraceInv, NEW s \in Sessions, NEW l \in Submissions, SubmitRead(s, l)
  PROVE  TraceInv'
<1> DEFINE found == IF Sourced(l, "external") \in links THEN "external"
                    ELSE IF Sourced(l, "derived") \in links THEN "derived" ELSE "none"
           to == [Free EXCEPT !.pc = "link", !.link = {l}, !.found = found]
<1>0. TraceRows /\ changes \in 0 .. ChangeBound /\ ChangeBound \in Nat
  BY TraceAssumption DEF TraceInv
<1>1. /\ Goes(s, to) /\ changes' \in 0 .. ChangeBound
      /\ UNCHANGED <<contract, scenarios, store, reqs, links, autoflush>>
  BY <1>0 DEF SubmitRead, Changing
<1>2. found \in {"none", "derived", "external"}
  OBVIOUS
<1> HIDE DEF found
<1>3. Free \in Session
  BY <1>0, FreshSessions
<1>4. to \in Session /\ to.pc = "link"
  BY <1>2, <1>3 DEF Session, Free
<1> HIDE DEF to
<1>5. SessionSound(to)
  BY <1>4 DEF SessionSound, Knows
<1> QED BY <1>1, <1>4, <1>5, QuietStep

\* The links that a refresh by x leaves, and the requirements there are after it.
Kept(x) == {l \in links : ~Replaced(l) /\ l.req \notin x.seen \ x.cands}
RowsAfter(x) == (DOMAIN reqs \ x.seen) \cup x.cands

\* The columns of a link and of its identity.
LEMMA LinkColumns ==
  ASSUME NEW l, NEW source
  PROVE  /\ Sourced(l, source).req = l.req /\ Sourced(l, source).type = l.type
         /\ Sourced(l, source).target = l.target /\ Sourced(l, source).rel = l.rel
         /\ Sourced(l, source).source = source
         /\ Key(Sourced(l, source)) = Key(l)
         /\ Sourced(Sourced(l, source), source) = Sourced(l, source)
BY DEF Sourced, Key

\* Links of one identity have the same columns.
LEMMA KeyColumns ==
  ASSUME NEW l, NEW k, Key(l) = Key(k)
  PROVE  /\ l.req = k.req /\ l.type = k.type /\ l.target = k.target /\ l.rel = k.rel
         /\ \A source : Sourced(l, source) = Sourced(k, source)
<1>1. l.req = k.req /\ l.type = k.type /\ l.target = k.target /\ l.rel = k.rel
  BY DEF Key
<1> QED BY <1>1 DEF Sourced

\* What a refresh writes keeps the constraints of the table; every call finds
\* its link there, and every derived link has its call.
LEMMA WrittenLinks ==
  ASSUME TraceRows, NEW x \in Session, Numbered(x),
         links' = Kept(x) \cup {Sourced(c, "derived") : c \in Wanted(x, Kept(x))}
  PROVE  /\ \A l \in links' : /\ l.req \in RowsAfter(x)
                              /\ l.source \in {"derived", "external"}
                              /\ l = Sourced(l, l.source)
         /\ \A l, k \in links' : Key(l) = Key(k) => l = k
         /\ \A c \in Calls(x.cands, x.upto) : \E l \in links' : Key(l) = Key(c)
         /\ \A l \in links' : Derived(l) =>
              \E c \in Calls(x.cands, x.upto) : Key(l) = Key(c)
<1> DEFINE W == Wanted(x, Kept(x))
<1>1. \A c \in W : /\ c \in Calls(x.cands, x.upto) /\ c.req \in x.cands
                   /\ \A l \in Kept(x) : Key(c) # Key(l)
  BY CallIs DEF Wanted, Numbered
<1>2. \A l \in Kept(x) : /\ l \in links /\ ~Derived(l) /\ l.req \in RowsAfter(x)
                         /\ l.source \in {"derived", "external"}
                         /\ l = Sourced(l, l.source)
  BY DEF Kept, Replaced, TraceRows, RowsAfter
<1>3. \A l \in links' : \/ l \in Kept(x)
                        \/ \E c \in W : l = Sourced(c, "derived")
  OBVIOUS
<1>4. \A c \in W : Sourced(c, "derived") \in links'
  OBVIOUS
<1>5. Kept(x) \subseteq links'
  OBVIOUS
<1>6. \A c \in Calls(x.cands, x.upto) : c \in W \/ \E l \in Kept(x) : Key(l) = Key(c)
  BY DEF Wanted
<1> HIDE DEF W
<1>7. ASSUME NEW l \in links'
      PROVE  /\ l.req \in RowsAfter(x) /\ l.source \in {"derived", "external"}
             /\ l = Sourced(l, l.source)
  <2>1. CASE l \in Kept(x)
    BY <1>2, <2>1
  <2>2. ASSUME NEW c \in W, l = Sourced(c, "derived")
        PROVE  /\ l.req \in RowsAfter(x) /\ l.source \in {"derived", "external"}
               /\ l = Sourced(l, l.source)
    <3>1. l.req = c.req /\ l.source = "derived" /\ Sourced(l, "derived") = l
      BY <2>2, LinkColumns
    <3> QED BY <1>1, <3>1 DEF RowsAfter
  <2> QED BY <1>3, <2>1, <2>2
<1>8. ASSUME NEW l \in links', NEW k \in links', Key(l) = Key(k) PROVE l = k
  <2>1. CASE l \in Kept(x) /\ k \in Kept(x)
    BY <1>2, <1>8, <2>1 DEF TraceRows
  <2>2. ASSUME NEW c \in W, l = Sourced(c, "derived"), k \in Kept(x) PROVE FALSE
    BY <1>1, <1>8, <2>2, LinkColumns
  <2>3. ASSUME NEW c \in W, k = Sourced(c, "derived"), l \in Kept(x) PROVE FALSE
    BY <1>1, <1>8, <2>3, LinkColumns
  <2>4. ASSUME NEW c \in W, l = Sourced(c, "derived"), NEW d \in W, k = Sourced(d, "derived")
        PROVE  l = k
    <3>1. Key(c) = Key(d)
      BY <1>8, <2>4, LinkColumns
    <3> QED BY <2>4, <3>1, KeyColumns
  <2> QED BY <1>3, <2>1, <2>2, <2>3, <2>4
<1>9. ASSUME NEW c \in Calls(x.cands, x.upto) PROVE \E l \in links' : Key(l) = Key(c)
  BY <1>4, <1>5, <1>6, LinkColumns
<1>10. ASSUME NEW l \in links', Derived(l)
       PROVE  \E c \in Calls(x.cands, x.upto) : Key(l) = Key(c)
  BY <1>1, <1>2, <1>3, <1>10, LinkColumns
<1> QED BY <1>7, <1>8, <1>9, <1>10

\* A refresh that finds planned steps links repository work to nothing else.
LEMMA WrittenWork ==
  ASSUME TraceRows, NEW x \in Session, Numbered(x),
         links' = Kept(x) \cup {Sourced(c, "derived") : c \in Wanted(x, Kept(x))}
  PROVE  WorkFollowsThePlan'
<1> DEFINE R == x.cands
<1> SUFFICES ASSUME NEW l \in links', NEW k \in links',
                    l.type = "execution_plan_step", Derived(l), Derived(k),
                    k.type = "context_event", k.rel = "implemented_by",
                    NEW e \in Events, e.id = k.target, e.names = {}, e.contract = {}
             PROVE  \E m \in links' : m.req = k.req /\ m.type = "execution_plan_step"
  BY DEF WorkFollowsThePlan, Derived
<1>0. \A i \in 1 .. x.upto : scenarios[i].text \in R
  BY DEF Numbered
<1>1. PICK c \in Calls(R, x.upto) : Key(l) = Key(c)
  BY WrittenLinks
<1>2. PICK d \in Calls(R, x.upto) : Key(k) = Key(d)
  BY WrittenLinks
<1>3. c \in PlanCalls(R) /\ c.type = "execution_plan_step"
  BY <1>0, <1>1, CallIs, KeyColumns
<1>4. AllPlanned(R) # {}
  BY <1>3 DEF AllPlanned
<1>5. /\ d.req = k.req /\ d.type = "context_event" /\ d.rel = "implemented_by"
      /\ d.target = k.target
  BY <1>2, KeyColumns
<1>6. PICK f \in store \cap Events : d.target = f.id /\ d.req \in RequirementsForEvent(R, f)
  BY <1>0, <1>5, CallIs
<1>7. f = e
  BY <1>5, <1>6, TraceAssumption
<1>8. k.req \in AllPlanned(R)
  BY <1>4, <1>5, <1>6, <1>7 DEF RequirementsForEvent, RepositoryTargets
<1>9. PICK b \in PlanCalls(R) : b.type = "execution_plan_step" /\ b.req = k.req
  BY <1>8 DEF AllPlanned
<1>10. b \in Calls(R, x.upto)
  BY <1>9 DEF Calls
<1>11. PICK m \in links' : Key(m) = Key(b)
  BY <1>10, WrittenLinks
<1> QED BY <1>9, <1>11, KeyColumns

\* A refresh that nothing overlapped leaves the links of the current records.
LEMMA WrittenCurrent ==
  ASSUME TraceRows, NEW x \in Session, Numbered(x),
         links' = Kept(x) \cup {Sourced(c, "derived") : c \in Wanted(x, Kept(x))},
         DOMAIN reqs' = RowsAfter(x), UNCHANGED <<contract, scenarios, store>>,
         x.cands = Range(Candidates), x.seen = DOMAIN reqs
  PROVE  LinksCurrent'
<1> DEFINE R == x.cands
<1>0. \A i \in 1 .. x.upto : scenarios[i].text \in R
  BY DEF Numbered
<1>1. DOMAIN reqs' = R /\ (Range(Candidates))' = R
  BY DEF RowsAfter, Candidates
<1>2. ASSUME store = {}, NEW l \in links', l.rel # "source" PROVE l.source = "external"
  <2> SUFFICES ASSUME Derived(l) PROVE FALSE
    BY WrittenLinks DEF Derived
  <2>1. PICK c \in Calls(R, x.upto) : Key(l) = Key(c)
    BY WrittenLinks
  <2> QED BY <1>0, <1>2, <2>1, CallIs, KeyColumns
<1>3. ASSUME NEW t \in R, NEW r \in store, Concerns(t, r)
      PROVE  \E l \in links' : l.rel # "source" /\ l.req = t
  <2>1. PICK c \in Calls(R, x.upto) : c.req = t /\ c.rel # "source"
    BY <1>3, ConcernCall
  <2>2. PICK l \in links' : Key(l) = Key(c)
    BY WrittenLinks
  <2> QED BY <2>1, <2>2, KeyColumns
<1>4. (store = {} => Material \subseteq External)'
  BY <1>2 DEF Material, External
<1>5. \A t \in DOMAIN reqs', r \in store' :
        Concerns(t, r) => \E l \in Material' : l.req = t
  <2> SUFFICES ASSUME NEW t \in R, NEW r \in store, Concerns(t, r)
               PROVE  \E l \in Material' : l.req = t
    BY <1>1
  <2>1. PICK l \in links' : l.rel # "source" /\ l.req = t
    BY <1>3
  <2>2. l \in Material'
    BY <2>1 DEF Material
  <2> QED BY <2>1, <2>2
<1> QED BY <1>1, <1>4, <1>5 DEF LinksCurrent

\* The positions that a refresh writes are taken by nobody else.
LEMMA WrittenRows ==
  ASSUME TraceRows, NEW x \in Session, Numbered(x), ~Conflicts(x),
         reqs' = [t \in RowsAfter(x) |-> IF t \in x.cands THEN x.order[t] ELSE reqs[t]]
  PROVE  /\ DOMAIN reqs' = RowsAfter(x) /\ RowsAfter(x) \subseteq Texts
         /\ IsInjective(reqs') /\ Range(reqs') \subseteq 1 .. Cardinality(Texts)
<1>1. /\ x.cands \subseteq Texts /\ x.order \in [Texts -> 0 .. Cardinality(Texts)]
      /\ DOMAIN reqs \subseteq Texts
  BY DEF Session, TraceRows
<1>2. DOMAIN reqs' = RowsAfter(x) /\ RowsAfter(x) \subseteq Texts
  BY <1>1 DEF RowsAfter
<1>3. ASSUME NEW t \in RowsAfter(x) PROVE reqs'[t] \in 1 .. Cardinality(Texts)
  <2>1. CASE t \in x.cands
    <3>1. reqs'[t] = x.order[t] /\ x.order[t] \in 0 .. Cardinality(Texts) /\ x.order[t] >= 1
      BY <1>1, <2>1 DEF Numbered
    <3>2. Cardinality(Texts) \in Nat
      BY TextCount
    <3> QED BY <3>1, <3>2
  <2>2. CASE t \notin x.cands
    <3>1. reqs'[t] = reqs[t] /\ t \in DOMAIN reqs
      BY <2>2 DEF RowsAfter
    <3> QED BY <3>1 DEF TraceRows, Range
  <2> QED BY <2>1, <2>2
<1>4. ASSUME NEW t \in RowsAfter(x), NEW u \in RowsAfter(x), t \in x.cands, u \notin x.cands
      PROVE  reqs'[t] # reqs'[u]
  <2>1. reqs'[t] \in {x.order[v] : v \in x.cands} /\ reqs'[u] \in Held(x)
    BY <1>4 DEF RowsAfter, Held
  <2> QED BY <2>1 DEF Conflicts
<1>5. ASSUME NEW t \in RowsAfter(x), NEW u \in RowsAfter(x), reqs'[t] = reqs'[u]
      PROVE  t = u
  <2>1. CASE t \in x.cands /\ u \in x.cands
    BY <1>5, <2>1 DEF Numbered
  <2>2. CASE t \notin x.cands /\ u \notin x.cands
    <3>1. /\ t \in DOMAIN reqs /\ u \in DOMAIN reqs /\ reqs[t] = reqs[u]
      BY <1>5, <2>2 DEF RowsAfter
    <3> QED BY <3>1 DEF TraceRows, IsInjective
  <2> QED BY <1>4, <1>5, <2>1, <2>2
<1> QED BY <1>2, <1>3, <1>5 DEF IsInjective, Range

\* A refresh writes, or fails and leaves everything as it was.
LEMMA RefreshWriteStep ==
  ASSUME TraceInv, NEW s \in Sessions, RefreshWrite(s) PROVE TraceInv'
<1> PICK x : x = sessions[s]
  OBVIOUS
<1>0. /\ TraceRows /\ x \in Session /\ SessionSound(x) /\ x.pc = "write" /\ Numbered(x)
      /\ x.alone \in {"yes", "no"} /\ x.goal \in SUBSET Packs
      /\ changes \in 0 .. ChangeBound /\ Free \in Session
      /\ UNCHANGED <<contract, scenarios, store, autoflush, changes>>
  BY FreshSessions DEF TraceInv, RefreshWrite, SessionSound, Session
<1>1. CASE Conflicts(x) \/ Doubled(Wanted(x, Kept(x)))
  <2> DEFINE to == [Free EXCEPT !.pc = "failed", !.alone = x.alone]
  <2>1. Goes(s, to) /\ UNCHANGED <<reqs, links>>
    BY <1>1 DEF RefreshWrite, Kept
  <2>2. to \in Session /\ to.pc = "failed" /\ to.alone = x.alone
    BY <1>0 DEF Session
  <2> HIDE DEF to
  <2>3. ASSUME x.alone = "yes" PROVE autoflush = "off"
    <3>1. x.cands = Range(Candidates) /\ x.seen = DOMAIN reqs
      BY <1>0, <2>3 DEF SessionSound, Knows
    <3>2. ~Conflicts(x)
      BY <3>1 DEF Conflicts, Held
    <3> QED BY <1>1, <3>2 DEF Doubled
  <2>4. SessionSound(to)
    BY <2>2, <2>3 DEF SessionSound, Knows
  <2> QED BY <1>0, <2>1, <2>2, <2>4, QuietStep
<1>2. CASE ~(Conflicts(x) \/ Doubled(Wanted(x, Kept(x))))
  <2> PICK to : to = [Free EXCEPT !.pc = "list", !.alone = x.alone, !.goal = x.goal]
    OBVIOUS
  <2>1. /\ reqs' = [t \in RowsAfter(x) |-> IF t \in x.cands THEN x.order[t] ELSE reqs[t]]
        /\ links' = Kept(x) \cup {Sourced(c, "derived") : c \in Wanted(x, Kept(x))}
        /\ Moves(s, to)
    BY <1>2 DEF RefreshWrite, Kept, RowsAfter
  <2>2. to \in Session /\ to.pc = "list" /\ to.alone = x.alone
    BY <1>0 DEF Session
  <2>3. /\ DOMAIN reqs' = RowsAfter(x) /\ RowsAfter(x) \subseteq Texts
        /\ IsInjective(reqs') /\ Range(reqs') \subseteq 1 .. Cardinality(Texts)
    BY <1>0, <1>2, <2>1, WrittenRows
  <2>4. /\ \A l \in links' : /\ l.req \in RowsAfter(x)
                             /\ l.source \in {"derived", "external"}
                             /\ l = Sourced(l, l.source)
        /\ \A l, k \in links' : Key(l) = Key(k) => l = k
    BY <1>0, <2>1, WrittenLinks
  <2>5. TraceRows'
    BY <1>0, <2>3, <2>4 DEF TraceRows
  <2>6. WorkFollowsThePlan'
    BY <1>0, <2>1, WrittenWork
  <2>7. x.alone = "yes" => LinksCurrent'
    BY <1>0, <2>1, <2>3, WrittenCurrent DEF SessionSound, Knows
  <2>8. (to \in Session)' /\ SessionSound(to)'
    BY <1>0, <2>2, <2>7 DEF Session, SessionSound, Knows
  <2>9. Len(scenarios) <= Len(scenarios') /\ \A i \in 1 .. Len(scenarios) : scenarios'[i] = scenarios[i]
    BY <1>0 DEF TraceRows
  <2> QED BY <1>0, <2>1, <2>5, <2>6, <2>8, <2>9, CommitStep
<1> QED BY <1>1, <1>2

\* A change of the task leaves the links alone.
LEMMA TaskSteps ==
  ASSUME TraceInv, NEW s \in Sessions,
         \/ \E c \in Contracts : IngestContract(s, c)
         \/ \E r \in Refreshing : RecordWork(s, r)
         \/ \E r \in Records \ (Refreshing \cup Packs) : StoreRecord(s, r)
         \/ StorePack(s)
  PROVE  TraceInv'
<1>0. /\ TraceRows /\ WorkFollowsThePlan /\ changes \in 0 .. ChangeBound
      /\ ChangeBound \in Nat /\ sessions[s] \in Session
      /\ Refreshing \subseteq Records /\ Packs \subseteq Records
  BY TraceAssumption DEF TraceInv, Refreshing, Records
<1>1. /\ contract' \in Contracts /\ store' \subseteq Records
      /\ changes' \in 0 .. ChangeBound
      /\ UNCHANGED <<scenarios, reqs, links, autoflush>>
      /\ Moves(s, Begun({})) \/ Moves(s, Free)
  BY <1>0 DEF IngestContract, RecordWork, StoreRecord, StorePack, Changing, TraceRows,
              Session
<1>2. PICK to \in {Begun({}), Free} : Moves(s, to)
  BY <1>1
<1>3. to \in Session /\ to.pc \in {"idle", "read"}
  BY <1>0, <1>2, FreshSessions
<1>4. (to \in Session)' /\ SessionSound(to)'
  BY <1>1, <1>3 DEF Session, SessionSound, Knows
<1>5. TraceRows'
  BY <1>0, <1>1 DEF TraceRows
<1>6. WorkFollowsThePlan'
  BY <1>0, <1>1 DEF WorkFollowsThePlan
<1>7. Len(scenarios) <= Len(scenarios') /\ \A i \in 1 .. Len(scenarios) : scenarios'[i] = scenarios[i]
  BY <1>0, <1>1 DEF TraceRows
<1> QED BY <1>1, <1>2, <1>4, <1>5, <1>6, <1>7, CommitStep

\* A registration appends its scenarios.
LEMMA RegisterStep ==
  ASSUME TraceInv, NEW s \in Sessions, NEW texts \in Descriptions, Register(s, texts)
  PROVE  TraceInv'
<1> DEFINE Scenario == [event : Range(EventIds), text : Texts]
<1>0. /\ TraceRows /\ WorkFollowsThePlan /\ changes \in 0 .. ChangeBound
      /\ ChangeBound \in Nat /\ texts \in Seq(Texts) /\ scenarios \in Seq(Scenario)
  BY TraceAssumption DEF TraceInv, TraceRows
<1>1. /\ UNCHANGED <<contract, store, reqs, links, autoflush>>
      /\ Moves(s, Begun({})) /\ changes' = changes + 1 /\ changes < ChangeBound
  BY DEF Register, Changing
<1> PICK id : id = EventIds[changes']
  OBVIOUS
<1> DEFINE told == [i \in DOMAIN texts |-> [event |-> id, text |-> texts[i]]]
<1>2. scenarios' = scenarios \o told
  BY DEF Register
<1>3. changes' \in 1 .. ChangeBound /\ changes' \in 0 .. ChangeBound
  BY <1>0, <1>1
<1>4. id \in Range(EventIds)
  BY <1>3, TraceAssumption DEF Range
<1>5. \A i \in DOMAIN texts : [event |-> id, text |-> texts[i]] \in Scenario
  BY <1>0, <1>4
<1> HIDE DEF Scenario
<1>6. told \in [1 .. Len(texts) -> Scenario] /\ Len(texts) \in Nat
  BY <1>0, <1>5
<1> HIDE DEF told
<1>7. told \in Seq(Scenario) /\ Len(told) \in Nat
  BY <1>6, SeqDef
<1>8. /\ scenarios' \in Seq(Scenario)
      /\ Len(scenarios') = Len(scenarios) + Len(told)
      /\ \A i \in 1 .. Len(scenarios) + Len(told) :
           scenarios'[i] = IF i <= Len(scenarios) THEN scenarios[i]
                           ELSE told[i - Len(scenarios)]
  BY <1>0, <1>2, <1>7, ConcatProperties
<1>9. Len(scenarios) \in Nat
  BY <1>0
<1>10. Len(scenarios) <= Len(scenarios') /\ \A i \in 1 .. Len(scenarios) : scenarios'[i] = scenarios[i]
  BY <1>7, <1>8, <1>9
<1>11. TraceRows'
  BY <1>0, <1>1, <1>8 DEF TraceRows, Scenario
<1>12. WorkFollowsThePlan'
  BY <1>0, <1>1 DEF WorkFollowsThePlan
<1>13. PICK to : to = Begun({})
  OBVIOUS
<1>14. to \in Session /\ to.pc = "read" /\ to.upto = 0
  BY <1>0, <1>13, FreshSessions DEF Begun, Free
<1>15. (to \in Session)' /\ SessionSound(to)'
  <2>1. to.upto \in 0 .. Len(scenarios')
    BY <1>7, <1>8, <1>9, <1>14
  <2> QED BY <1>14, <2>1 DEF Session, SessionSound, Knows
<1> QED BY <1>1, <1>3, <1>10, <1>11, <1>12, <1>13, <1>15, CommitStep

\* A link from outside is added, or takes the place of the derived one.
LEMMA SubmittedLinks ==
  ASSUME TraceRows, NEW l, NEW found, links' = Submitted(l, found)
  PROVE  /\ \A k \in links' : \/ k \in links
                              \/ k = Sourced(l, "external") /\ l.req \in DOMAIN reqs
         /\ \A k \in links : k \in links' \/ (/\ Derived(k) /\ Key(k) = Key(l)
                                              /\ Sourced(l, "external") \in links')
         /\ \A k \in links' : Key(k) = Key(l) => k = Sourced(l, "external") \/ links' = links
<1>1. CASE found = "derived" /\ Key(l) \in {Key(k) : k \in links}
  <2>1. links' = (links \ {Sourced(l, "derived")}) \cup {Sourced(l, "external")}
    BY <1>1 DEF Submitted
  <2>2. PICK k \in links : Key(k) = Key(l)
    BY <1>1
  <2>3. l.req \in DOMAIN reqs
    BY <2>2, KeyColumns DEF TraceRows
  <2>4. \A m \in links : Key(m) = Key(l) => m = Sourced(l, m.source) /\ m.source \in {"derived", "external"}
    BY KeyColumns DEF TraceRows
  <2>5. Derived(Sourced(l, "derived")) /\ Key(Sourced(l, "derived")) = Key(l)
    BY LinkColumns DEF Derived
  <2>6. \A m \in links' : Key(m) = Key(l) => m = Sourced(l, "external")
    BY <2>1, <2>4
  <2> QED BY <2>1, <2>3, <2>5, <2>6
<1>2. CASE found = "none" /\ Key(l) \notin {Key(k) : k \in links} /\ l.req \in DOMAIN reqs
  <2>1. links' = links \cup {Sourced(l, "external")}
    BY <1>2 DEF Submitted
  <2> QED BY <1>2, <2>1
<1>3. CASE links' = links
  BY <1>3
<1> QED BY <1>1, <1>2, <1>3 DEF Submitted

\* The tables keep their constraints, and work its plan.
LEMMA SubmitCommitStep ==
  ASSUME TraceInv, NEW s \in Sessions, SubmitCommit(s) PROVE TraceInv'
<1>0. /\ TraceRows /\ WorkFollowsThePlan /\ changes \in 0 .. ChangeBound
      /\ Free \in Session /\ SessionSound(Free) /\ Free.pc = "idle"
      /\ UNCHANGED <<contract, scenarios, store, reqs, autoflush, changes>>
  BY FreshSessions DEF TraceInv, SubmitCommit
<1>1. CASE links' = links
  <2>1. Goes(s, Free)
    BY <1>1 DEF SubmitCommit
  <2> QED BY <1>0, <1>1, <2>1, QuietStep
<1>2. CASE links' # links
  <2>1. PICK l : links' = Submitted(l, sessions[s].found)
    BY DEF SubmitCommit
  <2> DEFINE new == Sourced(l, "external")
  <2>2. /\ \A k \in links' : k \in links \/ (k = new /\ l.req \in DOMAIN reqs)
        /\ \A k \in links : k \in links' \/ (Derived(k) /\ Key(k) = Key(l) /\ new \in links')
        /\ \A k \in links' : Key(k) = Key(l) => k = new
    BY <1>0, <1>2, <2>1, SubmittedLinks
  <2>3. /\ new.req = l.req /\ new.type = l.type /\ new.source = "external"
        /\ Key(new) = Key(l) /\ new = Sourced(new, "external")
    BY LinkColumns
  <2> HIDE DEF new
  <2>4. \A k \in links' : /\ k.req \in DOMAIN reqs /\ k.source \in {"derived", "external"}
                          /\ k = Sourced(k, k.source)
    BY <1>0, <2>2, <2>3 DEF TraceRows
  <2>5. \A k, m \in links' : Key(k) = Key(m) => k = m
    BY <1>0, <2>2, <2>3 DEF TraceRows
  <2>6. TraceRows'
    BY <1>0, <2>4, <2>5 DEF TraceRows
  <2>7. WorkFollowsThePlan'
    <3> SUFFICES ASSUME NEW p \in links', NEW k \in links',
                        p.type = "execution_plan_step", Derived(p), Derived(k),
                        k.type = "context_event", k.rel = "implemented_by",
                        \E e \in Events : e.id = k.target /\ e.names = {} /\ e.contract = {}
                 PROVE  \E m \in links' : m.req = k.req /\ m.type = "execution_plan_step"
      BY DEF WorkFollowsThePlan, Derived
    <3>1. p \in links /\ k \in links
      BY <2>2, <2>3 DEF Derived
    <3>2. PICK m \in links : m.req = k.req /\ m.type = "execution_plan_step"
      BY <1>0, <3>1 DEF WorkFollowsThePlan
    <3>3. CASE m \in links'
      BY <3>2, <3>3
    <3>4. CASE Key(m) = Key(l) /\ new \in links'
      BY <2>3, <3>2, <3>4, KeyColumns
    <3> QED BY <2>2, <3>3, <3>4
  <2>8. Moves(s, Free)
    BY <1>2 DEF SubmitCommit
  <2>9. PICK to : to = Free
    OBVIOUS
  <2>10. (to \in Session)' /\ SessionSound(to)'
    BY <1>0, <2>9 DEF Session, SessionSound, Knows
  <2>11. Len(scenarios) <= Len(scenarios') /\ \A i \in 1 .. Len(scenarios) : scenarios'[i] = scenarios[i]
    BY <1>0 DEF TraceRows
  <2> QED BY <1>0, <2>6, <2>7, <2>8, <2>9, <2>10, <2>11, CommitStep
<1> QED BY <1>1, <1>2

\* TraceInv is an invariant, for any records, texts and number of sessions.
THEOREM TraceInvariant == TraceSpec => []TraceInv
<1>1. TraceInit => TraceInv
  <2> SUFFICES ASSUME TraceInit PROVE TraceInv
    OBVIOUS
  <2>1. TraceRows
    BY DEF TraceInit, TraceRows, Range, IsInjective
  <2>2. Free \in Session /\ SessionSound(Free)
    BY <2>1, FreshSessions
  <2>3. sessions = [s \in Sessions |-> Free]
    BY DEF TraceInit
  <2>4. WorkFollowsThePlan /\ changes \in 0 .. ChangeBound
    BY TraceAssumption DEF TraceInit, WorkFollowsThePlan
  <2> QED BY <2>1, <2>2, <2>3, <2>4 DEF TraceInv
<1>2. TraceInv /\ [TraceNext]_traceVars => TraceInv'
  <2> SUFFICES ASSUME TraceInv, [TraceNext]_traceVars PROVE TraceInv'
    OBVIOUS
  <2>1. ASSUME NEW s \in Sessions,
               \/ RefreshRead(s) \/ RefreshWrite(s) \/ ListRequirements(s)
               \/ CountCoverage(s) \/ Answer(s) \/ RequestRefresh(s) \/ SubmitCommit(s)
               \/ StorePack(s)
        PROVE  TraceInv'
    BY <2>1, RefreshReadStep, RefreshWriteStep, ListStep, CountStep, RestSteps, TaskSteps,
       SubmitCommitStep
  <2>2. ASSUME NEW s \in Sessions,
               \/ \E c \in Contracts : IngestContract(s, c)
               \/ \E d \in Descriptions : Register(s, d)
               \/ \E r \in Refreshing : RecordWork(s, r)
               \/ \E r \in Records \ (Refreshing \cup Packs) : StoreRecord(s, r)
               \/ \E p \in Packs : BuildPack(s, p)
               \/ \E l \in Submissions : SubmitRead(s, l)
        PROVE  TraceInv'
    BY <2>2, TaskSteps, RegisterStep, RestSteps, SubmitReadStep
  <2>3. CASE UNCHANGED traceVars
    <3>1. \A s \in Sessions : SessionSound(sessions[s])'
      BY <2>3 DEF traceVars, TraceInv, SessionSound, Numbered, Knows, LinksCurrent, Material,
                  External, Candidates
    <3>2. TraceRows' /\ changes' \in 0 .. ChangeBound
      BY <2>3 DEF traceVars, TraceInv, TraceRows
    <3>3. (sessions \in [Sessions -> Session])'
      BY <2>3 DEF traceVars, TraceInv, Session
    <3>4. WorkFollowsThePlan'
      BY <2>3 DEF traceVars, TraceInv, WorkFollowsThePlan
    <3> QED BY <3>1, <3>2, <3>3, <3>4 DEF TraceInv
  <2> QED BY <2>1, <2>2, <2>3 DEF TraceNext
<1> QED BY <1>1, <1>2, PTL DEF TraceSpec

\* Refreshes and reports agree with the contract and the records of the task,
\* however many sessions overlap: positions and link identities are unique, a
\* refresh in a flushing session fails only if another commit overlapped it,
\* the report of a refresh that nothing overlapped is about the current
\* requirements, and derived repository work follows the plan.
THEOREM TraceStaysTrue == TraceSpec => []TraceIsTrue
<1>1. TraceInv => TraceIsTrue
  <2> SUFFICES ASSUME TraceInv PROVE TraceIsTrue
    OBVIOUS
  <2>1. TraceTypeOK
    <3> DEFINE Scenario == [event : Range(EventIds), text : Texts]
    <3>1. \A i \in DOMAIN scenarios : scenarios[i] \in Scenario
      <4>1. scenarios \in Seq(Scenario)
        BY DEF TraceInv, TraceRows
      <4> HIDE DEF Scenario
      <4> QED BY <4>1, ElementOfSeq
    <3> QED BY <3>1 DEF TraceInv, TraceRows, TraceTypeOK
  <2>2. FlushedRefreshCommits
    BY DEF FlushedRefreshCommits, TraceInv, SessionSound, Knows
  <2>3. AloneReportIsTrue
    <3> SUFFICES ASSUME NEW s \in Sessions, sessions[s].pc = "done",
                        sessions[s].alone = "yes"
                 PROVE  /\ sessions[s].seen = Range(Candidates)
                        /\ sessions[s].covered \subseteq sessions[s].seen
                        /\ {l.req : l \in External \cap Material} \subseteq sessions[s].covered
                        /\ store = {} =>
                             sessions[s].covered = {l.req : l \in External \cap Material}
                        /\ \A t \in sessions[s].seen, r \in store :
                             Concerns(t, r) => t \in sessions[s].covered
      BY DEF AloneReportIsTrue
    <3>1. /\ LinksCurrent /\ sessions[s].seen = DOMAIN reqs
          /\ sessions[s].covered = {l.req : l \in Material}
      BY DEF TraceInv, SessionSound, Knows
    <3>2. {l.req : l \in Material} \subseteq DOMAIN reqs
      BY DEF TraceInv, TraceRows, Material
    <3>3. store = {} => Material = External \cap Material
      BY <3>1 DEF LinksCurrent
    <3>4. store = {} => {l.req : l \in Material} = {l.req : l \in External \cap Material}
      BY <3>3
    <3> QED BY <3>1, <3>2, <3>4 DEF LinksCurrent
  <2> QED BY <2>1, <2>2, <2>3 DEF TraceIsTrue, TraceInv
<1> QED BY <1>1, TraceInvariant, PTL

\* No step of a refresh, of a submission or of any other handler takes away a
\* link from outside whose requirement remains.
THEOREM OutsideLinksStay == TraceSpec => ExternalLinksKept
<1>1. TraceInv /\ [TraceNext]_traceVars
        => [\A l \in External : l \in links' \/ l.req \notin DOMAIN reqs']_traceVars
  <2> SUFFICES ASSUME TraceInv, TraceNext, NEW l \in External
               PROVE  l \in links' \/ l.req \notin DOMAIN reqs'
    OBVIOUS
  <2>0. l \in links /\ l.source = "external" /\ ~Derived(l)
    BY DEF External, Derived
  <2>1. CASE links' = links
    BY <2>0, <2>1
  <2>2. ASSUME NEW s \in Sessions, SubmitCommit(s) PROVE l \in links'
    <3>1. PICK m : links' = Submitted(m, sessions[s].found)
      BY <2>2 DEF SubmitCommit
    <3> QED BY <2>0, <3>1, SubmittedLinks DEF TraceInv
  <2>3. ASSUME NEW s \in Sessions, RefreshWrite(s), links' # links
        PROVE  l \in links' \/ l.req \notin DOMAIN reqs'
    <3> PICK x : x = sessions[s]
      OBVIOUS
    <3>1. /\ reqs' = [t \in RowsAfter(x) |-> IF t \in x.cands THEN x.order[t] ELSE reqs[t]]
          /\ links' = Kept(x) \cup {Sourced(c, "derived") : c \in Wanted(x, Kept(x))}
      BY <2>3 DEF RefreshWrite, Kept, RowsAfter
    <3>2. CASE l.req \in x.seen \ x.cands
      BY <3>1, <3>2 DEF RowsAfter
    <3>3. CASE l.req \notin x.seen \ x.cands
      BY <2>0, <3>1, <3>3 DEF Kept, Replaced
    <3> QED BY <3>2, <3>3
  <2>4. \/ links' = links
        \/ \E s \in Sessions : SubmitCommit(s)
        \/ \E s \in Sessions : RefreshWrite(s)
    BY DEF TraceNext, RefreshRead, ListRequirements, CountCoverage, Answer, RequestRefresh,
           IngestContract, Register, RecordWork, StoreRecord, BuildPack, StorePack, SubmitRead
  <2> QED BY <2>1, <2>2, <2>3, <2>4
<1> QED BY <1>1, TraceInvariant, PTL DEF TraceSpec, ExternalLinksKept
=============================================================================
