------------------------- MODULE WorkflowQueueProofs -------------------------
(***************************************************************************)
(* Proofs about WorkflowQueue, for any number of runs, workers and API     *)
(* handlers, any attempt limit and any bounds.  The argument is one        *)
(* inductive invariant: the types, the fact that a busy process works on a *)
(* run, that no token is larger than the number of tokens drawn, and the   *)
(* two safety properties themselves.  The last three hold of each row      *)
(* separately, so they follow from what an action may write to a row.      *)
(*                                                                         *)
(* The second half shows the refinement of QueueRefinement.  It needs a    *)
(* second invariant, SoleInv: what the one worker and the one handler have *)
(* read of a row is still so, unless the job was cancelled in between.     *)
(***************************************************************************)
EXTENDS QueueRefinement, TLAPS

\* A process that is past its first read knows the run it works on.
WorkerHasRun(x) ==
  x.pc \in {"claiming", "executing", "completing", "completeCommit", "failing",
           "failCommit"} => x.r \in Runs
ClientHasRun(x) == x.pc # "idle" => x.r \in Runs

BusyHasRun ==
  /\ \A w \in Workers : WorkerHasRun(worker[w])
  /\ \A c \in Clients : ClientHasRun(client[c])

\* Tokens come from claims.
TokensDrawn == \A r \in Runs : job[r].token <= claims[r]

IInv == TypeOK /\ BusyHasRun /\ TokensDrawn /\ RunningIsRecoverable
        /\ AttemptCountsClaims

\* The writes to a row that put no lease on it: every commit but a claim.
Withdrawn(j, k) ==
  /\ k \in Jobs /\ k.attempt = j.attempt
  /\ k.token \in {0, j.token}
  /\ k.state # "RUNNING"
  /\ k.lease = "live" => j.lease = "live"

-----------------------------------------------------------------------------
\* A submission leaves a row in the queue and draws no attempt.
LEMMA RequeuedWithdraws ==
  ASSUME NEW j \in Jobs, NEW t \in Nat
  PROVE  Withdrawn(j, Requeued(j, t))
BY DEF Withdrawn, Requeued, ClearLease, Jobs, JobStates, Terminal

\* A cancellation leaves a row that is not RUNNING and keeps its attempts.
LEMMA CancelWithdraws ==
  ASSUME NEW j \in Jobs, NEW t \in Nat
  PROVE  Withdrawn(j, [ClearLease(j, t) EXCEPT !.state = "CANCELLED"])
BY DEF Withdrawn, ClearLease, Jobs, JobStates, Terminal

\* Recovery and failure leave a row that is not RUNNING and keep its attempts.
LEMMA ReleasedWithdraws ==
  ASSUME NEW j \in Jobs, NEW a \in Nat, NEW due \in {"now", "later"}
  PROVE  Withdrawn(j, Released(j, a, due))
BY BoundsAssumption DEF Withdrawn, Released, Jobs, JobStates, Terminal

\* A completion leaves a row that is not RUNNING and keeps its attempts.
LEMMA CompletionWithdraws ==
  ASSUME NEW j \in Jobs
  PROVE  Withdrawn(j, [j EXCEPT !.state = "COMPLETED", !.token = 0,
                                !.lease = "null"])
BY DEF Withdrawn, Jobs, JobStates, Terminal

\* A claim draws one attempt and leaves a RUNNING row with its own live lease.
LEMMA ClaimedRow ==
  ASSUME NEW j \in Jobs, NEW t \in Nat \ {0}
  PROVE  /\ Claimed(j, t) \in Jobs
         /\ Claimed(j, t).attempt = j.attempt + 1
         /\ Claimed(j, t).token = t
         /\ Claimed(j, t).lease = "live"
<1>1. j.attempt + 1 \in Nat
  BY DEF Jobs
<1> QED
  BY <1>1 DEF Claimed, Jobs, JobStates

-----------------------------------------------------------------------------
\* What any step does to a row: nothing, a withdrawal, a claim, or a change of
\* the lease or of due that keeps state, attempt and token.
RowStep(r) ==
  \/ job'[r] = job[r] /\ claims'[r] = claims[r]
  \/ Withdrawn(job[r], job'[r]) /\ claims'[r] = claims[r]
  \/ /\ job'[r] \in Jobs
     /\ job'[r].attempt = job[r].attempt + 1
     /\ claims'[r] = claims[r] + 1
     /\ job'[r].token = claims[r] + 1
     /\ job'[r].lease = "live"
  \/ /\ job'[r] \in Jobs /\ claims'[r] = claims[r]
     /\ job'[r].state = job[r].state
     /\ job'[r].attempt = job[r].attempt
     /\ job'[r].token = job[r].token
     /\ job'[r].lease = "null" => job[r].lease = "null"
     /\ job[r].lease = "expired" => job'[r].lease # "live"

\* Every step of the queue writes each row in one of those four ways.
LEMMA NextRowStep ==
  ASSUME IInv, [Next]_vars
  PROVE  /\ job' \in [Runs -> Jobs] /\ claims' \in [Runs -> Nat]
         /\ \A r \in Runs : RowStep(r)
<1> USE DEF IInv, TypeOK
<1>1. CASE UNCHANGED vars
  BY <1>1 DEF vars, RowStep
<1>2. ASSUME NEW c \in Clients, NEW r \in Runs, SubmitRead(c, r) \/ CancelRun(c, r)
      PROVE  UNCHANGED <<job, claims>>
  BY <1>2 DEF SubmitRead, CancelRun
<1>3. ASSUME NEW c \in Clients, SubmitCommit(c)
      PROVE  /\ job' \in [Runs -> Jobs] /\ claims' \in [Runs -> Nat]
             /\ \A r \in Runs : RowStep(r)
  <2>1. client[c].r \in Runs /\ client[c].token \in Nat
    BY <1>3 DEF SubmitCommit, BusyHasRun, ClientHasRun, ClientStates
  <2>2. Withdrawn(job[client[c].r], Requeued(job[client[c].r], client[c].token))
    BY <2>1, RequeuedWithdraws
  <2> QED
    BY <1>3, <2>1, <2>2 DEF SubmitCommit, RowStep, Withdrawn
<1>4. ASSUME NEW c \in Clients, CancelRead(c) \/ ClientCrash(c)
      PROVE  UNCHANGED <<job, claims>>
  BY <1>4 DEF CancelRead, ClientCrash
<1>5. ASSUME NEW c \in Clients, CancelCommit(c)
      PROVE  /\ job' \in [Runs -> Jobs] /\ claims' \in [Runs -> Nat]
             /\ \A r \in Runs : RowStep(r)
  <2>1. client[c].r \in Runs /\ client[c].token \in Nat
    BY <1>5 DEF CancelCommit, BusyHasRun, ClientHasRun, ClientStates
  <2>2. Withdrawn(job[client[c].r],
                  [ClearLease(job[client[c].r], client[c].token)
                     EXCEPT !.state = "CANCELLED"])
    BY <2>1, CancelWithdraws
  <2> QED
    BY <1>5, <2>1, <2>2 DEF CancelCommit, RowStep, Withdrawn
<1>6. ASSUME NEW w \in Workers,
             \/ RecoverRead(w) \/ Select(w) \/ ExecuteReturn(w)
             \/ CompleteRead(w) \/ FailRead(w) \/ Restart(w) \/ Crash(w)
      PROVE  UNCHANGED <<job, claims>>
  BY <1>6 DEF RecoverRead, Select, ExecuteReturn, CompleteRead, FailRead,
              Restart, Crash
<1>7. ASSUME NEW w \in Workers, RecoverCommit(w)
      PROVE  /\ job' \in [Runs -> Jobs] /\ claims' \in [Runs -> Nat]
             /\ \A r \in Runs : RowStep(r)
  <2>1. \A r \in Runs : Withdrawn(job[r], Released(job[r], worker[w].seen[r], "now"))
    BY ReleasedWithdraws DEF WorkerStates
  <2> QED
    BY <1>7, <2>1 DEF RecoverCommit, RowStep, Withdrawn
<1>8. ASSUME NEW w \in Workers, Claim(w)
      PROVE  /\ job' \in [Runs -> Jobs] /\ claims' \in [Runs -> Nat]
             /\ \A r \in Runs : RowStep(r)
  <2> DEFINE q == worker[w].r
  <2>1. q \in Runs /\ claims[q] \in Nat
    BY <1>8 DEF Claim, BusyHasRun, WorkerHasRun, WorkerStates
  <2>2. /\ Claimed(job[q], claims[q] + 1) \in Jobs
        /\ Claimed(job[q], claims[q] + 1).attempt = job[q].attempt + 1
        /\ Claimed(job[q], claims[q] + 1).token = claims[q] + 1
        /\ Claimed(job[q], claims[q] + 1).lease = "live"
    BY <2>1, ClaimedRow
  <2>3. CASE UNCHANGED <<job, claims>>
    BY <2>3 DEF RowStep
  <2>4. CASE /\ job' = [job EXCEPT ![q] = Claimed(@, claims[q] + 1)]
             /\ claims' = [claims EXCEPT ![q] = claims[q] + 1]
    BY <2>1, <2>2, <2>4 DEF RowStep
  <2> QED
    BY <1>8, <2>3, <2>4 DEF Claim
<1>9. ASSUME NEW w \in Workers, Heartbeat(w)
      PROVE  /\ job' \in [Runs -> Jobs] /\ claims' \in [Runs -> Nat]
             /\ \A r \in Runs : RowStep(r)
  BY <1>9 DEF Heartbeat, Renewable, RowStep, Jobs, BusyHasRun
<1>10. ASSUME NEW w \in Workers, CompleteCommit(w)
       PROVE  /\ job' \in [Runs -> Jobs] /\ claims' \in [Runs -> Nat]
              /\ \A r \in Runs : RowStep(r)
  <2>1. worker[w].r \in Runs
    BY <1>10 DEF CompleteCommit, BusyHasRun, WorkerHasRun, WorkerStates
  <2>2. Withdrawn(job[worker[w].r],
                  [job[worker[w].r] EXCEPT !.state = "COMPLETED", !.token = 0,
                                           !.lease = "null"])
    BY <2>1, CompletionWithdraws
  <2> QED
    BY <1>10, <2>1, <2>2 DEF CompleteCommit, RowStep, Withdrawn
<1>11. ASSUME NEW w \in Workers, FailCommit(w)
       PROVE  /\ job' \in [Runs -> Jobs] /\ claims' \in [Runs -> Nat]
              /\ \A r \in Runs : RowStep(r)
  <2>1. worker[w].r \in Runs /\ worker[w].seen[worker[w].r] \in Nat
    BY <1>11 DEF FailCommit, BusyHasRun, WorkerHasRun, WorkerStates
  <2>2. Withdrawn(job[worker[w].r],
                  Released(job[worker[w].r], worker[w].seen[worker[w].r], "later"))
    BY <2>1, ReleasedWithdraws
  <2> QED
    BY <1>11, <2>1, <2>2 DEF FailCommit, RowStep, Withdrawn
<1>12. ASSUME NEW r \in Runs, RunMoves(r)
       PROVE  UNCHANGED <<job, claims>>
  BY <1>12 DEF RunMoves
<1>13. ASSUME NEW r \in Runs, Expire(r) \/ BecomeDue(r)
       PROVE  /\ job' \in [Runs -> Jobs] /\ claims' \in [Runs -> Nat]
              /\ \A q \in Runs : RowStep(q)
  <2> DEFINE row(k) == /\ k \in Jobs /\ k.state = job[r].state
                       /\ k.attempt = job[r].attempt /\ k.token = job[r].token
                       /\ k.lease = "null" => job[r].lease = "null"
                       /\ job[r].lease = "expired" => k.lease # "live"
  <2>1. ASSUME NEW k, row(k), job' = [job EXCEPT ![r] = k], UNCHANGED claims
        PROVE  /\ job' \in [Runs -> Jobs] /\ claims' \in [Runs -> Nat]
               /\ \A q \in Runs : RowStep(q)
    BY <2>1 DEF RowStep
  <2>2. CASE Expire(r)
    <3>1. row([job[r] EXCEPT !.lease = "expired"])
      BY <2>2 DEF Expire, Jobs
    <3>2. job' = [job EXCEPT ![r] = [job[r] EXCEPT !.lease = "expired"]]
          /\ UNCHANGED claims
      BY <2>2 DEF Expire
    <3> QED
      BY <2>1, <3>1, <3>2
  <2>3. CASE BecomeDue(r)
    <3>1. row([job[r] EXCEPT !.due = "now"])
      BY DEF Jobs
    <3>2. job' = [job EXCEPT ![r] = [job[r] EXCEPT !.due = "now"]]
          /\ UNCHANGED claims
      BY <2>3 DEF BecomeDue
    <3> QED
      BY <2>1, <3>1, <3>2
  <2> QED
    BY <1>13, <2>2, <2>3
<1>14. ASSUME UNCHANGED <<job, claims>>
       PROVE  /\ job' \in [Runs -> Jobs] /\ claims' \in [Runs -> Nat]
              /\ \A r \in Runs : RowStep(r)
  BY <1>14 DEF RowStep
<1> QED
  BY <1>1, <1>2, <1>3, <1>4, <1>5, <1>6, <1>7, <1>8, <1>9, <1>10, <1>11,
     <1>12, <1>13, <1>14 DEF Next, ClientStep, WorkerStep

\* A worker moves to a well-formed state in which it knows its run.
LEMMA WorkerMoves ==
  ASSUME IInv, NEW w \in Workers, NEW x \in WorkerStates, WorkerHasRun(x),
         worker' = [worker EXCEPT ![w] = x], UNCHANGED client
  PROVE  worker' \in [Workers -> WorkerStates] /\ BusyHasRun'
BY DEF IInv, TypeOK, BusyHasRun

\* A handler moves to a well-formed state in which it knows its run.
LEMMA ClientMoves ==
  ASSUME IInv, NEW c \in Clients, NEW x \in ClientStates, ClientHasRun(x),
         client' = [client EXCEPT ![c] = x], UNCHANGED worker
  PROVE  client' \in [Clients -> ClientStates] /\ BusyHasRun'
BY DEF IInv, TypeOK, BusyHasRun

\* The idle and the dead worker, and the idle handler, are well formed.
LEMMA IdleProcesses ==
  /\ IdleWorker \in WorkerStates /\ WorkerHasRun(IdleWorker)
  /\ \A p \in {"selecting", "dead"} :
       /\ [IdleWorker EXCEPT !.pc = p] \in WorkerStates
       /\ WorkerHasRun([IdleWorker EXCEPT !.pc = p])
  /\ IdleClient \in ClientStates /\ ClientHasRun(IdleClient)
BY DEF IdleWorker, WorkerStates, WorkerPCs, WorkerHasRun, IdleClient,
       ClientStates, ClientPCs, ClientHasRun, JobStates

\* Workers keep their shape and a busy one keeps its run.
LEMMA WorkerSteps ==
  ASSUME IInv, NEW w \in Workers, WorkerStep(w) \/ Heartbeat(w) \/ Crash(w)
  PROVE  worker' \in [Workers -> WorkerStates] /\ BusyHasRun'
<1> DEFINE y == worker[w]
<1>0. /\ y \in WorkerStates /\ WorkerHasRun(y) /\ \A r \in Runs : job[r] \in Jobs
      /\ claims \in [Runs -> Nat]
      /\ worker \in [Workers -> WorkerStates] /\ BusyHasRun
  BY DEF IInv, TypeOK, BusyHasRun
<1>1. CASE RecoverRead(w)
  <2> DEFINE p == IF \E r \in Runs : Expired(r) THEN "recovering" ELSE "selecting"
             s == [r \in Runs |-> IF Expired(r) THEN job[r].attempt ELSE 0]
             x == [y EXCEPT !.pc = p, !.seen = s]
  <2>1. s \in [Runs -> Nat] /\ p \in {"recovering", "selecting"}
    BY <1>0 DEF Jobs
  <2> HIDE DEF s, p
  <2>2. x \in WorkerStates /\ WorkerHasRun(x)
    BY <1>0, <2>1 DEF WorkerStates, WorkerPCs, WorkerHasRun
  <2>3. worker' = [worker EXCEPT ![w] = x] /\ UNCHANGED client
    BY <1>0, <1>1 DEF RecoverRead, s, p
  <2> QED
    BY <2>2, <2>3, WorkerMoves
<1>2. CASE RecoverCommit(w) \/ CompleteCommit(w) \/ Restart(w) \/ Crash(w)
  <2>1. PICK x \in {IdleWorker, [IdleWorker EXCEPT !.pc = "selecting"],
                    [IdleWorker EXCEPT !.pc = "dead"]} :
          worker' = [worker EXCEPT ![w] = x] /\ UNCHANGED client
    BY <1>2 DEF RecoverCommit, CompleteCommit, Restart, Crash
  <2> QED
    BY <2>1, IdleProcesses, WorkerMoves
<1>3. CASE Select(w)
  <2>1. CASE worker' = [worker EXCEPT ![w] = IdleWorker]
    BY <1>3, <2>1, IdleProcesses, WorkerMoves DEF Select
  <2>2. ASSUME NEW r \in Runs,
               worker' = [worker EXCEPT ![w] =
                            [IdleWorker EXCEPT !.pc = "claiming", !.r = r]]
        PROVE  worker' \in [Workers -> WorkerStates] /\ BusyHasRun'
    <3> DEFINE x == [IdleWorker EXCEPT !.pc = "claiming", !.r = r]
    <3>1. x \in WorkerStates /\ WorkerHasRun(x)
      BY DEF IdleWorker, WorkerStates, WorkerPCs, WorkerHasRun
    <3> QED
      BY <1>3, <2>2, <3>1, WorkerMoves DEF Select
  <2> QED
    BY <1>3, <2>1, <2>2 DEF Select
<1>4. CASE Claim(w)
  <2> DEFINE t == claims[y.r] + 1
             x == [y EXCEPT !.pc = "executing", !.token = t]
  <2>1. t \in Nat /\ y.r \in Runs
    BY <1>0, <1>4 DEF Claim, WorkerHasRun
  <2> HIDE DEF t
  <2>2. x \in WorkerStates /\ WorkerHasRun(x)
    BY <1>0, <2>1 DEF WorkerStates, WorkerPCs, WorkerHasRun
  <2>3. \/ worker' = [worker EXCEPT ![w] = x]
        \/ worker' = [worker EXCEPT ![w] = IdleWorker]
    BY <1>0, <1>4 DEF Claim, t
  <2>4. UNCHANGED client
    BY <1>4 DEF Claim
  <2> QED
    BY <2>2, <2>3, <2>4, IdleProcesses, WorkerMoves
<1>5. CASE ExecuteReturn(w) \/ CompleteRead(w)
  <2>1. y.r \in Runs
    BY <1>0, <1>5 DEF ExecuteReturn, CompleteRead, WorkerHasRun
  <2>2. \A p \in {"completing", "completeCommit", "failing"} :
          /\ [y EXCEPT !.pc = p] \in WorkerStates
          /\ WorkerHasRun([y EXCEPT !.pc = p])
    BY <1>0, <2>1 DEF WorkerStates, WorkerPCs, WorkerHasRun
  <2>3. /\ UNCHANGED client
        /\ \/ \E p \in {"completing", "completeCommit", "failing"} :
               worker' = [worker EXCEPT ![w] = [y EXCEPT !.pc = p]]
           \/ worker' = [worker EXCEPT ![w] = [IdleWorker EXCEPT !.pc = "dead"]]
    BY <1>0, <1>5 DEF ExecuteReturn, CompleteRead
  <2> QED
    BY <2>2, <2>3, IdleProcesses, WorkerMoves
<1>6. CASE Heartbeat(w)
  <2> DEFINE x == [y EXCEPT !.beat = "lost"]
  <2>1. x \in WorkerStates /\ WorkerHasRun(x)
    BY <1>0 DEF WorkerStates, WorkerPCs, WorkerHasRun
  <2>2. CASE UNCHANGED worker
    BY <1>0, <1>6, <2>2 DEF Heartbeat, BusyHasRun
  <2>3. CASE worker' = [worker EXCEPT ![w] = x]
    BY <1>6, <2>1, <2>3, WorkerMoves DEF Heartbeat
  <2> QED
    BY <1>0, <1>6, <2>2, <2>3 DEF Heartbeat
<1>7. CASE FailRead(w)
  <2> DEFINE s == [r \in Runs |-> IF r = y.r THEN job[r].attempt ELSE 0]
             x == [y EXCEPT !.pc = "failCommit", !.seen = s]
  <2>1. s \in [Runs -> Nat] /\ y.r \in Runs
    BY <1>0, <1>7 DEF FailRead, WorkerHasRun, Jobs
  <2> HIDE DEF s
  <2>2. x \in WorkerStates /\ WorkerHasRun(x)
    BY <1>0, <2>1 DEF WorkerStates, WorkerPCs, WorkerHasRun
  <2>3. /\ UNCHANGED client
        /\ \/ worker' = [worker EXCEPT ![w] = x]
           \/ worker' = [worker EXCEPT ![w] = IdleWorker]
    BY <1>0, <1>7 DEF FailRead, s
  <2> QED
    BY <2>2, <2>3, IdleProcesses, WorkerMoves
<1>8. CASE FailCommit(w)
  <2>1. /\ UNCHANGED client
        /\ \/ worker' = [worker EXCEPT ![w] = IdleWorker]
           \/ worker' = [worker EXCEPT ![w] = [IdleWorker EXCEPT !.pc = "dead"]]
    BY <1>8 DEF FailCommit
  <2> QED
    BY <2>1, IdleProcesses, WorkerMoves
<1> QED
  BY <1>1, <1>2, <1>3, <1>4, <1>5, <1>6, <1>7, <1>8 DEF WorkerStep

\* Handlers keep their shape and a busy one keeps its run.
LEMMA ClientSteps ==
  ASSUME IInv, NEW c \in Clients,
         \/ \E r \in Runs : SubmitRead(c, r) \/ CancelRun(c, r)
         \/ ClientStep(c) \/ ClientCrash(c)
  PROVE  client' \in [Clients -> ClientStates] /\ BusyHasRun'
<1>0. /\ \A r \in Runs : job[r] \in Jobs
      /\ client[c] \in ClientStates /\ ClientHasRun(client[c])
  BY DEF IInv, TypeOK, BusyHasRun
<1>1. \A r \in Runs, p \in ClientPCs :
        /\ [pc |-> p, r |-> r, state |-> job[r].state, token |-> job[r].token]
             \in ClientStates
        /\ [IdleClient EXCEPT !.pc = p, !.r = r] \in ClientStates
  BY <1>0 DEF ClientStates, Jobs, IdleClient, JobStates
<1>2. \A r \in Runs, p \in ClientPCs :
        /\ ClientHasRun([pc |-> p, r |-> r, state |-> job[r].state,
                         token |-> job[r].token])
        /\ ClientHasRun([IdleClient EXCEPT !.pc = p, !.r = r])
  BY DEF ClientHasRun, IdleClient
<1>3. UNCHANGED worker
  BY DEF SubmitRead, CancelRun, ClientStep, SubmitCommit, CancelRead,
         CancelCommit, ClientCrash
<1>4. \/ client' = [client EXCEPT ![c] = IdleClient]
      \/ \E r \in Runs, p \in ClientPCs :
           \/ client' = [client EXCEPT ![c] =
                 [pc |-> p, r |-> r, state |-> job[r].state, token |-> job[r].token]]
           \/ client' = [client EXCEPT ![c] = [IdleClient EXCEPT !.pc = p, !.r = r]]
  BY <1>0 DEF SubmitRead, CancelRun, ClientStep, SubmitCommit, CancelRead,
         CancelCommit, ClientCrash, ClientPCs, ClientHasRun
<1>5. CASE client' = [client EXCEPT ![c] = IdleClient]
  BY <1>3, <1>5, IdleProcesses, ClientMoves
<1>6. ASSUME NEW r \in Runs, NEW p \in ClientPCs,
             \/ client' = [client EXCEPT ![c] =
                   [pc |-> p, r |-> r, state |-> job[r].state,
                    token |-> job[r].token]]
             \/ client' = [client EXCEPT ![c] =
                             [IdleClient EXCEPT !.pc = p, !.r = r]]
      PROVE  client' \in [Clients -> ClientStates] /\ BusyHasRun'
  <2>1. PICK x : /\ client' = [client EXCEPT ![c] = x]
                 /\ x \in ClientStates /\ ClientHasRun(x)
    BY <1>1, <1>2, <1>6
  <2> QED
    BY <1>3, <2>1, ClientMoves
<1> QED
  BY <1>4, <1>5, <1>6

\* The rest of the types.
LEMMA NextProcesses ==
  ASSUME IInv, [Next]_vars
  PROVE  /\ run' \in [Runs -> RunClasses]
         /\ submits' \in [Runs -> Nat]
         /\ worker' \in [Workers -> WorkerStates]
         /\ client' \in [Clients -> ClientStates]
         /\ crashes' \in Nat
         /\ BusyHasRun'
<1> USE DEF IInv, TypeOK
<1>0. crashes + 1 \in Nat /\ \A r \in Runs : submits[r] + 1 \in Nat
  OBVIOUS
<1>1. CASE UNCHANGED vars
  BY <1>1 DEF vars, BusyHasRun
<1>2. ASSUME NEW c \in Clients,
             \/ \E r \in Runs : SubmitRead(c, r) \/ CancelRun(c, r)
             \/ ClientStep(c) \/ ClientCrash(c)
      PROVE  /\ run' \in [Runs -> RunClasses] /\ submits' \in [Runs -> Nat]
             /\ crashes' \in Nat /\ UNCHANGED worker
  <2>1. CASE \E r \in Runs : SubmitRead(c, r) \/ CancelRun(c, r)
    BY <2>1 DEF SubmitRead, CancelRun, RunClasses
  <2>2. CASE SubmitCommit(c)
    BY <1>0, <2>2 DEF SubmitCommit
  <2>3. CASE CancelRead(c) \/ CancelCommit(c) \/ ClientCrash(c)
    BY <1>0, <2>3 DEF CancelRead, CancelCommit, ClientCrash
  <2> QED
    BY <1>2, <2>1, <2>2, <2>3 DEF ClientStep
<1>3. ASSUME NEW w \in Workers, WorkerStep(w) \/ Heartbeat(w) \/ Crash(w)
      PROVE  /\ run' \in [Runs -> RunClasses] /\ submits' \in [Runs -> Nat]
             /\ crashes' \in Nat /\ UNCHANGED client
  BY <1>0, <1>3 DEF WorkerStep, Heartbeat, Crash, RecoverRead, RecoverCommit, Select,
              Claim, ExecuteReturn, CompleteRead, CompleteCommit, FailRead,
              FailCommit, Restart, RunClasses
<1>4. ASSUME NEW r \in Runs, RunMoves(r) \/ Expire(r) \/ BecomeDue(r)
      PROVE  /\ run' \in [Runs -> RunClasses]
             /\ UNCHANGED <<submits, worker, client, crashes>>
  BY <1>4 DEF RunMoves, Expire, BecomeDue
<1>5. UNCHANGED <<worker, client>> => BusyHasRun'
  BY DEF BusyHasRun
<1> QED
  BY <1>1, <1>2, <1>3, <1>4, <1>5, WorkerSteps, ClientSteps DEF Next

-----------------------------------------------------------------------------
\* The inductive invariant holds initially and is kept by every step.
THEOREM Invariance == Spec => []IInv
<1>1. Init => IInv
  BY DEF Init, IInv, TypeOK, BusyHasRun, TokensDrawn, RunningIsRecoverable,
         AttemptCountsClaims, NoJob, Jobs, JobStates, RunClasses, IdleWorker,
         IdleClient, WorkerPCs, ClientPCs, WorkerStates, ClientStates,
         WorkerHasRun, ClientHasRun
<1>2. IInv /\ [Next]_vars => IInv'
  <2> SUFFICES ASSUME IInv, [Next]_vars PROVE IInv'
    OBVIOUS
  <2>1. /\ job' \in [Runs -> Jobs] /\ claims' \in [Runs -> Nat]
        /\ \A r \in Runs : RowStep(r)
    BY NextRowStep
  <2>2. TypeOK' /\ BusyHasRun'
    BY <2>1, NextProcesses DEF TypeOK
  <2>3. \A r \in Runs : /\ job'[r].token <= claims'[r]
                        /\ job'[r].attempt = claims'[r]
                        /\ job'[r].state = "RUNNING" => /\ job'[r].token # 0
                                                        /\ job'[r].lease # "null"
    <3> SUFFICES ASSUME NEW r \in Runs
                 PROVE  /\ job'[r].token <= claims'[r]
                        /\ job'[r].attempt = claims'[r]
                        /\ job'[r].state = "RUNNING" => /\ job'[r].token # 0
                                                        /\ job'[r].lease # "null"
      OBVIOUS
    <3>1. /\ job[r] \in Jobs /\ job'[r] \in Jobs
          /\ claims[r] \in Nat /\ claims'[r] \in Nat /\ RowStep(r)
      BY <2>1 DEF IInv, TypeOK
    <3>2. /\ job[r].token <= claims[r] /\ job[r].attempt = claims[r]
          /\ job[r].state = "RUNNING" => job[r].token # 0 /\ job[r].lease # "null"
      BY DEF IInv, TokensDrawn, AttemptCountsClaims, RunningIsRecoverable
    <3>3. job[r].token \in Nat /\ job'[r].token \in Nat /\ job[r].attempt \in Nat
      BY <3>1 DEF Jobs
    <3>4. CASE job'[r] = job[r] /\ claims'[r] = claims[r]
      BY <3>2, <3>4
    <3>5. CASE Withdrawn(job[r], job'[r]) /\ claims'[r] = claims[r]
      BY <3>1, <3>2, <3>3, <3>5 DEF Withdrawn
    <3>6. CASE /\ job'[r].attempt = job[r].attempt + 1
               /\ claims'[r] = claims[r] + 1
               /\ job'[r].token = claims[r] + 1
               /\ job'[r].lease = "live"
      BY <3>1, <3>2, <3>3, <3>6
    <3>7. CASE /\ claims'[r] = claims[r] /\ job'[r].state = job[r].state
               /\ job'[r].attempt = job[r].attempt
               /\ job'[r].token = job[r].token
               /\ job'[r].lease = "null" => job[r].lease = "null"
      BY <3>2, <3>7
    <3> QED
      BY <3>1, <3>4, <3>5, <3>6, <3>7 DEF RowStep
  <2> QED
    BY <2>2, <2>3 DEF IInv, TokensDrawn, RunningIsRecoverable, AttemptCountsClaims
<1> QED
  BY <1>1, <1>2, PTL DEF Spec

\* Type correctness of the queue.
THEOREM TypeCorrect == Spec => []TypeOK
BY Invariance, PTL DEF IInv

\* No RUNNING job is ever without the expiry that recovery looks for, whatever
\* stale commits interleave.
THEOREM Recoverable == Spec => []RunningIsRecoverable
BY Invariance, PTL DEF IInv

\* Every execution ever started is counted in attempt.
THEOREM AttemptsCounted == Spec => []AttemptCountsClaims
BY Invariance, PTL DEF IInv

\* An expired lease becomes live only under a token drawn by a new claim.
THEOREM LostLeases == Spec => ExpiredLeaseStaysLost
<1>1. IInv /\ [Next]_vars =>
        [\A r \in Runs : /\ job[r].lease = "expired"
                         /\ job'[r].lease = "live"
                         => job'[r].token # job[r].token]_job
  <2> SUFFICES ASSUME IInv, [Next]_vars, NEW r \in Runs,
                      job[r].lease = "expired", job'[r].lease = "live"
               PROVE  job'[r].token # job[r].token
    OBVIOUS
  <2>1. RowStep(r) /\ job[r] \in Jobs /\ claims[r] \in Nat
    BY NextRowStep DEF IInv, TypeOK
  <2>2. job[r].token <= claims[r]
    BY DEF IInv, TokensDrawn
  <2> QED
    BY <2>1, <2>2 DEF RowStep, Withdrawn, Jobs
<1> QED
  BY <1>1, Invariance, PTL DEF Spec, ExpiredLeaseStaysLost

-----------------------------------------------------------------------------
(* The queue implements LeasedWork                                         *)

\* The steps of a worker that holds a claim.
Busy == {"executing", "completing", "completeCommit", "failing", "failCommit"}

\* A row was submitted once its state is not NONE; a queued one may be claimed
\* within the budget, and only a cancelled run has a cancelled job.
RowKept(r) ==
  /\ job[r].state = "NONE" <=> submits[r] = 0
  /\ job[r].state = "NONE" => claims[r] = 0
  /\ job[r].state # "NONE" => claims[r] < MaxAttempts + submits[r]
  /\ job[r].state = "QUEUED" => claims[r] + 1 < MaxAttempts + submits[r]
  /\ job[r].state = "RUNNING" => job[r].token = claims[r]
  /\ job[r].state = "CANCELLED" => run[r] = "CANCELLED"

\* What the one worker read of a row still holds, unless the job was cancelled.
WorkerKept(w) ==
  LET x == worker[w] IN
  /\ x.token # 0 <=> x.pc \in Busy
  /\ x.pc \in Busy => /\ x.token = claims[x.r]
                      /\ job[x.r].state \in {"RUNNING", "CANCELLED"}
  /\ x.pc = "failCommit" => x.seen[x.r] = job[x.r].attempt
  /\ x.pc = "recovering" =>
       \A r \in Runs : x.seen[r] # 0 =>
         /\ x.seen[r] = job[r].attempt
         /\ job[r].state \in {"RUNNING", "CANCELLED"}
         /\ job[r].state = "RUNNING" => job[r].lease = "expired"

\* The one handler cancels the job of a cancelled run only, and submits a job
\* that nobody has touched since it was read.
ClientKept(c) ==
  LET x == client[c] IN
  /\ x.pc \in {"cancelRead", "cancelCommit"} => run[x.r] = "CANCELLED"
  /\ x.pc = "submitCommit" => /\ job[x.r].state = x.state
                              /\ x.state \in {"NONE", "COMPLETED", "FAILED"}
  /\ x.pc = "cancelCommit" => job[x.r].state # "NONE"

SoleInv == /\ \A r \in Runs : RowKept(r)
           /\ \A w \in Workers : WorkerKept(w)
           /\ \A c \in Clients : ClientKept(c)

\* A step of LeasedWork for the job of r, or a stutter.
Refined(r) == [Leased(r)!WorkNext]_(Leased(r)!workVars)

HeldBy(x, r) == IF x.r = r /\ x.token # 0 THEN {x.token} ELSE {}

-----------------------------------------------------------------------------
\* With one worker, a job is held under the token of that worker or not at all.
LEMMA HeldIs ==
  ASSUME NEW w, Workers = {w}, NEW r \in Runs
  PROVE  Held(r) = HeldBy(worker[w], r) /\ Held(r)' = HeldBy(worker'[w], r)
BY DEF Held, HeldBy

\* The four phases tell apart the states of a row up to how it ended.
LEMMA PhaseOf ==
  ASSUME NEW j \in Jobs
  PROVE  /\ j.state = "NONE" <=> Phase(j) = "none"
         /\ j.state = "QUEUED" <=> Phase(j) = "offered"
         /\ j.state = "RUNNING" <=> Phase(j) = "held"
         /\ j.state \in Terminal <=> Phase(j) = "closed"
<1>1. CASE j.state = "NONE"
  BY <1>1 DEF Phase, Terminal
<1>2. CASE j.state = "QUEUED"
  BY <1>2 DEF Phase, Terminal
<1>3. CASE j.state = "RUNNING"
  BY <1>3 DEF Phase, Terminal
<1>4. CASE j.state \in Terminal
  BY <1>4 DEF Phase, Terminal
<1> QED
  BY <1>1, <1>2, <1>3, <1>4 DEF Jobs, JobStates

\* The lease of LeasedWork is the one of a RUNNING row.
LEMMA LeaseOf ==
  ASSUME NEW j \in Jobs
  PROVE  /\ j.state # "RUNNING" => Lease(j) = "none"
         /\ j.state = "RUNNING" /\ j.lease = "expired" => Lease(j) = "lapsed"
         /\ j.state = "RUNNING" /\ j.lease # "expired" => Lease(j) = j.lease
BY DEF Lease

\* What a step must show to be no step of LeasedWork at all.
LEMMA RestRefines ==
  ASSUME NEW r \in Runs,
         Phase(job'[r]) = Phase(job[r]), Lease(job'[r]) = Lease(job[r]),
         claims'[r] = claims[r], submits'[r] = submits[r], Held(r)' = Held(r)
  PROVE  Refined(r)
BY DEF Refined, Leased!workVars, Budget

\* What a step must show to be a Take of LeasedWork.
LEMMA TakeRefines ==
  ASSUME NEW r \in Runs,
         Phase(job[r]) = "offered", claims[r] < Budget(r),
         Phase(job'[r]) = "held", Lease(job'[r]) = "live",
         claims'[r] = claims[r] + 1, submits'[r] = submits[r],
         Held(r)' = Held(r) \cup {claims'[r]}
  PROVE  Refined(r)
BY DEF Refined, Leased!WorkNext, Leased!Take, Budget

\* What a step must show to be an Offer of LeasedWork.
LEMMA OfferRefines ==
  ASSUME NEW r \in Runs, submits[r] \in Nat,
         Phase(job[r]) \in {"none", "closed"}, Phase(job'[r]) = "offered",
         Phase(job[r]) = "none" <=> submits[r] = 0, 
         Lease(job'[r]) = Lease(job[r]), claims'[r] = claims[r],
         submits'[r] = submits[r] + 1, Held(r)' = Held(r)
  PROVE  Refined(r)
<1>1. Budget(r)' = IF Phase(job[r]) = "none" THEN MaxAttempts ELSE Budget(r) + 1
  BY BoundsAssumption DEF Budget
<1> QED
  BY <1>1 DEF Refined, Leased!WorkNext, Leased!Offer

\* What a step must show to be a Lapse of LeasedWork.
LEMMA LapseRefines ==
  ASSUME NEW r \in Runs,
         Phase(job'[r]) = Phase(job[r]), Lease(job[r]) = "live",
         Lease(job'[r]) = "lapsed",
         claims'[r] = claims[r], submits'[r] = submits[r], Held(r)' = Held(r)
  PROVE  Refined(r)
BY DEF Refined, Leased!WorkNext, Leased!Lapse, Budget

\* What a step must show to be a Finish of LeasedWork.
LEMMA FinishRefines ==
  ASSUME NEW r \in Runs, claims[r] \in Held(r), 
         Phase(job[r]) \in {"held", "closed"},
         Phase(job'[r]) \in {"offered", "closed"}, Lease(job'[r]) = "none",
         claims'[r] = claims[r], submits'[r] = submits[r],
         Held(r)' = Held(r) \ {claims[r]}
  PROVE  Refined(r)
BY DEF Refined, Leased!WorkNext, Leased!Finish, Budget

\* What a step must show to be a Leave of LeasedWork.
LEMMA LeaveRefines ==
  ASSUME NEW r \in Runs, claims[r] \in Held(r),
         Phase(job'[r]) = Phase(job[r]), Lease(job'[r]) = Lease(job[r]),
         claims'[r] = claims[r], submits'[r] = submits[r],
         Held(r)' = Held(r) \ {claims[r]}
  PROVE  Refined(r)
BY DEF Refined, Leased!WorkNext, Leased!Leave, Budget

\* What a step must show to be a Recover of LeasedWork.
LEMMA RecoverRefines ==
  ASSUME NEW r \in Runs, Phase(job[r]) = "held", Lease(job[r]) = "lapsed",
         Phase(job'[r]) \in {"offered", "closed"}, Lease(job'[r]) = "none",
         claims'[r] = claims[r], submits'[r] = submits[r], Held(r)' = Held(r)
  PROVE  Refined(r)
BY DEF Refined, Leased!WorkNext, Leased!Recover, Budget

\* What a step must show to be a Withdraw of LeasedWork.
LEMMA WithdrawRefines ==
  ASSUME NEW r \in Runs, Phase(job[r]) \in {"offered", "held"},
         Phase(job'[r]) = "closed", Lease(job'[r]) = "none",
         claims'[r] = claims[r], submits'[r] = submits[r], Held(r)' = Held(r)
  PROVE  Refined(r)
BY DEF Refined, Leased!WorkNext, Leased!Withdraw, Budget

\* What a step must show to be a Revive of LeasedWork.
LEMMA ReviveRefines ==
  ASSUME NEW r \in Runs, Phase(job[r]) = "closed",
         Phase(job'[r]) = "offered", Lease(job'[r]) = Lease(job[r]),
         claims'[r] = claims[r], submits'[r] = submits[r], Held(r)' = Held(r)
  PROVE  Refined(r)
BY DEF Refined, Leased!WorkNext, Leased!Revive, Budget

-----------------------------------------------------------------------------
\* What one step owes: the invariant again, and a step of every job's LeasedWork.
Owed == SoleInv' /\ \A r \in Runs : Refined(r)

\* The steps of the handler that write no row of the queue.
LEMMA ClientReads ==
  ASSUME NEW w, NEW c, Workers = {w}, Clients = {c}, IInv, SoleInv,
         \/ \E r \in Runs : SubmitRead(c, r) \/ CancelRun(c, r)
         \/ CancelRead(c) \/ ClientCrash(c)
  PROVE  Owed
<1>1. /\ UNCHANGED <<job, claims, submits, worker>>
      /\ \A r \in Runs : run[r] = "CANCELLED" => run'[r] = "CANCELLED"
  BY DEF SubmitRead, CancelRun, CancelRead, ClientCrash, IInv, TypeOK
<1>2. \A r \in Runs : Refined(r)
  BY <1>1, HeldIs, RestRefines
<1>3. \A r \in Runs : RowKept(r)'
  BY <1>1 DEF SoleInv, RowKept
<1>4. WorkerKept(w)'
  BY <1>1 DEF SoleInv, WorkerKept
<1>5. ClientKept(c)'
  <2> USE DEF IInv, TypeOK, ClientStates
  <2>1. ASSUME NEW r \in Runs, SubmitRead(c, r) PROVE ClientKept(c)'
    <3>1. job[r].state \in {"NONE", "COMPLETED", "FAILED"}
      BY <2>1 DEF SubmitRead, SoleInv, RowKept, Jobs, JobStates, Terminal
    <3> QED
      BY <1>1, <2>1, <3>1 DEF SubmitRead, ClientKept
  <2>2. ASSUME NEW r \in Runs, CancelRun(c, r) PROVE ClientKept(c)'
    BY <1>1, <2>2 DEF CancelRun, ClientKept, IdleClient
  <2>3. CASE CancelRead(c)
    BY <1>1, <2>3 DEF CancelRead, SoleInv, ClientKept, BusyHasRun, ClientHasRun,
       Terminal, IdleClient
  <2>4. CASE ClientCrash(c)
    BY <2>4 DEF ClientCrash, ClientKept, IdleClient
  <2> QED
    BY <2>1, <2>2, <2>3, <2>4
<1> QED
  BY <1>2, <1>3, <1>4, <1>5 DEF Owed, SoleInv

\* submit's commit is an Offer: the row is as it was read.
LEMMA SubmitOwed ==
  ASSUME NEW w, NEW c, Workers = {w}, Clients = {c}, IInv, SoleInv,
         SubmitCommit(c)
  PROVE  Owed
<1> DEFINE s == client[c].r
<1>1. /\ s \in Runs /\ client[c].token \in Nat
      /\ job[s].state = client[c].state
      /\ job[s].state \in {"NONE", "COMPLETED", "FAILED"}
      /\ job[s] \in Jobs
  BY DEF SubmitCommit, SoleInv, ClientKept, IInv, TypeOK, BusyHasRun,
         ClientHasRun, ClientStates
<1>2. /\ job' = [job EXCEPT ![s] = Requeued(job[s], client[c].token)]
      /\ submits' = [submits EXCEPT ![s] = submits[s] + 1]
      /\ client' = [client EXCEPT ![c] = IdleClient]
      /\ UNCHANGED <<run, claims, worker, crashes>>
  BY <1>1 DEF SubmitCommit
<1>3. /\ job'[s] \in Jobs /\ job'[s].state = "QUEUED" /\ submits'[s] = submits[s] + 1
      /\ \A r \in Runs \ {s} : job'[r] = job[r] /\ submits'[r] = submits[r]
  BY <1>1, <1>2 DEF Requeued, ClearLease, Jobs, JobStates, IInv, TypeOK
<1>4. \A r \in Runs : submits[r] \in Nat /\ claims[r] \in Nat
  BY DEF IInv, TypeOK
<1>5. \A r \in Runs : Refined(r)
  <2> SUFFICES ASSUME NEW r \in Runs PROVE Refined(r)
    OBVIOUS
  <2>1. CASE r = s
    <3>1. /\ Phase(job[r]) \in {"none", "closed"} /\ Phase(job'[r]) = "offered"
          /\ Phase(job[r]) = "none" <=> submits[r] = 0
          /\ Lease(job'[r]) = Lease(job[r])
      BY <1>1, <1>3, <2>1, PhaseOf, LeaseOf DEF SoleInv, RowKept, Terminal
    <3> QED
      BY <1>2, <1>3, <1>4, <2>1, <3>1, HeldIs, OfferRefines
  <2>2. CASE r # s
    BY <1>2, <1>3, <2>2, HeldIs, RestRefines
  <2> QED
    BY <2>1, <2>2
<1>6. \A r \in Runs : RowKept(r)'
  BY <1>1, <1>2, <1>3, <1>4, BoundsAssumption DEF SoleInv, RowKept
<1>7. WorkerKept(w)'
  BY <1>1, <1>2, <1>3 DEF SoleInv, WorkerKept, IInv, TypeOK, BusyHasRun,
     WorkerHasRun, Busy
<1>8. ClientKept(c)'
  BY <1>2 DEF ClientKept, IdleClient, IInv, TypeOK
<1> QED
  BY <1>5, <1>6, <1>7, <1>8 DEF Owed, SoleInv

\* cancel's commit is a Withdraw, or nothing if the job ended in the meantime.
LEMMA CancelOwed ==
  ASSUME NEW w, NEW c, Workers = {w}, Clients = {c}, IInv, SoleInv,
         CancelCommit(c)
  PROVE  Owed
<1> DEFINE s == client[c].r
<1>1. /\ s \in Runs /\ client[c].token \in Nat /\ run[s] = "CANCELLED"
      /\ job[s].state # "NONE" /\ job[s] \in Jobs
  BY DEF CancelCommit, SoleInv, ClientKept, IInv, TypeOK, BusyHasRun,
         ClientHasRun, ClientStates
<1>2. /\ job'[s] \in Jobs
      /\ job'[s].state = "CANCELLED" /\ job'[s].attempt = job[s].attempt
      /\ \A r \in Runs \ {s} : job'[r] = job[r]
      /\ client' = [client EXCEPT ![c] = IdleClient]
      /\ UNCHANGED <<run, claims, submits, worker>>
  BY <1>1 DEF CancelCommit, ClearLease, Jobs, JobStates, Terminal, IInv, TypeOK
<1>3. \A r \in Runs : submits[r] \in Nat /\ claims[r] \in Nat
  BY DEF IInv, TypeOK
<1>4. \A r \in Runs : Refined(r)
  <2> SUFFICES ASSUME NEW r \in Runs PROVE Refined(r)
    OBVIOUS
  <2>1. CASE r = s
    <3>1. Phase(job'[r]) = "closed" /\ Lease(job'[r]) = "none"
      BY <1>2, <2>1, PhaseOf, LeaseOf DEF Terminal
    <3>2. \/ Phase(job[r]) \in {"offered", "held"}
          \/ Phase(job[r]) = "closed" /\ Lease(job[r]) = "none"
      BY <1>1, <2>1, PhaseOf, LeaseOf DEF Jobs, JobStates
    <3> QED
      BY <1>2, <3>1, <3>2, HeldIs, WithdrawRefines, RestRefines
  <2>2. CASE r # s
    BY <1>2, <2>2, HeldIs, RestRefines
  <2> QED
    BY <2>1, <2>2
<1>5. \A r \in Runs : RowKept(r)'
  BY <1>1, <1>2, <1>3, BoundsAssumption DEF SoleInv, RowKept
<1>6. WorkerKept(w)'
  BY <1>1, <1>2 DEF SoleInv, WorkerKept, IInv, TypeOK, BusyHasRun,
     WorkerHasRun, Busy
<1>7. ClientKept(c)'
  BY <1>2 DEF ClientKept, IdleClient, IInv, TypeOK
<1> QED
  BY <1>4, <1>5, <1>6, <1>7 DEF Owed, SoleInv

\* An expiry is a Lapse of a RUNNING row; runs move and delays end unnoticed.
LEMMA TimeOwed ==
  ASSUME NEW w, NEW c, Workers = {w}, Clients = {c}, IInv, SoleInv,
         NEW s \in Runs, RunMoves(s) \/ Expire(s) \/ BecomeDue(s)
  PROVE  Owed
<1>1. /\ UNCHANGED <<claims, submits, worker, client>>
      /\ \A r \in Runs : run[r] = "CANCELLED" => run'[r] = "CANCELLED"
      /\ \A r \in Runs : /\ job[r] \in Jobs /\ job'[r] \in Jobs
                         /\ job'[r].state = job[r].state
                         /\ job'[r].attempt = job[r].attempt
                         /\ job'[r].token = job[r].token
                         /\ \/ job'[r].lease = job[r].lease
                            \/ job[r].lease = "live" /\ job'[r].lease = "expired"
  <2> USE DEF IInv, TypeOK
  <2>1. CASE RunMoves(s)
    BY <2>1 DEF RunMoves
  <2>2. CASE Expire(s)
    BY <2>2 DEF Expire, Jobs
  <2>3. CASE BecomeDue(s)
    BY <2>3 DEF BecomeDue, Jobs
  <2> QED
    BY <2>1, <2>2, <2>3
<1>2. \A r \in Runs : Refined(r)
  <2> SUFFICES ASSUME NEW r \in Runs PROVE Refined(r)
    OBVIOUS
  <2>1. Phase(job'[r]) = Phase(job[r])
    BY <1>1 DEF Phase
  <2>2. \/ Lease(job'[r]) = Lease(job[r])
        \/ Lease(job[r]) = "live" /\ Lease(job'[r]) = "lapsed"
    BY <1>1, LeaseOf
  <2> QED
    BY <1>1, <2>1, <2>2, HeldIs, LapseRefines, RestRefines
<1>3. \A r \in Runs : RowKept(r)'
  BY <1>1 DEF SoleInv, RowKept
<1>4. WorkerKept(w)'
  BY <1>1 DEF SoleInv, WorkerKept, IInv, TypeOK, BusyHasRun, WorkerHasRun, Busy
<1>5. ClientKept(c)'
  BY <1>1 DEF SoleInv, ClientKept, IInv, TypeOK, BusyHasRun, ClientHasRun
<1> QED
  BY <1>2, <1>3, <1>4, <1>5 DEF Owed, SoleInv

-----------------------------------------------------------------------------
\* A read or an end of the worker that changes no row: every job rests, but for
\* the one the worker lets go.
LEMMA WorkerOnly ==
  ASSUME NEW w, NEW c, Workers = {w}, Clients = {c}, IInv, SoleInv,
         UNCHANGED <<job, run, claims, submits, client>>, WorkerKept(w)',
         \/ worker'[w].r = worker[w].r /\ worker'[w].token = worker[w].token
         \/ worker'[w].token = 0
  PROVE  Owed
<1>1. \A r \in Runs : Refined(r)
  <2> SUFFICES ASSUME NEW r \in Runs PROVE Refined(r)
    OBVIOUS
  <2>1. CASE Held(r)' = Held(r)
    BY <2>1, RestRefines
  <2>2. CASE Held(r)' # Held(r)
    <3>1. Held(r) = {claims[r]} /\ Held(r)' = {}
      <4>1. /\ Held(r) = HeldBy(worker[w], r)
            /\ Held(r)' = HeldBy(worker'[w], r)
        BY HeldIs
      <4>2. worker[w].token # 0 /\ worker[w].r = r /\ worker'[w].token = 0
        BY <2>2, <4>1 DEF HeldBy
      <4>3. worker[w].token = claims[r]
        BY <4>2 DEF SoleInv, WorkerKept
      <4> QED
        BY <4>1, <4>2, <4>3 DEF HeldBy
    <3> QED
      BY <3>1, LeaveRefines
  <2> QED
    BY <2>1, <2>2
<1>2. (\A r \in Runs : RowKept(r)') /\ ClientKept(c)'
  BY DEF SoleInv, RowKept, ClientKept
<1> QED
  BY <1>1, <1>2 DEF Owed, SoleInv

\* The reads of the worker, its crash and its restart: a lost take is a Leave.
LEMMA WorkerReads ==
  ASSUME NEW w, NEW c, Workers = {w}, Clients = {c}, IInv, SoleInv,
         \/ RecoverRead(w) \/ Select(w) \/ ExecuteReturn(w) \/ CompleteRead(w)
         \/ FailRead(w) \/ Restart(w) \/ Crash(w)
  PROVE  Owed
<1> DEFINE x == worker[w]
<1> USE DEF IInv, TypeOK
<1>1. worker \in [Workers -> WorkerStates] /\ x \in WorkerStates
  OBVIOUS
<1>2. CASE RecoverRead(w)
  <2>1. /\ UNCHANGED <<job, run, claims, submits, client>>
        /\ worker'[w] = [x EXCEPT !.pc = IF \E r \in Runs : Expired(r)
                                         THEN "recovering" ELSE "selecting",
                                  !.seen = [r \in Runs |->
                                    IF Expired(r) THEN job[r].attempt ELSE 0]]
    BY <1>1, <1>2 DEF RecoverRead
  <2>2. /\ worker'[w].pc \in {"recovering", "selecting"}
        /\ worker'[w].r = x.r /\ worker'[w].token = x.token
        /\ worker'[w].seen = [r \in Runs |->
                                IF Expired(r) THEN job[r].attempt ELSE 0]
    BY <1>1, <2>1 DEF WorkerStates
  <2>3. x.token = 0
    BY <1>2 DEF RecoverRead, SoleInv, WorkerKept, Busy
  <2>4. WorkerKept(w)'
    BY <2>1, <2>2, <2>3 DEF WorkerKept, Expired, Busy
  <2> QED
    BY <2>1, <2>2, <2>4, WorkerOnly
<1>3. CASE Select(w)
  <2>1. /\ UNCHANGED <<job, run, claims, submits, client>>
        /\ worker'[w].pc \in {"claiming", "idle"} /\ worker'[w].token = 0
    <3>1. \/ \E r \in Runs :
               worker'[w] = [IdleWorker EXCEPT !.pc = "claiming", !.r = r]
          \/ worker'[w] = IdleWorker
      BY <1>1, <1>3 DEF Select
    <3>2. /\ IdleWorker \in WorkerStates
          /\ IdleWorker.token = 0 /\ IdleWorker.pc = "idle"
      BY DEF IdleWorker, WorkerStates, WorkerPCs
    <3> QED
      BY <1>3, <3>1, <3>2 DEF Select, WorkerStates
  <2>2. WorkerKept(w)'
    BY <2>1 DEF WorkerKept, Busy
  <2> QED
    BY <2>1, <2>2, WorkerOnly
<1>4. CASE ExecuteReturn(w)
  <2>1. /\ UNCHANGED <<job, run, claims, submits, client>>
        /\ worker'[w].pc \in {"completing", "failing"}
        /\ worker'[w].token = x.token /\ worker'[w].r = x.r
    BY <1>1, <1>4 DEF ExecuteReturn, WorkerStates
  <2>2. WorkerKept(w)'
    BY <1>4, <2>1 DEF ExecuteReturn, SoleInv, WorkerKept, Busy
  <2> QED
    BY <2>1, <2>2, WorkerOnly
<1>5. CASE CompleteRead(w)
  <2>1. /\ UNCHANGED <<job, run, claims, submits, client>>
        /\ \/ /\ worker'[w].pc = "completeCommit"
              /\ worker'[w].token = x.token /\ worker'[w].r = x.r
           \/ worker'[w].pc = "dead" /\ worker'[w].token = 0
    BY <1>1, <1>5 DEF CompleteRead, WorkerStates, IdleWorker
  <2>2. WorkerKept(w)'
    BY <1>5, <2>1 DEF CompleteRead, SoleInv, WorkerKept, Busy
  <2> QED
    BY <2>1, <2>2, WorkerOnly
<1>6. CASE FailRead(w)
  <2>0. x.r \in Runs
    BY <1>6 DEF FailRead, BusyHasRun, WorkerHasRun
  <2>1. /\ UNCHANGED <<job, run, claims, submits, client>>
        /\ \/ /\ worker'[w].pc = "failCommit"
              /\ worker'[w].token = x.token /\ worker'[w].r = x.r
              /\ worker'[w].seen[x.r] = job[x.r].attempt
           \/ worker'[w].pc = "idle" /\ worker'[w].token = 0
    BY <1>1, <1>6, <2>0 DEF FailRead, WorkerStates, IdleWorker
  <2>2. WorkerKept(w)'
    BY <1>6, <2>1 DEF FailRead, SoleInv, WorkerKept, Busy
  <2> QED
    BY <2>1, <2>2, WorkerOnly
<1>7. CASE Restart(w) \/ Crash(w)
  <2>1. /\ UNCHANGED <<job, run, claims, submits, client>>
        /\ worker'[w].pc \in {"dead", "idle"} /\ worker'[w].token = 0
    BY <1>1, <1>7 DEF Restart, Crash, IdleWorker
  <2>2. WorkerKept(w)'
    BY <2>1 DEF WorkerKept, Busy
  <2> QED
    BY <2>1, <2>2, WorkerOnly
<1> QED
  BY <1>2, <1>3, <1>4, <1>5, <1>6, <1>7

\* A heartbeat renews a lease that is live, or learns that it is lost.
LEMMA HeartbeatOwed ==
  ASSUME NEW w, NEW c, Workers = {w}, Clients = {c}, IInv, SoleInv, Heartbeat(w)
  PROVE  Owed
<1> DEFINE x == worker[w]
<1> USE DEF IInv, TypeOK
<1>1. /\ x \in WorkerStates /\ x.r \in Runs /\ job[x.r] \in Jobs
      /\ UNCHANGED <<run, claims, submits, client>>
  BY DEF Heartbeat, BusyHasRun, WorkerHasRun
<1>2. CASE Renewable(x.r, x.token)
  <2>1. UNCHANGED <<job, worker>>
    <3>1. job' = [job EXCEPT ![x.r].lease = "live"] /\ UNCHANGED worker
      BY <1>2 DEF Heartbeat
    <3>2. job[x.r].lease = "live"
      BY <1>2 DEF Renewable
    <3>3. [job[x.r] EXCEPT !.lease = "live"] = job[x.r]
      BY <1>1, <3>2 DEF Jobs
    <3> QED
      BY <1>1, <3>1, <3>3
  <2> QED
    BY <1>1, <2>1, WorkerOnly DEF SoleInv, WorkerKept
<1>3. CASE ~Renewable(x.r, x.token)
  <2>1. /\ UNCHANGED <<job, run, claims, submits, client>>
        /\ worker'[w] = [x EXCEPT !.beat = "lost"]
    BY <1>1, <1>3 DEF Heartbeat
  <2>2. /\ worker'[w].pc = x.pc /\ worker'[w].r = x.r
        /\ worker'[w].token = x.token /\ worker'[w].seen = x.seen
    BY <1>1, <2>1 DEF WorkerStates
  <2>3. WorkerKept(w)'
    BY <2>1, <2>2 DEF SoleInv, WorkerKept
  <2> QED
    BY <2>1, <2>2, <2>3, WorkerOnly
<1> QED
  BY <1>2, <1>3

\* The state recovery and failure write, by the attempt that was read.
LEMMA ReleasedRow ==
  ASSUME NEW j \in Jobs, NEW a \in Nat, NEW due \in {"now", "later"}
  PROVE  /\ Released(j, a, due) \in Jobs
         /\ Released(j, a, due).state = IF a < MaxAttempts THEN "QUEUED" ELSE "FAILED"
BY DEF Released, Jobs, JobStates, Terminal

\* Recovery takes jobs from expired leases (Recover), or revives a job that was
\* cancelled since it was read (Revive).
LEMMA RecoverOwed ==
  ASSUME NEW w, NEW c, Workers = {w}, Clients = {c}, IInv, SoleInv,
         RecoverCommit(w)
  PROVE  Owed
<1> DEFINE x == worker[w]
<1> USE DEF IInv, TypeOK
<1>1. /\ x \in WorkerStates /\ x.token = 0
      /\ \A r \in Runs : /\ job[r] \in Jobs /\ claims[r] \in Nat /\ submits[r] \in Nat
                         /\ x.seen[r] \in Nat
  BY DEF RecoverCommit, SoleInv, WorkerKept, Busy, WorkerStates
<1>2. /\ \A r \in Runs : job'[r] = IF x.seen[r] = 0 THEN job[r]
                                   ELSE Released(job[r], x.seen[r], "now")
      /\ UNCHANGED <<run, claims, submits, client>>
      /\ worker'[w].pc = "selecting" /\ worker'[w].token = 0
  BY DEF RecoverCommit, IdleWorker
<1>3. \A r \in Runs : x.seen[r] # 0 =>
        /\ job'[r] \in Jobs
        /\ job'[r].state = IF job[r].attempt < MaxAttempts THEN "QUEUED" ELSE "FAILED"
        /\ job[r].state \in {"RUNNING", "CANCELLED"}
        /\ job[r].state = "RUNNING" => job[r].lease = "expired"
  <2> SUFFICES ASSUME NEW r \in Runs, x.seen[r] # 0
               PROVE  /\ job'[r] \in Jobs
                      /\ job'[r].state = IF job[r].attempt < MaxAttempts
                                         THEN "QUEUED" ELSE "FAILED"
                      /\ job[r].state \in {"RUNNING", "CANCELLED"}
                      /\ job[r].state = "RUNNING" => job[r].lease = "expired"
    OBVIOUS
  <2>1. /\ x.seen[r] = job[r].attempt
        /\ job[r].state \in {"RUNNING", "CANCELLED"}
        /\ job[r].state = "RUNNING" => job[r].lease = "expired"
    BY DEF RecoverCommit, SoleInv, WorkerKept
  <2>2. job'[r] = Released(job[r], job[r].attempt, "now")
    BY <1>2, <2>1
  <2> QED
    <3>1. job[r] \in Jobs /\ job[r].attempt \in Nat
      BY <1>1 DEF Jobs
    <3>2. /\ Released(job[r], job[r].attempt, "now") \in Jobs
          /\ Released(job[r], job[r].attempt, "now").state =
               IF job[r].attempt < MaxAttempts THEN "QUEUED" ELSE "FAILED"
      BY <3>1, ReleasedRow
    <3> QED
      BY <2>1, <2>2, <3>2
<1>4. \A r \in Runs : Refined(r)
  <2> SUFFICES ASSUME NEW r \in Runs PROVE Refined(r)
    OBVIOUS
  <2>1. Held(r)' = Held(r)
    BY <1>1, <1>2, HeldIs DEF HeldBy
  <2>2. CASE x.seen[r] = 0
    BY <1>2, <2>1, <2>2, RestRefines
  <2>3. CASE x.seen[r] # 0 /\ job[r].state = "RUNNING"
    <3>1. Phase(job[r]) = "held" /\ Lease(job[r]) = "lapsed"
      BY <1>1, <1>3, <2>3, PhaseOf, LeaseOf
    <3>2. Phase(job'[r]) \in {"offered", "closed"} /\ Lease(job'[r]) = "none"
      BY <1>3, <2>3, PhaseOf, LeaseOf DEF Terminal
    <3> QED
      BY <1>2, <2>1, <3>1, <3>2, RecoverRefines
  <2>4. CASE x.seen[r] # 0 /\ job[r].state = "CANCELLED"
    <3>1. Phase(job[r]) = "closed" /\ Lease(job[r]) = "none"
      BY <1>1, <2>4, PhaseOf, LeaseOf DEF Terminal
    <3>2. Phase(job'[r]) \in {"offered", "closed"} /\ Lease(job'[r]) = "none"
      BY <1>3, <2>4, PhaseOf, LeaseOf DEF Terminal
    <3> QED
      BY <1>2, <2>1, <3>1, <3>2, ReviveRefines, RestRefines
  <2> QED
    BY <1>3, <2>2, <2>3, <2>4
<1>5. \A r \in Runs : RowKept(r)'
  <2> SUFFICES ASSUME NEW r \in Runs PROVE RowKept(r)'
    OBVIOUS
  <2>1. RowKept(r) /\ job[r].attempt = claims[r]
    BY DEF SoleInv, AttemptCountsClaims
  <2>2. CASE x.seen[r] = 0
    BY <1>2, <2>1, <2>2 DEF RowKept
  <2>3. CASE x.seen[r] # 0
    BY <1>1, <1>2, <1>3, <2>1, <2>3, BoundsAssumption DEF RowKept
  <2> QED
    BY <2>2, <2>3
<1>6. WorkerKept(w)'
  BY <1>2 DEF WorkerKept, Busy
<1>7. ClientKept(c)'
  <2>1. ASSUME NEW r \in Runs, job[r].state \in {"NONE", "COMPLETED", "FAILED"}
        PROVE  job'[r] = job[r]
    BY <1>2, <1>3, <2>1
  <2>2. ASSUME NEW r \in Runs, job[r].state # "NONE" PROVE job'[r].state # "NONE"
    BY <1>2, <1>3, <2>2
  <2> QED
    <3>1. ClientKept(c) /\ client'[c] = client[c] /\ run' = run
      BY <1>2 DEF SoleInv
    <3>2. client[c].pc # "idle" => client[c].r \in Runs
      BY DEF BusyHasRun, ClientHasRun
    <3> QED
      BY <2>1, <2>2, <3>1, <3>2 DEF ClientKept
<1> QED
  BY <1>4, <1>5, <1>6, <1>7 DEF Owed, SoleInv

\* A claim is a Take within the budget; a lost compare-and-set is nothing.
LEMMA ClaimOwed ==
  ASSUME NEW w, NEW c, Workers = {w}, Clients = {c}, IInv, SoleInv, Claim(w)
  PROVE  Owed
<1> DEFINE x == worker[w]
           s == x.r
<1> USE DEF IInv, TypeOK
<1>1. /\ x \in WorkerStates /\ s \in Runs /\ x.token = 0
      /\ \A r \in Runs : /\ job[r] \in Jobs /\ claims[r] \in Nat /\ submits[r] \in Nat
      /\ UNCHANGED <<run, submits, client>>
  BY DEF Claim, SoleInv, WorkerKept, Busy, BusyHasRun, WorkerHasRun
<1>2. CASE ~Claimable(s)
  <2>1. /\ UNCHANGED <<job, run, claims, submits, client>>
        /\ worker'[w] = IdleWorker
    BY <1>1, <1>2 DEF Claim
  <2>2. worker'[w].pc = "idle" /\ worker'[w].token = 0
    BY <2>1 DEF IdleWorker
  <2>3. WorkerKept(w)'
    BY <2>2 DEF WorkerKept, Busy
  <2> QED
    BY <2>1, <2>2, <2>3, WorkerOnly
<1>3. CASE Claimable(s)
  <2>1. /\ job' = [job EXCEPT ![s] = Claimed(job[s], claims[s] + 1)]
        /\ claims' = [claims EXCEPT ![s] = claims[s] + 1]
        /\ worker'[w] = [x EXCEPT !.pc = "executing", !.token = claims[s] + 1]
    BY <1>1, <1>3 DEF Claim
  <2>2. /\ worker'[w].pc = "executing" /\ worker'[w].token = claims[s] + 1
        /\ worker'[w].r = s /\ claims[s] + 1 # 0
    BY <1>1, <2>1 DEF WorkerStates
  <2>3. /\ job'[s] \in Jobs /\ job'[s].state = "RUNNING" /\ job'[s].lease = "live"
        /\ job'[s].token = claims[s] + 1 /\ claims'[s] = claims[s] + 1
        /\ \A r \in Runs \ {s} : job'[r] = job[r] /\ claims'[r] = claims[r]
        /\ job[s].state = "QUEUED"
    <3>1. claims[s] + 1 \in Nat \ {0}
      BY <1>1
    <3>2. Claimed(job[s], claims[s] + 1).state = "RUNNING"
      BY <1>1 DEF Claimed, Jobs
    <3> QED
      BY <1>1, <1>3, <2>1, <3>1, <3>2, ClaimedRow DEF Claimable
  <2>4. claims[s] < Budget(s)
    BY <1>1, <2>3, BoundsAssumption DEF SoleInv, RowKept, Budget
  <2>5. \A r \in Runs : Refined(r)
    <3> SUFFICES ASSUME NEW r \in Runs PROVE Refined(r)
      OBVIOUS
    <3>1. CASE r = s
      <4>1. /\ Phase(job[r]) = "offered" /\ Phase(job'[r]) = "held"
            /\ Lease(job'[r]) = "live"
        BY <1>1, <2>3, <3>1, PhaseOf, LeaseOf
      <4>2. Held(r)' = Held(r) \cup {claims'[r]}
        BY <1>1, <2>2, <2>3, <3>1, HeldIs DEF HeldBy
      <4> QED
        BY <1>1, <2>3, <2>4, <3>1, <4>1, <4>2, TakeRefines
    <3>2. CASE r # s
      <4>1. Held(r)' = Held(r)
        BY <1>1, <2>2, <3>2, HeldIs DEF HeldBy
      <4> QED
        BY <1>1, <2>3, <3>2, <4>1, RestRefines
    <3> QED
      BY <3>1, <3>2
  <2>6. \A r \in Runs : RowKept(r)'
    <3> SUFFICES ASSUME NEW r \in Runs PROVE RowKept(r)'
      OBVIOUS
    <3>1. RowKept(r)
      BY DEF SoleInv
    <3>2. CASE r = s
      BY <1>1, <2>3, <3>1, <3>2, BoundsAssumption DEF RowKept
    <3>3. CASE r # s
      BY <1>1, <2>3, <3>1, <3>3 DEF RowKept
    <3> QED
      BY <3>2, <3>3
  <2>7. WorkerKept(w)'
    BY <2>2, <2>3 DEF WorkerKept, Busy
  <2>8. ClientKept(c)'
    BY <1>1, <2>3 DEF SoleInv, ClientKept, BusyHasRun, ClientHasRun
  <2> QED
    BY <2>5, <2>6, <2>7, <2>8 DEF Owed, SoleInv
<1> QED
  BY <1>2, <1>3

\* A worker that ends its claim: the row is closed or queued again.
LEMMA EndOwed ==
  ASSUME NEW w, NEW c, Workers = {w}, Clients = {c}, IInv, SoleInv,
         NEW s \in Runs, worker[w].r = s, worker[w].pc \in Busy,
         job' \in [Runs -> Jobs], \A r \in Runs \ {s} : job'[r] = job[r],
         job'[s].state \in {"QUEUED", "COMPLETED", "FAILED"},
         job'[s].state = "QUEUED" => claims[s] < MaxAttempts,
         \A r \in Runs : run[r] = "CANCELLED" => run'[r] = "CANCELLED",
         UNCHANGED <<claims, submits, client>>,
         worker'[w].pc = "idle", worker'[w].token = 0
  PROVE  Owed
<1> USE DEF IInv, TypeOK
<1>1. /\ worker[w].token = claims[s] /\ worker[w].token # 0
      /\ job[s].state \in {"RUNNING", "CANCELLED"}
      /\ job[s] \in Jobs /\ job'[s] \in Jobs
  BY DEF SoleInv, WorkerKept
<1>2. \A r \in Runs : Refined(r)
  <2> SUFFICES ASSUME NEW r \in Runs PROVE Refined(r)
    OBVIOUS
  <2>1. CASE r = s
    <3>1. Phase(job[r]) \in {"held", "closed"}
      BY <1>1, <2>1, PhaseOf DEF Terminal
    <3>2. Phase(job'[r]) \in {"offered", "closed"} /\ Lease(job'[r]) = "none"
      BY <1>1, <2>1, PhaseOf, LeaseOf DEF Terminal
    <3>3. Held(r) = {claims[r]} /\ Held(r)' = {}
      BY <1>1, <2>1, HeldIs DEF HeldBy
    <3> QED
      BY <3>1, <3>2, <3>3, FinishRefines
  <2>2. CASE r # s
    <3>1. Held(r)' = Held(r)
      BY <2>2, HeldIs DEF HeldBy
    <3> QED
      BY <2>2, <3>1, RestRefines
  <2> QED
    BY <2>1, <2>2
<1>3. \A r \in Runs : RowKept(r)'
  <2> SUFFICES ASSUME NEW r \in Runs PROVE RowKept(r)'
    OBVIOUS
  <2>1. RowKept(r) /\ claims[r] \in Nat /\ submits[r] \in Nat
    BY DEF SoleInv
  <2>2. CASE r = s
    BY <1>1, <2>1, <2>2, BoundsAssumption DEF RowKept
  <2>3. CASE r # s
    BY <2>1, <2>3 DEF RowKept
  <2> QED
    BY <2>2, <2>3
<1>4. WorkerKept(w)'
  BY DEF WorkerKept, Busy
<1>5. ClientKept(c)'
  BY <1>1 DEF SoleInv, ClientKept, BusyHasRun, ClientHasRun
<1> QED
  BY <1>2, <1>3, <1>4, <1>5 DEF Owed, SoleInv

\* complete's commit is a Finish, also of a job cancelled since it was read.
LEMMA CompleteOwed ==
  ASSUME NEW w, NEW c, Workers = {w}, Clients = {c}, IInv, SoleInv,
         CompleteCommit(w)
  PROVE  Owed
<1> DEFINE s == worker[w].r
<1> USE DEF IInv, TypeOK
<1>1. s \in Runs /\ worker[w].pc \in Busy /\ job[s] \in Jobs
  BY DEF CompleteCommit, Busy, BusyHasRun, WorkerHasRun
<1>2. /\ job' = [job EXCEPT ![s] = [job[s] EXCEPT !.state = "COMPLETED",
                                         !.token = 0, !.lease = "null"]]
      /\ worker'[w] = IdleWorker /\ UNCHANGED <<run, claims, submits, client>>
  BY DEF CompleteCommit
<1>3. job' \in [Runs -> Jobs] /\ job'[s].state = "COMPLETED"
  BY <1>1, <1>2 DEF Jobs, JobStates, Terminal
<1>4. worker'[w].pc = "idle" /\ worker'[w].token = 0
  BY <1>2 DEF IdleWorker
<1> QED
  BY <1>1, <1>2, <1>3, <1>4, EndOwed

\* fail's commit is a Finish, or a Leave when a GATED run ends the worker.
LEMMA FailOwed ==
  ASSUME NEW w, NEW c, Workers = {w}, Clients = {c}, IInv, SoleInv,
         FailCommit(w)
  PROVE  Owed
<1> DEFINE s == worker[w].r
<1> USE DEF IInv, TypeOK
<1>1. /\ s \in Runs /\ worker[w].pc \in Busy /\ job[s] \in Jobs
      /\ worker[w].seen[s] = claims[s]
  BY DEF FailCommit, Busy, BusyHasRun, WorkerHasRun, SoleInv, WorkerKept,
         AttemptCountsClaims
<1>2. CASE worker[w].seen[s] >= MaxAttempts /\ run[s] = "GATED"
  <2>1. /\ UNCHANGED <<job, run, claims, submits, client>>
        /\ worker'[w] = [IdleWorker EXCEPT !.pc = "dead"]
    BY <1>2 DEF FailCommit
  <2>2. worker'[w].pc = "dead" /\ worker'[w].token = 0
    BY <2>1 DEF IdleWorker
  <2>3. WorkerKept(w)'
    BY <2>2 DEF WorkerKept, Busy
  <2> QED
    BY <2>1, <2>2, <2>3, WorkerOnly
<1>3. CASE ~(worker[w].seen[s] >= MaxAttempts /\ run[s] = "GATED")
  <2>1. /\ job' = [job EXCEPT ![s] = Released(job[s], claims[s], "later")]
        /\ run' = [run EXCEPT ![s] = IF claims[s] >= MaxAttempts /\ run[s] = "OPEN"
                                     THEN "FAILED" ELSE run[s]]
        /\ worker'[w] = IdleWorker /\ UNCHANGED <<claims, submits, client>>
    BY <1>1, <1>3 DEF FailCommit
  <2>2. /\ Released(job[s], claims[s], "later") \in Jobs
        /\ Released(job[s], claims[s], "later").state =
             IF claims[s] < MaxAttempts THEN "QUEUED" ELSE "FAILED"
    BY <1>1, ReleasedRow
  <2>3. worker'[w].pc = "idle" /\ worker'[w].token = 0
    BY <2>1 DEF IdleWorker
  <2>4. \A r \in Runs : run[r] = "CANCELLED" => run'[r] = "CANCELLED"
    BY <2>1
  <2>5. /\ job' \in [Runs -> Jobs] /\ \A r \in Runs \ {s} : job'[r] = job[r]
        /\ job'[s].state \in {"QUEUED", "COMPLETED", "FAILED"}
        /\ job'[s].state = "QUEUED" => claims[s] < MaxAttempts
    BY <1>1, <2>1, <2>2
  <2> QED
    BY <1>1, <2>1, <2>3, <2>4, <2>5, EndOwed
<1> QED
  BY <1>2, <1>3

-----------------------------------------------------------------------------
\* The queue with one worker and one API handler at a time, the deployed shape,
\* implements LeasedWork for every run, any number of runs and attempts, and any
\* crashes.  With two handlers it does not: a second submit that read the row
\* before the first committed queues a job that is already queued or held.
THEOREM QueueRefines ==
  ASSUME NEW w, NEW c, Workers = {w}, Clients = {c}
  PROVE  Spec => ImplementsLeasedWork
<1>1. Init => SoleInv /\ \A r \in Runs : Leased(r)!WorkInit
  <2> SUFFICES ASSUME Init
               PROVE  SoleInv /\ \A r \in Runs : Leased(r)!WorkInit
    OBVIOUS
  <2>1. SoleInv
    BY BoundsAssumption DEF Init, SoleInv, RowKept, WorkerKept, ClientKept,
       NoJob, IdleWorker, IdleClient, Busy
  <2>2. ASSUME NEW r \in Runs PROVE Leased(r)!WorkInit
    <3>1. job[r] = NoJob /\ NoJob \in Jobs /\ NoJob.state = "NONE"
      BY DEF Init, NoJob, Jobs, JobStates
    <3>2. Phase(job[r]) = "none" /\ Lease(job[r]) = "none"
      BY <3>1, PhaseOf, LeaseOf
    <3>3. Held(r) = {} 
      BY HeldIs DEF HeldBy, Init, IdleWorker
    <3> QED
      BY <3>2, <3>3 DEF Leased!WorkInit, Budget, Init
  <2> QED
    BY <2>1, <2>2
<1>2. IInv /\ SoleInv /\ [Next]_vars
        => SoleInv' /\ [\A r \in Runs : [Leased(r)!WorkNext]_(Leased(r)!workVars)]_vars
  <2> SUFFICES ASSUME IInv, SoleInv, [Next]_vars PROVE Owed
    BY DEF Owed, Refined
  <2>1. CASE UNCHANGED vars
    <3>1. WorkerKept(w)'
      BY <2>1 DEF vars, SoleInv, WorkerKept
    <3> QED
      BY <2>1, <3>1, WorkerOnly DEF vars
  <2>2. CASE Next
    BY <2>2, ClientReads, SubmitOwed, CancelOwed, TimeOwed, WorkerReads,
       HeartbeatOwed, RecoverOwed, ClaimOwed, CompleteOwed, FailOwed
       DEF Next, ClientStep, WorkerStep
  <2> QED
    BY <2>1, <2>2
<1> QED
  BY <1>1, <1>2, Invariance, PTL DEF Spec, ImplementsLeasedWork
=============================================================================
