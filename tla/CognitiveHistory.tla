--------------------------- MODULE CognitiveHistory ---------------------------
(***************************************************************************)
(* The cognitive history of one project (cognitive_state_service.py) and   *)
(* the queue that feeds it Git commits (cognitive_commit_queue_service.py).*)
(* Events form a hash chain; relations carry the time of their event;      *)
(* snapshots hold the relations up to a point.                             *)
(*                                                                         *)
(* record_event locks the project on PostgreSQL until the commit, so that  *)
(* time and predecessor are drawn one after the other; on SQLite nothing   *)
(* is locked.  ingest_commit looks for an earlier ingestion before it has  *)
(* the lock, and commits the evidence and the snapshot separately.  A      *)
(* relation is the commit and the time of its event, a hash is the row.    *)
(***************************************************************************)
EXTENDS Naturals, FiniteSets

CONSTANTS Workers, Clients, Commits, NoCommit,
          MaxAttempts,
          EventBound, CogCrashBound   \* bounds: events, worker crashes

\* SACM_COGNITIVE_COMMIT_MAX_ATTEMPTS is 3 unless it is configured.
ASSUME CogAssumption == MaxAttempts \in Nat \ {0} /\ EventBound \in Nat /\ CogCrashBound \in Nat

VARIABLES
  database,    \* which one the deployment uses; never changes
  events,      \* the rows of cognitive_events
  relations,   \* the rows of cognitive_relations
  snapshots,   \* the rows of cognitive_snapshots
  queue,       \* queue[c]: the row of cognitive_commit_jobs for commit c
  actor,       \* actor[p]: what process p is doing
  clock,       \* the last time drawn
  tokens,      \* lease tokens drawn
  cogCrashes,
  doubled      \* whether two ingestions of one commit were under way at once

cogVars == <<database, events, relations, snapshots, queue, actor, clock,
             tokens, cogCrashes, doubled>>

Processes == Workers \cup Clients
CommitsOrNone == Commits \cup {NoCommit}
Times == Nat
Kinds == {"COMMIT_ANALYSIS_QUEUED", "COMMIT_CREATED", "COMMIT_ANALYZED",
          "SNAPSHOT_CREATED", "DEPENDENCY_CREATED", "AGENT_HANDOFF",
          "DELIVERY_COMPLETED", "CONTEXT_RECONSTRUCTED"}
CogEvent == [kind: Kinds, commit: CommitsOrNone, time: Times, prev: Times]
Relation == [commit: CommitsOrNone, time: Times]
CogSnapshot == [commit: CommitsOrNone, upto: Times, state: SUBSET Relation]
CommitJob == [state: {"NONE", "QUEUED", "RUNNING", "COMPLETED", "FAILED"},
              attempt: 0 .. MaxAttempts, token: Nat, lease: {"none", "live", "expired"}]
Actor == [pc: {"idle", "recover", "claim", "claiming", "look", "ingest", "snapshot",
               "anchor", "finish", "link", "report", "write"},
          kind: Kinds, commit: CommitsOrNone, token: Nat, attempt: Nat,
          seen: SUBSET Commits, upto: Times, state: SUBSET Relation,
          time: Times, prev: Times]
AtRest == [pc |-> "idle", kind |-> "COMMIT_CREATED", commit |-> NoCommit,
           token |-> 0, attempt |-> 0, seen |-> {}, upto |-> 0, state |-> {},
           time |-> 0, prev |-> 0]

CogInit ==
  /\ database \in {"postgresql", "sqlite"}
  /\ events = {} /\ relations = {} /\ snapshots = {}
  /\ queue = [c \in Commits |-> [state |-> "NONE", attempt |-> 0, token |-> 0,
                                 lease |-> "none"]]
  /\ actor = [p \in Processes |-> AtRest]
  /\ clock = 0 /\ tokens = 0 /\ cogCrashes = 0 /\ doubled = "no"

Becomes(p, x) == actor' = [actor EXCEPT ![p] = x]
ToPc(p, pc) == Becomes(p, [actor[p] EXCEPT !.pc = pc])
Rest == <<database, cogCrashes>>
History == <<events, relations, snapshots>>

Indexed(c) == {e \in events : e.kind = "COMMIT_CREATED" /\ e.commit = c}

\* The time of the newest row of a set, 0 if it is empty.
NewestTime(rows) ==
  IF rows = {} THEN 0
  ELSE (CHOOSE r \in rows : \A q \in rows : q.time <= r.time).time

-----------------------------------------------------------------------------
(* Events                                                                  *)

\* _lock_project
Unlocked == database = "postgresql" => \A p \in Processes : actor[p].pc # "write"

StampedOnRoot(x) ==
  [x EXCEPT !.pc = "write", !.time = clock + 1, !.prev = IF events = {} THEN 0 ELSE 1]

\* record_event: the predecessor is read and the time is drawn.
Stamped(x) == [x EXCEPT !.pc = "write", !.time = clock + 1, !.prev = NewestTime(events)]

Write(p, kind, x) ==
  /\ Unlocked /\ clock < EventBound /\ clock' = clock + 1
  /\ Becomes(p, Stamped([x EXCEPT !.kind = kind]))

\* The kinds whose transaction adds relations.
Relating == {"COMMIT_CREATED", "DEPENDENCY_CREATED", "AGENT_HANDOFF",
             "DELIVERY_COMPLETED"}

\* Where a process goes on after its transaction.
After(x) ==
  IF x.kind \in {"COMMIT_CREATED", "DELIVERY_COMPLETED"} THEN "snapshot"
  ELSE IF x.kind # "SNAPSHOT_CREATED" THEN "idle"
  ELSE IF x.token > 0 THEN "finish"
  ELSE IF x.seen # {} THEN "link" ELSE "idle"

\* The commit of a transaction with its event and what goes with it.
CommitWrite(p) ==
  LET x == actor[p] IN
  /\ x.pc = "write"
  /\ events' = events \cup {[kind |-> x.kind, commit |-> x.commit,
                             time |-> x.time, prev |-> x.prev]}
  /\ relations' = IF x.kind \in Relating
                  THEN relations \cup {[commit |-> x.commit, time |-> x.time]}
                  ELSE relations
  /\ snapshots' = IF x.kind = "SNAPSHOT_CREATED"
                  THEN snapshots \cup {[commit |-> x.commit, upto |-> x.upto,
                                        state |-> x.state]}
                  ELSE snapshots
  /\ queue' = IF x.kind = "COMMIT_ANALYSIS_QUEUED"
              THEN [queue EXCEPT ![x.commit].state = "QUEUED"] ELSE queue
  /\ Becomes(p, IF After(x) = "idle" THEN AtRest ELSE [x EXCEPT !.pc = After(x)])
  /\ UNCHANGED <<Rest, clock, tokens, doubled>>

\* The requests that record one event: relations, handoffs, contexts.
RecordOne(p, kind) ==
  /\ actor[p].pc = "idle"
  /\ Write(p, kind, AtRest)
  /\ UNCHANGED <<Rest, History, queue, tokens, doubled>>

AddRelation(p) == RecordOne(p, "DEPENDENCY_CREATED")
Handoff(p) == RecordOne(p, "AGENT_HANDOFF")
ReconstructContext(p) == RecordOne(p, "CONTEXT_RECONSTRUCTED")

-----------------------------------------------------------------------------
(* Snapshots                                                               *)

\* _time_for_commit, _state: the relations up to the commit, or all.
UpTo(c) == IF c = NoCommit THEN clock ELSE NewestTime(Indexed(c))
StateUpTo(t) == {r \in relations : r.time <= t}

\* create_snapshot reads the state before its event locks the project.
CreateSnapshot(p) ==
  /\ actor[p].pc = "snapshot"
  /\ LET t == UpTo(actor[p].commit)
     IN  Becomes(p, [actor[p] EXCEPT !.pc = "anchor", !.upto = t,
                                     !.state = StateUpTo(t)])
  /\ UNCHANGED <<Rest, History, queue, clock, tokens, doubled>>

AnchorSnapshot(p) ==
  /\ actor[p].pc = "anchor"
  /\ Write(p, "SNAPSHOT_CREATED", actor[p])
  /\ UNCHANGED <<Rest, History, queue, tokens, doubled>>

\* The route that creates a snapshot of an indexed commit.
RequestSnapshot(p, c) ==
  /\ actor[p].pc = "idle" /\ Indexed(c) # {}
  /\ Becomes(p, [AtRest EXCEPT !.pc = "snapshot", !.commit = c])
  /\ UNCHANGED <<Rest, History, queue, clock, tokens, doubled>>

\* record_delivery_completion: the event, a snapshot of everything, and the
\* relation between them, unless the delivery is already recorded.
RecordDelivery(p) ==
  /\ actor[p].pc = "idle"
  /\ ~\E e \in events : e.kind = "DELIVERY_COMPLETED"
  /\ Write(p, "DELIVERY_COMPLETED", [AtRest EXCEPT !.seen = Commits])
  /\ UNCHANGED <<Rest, History, queue, tokens, doubled>>

LinkDelivery(p) ==
  /\ actor[p].pc = "link"
  /\ Write(p, "DEPENDENCY_CREATED", AtRest)
  /\ UNCHANGED <<Rest, History, queue, tokens, doubled>>

-----------------------------------------------------------------------------
(* Ingestion and its queue                                                 *)

Ingesting(c) == {p \in Processes : actor[p].commit = c
                                   /\ actor[p].pc \in {"look", "ingest", "snapshot",
                                                       "anchor", "write"}}

Submit(p, c) ==
  /\ actor[p].pc = "idle" /\ queue[c].state = "NONE"
  /\ ~\E q \in Processes : actor[q].kind = "COMMIT_ANALYSIS_QUEUED" /\ actor[q].commit = c
  /\ Write(p, "COMMIT_ANALYSIS_QUEUED", [AtRest EXCEPT !.commit = c])
  /\ UNCHANGED <<Rest, History, queue, tokens, doubled>>

\* _recover_expired reads the expired rows and commits later.
RecoverRead(w) ==
  LET late == {c \in Commits : queue[c].state = "RUNNING" /\ queue[c].lease = "expired"} IN
  /\ actor[w].pc = "idle"
  /\ Becomes(w, [AtRest EXCEPT !.pc = IF late = {} THEN "claim" ELSE "recover",
                               !.seen = late])
  /\ UNCHANGED <<Rest, History, queue, clock, tokens, doubled>>

\* A job whose attempts are spent has FAILED.
GivenBack(job) ==
  [job EXCEPT !.state = IF job.attempt < MaxAttempts THEN "QUEUED" ELSE "FAILED",
              !.token = 0, !.lease = "none"]

RecoverCommit(w) ==
  /\ actor[w].pc = "recover"
  /\ queue' = [c \in Commits |-> IF c \in actor[w].seen
                                 THEN GivenBack(queue[c]) ELSE queue[c]]
  /\ Becomes(w, [AtRest EXCEPT !.pc = "claim"])
  /\ UNCHANGED <<Rest, History, clock, tokens, doubled>>

\* _claim: on PostgreSQL the row is locked from the query to the commit; on
\* SQLite it is not, and the commit may overtake another claim of the row.
ClaimRead(w, c) ==
  /\ database = "sqlite"
  /\ actor[w].pc = "claim" /\ queue[c].state = "QUEUED"
  /\ Becomes(w, [AtRest EXCEPT !.pc = "claiming", !.commit = c,
                               !.attempt = queue[c].attempt])
  /\ UNCHANGED <<Rest, History, queue, clock, tokens, doubled>>

ClaimLate(w) ==
  LET x == actor[w] IN
  /\ x.pc = "claiming"
  /\ tokens' = tokens + 1
  /\ queue' = [queue EXCEPT ![x.commit] = [state |-> "RUNNING", attempt |-> x.attempt + 1,
                                           token |-> tokens', lease |-> "live"]]
  /\ Becomes(w, [AtRest EXCEPT !.pc = "look", !.commit = x.commit, !.token = tokens'])
  /\ doubled' = IF Ingesting(x.commit) # {} THEN "yes" ELSE doubled
  /\ UNCHANGED <<Rest, History, clock>>

ClaimCommit(w, c) ==
  /\ database = "postgresql"
  /\ actor[w].pc = "claim" /\ queue[c].state = "QUEUED"
  /\ tokens' = tokens + 1
  /\ queue' = [queue EXCEPT ![c] = [state |-> "RUNNING", attempt |-> @.attempt + 1,
                                    token |-> tokens', lease |-> "live"]]
  /\ Becomes(w, [AtRest EXCEPT !.pc = "look", !.commit = c, !.token = tokens'])
  /\ doubled' = IF Ingesting(c) # {} THEN "yes" ELSE doubled
  /\ UNCHANGED <<Rest, History, clock>>

NothingToClaim(w) ==
  /\ actor[w].pc = "claim" /\ \A c \in Commits : queue[c].state # "QUEUED"
  /\ Becomes(w, AtRest)
  /\ UNCHANGED <<Rest, History, queue, clock, tokens, doubled>>

\* The route that ingests a commit at once.
RequestIngest(p, c) ==
  /\ actor[p].pc = "idle"
  /\ Becomes(p, [AtRest EXCEPT !.pc = "look", !.commit = c])
  /\ doubled' = IF Ingesting(c) # {} THEN "yes" ELSE doubled
  /\ UNCHANGED <<Rest, History, queue, clock, tokens>>

\* ingest_commit: an earlier ingestion is returned, with or without snapshot.
LookAgain(p) ==
  /\ actor[p].pc = "look"
  /\ ToPc(p, "ingest")
  /\ UNCHANGED <<Rest, History, queue, clock, tokens, doubled>>

Look(p) ==
  /\ actor[p].pc = "look"
  /\ IF Indexed(actor[p].commit) = {} THEN ToPc(p, "ingest")
     ELSE IF actor[p].token > 0 THEN ToPc(p, "finish") ELSE Becomes(p, AtRest)
  /\ UNCHANGED <<Rest, History, queue, clock, tokens, doubled>>

Ingest(p) ==
  /\ actor[p].pc = "ingest"
  /\ Write(p, "COMMIT_CREATED", actor[p])
  /\ UNCHANGED <<Rest, History, queue, tokens, doubled>>

Owns(w) == LET x == actor[w]
           IN  queue[x.commit].state = "RUNNING" /\ queue[x.commit].token = x.token

\* _complete, or the worker dies of a lost lease.
Complete(w) ==
  /\ actor[w].pc = "finish"
  /\ IF Owns(w)
     THEN /\ queue' = [queue EXCEPT ![actor[w].commit] =
                         [@ EXCEPT !.state = "COMPLETED", !.token = 0, !.lease = "none"]]
          /\ ToPc(w, "report")
     ELSE Becomes(w, AtRest) /\ UNCHANGED queue
  /\ UNCHANGED <<Rest, History, clock, tokens, doubled>>

\* process_one records the analysis of a job with a snapshot and fails without.
Report(w) ==
  /\ actor[w].pc = "report"
  /\ IF \E s \in snapshots : s.commit = actor[w].commit
     THEN Write(w, "COMMIT_ANALYZED", [actor[w] EXCEPT !.token = 0])
     ELSE Becomes(w, AtRest) /\ UNCHANGED clock
  /\ UNCHANGED <<Rest, History, queue, tokens, doubled>>

\* _fail: the repository cannot be read.
Fail(w) ==
  /\ actor[w].pc = "look" /\ actor[w].token > 0
  /\ queue' = IF Owns(w) THEN [queue EXCEPT ![actor[w].commit] = GivenBack(@)] ELSE queue
  /\ Becomes(w, AtRest)
  /\ UNCHANGED <<Rest, History, clock, tokens, doubled>>

\* There is no heartbeat: a lease runs out under a worker that is slow.
ExpireLease(c) ==
  /\ queue[c].lease = "live"
  /\ queue' = [queue EXCEPT ![c].lease = "expired"]
  /\ UNCHANGED <<Rest, History, actor, clock, tokens, doubled>>

Die(w) ==
  /\ actor[w].pc # "idle" /\ cogCrashes < CogCrashBound
  /\ cogCrashes' = cogCrashes + 1 /\ Becomes(w, AtRest)
  /\ UNCHANGED <<database, History, queue, clock, tokens, doubled>>

WorkerStep(w) ==
  \/ RecoverRead(w) \/ RecoverCommit(w) \/ NothingToClaim(w)
  \/ \E c \in Commits : ClaimCommit(w, c) \/ ClaimRead(w, c)
  \/ ClaimLate(w)
  \/ Complete(w) \/ Report(w) \/ Fail(w)
Step(p) == Look(p) \/ Ingest(p) \/ CreateSnapshot(p) \/ AnchorSnapshot(p)
           \/ LinkDelivery(p) \/ CommitWrite(p)

CogNext ==
  \/ \E w \in Workers : WorkerStep(w) \/ Die(w)
  \/ \E p \in Processes : Step(p)
  \/ \E p \in Clients :
       \/ AddRelation(p) \/ Handoff(p) \/ ReconstructContext(p) \/ RecordDelivery(p)
       \/ \E c \in Commits : Submit(p, c) \/ RequestIngest(p, c) \/ RequestSnapshot(p, c)
  \/ \E c \in Commits : ExpireLease(c)

CogSpec == CogInit /\ [][CogNext]_cogVars

-----------------------------------------------------------------------------
(* Properties                                                              *)

\* Events, relations, snapshots, jobs and processes keep their shape.
CogTypeOK ==
  /\ events \subseteq CogEvent /\ relations \subseteq Relation
  /\ snapshots \subseteq CogSnapshot /\ queue \in [Commits -> CommitJob]
  /\ actor \in [Processes -> Actor] /\ clock \in Times /\ tokens \in Nat

\* On PostgreSQL the events of a project are one chain: each names the event
\* before it, however many processes record at once.
OneChain ==
  database = "postgresql" =>
    \A e \in events : e.prev = NewestTime({f \in events : f.time < e.time})

\* On PostgreSQL the snapshot of a commit holds what the history holds up to its point, then
\* and ever after: no transaction adds a relation behind a snapshot.
SnapshotsAreComplete ==
  database = "postgresql" =>
    \A s \in snapshots : s.commit # NoCommit => s.state = StateUpTo(s.upto)

\* "Idempotently project an analyzed Git commit": a commit is indexed once,
\* after crashes, retries and repeated requests, unless two ingestions of it
\* were under way at once.
IngestedOnce ==
  doubled = "no" => \A c \in Commits : Cardinality(Indexed(c)) <= 1

\* A COMPLETED job has its commit indexed; and a snapshot of it, unless a
\* worker died between the two commits of an ingestion or two overlapped: what
\* finds the commit indexed does not look for the snapshot.
CompletedIsIndexed ==
  \A c \in Commits :
    queue[c].state = "COMPLETED" =>
      /\ Indexed(c) # {}
      /\ cogCrashes = 0 /\ doubled = "no" => \E s \in snapshots : s.commit = c

\* Processes that record at once leave one history, which snapshots hold whole.
HistoryIsComplete == CogTypeOK /\ OneChain /\ SnapshotsAreComplete

\* A commit is ingested once, and its job says so only when it was.
CommitsIngestedOnce == IngestedOnce /\ CompletedIsIndexed
=============================================================================
