---------------------------- MODULE AuditDelivery ----------------------------
(***************************************************************************)
(* The audit trail of an organization and its way out: the hash chain of   *)
(* TenantAuditService.record (sacm/core/tenancy_service.py), the signed    *)
(* exports of AuditExportService and the delivery to a SIEM sink by        *)
(* SIEMService (sacm/core/governance_service.py, scripts/drain-siem.py).   *)
(*                                                                         *)
(* record locks the organization's row: one action.  A drain is a process: *)
(* it reads the rows, posts a batch, which may take ten seconds, and       *)
(* commits what follows from the rows it read, so that a second drain, an  *)
(* operator or a crash may come in between.  A commit writes the columns   *)
(* whose value differs from the one that was read.  A hash is the sequence *)
(* number of its event with the bytes that were hashed.  The limit of a    *)
(* drain (20) is above the number of deliveries here, and the sequence     *)
(* that mark_pending notes is left out: only mark_pending reads it.        *)
(***************************************************************************)
EXTENDS Naturals, Sequences, FiniteSets

CONSTANTS Projects, None,           \* None: no project, the organization
          Drains,
          BatchSize, MaxDeliveries,   \* of the sink
          EventBound,   \* bound: events; later ones are not recorded
          PauseBound,   \* bound: times the sink is paused
          DrainCrashBound    \* bound: drains cut off

ASSUME DeliveryAssumption ==
  /\ BatchSize \in Nat \ {0} /\ MaxDeliveries \in Nat \ {0}
  /\ EventBound \in Nat /\ PauseBound \in Nat /\ DrainCrashBound \in Nat
  /\ None \notin Projects

VARIABLES
  log,         \* tenant_audit_events, by sequence
  sink,        \* status, scope (project_id) and cursor_sequence of the sink
  deliveries,  \* deliveries[k]: the siem_deliveries row of batch k
  received,    \* the sequence numbers that the receiver has seen
  drain,       \* drain[d]: where a drain stands, and the rows it read
  pauses, drainCrashes

auditVars == <<log, sink, deliveries, received, drain, pauses, drainCrashes>>

Scopes == Projects \cup {None}

\* Text with characters outside ASCII is escaped by one encoder and not by the
\* other.
Texts == {"ascii", "other"}
Hash == [seq: Nat, bytes: {"plain", "escaped", "raw"}]
Event == [project: Scopes, text: Texts, prev: Hash, hash: Hash]
NoHash == [seq |-> 0, bytes |-> "plain"]

\* A batch is identified by its first and its last sequence number.
Sequence == 1 .. EventBound
Keys == Sequence \X Sequence
NoKey == <<0, 0>>

\* PAUSED stands for DISABLED, too.
Sink == [status: {"NONE", "ACTIVE", "PAUSED"}, scope: Scopes, cursor: Nat]
Row == [status: {"NONE", "PENDING", "RETRY", "DELIVERED", "DEAD_LETTER"},
        attempts: Nat, due: {"now", "later"}]
NoRow == [status |-> "NONE", attempts |-> 0, due |-> "later"]
NewRow == [status |-> "PENDING", attempts |-> 0, due |-> "now"]

Drain == [pc: {"idle", "create", "send", "settle"}, queue: SUBSET Keys,
          key: Keys \cup {NoKey}, row: Row, cursor: Nat, got: {"no", "yes"}]
IdleDrain == [pc |-> "idle", queue |-> {}, key |-> NoKey, row |-> NoRow,
              cursor |-> 0, got |-> "no"]

AuditInit ==
  /\ log = <<>> /\ received = {}
  /\ sink = [status |-> "NONE", scope |-> None, cursor |-> 0]
  /\ deliveries = [k \in Keys |-> NoRow]
  /\ drain = [d \in Drains |-> IdleDrain]
  /\ pauses = 0 /\ drainCrashes = 0

-----------------------------------------------------------------------------
(* The audit chain and its exports                                         *)

\* What json.dumps makes of a text: by default it escapes, with
\* ensure_ascii=False it does not.
Escaped(text) == IF text = "ascii" THEN "plain" ELSE "escaped"
Unescaped(text) == IF text = "ascii" THEN "plain" ELSE "raw"

\* record: the next event of the chain.
Recorded(l, project, text) ==
  IF Len(l) >= EventBound THEN l
  ELSE Append(l, [project |-> project, text |-> text,
                  prev |-> IF l = <<>> THEN NoHash ELSE l[Len(l)].hash,
                  hash |-> [seq |-> Len(l) + 1, bytes |-> Escaped(text)]])

\* Any request that is authorized, or refused, is recorded.
Audit(project) ==
  /\ Len(log) < EventBound
  /\ log' = Recorded(log, project, "ascii")
  /\ UNCHANGED <<sink, deliveries, received, drain, pauses, drainCrashes>>

Matches(i, scope) == scope = None \/ log[i].project = scope

\* The events that an export of a scope and a range holds.
Exported(scope, first, last) ==
  {i \in first .. last : i \in DOMAIN log /\ Matches(i, scope)}

\* verify tests the link between events that follow each other in the chain.
Linked(events) ==
  \A i, j \in events : j = i + 1 => log[j].prev = log[i].hash

\* The hash of every event is computed again.
Rehashed(events) ==
  \A i \in events :
    log[i].hash = [seq |-> i, bytes |-> Unescaped(log[i].text)]

Verifies(events) == Linked(events) /\ Rehashed(events)

-----------------------------------------------------------------------------
(* The sink and its operator                                               *)

\* create: the permission and the sink are recorded.  The name of the sink, the
\* resource of the permission, stands for every text that a user chooses.
CreateSink(scope, text) ==
  /\ sink.status = "NONE"
  /\ sink' = [status |-> "ACTIVE", scope |-> scope, cursor |-> 0]
  /\ log' = Recorded(Recorded(log, scope, text), scope, "ascii")
  /\ UNCHANGED <<deliveries, received, drain, pauses, drainCrashes>>

\* update of the status.
Pause ==
  /\ sink.status = "ACTIVE" /\ pauses < PauseBound
  /\ pauses' = pauses + 1
  /\ sink' = [sink EXCEPT !.status = "PAUSED"]
  /\ log' = Recorded(Recorded(log, sink.scope, "ascii"), sink.scope, "ascii")
  /\ UNCHANGED <<deliveries, received, drain, drainCrashes>>

Enable ==
  /\ sink.status = "PAUSED"
  /\ sink' = [sink EXCEPT !.status = "ACTIVE"]
  /\ log' = Recorded(Recorded(log, sink.scope, "ascii"), sink.scope, "ascii")
  /\ UNCHANGED <<deliveries, received, drain, pauses, drainCrashes>>

RetryDeadLetter(k) ==
  /\ deliveries[k].status = "DEAD_LETTER"
  /\ deliveries' = [deliveries EXCEPT ![k] =
       [status |-> "RETRY", attempts |-> 0, due |-> "now"]]
  /\ log' = Recorded(log, sink.scope, "ascii")
  /\ UNCHANGED <<sink, received, drain, pauses, drainCrashes>>

-----------------------------------------------------------------------------
(* drain                                                                   *)

DuePending(k) == deliveries[k].status = "PENDING"

\* PENDING deliveries are due from the start.
Due(k) == deliveries[k].status \in {"PENDING", "RETRY"} /\ deliveries[k].due = "now"

\* The permission is recorded; then the due deliveries are read, or nothing if
\* the sink is not active.
Start(d) ==
  LET due == {k \in Keys : Due(k)} IN
  /\ drain[d].pc = "idle" /\ sink.status # "NONE"
  /\ log' = Recorded(log, sink.scope, "ascii")
  /\ drain' = IF sink.status # "ACTIVE" THEN drain
              ELSE [drain EXCEPT ![d] =
                     [IdleDrain EXCEPT !.pc = IF due = {} THEN "create" ELSE "send",
                                       !.queue = due, !.cursor = sink.cursor]]
  /\ UNCHANGED <<sink, deliveries, received, pauses, drainCrashes>>

\* The events beyond the cursor that the drain has read.
Beyond(d) ==
  {i \in DOMAIN log : i > drain[d].cursor /\ Matches(i, sink.scope)}

\* k is the batch of the first BatchSize of these events.
NextBatch(d, k) ==
  LET beyond == Beyond(d)
      size   == Cardinality({i \in beyond : i <= k[2]})
  IN  /\ {k[1], k[2]} \subseteq beyond
      /\ \A i \in beyond : k[1] <= i
      /\ size <= BatchSize
      /\ size = BatchSize \/ \A i \in beyond : i <= k[2]

\* _create_delivery finds the delivery of the batch or adds it, and the drain
\* goes on with all deliveries that are PENDING.
Create(d) ==
  /\ drain[d].pc = "create"
  /\ \/ /\ Beyond(d) = {} /\ UNCHANGED deliveries
     \/ \E k \in Keys :
          /\ NextBatch(d, k)
          /\ deliveries' = IF deliveries[k].status # "NONE" THEN deliveries
                           ELSE [deliveries EXCEPT ![k] = NewRow]
  /\ LET pending == {k \in Keys : deliveries'[k].status = "PENDING"}
     IN  drain' = [drain EXCEPT ![d] =
           IF pending = {} THEN IdleDrain
           ELSE [@ EXCEPT !.pc = "send", !.queue = pending]]
  /\ UNCHANGED <<log, sink, received, pauses, drainCrashes>>

\* The delivery is done with; a drain ends with its last one.
Dequeued(d, k) ==
  IF drain[d].queue = {k} THEN IdleDrain
  ELSE [IdleDrain EXCEPT !.pc = "send", !.queue = drain[d].queue \ {k}]

IntactUnchecked(k) == TRUE

\* The payload is built again, from all events of the range, and compared with
\* the checksum of the batch, which holds those of the sink's scope.
Intact(k) == \A i \in k[1] .. k[2] : Matches(i, sink.scope)

\* _deliver gives up a delivery that fails the comparison.
Reject(d, k) ==
  /\ drain[d].pc = "send" /\ k \in drain[d].queue /\ ~Intact(k)
  /\ deliveries' = [deliveries EXCEPT ![k].status = "DEAD_LETTER"]
  /\ drain' = [drain EXCEPT ![d] = Dequeued(d, k)]
  /\ UNCHANGED <<log, sink, received, pauses, drainCrashes>>

\* Otherwise the batch is posted, whatever its status is by now.
Send(d, k, arrives, answer) ==
  /\ drain[d].pc = "send" /\ k \in drain[d].queue /\ Intact(k)
  /\ answer = "yes" => arrives = "yes"
  /\ received' = IF arrives = "yes" THEN received \cup k[1] .. k[2] ELSE received
  /\ drain' = [drain EXCEPT ![d] =
       [@ EXCEPT !.pc = "settle", !.key = k, !.row = deliveries[k],
                 !.cursor = sink.cursor, !.got = answer]]
  /\ UNCHANGED <<log, sink, deliveries, pauses, drainCrashes>>

\* The delivery after the answer, or the lack of it.  attempts stops counting
\* at MaxDeliveries, with which it is compared.
Settled(row, got) ==
  LET attempts == IF row.attempts < MaxDeliveries THEN row.attempts + 1
                  ELSE MaxDeliveries
  IN  [status   |-> IF got = "yes" THEN "DELIVERED"
                    ELSE IF attempts >= MaxDeliveries THEN "DEAD_LETTER" ELSE "RETRY",
       attempts |-> attempts,
       due      |-> "later"]

AdvancedAnyway(d) ==
  IF drain[d].key[2] > drain[d].cursor THEN drain[d].key[2] ELSE sink.cursor

\* The cursor, if the maximum differs from the cursor that was read.
Advanced(d) ==
  IF drain[d].got = "yes" /\ drain[d].key[2] > drain[d].cursor
  THEN drain[d].key[2] ELSE sink.cursor

Settle(d) ==
  LET k    == drain[d].key
      row  == drain[d].row
      new  == Settled(row, drain[d].got)
      rest == Dequeued(d, k)
  IN  /\ drain[d].pc = "settle"
      /\ deliveries' = [deliveries EXCEPT ![k] =
           [status   |-> IF new.status = row.status THEN @.status ELSE new.status,
            attempts |-> new.attempts,
            due      |-> new.due]]
      /\ sink' = [sink EXCEPT !.cursor = Advanced(d)]
      /\ drain' = [drain EXCEPT ![d] = rest]
      /\ UNCHANGED <<log, received, pauses, drainCrashes>>

\* The drain is cut off.
DrainCrash(d) ==
  /\ drain[d].pc # "idle" /\ drainCrashes < DrainCrashBound
  /\ drainCrashes' = drainCrashes + 1
  /\ drain' = [drain EXCEPT ![d] = IdleDrain]
  /\ UNCHANGED <<log, sink, deliveries, received, pauses>>

\* The backoff of a delivery ends.
DeliveryDue(k) ==
  /\ deliveries[k].status = "RETRY" /\ deliveries[k].due = "later"
  /\ deliveries' = [deliveries EXCEPT ![k].due = "now"]
  /\ UNCHANGED <<log, sink, received, drain, pauses, drainCrashes>>

-----------------------------------------------------------------------------
Post(d, k) ==
  \E arrives, answer \in {"no", "yes"} : Send(d, k, arrives, answer)

DrainStep(d) ==
  \/ Start(d) \/ Create(d) \/ Settle(d)
  \/ \E k \in Keys : Reject(d, k) \/ Post(d, k)

AuditNext ==
  \/ \E project \in Scopes :
       Audit(project) \/ \E text \in Texts : CreateSink(project, text)
  \/ Pause \/ Enable
  \/ \E k \in Keys : RetryDeadLetter(k) \/ DeliveryDue(k)
  \/ \E d \in Drains : DrainStep(d) \/ DrainCrash(d)

AuditSpec == AuditInit /\ [][AuditNext]_auditVars

\* Drains are scheduled and end, backoffs end, an operator enables a paused
\* sink and retries dead letters, and a receiver that is asked again and again
\* about a batch accepts it.
AuditFairSpec ==
  /\ AuditSpec /\ WF_auditVars(Enable)
  /\ \A d \in Drains : WF_auditVars(DrainStep(d))
  /\ \A k \in Keys : WF_auditVars(RetryDeadLetter(k)) /\ WF_auditVars(DeliveryDue(k))
  /\ \A d \in Drains, k \in Keys : SF_auditVars(Send(d, k, "yes", "yes"))

-----------------------------------------------------------------------------
(* Properties                                                              *)

\* The chain, the sink, its deliveries and the drains keep their shape.
AuditTypeOK ==
  /\ log \in Seq(Event) /\ Len(log) <= EventBound
  /\ sink \in Sink /\ deliveries \in [Keys -> Row]
  /\ received \subseteq Sequence /\ drain \in [Drains -> Drain]
  /\ pauses \in Nat /\ drainCrashes \in Nat

\* The cursor never passes an event that the receiver has not seen, although
\* batches overlap, two drains post them at once and in any order, answers are
\* lost, and one drain writes the cursor of another back.
NothingSkipped ==
  \A i \in DOMAIN log :
    i <= sink.cursor /\ Matches(i, sink.scope) => i \in received

\* The sink of a project receives events of this project only, although a
\* batch is built again from the events of all projects in its range.
ScopeKept == \A i \in received : i \in DOMAIN log /\ Matches(i, sink.scope)

\* An export of any range of any scope verifies if, and only if, it holds no
\* text outside ASCII, which record and verify encode differently.
ExportsVerify ==
  \A scope \in Scopes, first, last \in Sequence :
    LET events == Exported(scope, first, last)
    IN  Verifies(events) <=> \A i \in events : log[i].text = "ascii"

\* The sink of an organization receives every event: neither a batch that
\* waits, nor a dead letter, nor a crash, nor a pause keeps an event back.
EventsArrive ==
  \A i \in Sequence :
    (sink.status # "NONE" /\ sink.scope = None /\ i <= Len(log))
      ~> (i \in received)
=============================================================================
