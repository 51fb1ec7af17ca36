--------------------------- MODULE DataGovernance ---------------------------
(***************************************************************************)
(* Governance of an organization's data (sacm/core/governance_service.py): *)
(* the versions of its policies, legal holds, and one request to export or *)
(* delete records: approval, inventory, batches.  Handlers of              *)
(* apps/api/routes/governance.py call the service at the same time.        *)
(*                                                                         *)
(* process, inventory and activate read rows, decide, and commit later, so *)
(* each is a read and a commit.  A commit writes the columns of the        *)
(* request whose value differs from the one read (Merged).  Item rows are  *)
(* replaced by every inventory: an update of a row that is gone fails, and *)
(* the whole commit with it.  Sessions do not flush before a query, so the *)
(* count of pending items at the end of process does not see the batch.    *)
(*                                                                         *)
(* Records are numbered in the order of an inventory.  The filters of a    *)
(* hold (category, type, id, subject) are the record it names, None for    *)
(* all.  TOMBSTONED, CRYPTOGRAPHICALLY_DELETED and DELETED are ERASED.     *)
(* Drafts without a rule for every category cannot be activated and are    *)
(* left out.                                                               *)
(***************************************************************************)
EXTENDS Naturals, FiniteSets

CONSTANTS Projects, None, Handlers,
          Requester, Actors,  \* who makes the request, and who may approve it
          Count,           \* the records of the organization are 1 .. Count
          ProjectOf,       \* the project of each record, None if it has none
          Evidence,        \* the records of category evidence
          Rules,           \* the rules that policies have
          AdminBound,      \* bound: policies and legal holds created
          InventoryBound   \* bound: inventories

ASSUME GovernanceAssumption ==
  /\ Count \in Nat /\ AdminBound \in Nat /\ InventoryBound \in Nat
  /\ None \notin Projects /\ DOMAIN ProjectOf = 1 .. Count

VARIABLES
  request,    \* the row of governance_requests
  items,      \* items[i]: the status of the request's item for record i
  generation, \* which inventory the item rows belong to
  policies,   \* policies[s][v]: version v of the policy of scope s
  holds,      \* the ACTIVE legal holds
  created,    \* how many policies and holds were ever created
  standing,   \* the holds in force since before the inventory
  handler,    \* handler[h]: what a call has read and will commit
  overlap     \* whether two calls were ever under way at once

vars == <<request, items, generation, policies, holds, created, standing,
          handler, overlap>>

Records == 1 .. Count
Scopes == Projects \cup {None}
Versions == 1 .. AdminBound
YesNo == {"no", "yes"}

NoRule == [hold |-> "none", exportable |-> "none", preserve |-> "none"]
Policy == [status: {"NONE", "DRAFT", "ACTIVE", "RETIRED"}, rule: Rules \cup {NoRule}]
Hold == [project: Scopes, record: Records \cup {0}]

Settled == {"BLOCKED", "COMPLETED"}
Request == [status: {"NONE", "PENDING_APPROVAL", "APPROVED", "CANCELLED",
                     "INVENTORIED", "PROCESSING"} \cup Settled,
            type: {"EXPORT", "DELETION"}, scope: Scopes, preserve: YesNo,
            cursor: Nat, processed: Nat, blocked: Nat]
ItemStatuses == {"NONE", "PENDING", "ERASED", "EXPORTED", "PRESERVED", "BLOCKED"}

Handler == [pc: {"idle", "inventory", "process", "activate"}, read: Request,
            generation: Nat, batch: SUBSET Records, last: Nat,
            outcome: [Records -> ItemStatuses],
            scope: Scopes, version: Nat, active: SUBSET Versions]

NoRequest == [status |-> "NONE", type |-> "EXPORT", scope |-> None,
              preserve |-> "yes", cursor |-> 0, processed |-> 0,
              blocked |-> 0]
NoOutcome == [i \in Records |-> "NONE"]
Idle == [pc |-> "idle", read |-> NoRequest, generation |-> 0, batch |-> {},
         last |-> 0, outcome |-> NoOutcome, scope |-> None, version |-> 0,
         active |-> {}]

Init ==
  /\ request = NoRequest /\ items = NoOutcome /\ generation = 0
  /\ policies = [s \in Scopes |->
                   [v \in Versions |-> [status |-> "NONE", rule |-> NoRule]]]
  /\ holds = {} /\ created = 0 /\ standing = {}
  /\ handler = [h \in Handlers |-> Idle] /\ overlap = "no"

\* A call of handler h begins with the state x.
Begin(h, x) ==
  /\ handler[h].pc = "idle"
  /\ handler' = [handler EXCEPT ![h] = x]
  /\ overlap' = IF \E g \in Handlers : handler[g].pc # "idle"
                THEN "yes" ELSE overlap

End(h) == handler' = [handler EXCEPT ![h] = Idle] /\ UNCHANGED overlap

-----------------------------------------------------------------------------
(* Policies                                                                *)

\* create: a draft with the next version of its scope.
CreatePolicy(s, rule) ==
  \E v \in Versions :
    /\ created < AdminBound /\ created' = created + 1
    /\ \A w \in Versions : policies[s][w].status = "NONE" <=> w >= v
    /\ policies' = [policies EXCEPT ![s][v] = [status |-> "DRAFT", rule |-> rule]]
    /\ UNCHANGED <<request, items, generation, holds, standing, handler, overlap>>

ActivateRead(h, s, v) ==
  /\ policies[s][v].status = "DRAFT"
  /\ Begin(h, [Idle EXCEPT !.pc = "activate", !.scope = s, !.version = v,
                           !.active = {w \in Versions :
                                         policies[s][w].status = "ACTIVE"}])
  /\ UNCHANGED <<request, items, generation, policies, holds, created, standing>>

\* The version becomes ACTIVE and those that were read as ACTIVE are RETIRED.
Activated(s, v, active) ==
  [w \in Versions |->
     IF w = v THEN [policies[s][w] EXCEPT !.status = "ACTIVE"]
     ELSE IF w \in active THEN [policies[s][w] EXCEPT !.status = "RETIRED"]
     ELSE policies[s][w]]

ActivateCommit(h) ==
  /\ handler[h].pc = "activate"
  /\ policies' = [policies EXCEPT ![handler[h].scope] =
                    Activated(handler[h].scope, handler[h].version,
                              handler[h].active)]
  /\ End(h)
  /\ UNCHANGED <<request, items, generation, holds, created, standing>>

Retire(s, v) ==
  /\ policies[s][v].status = "ACTIVE"
  /\ policies' = [policies EXCEPT ![s][v].status = "RETIRED"]
  /\ UNCHANGED <<request, items, generation, holds, created, standing,
                 handler, overlap>>

ActiveVersions(s) == {v \in Versions : policies[s][v].status = "ACTIVE"}

\* The rule of the newest active version in a scope.
Newest(s) ==
  policies[s][CHOOSE v \in ActiveVersions(s) :
                \A w \in ActiveVersions(s) : w <= v].rule

\* ResidencyService.rule: that of the project, else that of the organization.
RuleFor(scope) ==
  IF ActiveVersions(scope) # {} THEN Newest(scope)
  ELSE IF ActiveVersions(None) # {} THEN Newest(None)
  ELSE NoRule

-----------------------------------------------------------------------------
(* Legal holds                                                             *)

CreateHold(hold) ==
  /\ created < AdminBound /\ hold \notin holds
  /\ holds' = holds \cup {hold} /\ created' = created + 1
  /\ UNCHANGED <<request, items, generation, policies, standing, handler, overlap>>

ReleaseHold(hold) ==
  /\ hold \in holds
  /\ holds' = holds \ {hold} /\ standing' = standing \ {hold}
  /\ UNCHANGED <<request, items, generation, policies, created, handler, overlap>>

\* _active_hold: the hold is for the organization or for the project of the
\* request, whatever the project of the record.
Stops(hold, scope, i) ==
  hold.project \in {None, scope} /\ hold.record \in {0, i}

-----------------------------------------------------------------------------
(* The request                                                             *)

CreateRequest(type, scope, preserve) ==
  /\ request.status = "NONE"
  /\ request' = [NoRequest EXCEPT !.status = "PENDING_APPROVAL", !.type = type,
                                  !.scope = scope, !.preserve = preserve]
  /\ UNCHANGED <<items, generation, policies, holds, created, standing,
                 handler, overlap>>

\* approve: by somebody else than the one who asked.
Approve(actor, status) ==
  /\ request.status = "PENDING_APPROVAL" /\ actor # Requester
  /\ request' = [request EXCEPT !.status = status]
  /\ UNCHANGED <<items, generation, policies, holds, created, standing,
                 handler, overlap>>

InventoryRead(h) ==
  /\ request.status \in {"APPROVED", "INVENTORIED", "BLOCKED"}
  /\ generation < InventoryBound
  /\ Begin(h, [Idle EXCEPT !.pc = "inventory", !.read = request])
  /\ UNCHANGED <<request, items, generation, policies, holds, created, standing>>

\* What the database keeps of the request when new is committed by a call that
\* read old: only the columns that differ are written.
Merged(old, new) ==
  [request EXCEPT
     !.status = IF new.status # old.status THEN new.status ELSE @,
     !.cursor = IF new.cursor # old.cursor THEN new.cursor ELSE @,
     !.processed = IF new.processed # old.processed THEN new.processed ELSE @,
     !.blocked = IF new.blocked # old.blocked THEN new.blocked ELSE @]

KeptCounters(old) == [old EXCEPT !.status = "INVENTORIED", !.cursor = 0]

\* inventory starts the request over.
Inventoried(old) ==
  [old EXCEPT !.status = "INVENTORIED", !.cursor = 0, !.processed = 0,
              !.blocked = 0]

InventoryCommit(h) ==
  /\ handler[h].pc = "inventory"
  /\ request' = Merged(handler[h].read, Inventoried(handler[h].read))
  /\ items' = [i \in Records |->
                 IF request.scope \in {None, ProjectOf[i]} THEN "PENDING"
                 ELSE "NONE"]
  /\ generation' = generation + 1 /\ standing' = holds
  /\ End(h)
  /\ UNCHANGED <<policies, holds, created>>

Pending == {i \in Records : items[i] = "PENDING"}

\* _apply_deletion: evidence may have to be preserved.
Deletion(i, rule) ==
  LET preserve == IF rule = NoRule THEN request.preserve ELSE rule.preserve
  IN  IF i \in Evidence /\ preserve = "yes" THEN "PRESERVED" ELSE "ERASED"

\* What process makes of record i.
Outcome(i) ==
  LET rule == RuleFor(request.scope)
      held == \/ rule.hold = "yes"
              \/ \E hold \in holds : Stops(hold, request.scope, i)
  IN  IF request.type = "EXPORT"
      THEN IF rule.exportable = "no" THEN "PRESERVED" ELSE "EXPORTED"
      ELSE IF held THEN "BLOCKED" ELSE Deletion(i, rule)

\* process reads the next batch, any number of the pending items beyond the
\* cursor in their order, with the holds and the rule of the moment.
ProcessRead(h, last) ==
  LET ahead == {i \in Pending : i > request.cursor}
      batch == {i \in ahead : i <= last}
  IN  /\ request.status \in {"INVENTORIED", "PROCESSING", "BLOCKED"}
      /\ IF ahead = {} THEN last = request.cursor ELSE last \in ahead
      /\ Begin(h, [Idle EXCEPT
                     !.pc = "process", !.read = request,
                     !.generation = generation, !.batch = batch, !.last = last,
                     !.outcome = [i \in Records |->
                                    IF i \in batch THEN Outcome(i) ELSE "NONE"]])
      /\ UNCHANGED <<request, items, generation, policies, holds, created, standing>>

\* The request after the batch; Pending is what the database holds before it.
Processed(x) ==
  LET blocked == x.read.blocked
                   + Cardinality({i \in x.batch : x.outcome[i] = "BLOCKED"})
  IN  [x.read EXCEPT
         !.cursor = x.last,
         !.processed = @ + Cardinality(x.batch),
         !.blocked = blocked,
         !.status = IF Pending # {} THEN "PROCESSING"
                    ELSE IF blocked > 0 THEN "BLOCKED" ELSE "COMPLETED"]

RowsStale(h) == FALSE

\* The rows of the batch were deleted by an inventory: the commit fails.
RowsGone(h) ==
  handler[h].batch # {} /\ handler[h].generation # generation

ProcessCommit(h) ==
  /\ handler[h].pc = "process" /\ ~RowsGone(h)
  /\ request' = Merged(handler[h].read, Processed(handler[h]))
  /\ items' = [i \in Records |-> IF i \in handler[h].batch
                                 THEN handler[h].outcome[i] ELSE items[i]]
  /\ End(h)
  /\ UNCHANGED <<generation, policies, holds, created, standing>>

\* A call ends without a commit: its rows are gone, or it is cut off.
Abort(h) ==
  /\ handler[h].pc # "idle"
  /\ End(h)
  /\ UNCHANGED <<request, items, generation, policies, holds, created, standing>>

HandlerStep(h) ==
  \/ \E s \in Scopes, v \in Versions : ActivateRead(h, s, v)
  \/ ActivateCommit(h)
  \/ InventoryRead(h) \/ InventoryCommit(h)
  \/ \E last \in 0 .. Count : ProcessRead(h, last)
  \/ ProcessCommit(h) \/ Abort(h)

Next ==
  \/ \E h \in Handlers : HandlerStep(h)
  \/ \E s \in Scopes, rule \in Rules : CreatePolicy(s, rule)
  \/ \E s \in Scopes, v \in Versions : Retire(s, v)
  \/ \E hold \in Hold : CreateHold(hold) \/ ReleaseHold(hold)
  \/ \E type \in {"EXPORT", "DELETION"}, scope \in Scopes, preserve \in YesNo :
       CreateRequest(type, scope, preserve)
  \/ \E actor \in Actors, status \in {"APPROVED", "CANCELLED"} :
       Approve(actor, status)

Spec == Init /\ [][Next]_vars

-----------------------------------------------------------------------------
(* Properties                                                              *)

\* The request, its items, policies, holds and calls keep their shape.
TypeOK ==
  /\ request \in Request /\ items \in [Records -> ItemStatuses]
  /\ generation \in Nat /\ policies \in [Scopes -> [Versions -> Policy]]
  /\ holds \subseteq Hold /\ standing \subseteq holds /\ created \in Nat
  /\ handler \in [Handlers -> Handler] /\ overlap \in YesNo

\* A hold that has been in force since before the inventory, and that the
\* request must respect, keeps every record it names: no batch that was read
\* before an inventory, or that overlaps with others, erases one.
StandingHoldsProtect ==
  \A hold \in standing, i \in Records :
    request.type = "DELETION" /\ Stops(hold, request.scope, i)
      => items[i] # "ERASED"

\* Unless two calls overlapped, the durable cursor and the counters agree with
\* the items, however batches were cut and calls were cut off, and a request
\* is COMPLETED or BLOCKED only when its last item has been decided.
LedgerAgrees ==
  overlap = "no" /\ generation > 0 =>
    /\ \A i \in Pending : i > request.cursor
    /\ request.processed = Cardinality({i \in Records :
                                          items[i] \notin {"NONE", "PENDING"}})
    /\ request.blocked = Cardinality({i \in Records : items[i] = "BLOCKED"})
    /\ request.status \in Settled =>
         /\ Pending = {}
         /\ request.status = "BLOCKED" <=> request.blocked > 0

\* docs/enterprise-governance.md, "Activating a version retires the previous
\* active version for that scope": one version is active, unless calls overlap.
OneActivePolicy ==
  overlap = "no" => \A s \in Scopes : Cardinality(ActiveVersions(s)) <= 1

\* docs/enterprise-governance.md, "Deletion never silently removes inventory
\* records": what was erased keeps its receipt.
ReceiptsKept ==
  [][\A i \in Records : items[i] = "ERASED" => items'[i] = "ERASED"]_vars

\* Calls that come one after the other, cut off at any point, keep the ledger of
\* a request and the policies of every scope in order.
SerialCallsAgree == LedgerAgrees /\ OneActivePolicy
=============================================================================
