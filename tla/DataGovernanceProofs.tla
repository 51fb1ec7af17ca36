------------------------ MODULE DataGovernanceProofs ------------------------
(***************************************************************************)
(* Proofs about DataGovernance, for any number of overlapping calls, any   *)
(* records, projects, rules and bounds.  StandingHoldsProtect is not       *)
(* inductive: a call erases what it decided long before.  Inv adds why its *)
(* commit is safe: a call whose items still exist read them after the      *)
(* inventory, when every standing hold was already there.                  *)
(***************************************************************************)
EXTENDS DataGovernance, FiniteSetTheorems, TLAPS

\* A call that read the items of the current inventory erases none that a
\* standing hold keeps.
Heeds(x) ==
  x.pc = "process" /\ x.generation = generation /\ request.type = "DELETION" =>
    \A hold \in standing, i \in Records :
      Stops(hold, request.scope, i) => x.outcome[i] # "ERASED"

\* Nobody works on a request that does not exist.
Started(x) == x.pc \in {"inventory", "process"} => request.status # "NONE"

Inv ==
  /\ TypeOK /\ StandingHoldsProtect
  /\ request.status = "NONE" => standing = {}
  /\ \A h \in Handlers : /\ handler[h].generation <= generation
                         /\ Heeds(handler[h]) /\ Started(handler[h])

-----------------------------------------------------------------------------
(* What the operators return                                               *)

\* A set of records is finite.
LEMMA CountType == ASSUME NEW S \in SUBSET Records PROVE Cardinality(S) \in Nat
<1>1. IsFiniteSet(Records)
  BY FS_Interval, GovernanceAssumption DEF Records
<1> QED BY <1>1, FS_Subset, FS_CardinalityType

\* A commit changes status and counters only, and writes what it computed or
\* leaves what is there.
LEMMA MergedShape ==
  ASSUME request \in Request, NEW old \in Request, NEW new \in Request
  PROVE  /\ Merged(old, new) \in Request
         /\ Merged(old, new).type = request.type
         /\ Merged(old, new).scope = request.scope
         /\ Merged(old, new).status \in {request.status, new.status}
BY DEF Merged, Request

\* An inventory makes a request of the request it read.
LEMMA InventoriedShape ==
  ASSUME NEW old \in Request
  PROVE  Inventoried(old) \in Request /\ Inventoried(old).status # "NONE"
BY DEF Inventoried, Request, Settled

\* So does a batch.
LEMMA ProcessedShape ==
  ASSUME NEW x \in Handler
  PROVE  Processed(x) \in Request /\ Processed(x).status # "NONE"
<1> DEFINE stopped == {i \in x.batch : x.outcome[i] = "BLOCKED"}
<1> x.batch \in SUBSET Records /\ x.read \in Request /\ x.last \in Nat
  BY DEF Handler
<1>1. Cardinality(x.batch) \in Nat
  BY CountType
<1>2. Cardinality(stopped) \in Nat
  BY CountType
<1> DEFINE b == x.read.blocked + Cardinality(stopped)
           n == x.read.processed + Cardinality(x.batch)
<1>3. b \in Nat /\ n \in Nat
  BY <1>1, <1>2 DEF Request
<1> HIDE DEF b, n
<1>4. Processed(x) = [x.read EXCEPT
         !.cursor = x.last, !.processed = n, !.blocked = b,
         !.status = IF Pending # {} THEN "PROCESSING"
                    ELSE IF b > 0 THEN "BLOCKED" ELSE "COMPLETED"]
  BY DEF Processed, b, n
<1> QED BY <1>3, <1>4 DEF Request, Settled

\* The outcome of a record is a status of an item.
LEMMA OutcomeType == \A i \in Records : Outcome(i) \in ItemStatuses
BY DEF Outcome, Deletion, ItemStatuses

\* A record that a hold stops is not erased.
LEMMA HeldOutcome ==
  ASSUME request \in Request, request.type = "DELETION", NEW i \in Records,
         NEW hold \in holds, Stops(hold, request.scope, i)
  PROVE  Outcome(i) # "ERASED"
BY DEF Outcome

\* The state of a call at rest.
LEMMA IdleShape == Idle \in Handler /\ NoRequest \in Request
BY DEF Idle, Handler, NoRequest, Request, NoOutcome, ItemStatuses, Scopes, YesNo

-----------------------------------------------------------------------------
(* Steps                                                                   *)

\* Steps that leave the request, its items and the calls alone, and end no
\* hold but together with its standing.
Aside ==
  /\ UNCHANGED <<request, items, generation, handler, overlap>>
  /\ standing' \subseteq standing

\* A step aside keeps Inv if policies and holds keep their shape.
LEMMA AsideKeeps ==
  ASSUME Inv, Aside, policies' \in [Scopes -> [Versions -> Policy]],
         holds' \subseteq Hold, standing' \subseteq holds', created' \in Nat
  PROVE  Inv'
BY DEF Inv, Aside, TypeOK, StandingHoldsProtect, Heeds, Started

\* create adds a draft.
LEMMA CreatePolicyStep ==
  ASSUME Inv, NEW s \in Scopes, NEW rule \in Rules, CreatePolicy(s, rule)
  PROVE  Inv'
<1> PICK w \in Versions :
      /\ created' = created + 1
      /\ policies' = [policies EXCEPT ![s][w] = [status |-> "DRAFT", rule |-> rule]]
      /\ UNCHANGED <<request, items, generation, holds, standing, handler, overlap>>
  BY DEF CreatePolicy
<1>1. [status |-> "DRAFT", rule |-> rule] \in Policy
  BY DEF Policy
<1>2. policies' \in [Scopes -> [Versions -> Policy]] /\ created' \in Nat
  BY <1>1 DEF Inv, TypeOK
<1> QED BY <1>2, AsideKeeps DEF Aside, Inv, TypeOK

\* retire takes a version out of force.
LEMMA RetireStep ==
  ASSUME Inv, NEW s \in Scopes, NEW v \in Versions, Retire(s, v) PROVE Inv'
<1>1. [policies[s][v] EXCEPT !.status = "RETIRED"] \in Policy
  BY DEF Inv, TypeOK, Policy
<1>2. policies' = [policies EXCEPT ![s][v] =
                     [policies[s][v] EXCEPT !.status = "RETIRED"]]
  BY DEF Retire
<1>3. policies' \in [Scopes -> [Versions -> Policy]]
  BY <1>1, <1>2 DEF Inv, TypeOK
<1> QED BY <1>3, AsideKeeps DEF Aside, Inv, TypeOK, Retire

\* Holds.
LEMMA HoldSteps ==
  ASSUME Inv, NEW hold \in Hold, CreateHold(hold) \/ ReleaseHold(hold)
  PROVE  Inv'
<1>1. CASE CreateHold(hold)
  <2>1. created' \in Nat /\ holds' \subseteq Hold /\ standing' \subseteq holds'
    BY <1>1 DEF CreateHold, Inv, TypeOK
  <2> QED BY <1>1, <2>1, AsideKeeps DEF Aside, CreateHold, Inv, TypeOK
<1>2. CASE ReleaseHold(hold)
  <2>1. holds' \subseteq Hold /\ standing' \subseteq holds' /\ Aside
    BY <1>2 DEF ReleaseHold, Inv, TypeOK, Aside
  <2> QED BY <1>2, <2>1, AsideKeeps DEF ReleaseHold, Inv, TypeOK
<1> QED BY <1>1, <1>2

\* A request is created once, before any hold can stand.
LEMMA CreateRequestStep ==
  ASSUME Inv, NEW type \in {"EXPORT", "DELETION"}, NEW scope \in Scopes,
         NEW preserve \in YesNo, CreateRequest(type, scope, preserve)
  PROVE  Inv'
<1>1. standing' = {} /\ request'.status = "PENDING_APPROVAL"
  BY DEF CreateRequest, Inv, NoRequest
<1>2. request' \in Request
  BY IdleShape DEF CreateRequest, Request, Settled
<1>3. TypeOK'
  BY <1>1, <1>2 DEF CreateRequest, Inv, TypeOK
<1>4. \A h \in Handlers : /\ handler'[h].generation <= generation'
                          /\ Heeds(handler[h])' /\ Started(handler[h])'
  BY <1>1 DEF CreateRequest, Inv, Heeds, Started
<1> QED BY <1>1, <1>3, <1>4 DEF Inv, StandingHoldsProtect

\* Approval changes the status of the request only.
LEMMA ApproveStep ==
  ASSUME Inv, NEW actor \in Actors, NEW status \in {"APPROVED", "CANCELLED"},
         Approve(actor, status)
  PROVE  Inv'
<1>1. /\ request' \in Request /\ request'.status # "NONE"
      /\ request'.type = request.type /\ request'.scope = request.scope
  BY DEF Approve, Inv, TypeOK, Request, Settled
<1>2. TypeOK'
  BY <1>1 DEF Approve, Inv, TypeOK
<1>3. \A h \in Handlers : /\ handler'[h].generation <= generation'
                          /\ Heeds(handler[h])' /\ Started(handler[h])'
  BY <1>1 DEF Approve, Inv, Heeds, Started
<1> QED BY <1>1, <1>2, <1>3 DEF Inv, StandingHoldsProtect, Approve

\* A call that begins has read the current state.
LEMMA BeginSteps ==
  ASSUME Inv, NEW h \in Handlers, NEW x \in Handler, Begin(h, x),
         x.generation <= generation, Heeds(x), Started(x),
         UNCHANGED <<request, items, generation, policies, holds, created, standing>>
  PROVE  Inv'
<1>1. /\ handler' \in [Handlers -> Handler] /\ overlap' \in YesNo
      /\ \A g \in Handlers : handler'[g] = IF g = h THEN x ELSE handler[g]
  BY DEF Begin, Inv, TypeOK, YesNo
<1>2. TypeOK'
  BY <1>1 DEF Inv, TypeOK
<1>3. \A g \in Handlers : /\ handler'[g].generation <= generation'
                          /\ Heeds(handler'[g]) /\ Started(handler'[g])
  BY <1>1 DEF Inv
<1>4. \A g \in Handlers : Heeds(handler[g])' /\ Started(handler[g])'
  BY <1>3 DEF Heeds, Started
<1> QED BY <1>2, <1>3, <1>4 DEF Inv, StandingHoldsProtect

\* activate reads the active versions.
LEMMA ActivateReadStep ==
  ASSUME Inv, NEW h \in Handlers, NEW s \in Scopes, NEW v \in Versions,
         ActivateRead(h, s, v)
  PROVE  Inv'
<1> DEFINE active == {w \in Versions : policies[s][w].status = "ACTIVE"}
           x == [Idle EXCEPT !.pc = "activate", !.scope = s, !.version = v,
                             !.active = active]
<1>1. active \in SUBSET Versions /\ v \in Nat
  BY GovernanceAssumption DEF Versions
<1>2. Begin(h, x)
  BY DEF ActivateRead
<1> HIDE DEF active
<1>3. x \in Handler /\ x.pc = "activate" /\ x.generation = 0
  BY <1>1, IdleShape DEF Handler, Idle
<1> HIDE DEF x
<1>4. x.generation <= generation /\ Heeds(x) /\ Started(x)
  BY <1>3 DEF Heeds, Started, Inv, TypeOK
<1> QED BY <1>2, <1>3, <1>4, BeginSteps DEF ActivateRead

\* inventory reads the request.
LEMMA InventoryReadStep ==
  ASSUME Inv, NEW h \in Handlers, InventoryRead(h) PROVE Inv'
<1> DEFINE x == [Idle EXCEPT !.pc = "inventory", !.read = request]
<1>1. x \in Handler /\ x.pc = "inventory" /\ x.generation = 0
  BY IdleShape DEF Handler, Idle, Inv, TypeOK
<1>2. Begin(h, x) /\ request.status # "NONE"
  BY DEF InventoryRead
<1> HIDE DEF x
<1>3. x.generation <= generation /\ Heeds(x) /\ Started(x)
  BY <1>1, <1>2 DEF Heeds, Started, Inv, TypeOK
<1> QED BY <1>1, <1>2, <1>3, BeginSteps DEF InventoryRead

\* process decides a batch under the holds that stand.
LEMMA ProcessReadStep ==
  ASSUME Inv, NEW h \in Handlers, NEW last \in 0 .. Count, ProcessRead(h, last)
  PROVE  Inv'
<1> DEFINE batch == {i \in {j \in Pending : j > request.cursor} : i <= last}
           outcome == [i \in Records |->
                         IF i \in batch THEN Outcome(i) ELSE "NONE"]
           x == [Idle EXCEPT
                   !.pc = "process", !.read = request,
                   !.generation = generation, !.batch = batch, !.last = last,
                   !.outcome = outcome]
<1>1. batch \in SUBSET Records
  BY DEF Pending
<1>2. outcome \in [Records -> ItemStatuses]
  BY OutcomeType DEF ItemStatuses
<1>3. last \in Nat
  BY GovernanceAssumption
<1>4. \A hold \in standing, i \in Records :
        request.type = "DELETION" /\ Stops(hold, request.scope, i)
          => outcome[i] # "ERASED"
  BY HeldOutcome DEF Inv, TypeOK
<1>5. Begin(h, x) /\ request.status # "NONE"
  BY DEF ProcessRead
<1> HIDE DEF batch, outcome
<1>6. /\ x \in Handler /\ x.pc = "process" /\ x.generation = generation
      /\ x.outcome = outcome
  BY <1>1, <1>2, <1>3, IdleShape DEF Handler, Idle, Inv, TypeOK
<1> HIDE DEF x
<1>7. x.generation <= generation /\ Heeds(x) /\ Started(x)
  BY <1>4, <1>5, <1>6 DEF Heeds, Started, Inv, TypeOK
<1> QED BY <1>5, <1>6, <1>7, BeginSteps DEF ProcessRead

\* The other calls after one has ended.
LEMMA EndShape ==
  ASSUME Inv, NEW h \in Handlers, End(h)
  PROVE  /\ handler' \in [Handlers -> Handler] /\ overlap' \in YesNo
         /\ \A g \in Handlers : handler'[g] \in {handler[g], Idle}
BY IdleShape DEF End, Inv, TypeOK

\* A call that ends without a commit, or activates a policy.
LEMMA AsideEnds ==
  ASSUME Inv, NEW h \in Handlers, Abort(h) \/ ActivateCommit(h)
  PROVE  Inv'
<1>0. End(h) /\ UNCHANGED <<request, items, generation, holds, created, standing>>
  BY DEF Abort, ActivateCommit
<1>1. policies' \in [Scopes -> [Versions -> Policy]]
  <2>1. CASE Abort(h)
    BY <2>1 DEF Abort, Inv, TypeOK
  <2>2. CASE ActivateCommit(h)
    <3> DEFINE s == handler[h].scope
               new == Activated(s, handler[h].version, handler[h].active)
    <3>1. s \in Scopes
      BY DEF Inv, TypeOK, Handler
    <3>2. \A w \in Versions, status \in {"ACTIVE", "RETIRED"} :
            /\ policies[s][w] \in Policy
            /\ [policies[s][w] EXCEPT !.status = status] \in Policy
      BY <3>1 DEF Inv, TypeOK, Policy
    <3>4. new \in [Versions -> Policy]
      BY <3>2 DEF Activated
    <3>3. policies' = [policies EXCEPT ![s] = new]
      BY <2>2 DEF ActivateCommit
    <3> HIDE DEF s, new
    <3> QED BY <3>1, <3>3, <3>4 DEF Inv, TypeOK
  <2> QED BY <2>1, <2>2
<1>2. TypeOK'
  BY <1>0, <1>1, EndShape DEF Inv, TypeOK
<1>3. \A g \in Handlers : /\ handler'[g].generation <= generation'
                          /\ Heeds(handler[g])' /\ Started(handler[g])'
  BY <1>0, EndShape DEF Inv, TypeOK, Heeds, Started, Idle
<1> QED BY <1>0, <1>2, <1>3 DEF Inv, StandingHoldsProtect

\* An inventory starts over: every call that read items read older ones.
LEMMA InventoryStep ==
  ASSUME Inv, NEW h \in Handlers, InventoryCommit(h) PROVE Inv'
<1>0. End(h) /\ UNCHANGED <<policies, holds, created>>
  BY DEF InventoryCommit
<1>1. handler[h].read \in Request /\ request.status # "NONE"
  BY DEF InventoryCommit, Inv, Started, TypeOK, Handler
<1>2. request' \in Request /\ request'.status # "NONE"
  BY <1>1, MergedShape, InventoriedShape DEF InventoryCommit, Inv, TypeOK
<1>3. items' \in [Records -> ItemStatuses] /\ \A i \in Records : items'[i] # "ERASED"
  BY DEF InventoryCommit, ItemStatuses
<1>4. generation \in Nat /\ generation' = generation + 1 /\ standing' = holds
  BY DEF InventoryCommit, Inv, TypeOK
<1>5. TypeOK'
  BY <1>0, <1>2, <1>3, <1>4, EndShape DEF Inv, TypeOK
<1>6. \A g \in Handlers : /\ handler'[g].generation <= generation
                          /\ handler'[g].generation \in Nat
  BY <1>0, EndShape DEF Inv, TypeOK, Idle, Handler
<1>7. \A g \in Handlers : /\ handler'[g].generation <= generation'
                          /\ Heeds(handler[g])' /\ Started(handler[g])'
  BY <1>2, <1>4, <1>6 DEF Heeds, Started
<1> QED BY <1>2, <1>3, <1>5, <1>7 DEF Inv, StandingHoldsProtect

\* A batch is committed only on the items it was read from.
LEMMA ProcessStep ==
  ASSUME Inv, NEW h \in Handlers, ProcessCommit(h) PROVE Inv'
<1>0. End(h) /\ UNCHANGED <<generation, policies, holds, created, standing>>
  BY DEF ProcessCommit
<1>1. handler[h] \in Handler /\ handler[h].read \in Request
  BY DEF Inv, TypeOK, Handler
<1>2. /\ request' \in Request /\ request'.status # "NONE"
      /\ request'.type = request.type /\ request'.scope = request.scope
  BY <1>1, MergedShape, ProcessedShape DEF ProcessCommit, Inv, TypeOK, Started
<1>3. items' \in [Records -> ItemStatuses]
  BY <1>1 DEF ProcessCommit, Inv, TypeOK, Handler
<1>4. TypeOK'
  BY <1>0, <1>2, <1>3, EndShape DEF Inv, TypeOK
<1>5. StandingHoldsProtect'
  <2> SUFFICES ASSUME NEW hold \in standing, NEW i \in Records,
                      request.type = "DELETION", Stops(hold, request.scope, i)
               PROVE  items'[i] # "ERASED"
    BY <1>0, <1>2 DEF StandingHoldsProtect, Stops
  <2>1. CASE i \in handler[h].batch
    <3>1. handler[h].pc = "process" /\ handler[h].generation = generation
      BY <2>1 DEF ProcessCommit, RowsGone
    <3>2. handler[h].outcome[i] # "ERASED"
      BY <3>1 DEF Inv, Heeds
    <3> QED BY <2>1, <3>2 DEF ProcessCommit
  <2>2. CASE i \notin handler[h].batch
    BY <2>2 DEF ProcessCommit, Inv, StandingHoldsProtect
  <2> QED BY <2>1, <2>2
<1>6. \A g \in Handlers : /\ handler'[g].generation <= generation'
                          /\ Heeds(handler[g])' /\ Started(handler[g])'
  BY <1>0, <1>2, EndShape DEF Inv, TypeOK, Heeds, Started, Idle, Stops
<1> QED BY <1>2, <1>4, <1>5, <1>6 DEF Inv

-----------------------------------------------------------------------------
(* The invariant                                                           *)

\* Before any request nothing is erased and nobody works.
LEMMA InitInv == Init => Inv
<1> SUFFICES ASSUME Init PROVE Inv
  OBVIOUS
<1>1. [status |-> "NONE", rule |-> NoRule] \in Policy
  BY DEF Policy
<1>2. TypeOK
  BY <1>1, IdleShape DEF Init, TypeOK, NoOutcome, ItemStatuses, YesNo
<1> QED BY <1>2 DEF Init, Inv, StandingHoldsProtect, Heeds, Started, Idle,
                    NoOutcome

\* Inv is an invariant of the specification.
THEOREM GovernanceInvariant == Spec => []Inv
<1>1. Inv /\ [Next]_vars => Inv'
  <2> SUFFICES ASSUME Inv, [Next]_vars PROVE Inv'
    OBVIOUS
  <2>1. ASSUME NEW h \in Handlers, HandlerStep(h) PROVE Inv'
    BY <2>1, ActivateReadStep, AsideEnds, InventoryReadStep, InventoryStep,
       ProcessReadStep, ProcessStep DEF HandlerStep
  <2>2. ASSUME NEW s \in Scopes, NEW rule \in Rules, CreatePolicy(s, rule)
        PROVE  Inv'
    BY <2>2, CreatePolicyStep
  <2>3. ASSUME NEW s \in Scopes, NEW v \in Versions, Retire(s, v) PROVE Inv'
    BY <2>3, RetireStep
  <2>4. ASSUME NEW hold \in Hold, CreateHold(hold) \/ ReleaseHold(hold)
        PROVE  Inv'
    BY <2>4, HoldSteps
  <2>5. ASSUME NEW type \in {"EXPORT", "DELETION"}, NEW scope \in Scopes,
               NEW preserve \in YesNo, CreateRequest(type, scope, preserve)
        PROVE  Inv'
    BY <2>5, CreateRequestStep
  <2>6. ASSUME NEW actor \in Actors, NEW status \in {"APPROVED", "CANCELLED"},
               Approve(actor, status)
        PROVE  Inv'
    BY <2>6, ApproveStep
  <2>7. CASE UNCHANGED vars
    BY <2>7, AsideKeeps DEF vars, Aside, Inv, TypeOK
  <2> QED BY <2>1, <2>2, <2>3, <2>4, <2>5, <2>6, <2>7 DEF Next
<1> QED BY InitInv, <1>1, PTL DEF Spec

\* The request, its items, policies, holds and calls keep their shape, however
\* many calls overlap.
THEOREM GovernanceTyped == Spec => []TypeOK
BY GovernanceInvariant, PTL DEF Inv

\* No overlapping or late batch erases a record that a hold in force since
\* before the inventory keeps.
THEOREM HoldsProtect == Spec => []StandingHoldsProtect
BY GovernanceInvariant, PTL DEF Inv
-----------------------------------------------------------------------------
(* Calls that come one after the other                                     *)

\* The statuses of an item that a batch has decided.
Decided == ItemStatuses \ {"NONE", "PENDING"}

\* At most one call is under way.
Alone ==
  \A g, h \in Handlers :
    handler[g].pc # "idle" /\ handler[h].pc # "idle" => g = h

\* No call is under way.
Resting == \A h \in Handlers : handler[h].pc = "idle"

\* What a call has read is still so: nothing but the end of a policy can come
\* between its read and its commit.
Current(x) ==
  /\ x.pc \in {"inventory", "process"} =>
       x.read = request /\ request.status \notin {"NONE", "PENDING_APPROVAL"}
  /\ x.pc = "process" =>
       /\ generation > 0
       /\ x.batch = {i \in Pending : i > request.cursor /\ i <= x.last}
       /\ \A i \in x.batch : x.outcome[i] \in Decided
  /\ x.pc = "activate" => ActiveVersions(x.scope) \subseteq x.active

\* A request has items once it was inventoried.
Reached ==
  IF generation = 0
  THEN request.status \in {"NONE", "PENDING_APPROVAL", "APPROVED", "CANCELLED"}
  ELSE request.status \in {"INVENTORIED", "PROCESSING"} \cup Settled

\* No scope has two active versions.
SoleVersions ==
  \A s \in Scopes : \A v, w \in ActiveVersions(s) : v = w

\* SerialCallsAgree alone says nothing of what a call is about to commit.
SerialInv ==
  /\ LedgerAgrees
  /\ overlap = "no" => /\ Alone /\ Reached /\ SoleVersions
                       /\ \A h \in Handlers : Current(handler[h])

\* The sets that the counters of a request count.
Receipts == {i \in Records : items[i] \notin {"NONE", "PENDING"}}
Blockings == {i \in Records : items[i] = "BLOCKED"}

\* Disjoint sets of records add up.
LEMMA CountUnion ==
  ASSUME NEW S \in SUBSET Records, NEW T \in SUBSET Records, S \cap T = {}
  PROVE  Cardinality(S \cup T) = Cardinality(S) + Cardinality(T)
<1>1. IsFiniteSet(Records)
  BY FS_Interval, GovernanceAssumption DEF Records
<1>2. IsFiniteSet(S) /\ IsFiniteSet(T)
  BY <1>1, FS_Subset
<1>3. Cardinality(S \cup T) = Cardinality(S) + Cardinality(T) - Cardinality(S \cap T)
  BY <1>2, FS_Union
<1>4. Cardinality(S) \in Nat /\ Cardinality(T) \in Nat
  BY <1>2, FS_CardinalityType
<1>5. Cardinality(S \cap T) = 0
  BY FS_EmptySet
<1> QED BY <1>3, <1>4, <1>5

\* A set of versions without two members has at most one.
LEMMA SoleCount ==
  ASSUME NEW S \in SUBSET Versions, \A v, w \in S : v = w
  PROVE  Cardinality(S) <= 1
<1>1. CASE S = {}
  BY <1>1, FS_EmptySet
<1>2. CASE S # {}
  <2> PICK v \in S : TRUE
    BY <1>2
  <2>1. S = {v}
    OBVIOUS
  <2> QED BY <2>1, FS_Singleton
<1> QED BY <1>1, <1>2

\* Steps that leave requests and calls alone and activate no version.
LEMMA SerialAside ==
  ASSUME SerialInv, UNCHANGED <<request, items, generation, handler, overlap>>,
         \A s \in Scopes : (ActiveVersions(s))' \subseteq ActiveVersions(s),
         Inv
  PROVE  SerialInv'
<1>1. LedgerAgrees'
  BY DEF SerialInv, LedgerAgrees, Pending
<1> SUFFICES ASSUME overlap = "no"
             PROVE  /\ Alone' /\ Reached' /\ SoleVersions'
                    /\ \A h \in Handlers : Current(handler[h])'
  BY <1>1 DEF SerialInv
<1>2. Alone' /\ Reached' /\ SoleVersions'
  BY DEF SerialInv, Alone, Reached, SoleVersions
<1>3. ASSUME NEW h \in Handlers PROVE Current(handler[h])'
  <2>1. Current(handler[h]) /\ handler[h].scope \in Scopes
    BY DEF SerialInv, Inv, TypeOK, Handler
  <2>2. ActiveVersions(handler[h].scope)' \subseteq ActiveVersions(handler[h].scope)
    BY <2>1
  <2> QED BY <2>1, <2>2 DEF Current, Pending
<1> QED BY <1>2, <1>3

\* Administrators.
LEMMA SerialAdmin ==
  ASSUME Inv, SerialInv,
         \/ \E s \in Scopes, rule \in Rules : CreatePolicy(s, rule)
         \/ \E s \in Scopes, v \in Versions : Retire(s, v)
         \/ \E hold \in Hold : CreateHold(hold) \/ ReleaseHold(hold)
         \/ UNCHANGED vars
  PROVE  SerialInv'
<1>1. ASSUME NEW s \in Scopes, NEW rule \in Rules, CreatePolicy(s, rule)
      PROVE  SerialInv'
  <2> PICK v \in Versions :
        policies' = [policies EXCEPT ![s][v] = [status |-> "DRAFT", rule |-> rule]]
    BY <1>1 DEF CreatePolicy
  <2>1. \A t \in Scopes : (ActiveVersions(t))' \subseteq ActiveVersions(t)
    BY DEF ActiveVersions, Inv, TypeOK
  <2> QED BY <1>1, <2>1, SerialAside DEF CreatePolicy
<1>2. ASSUME NEW s \in Scopes, NEW v \in Versions, Retire(s, v) PROVE SerialInv'
  <2>1. policies' = [policies EXCEPT ![s][v] =
                       [policies[s][v] EXCEPT !.status = "RETIRED"]]
    BY <1>2 DEF Retire
  <2>2. [policies[s][v] EXCEPT !.status = "RETIRED"].status = "RETIRED"
    BY DEF Inv, TypeOK, Policy
  <2>3. \A t \in Scopes : (ActiveVersions(t))' \subseteq ActiveVersions(t)
    BY <2>1, <2>2 DEF ActiveVersions, Inv, TypeOK
  <2> QED BY <1>2, <2>3, SerialAside DEF Retire
<1>3. ASSUME NEW hold \in Hold, CreateHold(hold) \/ ReleaseHold(hold)
      PROVE  SerialInv'
  <2>1. \A t \in Scopes : (ActiveVersions(t))' \subseteq ActiveVersions(t)
    BY <1>3 DEF ActiveVersions, CreateHold, ReleaseHold
  <2> QED BY <1>3, <2>1, SerialAside DEF CreateHold, ReleaseHold
<1>4. CASE UNCHANGED vars
  <2>1. \A t \in Scopes : (ActiveVersions(t))' \subseteq ActiveVersions(t)
    BY <1>4 DEF ActiveVersions, vars
  <2> QED BY <1>4, <2>1, SerialAside DEF vars
<1> QED BY <1>1, <1>2, <1>3, <1>4

\* Nobody works on a request before it is approved.
LEMMA SerialOpen ==
  ASSUME Inv, SerialInv,
         \/ \E type \in {"EXPORT", "DELETION"}, scope \in Scopes, preserve \in YesNo :
              CreateRequest(type, scope, preserve)
         \/ \E actor \in Actors, status \in {"APPROVED", "CANCELLED"} :
              Approve(actor, status)
  PROVE  SerialInv'
<1>1. /\ request.status \in {"NONE", "PENDING_APPROVAL"}
      /\ UNCHANGED <<items, generation, policies, handler, overlap>>
  BY DEF CreateRequest, Approve
<1>2. request'.status \in {"PENDING_APPROVAL", "APPROVED", "CANCELLED"}
  BY DEF CreateRequest, Approve, NoRequest, Inv, TypeOK, Request
<1>3. overlap = "no" => generation = 0
  BY <1>1 DEF SerialInv, Reached, Settled
<1>4. LedgerAgrees'
  BY <1>1, <1>3 DEF LedgerAgrees
<1> SUFFICES ASSUME overlap = "no"
             PROVE  /\ Alone' /\ Reached' /\ SoleVersions'
                    /\ \A h \in Handlers : Current(handler[h])'
  BY <1>1, <1>4 DEF SerialInv
<1>5. Alone' /\ Reached' /\ SoleVersions'
  BY <1>1, <1>2, <1>3 DEF SerialInv, Alone, Reached, SoleVersions, ActiveVersions
<1>6. ASSUME NEW h \in Handlers PROVE Current(handler[h])'
  BY <1>1 DEF SerialInv, Current, ActiveVersions
<1> QED BY <1>5, <1>6

\* A call begins: if it is alone, it has read what is there.
LEMMA SerialBegin ==
  ASSUME Inv, SerialInv, NEW h \in Handlers, NEW x \in Handler, Begin(h, x),
         SerialInv /\ overlap = "no" => Current(x),
         UNCHANGED <<request, items, generation, policies>>
  PROVE  SerialInv'
<1>1. /\ overlap' = "no" =>
           overlap = "no" /\ \A g \in Handlers : handler[g].pc = "idle"
      /\ \A g \in Handlers : handler'[g] = IF g = h THEN x ELSE handler[g]
  BY DEF Begin, Inv, TypeOK
<1>2. LedgerAgrees'
  BY <1>1 DEF SerialInv, LedgerAgrees, Pending
<1> SUFFICES ASSUME overlap' = "no"
             PROVE  /\ Alone' /\ Reached' /\ SoleVersions'
                    /\ \A g \in Handlers : Current(handler[g])'
  BY <1>2 DEF SerialInv
<1>3. Alone' /\ Reached' /\ SoleVersions'
  BY <1>1 DEF SerialInv, Alone, Reached, SoleVersions, ActiveVersions
<1>4. ASSUME NEW g \in Handlers PROVE Current(handler[g])'
  <2>1. Current(handler'[g])
    BY <1>1 DEF SerialInv
  <2> QED BY <2>1 DEF Current, Pending, ActiveVersions
<1> QED BY <1>3, <1>4

\* activate reads the active versions of the scope.
LEMMA SerialActivateRead ==
  ASSUME Inv, SerialInv, NEW h \in Handlers, NEW s \in Scopes, NEW v \in Versions,
         ActivateRead(h, s, v)
  PROVE  SerialInv'
<1> DEFINE active == {w \in Versions : policies[s][w].status = "ACTIVE"}
           x == [Idle EXCEPT !.pc = "activate", !.scope = s, !.version = v,
                             !.active = active]
<1>1. active \in SUBSET Versions /\ v \in Nat /\ active = ActiveVersions(s)
  BY GovernanceAssumption DEF Versions, ActiveVersions
<1>2. Begin(h, x)
  BY DEF ActivateRead
<1> HIDE DEF active
<1>3. x \in Handler /\ x.pc = "activate" /\ x.scope = s /\ x.active = active
  BY <1>1, IdleShape DEF Handler, Idle
<1> HIDE DEF x
<1>4. Current(x)
  BY <1>1, <1>3 DEF Current
<1> QED BY <1>2, <1>3, <1>4, SerialBegin DEF ActivateRead

\* inventory reads the request.
LEMMA SerialInventoryRead ==
  ASSUME Inv, SerialInv, NEW h \in Handlers, InventoryRead(h) PROVE SerialInv'
<1> DEFINE x == [Idle EXCEPT !.pc = "inventory", !.read = request]
<1>1. x \in Handler /\ x.pc = "inventory" /\ x.read = request
  BY IdleShape DEF Handler, Idle, Inv, TypeOK
<1>2. Begin(h, x) /\ request.status \notin {"NONE", "PENDING_APPROVAL"}
  BY DEF InventoryRead
<1> HIDE DEF x
<1>3. Current(x)
  BY <1>1, <1>2 DEF Current
<1> QED BY <1>1, <1>2, <1>3, SerialBegin DEF InventoryRead

\* What process decides for a record is a decision.
LEMMA OutcomeDecides == \A i \in Records : Outcome(i) \in Decided
BY DEF Outcome, Deletion, ItemStatuses, Decided

\* process reads the next batch.
LEMMA SerialProcessRead ==
  ASSUME Inv, SerialInv, NEW h \in Handlers, NEW last \in 0 .. Count,
         ProcessRead(h, last)
  PROVE  SerialInv'
<1> DEFINE batch == {i \in {j \in Pending : j > request.cursor} : i <= last}
           outcome == [i \in Records |->
                         IF i \in batch THEN Outcome(i) ELSE "NONE"]
           x == [Idle EXCEPT
                   !.pc = "process", !.read = request,
                   !.generation = generation, !.batch = batch, !.last = last,
                   !.outcome = outcome]
<1>1. /\ batch \in SUBSET Records
      /\ batch = {i \in Pending : i > request.cursor /\ i <= last}
  BY DEF Pending
<1>2. outcome \in [Records -> ItemStatuses]
  BY OutcomeType DEF ItemStatuses
<1>3. last \in Nat
  BY GovernanceAssumption
<1>4. \A i \in batch : outcome[i] \in Decided
  BY <1>1, OutcomeDecides
<1>5. Begin(h, x) /\ request.status \in {"INVENTORIED", "PROCESSING", "BLOCKED"}
  BY DEF ProcessRead
<1> HIDE DEF batch, outcome
<1>6. /\ x \in Handler /\ x.pc = "process" /\ x.read = request
      /\ x.batch = batch /\ x.last = last /\ x.outcome = outcome
  BY <1>1, <1>2, <1>3, IdleShape DEF Handler, Idle, Inv, TypeOK
<1> HIDE DEF x
<1>7. ASSUME overlap = "no" PROVE Current(x)
  <2>1. generation > 0
    BY <1>5, <1>7 DEF SerialInv, Reached, Inv, TypeOK
  <2> QED BY <2>1, <1>1, <1>4, <1>5, <1>6 DEF Current
<1> QED BY <1>5, <1>6, <1>7, SerialBegin DEF ProcessRead

\* The only call ends: nobody is left.
LEMMA SerialEnd ==
  ASSUME Inv, SerialInv, NEW h \in Handlers, handler[h].pc # "idle", End(h),
         overlap = "no"
  PROVE  Resting'
BY DEF End, SerialInv, Alone, Inv, TypeOK, Resting, Idle

\* With no call under way, the state of the rows is all there is to keep.
LEMMA SerialRest ==
  ASSUME overlap' = "no" => Resting',
         LedgerAgrees', overlap' = "no" => Reached' /\ SoleVersions'
  PROVE  SerialInv'
BY DEF SerialInv, Alone, Current, Resting

\* A call is cut off.
LEMMA SerialAbort ==
  ASSUME Inv, SerialInv, NEW h \in Handlers, Abort(h) PROVE SerialInv'
<1>1. UNCHANGED <<request, items, generation, policies, overlap>>
  BY DEF Abort, End
<1>2. LedgerAgrees' /\ (overlap' = "no" => Reached' /\ SoleVersions')
  BY <1>1 DEF SerialInv, LedgerAgrees, Pending, Reached, SoleVersions, ActiveVersions
<1>3. overlap' = "no" => Resting'
  BY <1>1, SerialEnd DEF Abort
<1> QED BY <1>2, <1>3, SerialRest

\* The version that is activated is the only active one of its scope: those
\* that were active when the call began are retired, and none came since.
LEMMA SerialActivate ==
  ASSUME Inv, SerialInv, NEW h \in Handlers, ActivateCommit(h) PROVE SerialInv'
<1> PICK s \in Scopes, a \in SUBSET Versions, v \in Nat :
      s = handler[h].scope /\ a = handler[h].active /\ v = handler[h].version
  BY DEF Inv, TypeOK, Handler
<1> DEFINE new == Activated(s, v, a)
<1>1. /\ UNCHANGED <<request, items, generation, overlap>>
      /\ policies' = [policies EXCEPT ![s] = new]
      /\ handler[h].pc = "activate" /\ End(h)
  BY DEF ActivateCommit, End
<1>2. LedgerAgrees' /\ (overlap' = "no" => Reached')
  BY <1>1 DEF SerialInv, LedgerAgrees, Pending, Reached
<1>3. overlap' = "no" => Resting'
  BY <1>1, SerialEnd
<1>4. ASSUME overlap = "no" PROVE SoleVersions'
  <2>1. s \in Scopes /\ ActiveVersions(s) \subseteq a
    BY <1>1, <1>4 DEF SerialInv, Current, Inv, TypeOK, Handler
  <2>2. \A w \in Versions : w # v /\ w \in a => new[w].status = "RETIRED"
    BY <2>1 DEF Activated, Inv, TypeOK, Policy
  <2>3. \A w \in Versions : w # v /\ w \notin a => new[w] = policies[s][w]
    BY DEF Activated
  <2>4. /\ policies'[s] = new
        /\ \A t \in Scopes : t # s => policies'[t] = policies[t]
    BY <1>1, <2>1 DEF Inv, TypeOK
  <2> HIDE DEF new
  <2>5. (ActiveVersions(s))' \subseteq {v}
    BY <2>1, <2>2, <2>3, <2>4 DEF ActiveVersions
  <2>6. \A t \in Scopes : t # s => (ActiveVersions(t))' = ActiveVersions(t)
    BY <2>4 DEF ActiveVersions
  <2> QED BY <1>4, <2>5, <2>6 DEF SoleVersions, SerialInv
<1> QED BY <1>1, <1>2, <1>3, <1>4, SerialRest

\* A commit of a call that read the row as it is writes all it computed.
LEMMA MergedCurrent ==
  ASSUME request \in Request, NEW new \in Request
  PROVE  /\ Merged(request, new).status = new.status
         /\ Merged(request, new).cursor = new.cursor
         /\ Merged(request, new).processed = new.processed
         /\ Merged(request, new).blocked = new.blocked
BY DEF Merged, Request

\* An inventory starts the ledger over.
LEMMA SerialInventory ==
  ASSUME Inv, SerialInv, NEW h \in Handlers, InventoryCommit(h) PROVE SerialInv'
<1>1. /\ UNCHANGED <<policies, overlap>> /\ End(h) /\ handler[h].pc = "inventory"
      /\ generation' = generation + 1 /\ generation \in Nat
      /\ request' = Merged(handler[h].read, Inventoried(handler[h].read))
      /\ \A i \in Records : items'[i] \in {"NONE", "PENDING"}
  BY DEF InventoryCommit, End, Inv, TypeOK
<1>2. overlap' = "no" => Resting'
  BY <1>1, SerialEnd
<1> SUFFICES ASSUME overlap = "no"
             PROVE  LedgerAgrees' /\ Reached' /\ SoleVersions'
  BY <1>1, <1>2, SerialRest DEF LedgerAgrees
<1>3. /\ request \in Request /\ handler[h].read = request
      /\ Inventoried(request) \in Request
  BY <1>1, InventoriedShape DEF SerialInv, Current, Inv, TypeOK
<1>4. /\ Inventoried(request).status = "INVENTORIED" /\ Inventoried(request).cursor = 0
      /\ Inventoried(request).processed = 0 /\ Inventoried(request).blocked = 0
  BY <1>3 DEF Inventoried, Request
<1>5. /\ request'.status = "INVENTORIED" /\ request'.cursor = 0
      /\ request'.processed = 0 /\ request'.blocked = 0
  BY <1>1, <1>3, <1>4, MergedCurrent
<1>6. Receipts' = {} /\ Blockings' = {}
  BY <1>1 DEF Receipts, Blockings
<1>7. \A i \in Pending' : i > request'.cursor
  BY <1>5, GovernanceAssumption DEF Pending, Records
<1>8. Cardinality(Receipts') = 0 /\ Cardinality(Blockings') = 0
  BY <1>6, FS_EmptySet
<1>9. LedgerAgrees'
  BY <1>5, <1>7, <1>8 DEF LedgerAgrees, Receipts, Blockings, Settled
<1>10. Reached' /\ SoleVersions'
  BY <1>1, <1>5 DEF Reached, SoleVersions, ActiveVersions, SerialInv
<1> QED BY <1>9, <1>10

\* A batch moves the records it decided from pending to decided, and counts
\* them; the status is settled by a batch that finds nothing pending.
LEMMA SerialProcess ==
  ASSUME Inv, SerialInv, NEW h \in Handlers, ProcessCommit(h) PROVE SerialInv'
<1> DEFINE x == handler[h]
           stopped == {i \in x.batch : x.outcome[i] = "BLOCKED"}
<1>1. /\ UNCHANGED <<policies, overlap, generation>> /\ End(h) /\ x.pc = "process"
      /\ request' = Merged(x.read, Processed(x))
      /\ \A i \in Records : items'[i] = IF i \in x.batch THEN x.outcome[i] ELSE items[i]
  BY DEF ProcessCommit, End
<1>2. overlap' = "no" => Resting'
  BY <1>1, SerialEnd
<1> SUFFICES ASSUME overlap = "no"
             PROVE  LedgerAgrees' /\ Reached' /\ SoleVersions'
  BY <1>1, <1>2, SerialRest DEF LedgerAgrees
<1>3. /\ request \in Request /\ x \in Handler /\ x.read = request
      /\ generation > 0 /\ x.last \in Nat
      /\ x.batch = {i \in Pending : i > request.cursor /\ i <= x.last}
      /\ \A i \in x.batch : x.outcome[i] \in Decided
  BY <1>1 DEF SerialInv, Current, Inv, TypeOK, Handler
<1>4. /\ \A i \in Pending : i > request.cursor
      /\ request.processed = Cardinality(Receipts)
      /\ request.blocked = Cardinality(Blockings)
  BY <1>3 DEF SerialInv, LedgerAgrees, Receipts, Blockings
<1>5. /\ Receipts \in SUBSET Records /\ x.batch \in SUBSET Records
      /\ Blockings \in SUBSET Records /\ stopped \in SUBSET Records
  BY <1>3 DEF Receipts, Blockings, Pending
<1>6. Receipts \cap x.batch = {} /\ Blockings \cap stopped = {}
  BY <1>3 DEF Receipts, Blockings, Pending
<1>7. Receipts' = Receipts \cup x.batch
  BY <1>1, <1>3, <1>5 DEF Receipts, Decided, ItemStatuses
<1>8. Blockings' = Blockings \cup stopped
  BY <1>1, <1>3, <1>5, <1>6 DEF Blockings, Pending
<1>9. Pending' = Pending \ x.batch
  BY <1>1, <1>3, <1>5 DEF Pending, Decided
<1> DEFINE n == request.processed + Cardinality(x.batch)
           b == request.blocked + Cardinality(stopped)
<1>10. n = Cardinality(Receipts') /\ b = Cardinality(Blockings')
  BY <1>4, <1>5, <1>6, <1>7, <1>8, CountUnion
<1>11. n \in Nat /\ b \in Nat
  BY <1>3, <1>5, CountType DEF Request
<1>12. Processed(x) = [request EXCEPT
          !.cursor = x.last, !.processed = n, !.blocked = b,
          !.status = IF Pending # {} THEN "PROCESSING"
                     ELSE IF b > 0 THEN "BLOCKED" ELSE "COMPLETED"]
  BY <1>3 DEF Processed
<1>13. Processed(x) \in Request
  BY <1>3, ProcessedShape
<1> HIDE DEF n, b, stopped, x
<1>14. /\ Processed(x).cursor = x.last /\ Processed(x).processed = n
       /\ Processed(x).blocked = b
       /\ Processed(x).status = IF Pending # {} THEN "PROCESSING"
                                ELSE IF b > 0 THEN "BLOCKED" ELSE "COMPLETED"
  BY <1>3, <1>12 DEF Request
<1>15. /\ request'.cursor = x.last /\ request'.processed = n
       /\ request'.blocked = b
       /\ request'.status = IF Pending # {} THEN "PROCESSING"
                            ELSE IF b > 0 THEN "BLOCKED" ELSE "COMPLETED"
  BY <1>1, <1>3, <1>13, <1>14, MergedCurrent
<1>16. \A i \in Pending' : i > request'.cursor
  <2> SUFFICES ASSUME NEW i \in Pending' PROVE i > x.last
    BY <1>15
  <2>1. i \in Pending /\ i \notin x.batch /\ i > request.cursor /\ i \in Nat
    BY <1>4, <1>9, GovernanceAssumption DEF Pending, Records
  <2> QED BY <1>3, <2>1
<1>17. request'.status \in Settled =>
         Pending' = {} /\ (request'.status = "BLOCKED" <=> request'.blocked > 0)
  BY <1>9, <1>11, <1>15 DEF Settled
<1>18. LedgerAgrees'
  BY <1>10, <1>15, <1>16, <1>17 DEF LedgerAgrees, Receipts, Blockings
<1>19. Reached' /\ SoleVersions'
  BY <1>1, <1>3, <1>15 DEF Reached, SoleVersions, ActiveVersions, SerialInv, Settled
<1> QED BY <1>18, <1>19

\* SerialInv is an invariant, for any number of handlers: that calls do not
\* overlap is in its premises, not in the specification.
THEOREM SerialInvariant == Spec => []SerialInv
<1>1. Init => SerialInv
  BY DEF Init, SerialInv, LedgerAgrees, Alone, Reached, SoleVersions, ActiveVersions,
         Current, Idle, NoRequest
<1>2. Inv /\ SerialInv /\ [Next]_vars => SerialInv'
  <2> SUFFICES ASSUME Inv, SerialInv, [Next]_vars PROVE SerialInv'
    OBVIOUS
  <2>1. ASSUME NEW h \in Handlers, HandlerStep(h) PROVE SerialInv'
    BY <2>1, SerialActivateRead, SerialActivate, SerialInventoryRead,
       SerialInventory, SerialProcessRead, SerialProcess, SerialAbort DEF HandlerStep
  <2> QED BY <2>1, SerialAdmin, SerialOpen DEF Next
<1> QED BY <1>1, <1>2, GovernanceInvariant, PTL DEF Spec

\* As long as calls come one after the other, wherever they are cut off, the
\* cursor and the counters of a request agree with its items, a settled request
\* has nothing pending, and every scope has at most one active version.
THEOREM SerialLedger == Spec => []SerialCallsAgree
<1>1. SerialInv => SerialCallsAgree
  <2> SUFFICES ASSUME SerialInv PROVE OneActivePolicy
    BY DEF SerialInv, SerialCallsAgree
  <2> SUFFICES ASSUME overlap = "no", NEW s \in Scopes
               PROVE  Cardinality(ActiveVersions(s)) <= 1
    BY DEF OneActivePolicy
  <2>1. ActiveVersions(s) \in SUBSET Versions /\ \A v, w \in ActiveVersions(s) : v = w
    BY DEF SerialInv, SoleVersions, ActiveVersions
  <2> QED BY <2>1, SoleCount
<1> QED BY <1>1, SerialInvariant, PTL
=============================================================================
