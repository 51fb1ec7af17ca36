---------------------------- MODULE SnapshotHandoff ----------------------------
(***************************************************************************)
(* Snapshots of a run, the replays started from them and their handoff to  *)
(* other agents (SnapshotService, SnapshotHandoffService).  A snapshot is  *)
(* anchored at an event of the run's hash chain; a handoff names one, is   *)
(* accepted under a quorum, and lets agents claim its open subtasks under  *)
(* leases with fencing tokens.  Every service call reads, then commits,    *)
(* and a handoff is published to Redis after its commit; a peer may die    *)
(* between two of these steps.                                             *)
(***************************************************************************)
EXTENDS Naturals, FiniteSets

CONSTANTS Peers,        \* agents; each has at most one call in progress
          NoPeer,
          Subtasks,     \* open subtasks of a handoff
          QuorumSize,   \* SACM_HANDOFF_QUORUM_SIZE
          EventBound, SnapshotBound, ReplayBound, TokenBound

ASSUME HandAssumption ==
   /\ NoPeer \notin Peers /\ Subtasks # {} /\ EventBound \in Nat \ {0}
   /\ SnapshotBound \in Nat /\ ReplayBound \in Nat /\ TokenBound \in Nat

VARIABLES chain, snapshots, replays, handoff, cache, lease, peers

snapVars == <<chain, snapshots, replays, handoff, cache, lease, peers>>

-----------------------------------------------------------------------------
Slots == 1 .. SnapshotBound

\* length: events of the run; damage: the first altered event, 0 for none.
Chain == [length : 1 .. EventBound, damage : 0 .. EventBound, running : {"yes", "no"}]

\* event is the anchor, state the event after which the state was read.
Snapshot == [event : 0 .. EventBound, state : 0 .. EventBound, parent : 0 .. SnapshotBound,
             altered : {"yes", "no"}]

\* The quorum notes of the manifest: the roles that approved, and whether a
\* high or critical finding is unresolved.
Notes == [approvers : SUBSET Peers, blocking : {"yes", "no"}]

Handoff == [status : {"NONE", "PENDING", "ACCEPTED"}, snapshot : 0 .. SnapshotBound,
            notes : Notes, by : Peers \cup {NoPeer}]

\* token 0: no row.  lost holds the pairs another owner took the scope from;
\* overlapped records a claim committed over a row that was not the one it read.
Lease == [owner : Peers \cup {NoPeer}, token : 0 .. TokenBound, live : {"yes", "no"},
          lost : SUBSET (Peers \X (1 .. TokenBound)), overlapped : {"yes", "no"}]

Peer == [pc : {"idle", "snapshot", "handoff", "accept", "publish", "claim"},
         at : 0 .. EventBound, snapshot : 0 .. SnapshotBound, notes : Notes,
         status : {"NONE", "PENDING", "ACCEPTED"}, task : Subtasks,
         owner : Peers \cup {NoPeer}, token : 0 .. TokenBound, live : {"yes", "no"}]

NoNotes == [approvers |-> {}, blocking |-> "no"]
Resting == [pc |-> "idle", at |-> 0, snapshot |-> 0, notes |-> NoNotes, status |-> "NONE",
            task |-> CHOOSE t \in Subtasks : TRUE, owner |-> NoPeer, token |-> 0,
            live |-> "no"]

HandTypeOK ==
   /\ chain \in Chain
   /\ snapshots \in [Slots -> Snapshot]
   /\ replays \in [1 .. ReplayBound -> 0 .. SnapshotBound]
   /\ handoff \in Handoff
   /\ cache \in {"NONE", "PENDING", "ACCEPTED"}
   /\ lease \in [Subtasks -> Lease]
   /\ peers \in [Peers -> Peer]

HandInit ==
   /\ chain = [length |-> 1, damage |-> 0, running |-> "no"]
   /\ snapshots = [s \in Slots |-> [event |-> 0, state |-> 0, parent |-> 0, altered |-> "no"]]
   /\ replays = [r \in 1 .. ReplayBound |-> 0]
   /\ handoff = [status |-> "NONE", snapshot |-> 0, notes |-> NoNotes, by |-> NoPeer]
   /\ cache = "NONE"
   /\ lease = [t \in Subtasks |-> [owner |-> NoPeer, token |-> 0, live |-> "no",
                                   lost |-> {}, overlapped |-> "no"]]
   /\ peers = [p \in Peers |-> Resting]

Starts(p, call) == peers[p].pc = "idle" /\ peers' = [peers EXCEPT ![p] = call]
Rests(p) == peers' = [peers EXCEPT ![p] = Resting]

-----------------------------------------------------------------------------
(* Snapshots.                                                              *)

Taken == {s \in Slots : snapshots[s].event # 0}

\* The run goes on: an event is appended to the chain.
AppendEvent(running) ==
   /\ chain.length < EventBound
   /\ chain' = [chain EXCEPT !.length = @ + 1, !.running = running]
   /\ UNCHANGED <<snapshots, replays, handoff, cache, lease, peers>>

\* The run and its steps are read first; none may be running.
SnapshotRead(p) ==
   /\ chain.running = "no"
   /\ Starts(p, [Resting EXCEPT !.pc = "snapshot", !.at = chain.length])
   /\ UNCHANGED <<chain, snapshots, replays, handoff, cache, lease>>

\* The newest snapshot of an earlier event, the later of two.
Parent(event) ==
   LET older == {s \in Taken : snapshots[s].event < event} IN
   IF older = {} THEN 0
   ELSE CHOOSE s \in older : \A o \in older :
           \/ snapshots[o].event < snapshots[s].event
           \/ snapshots[o].event = snapshots[s].event /\ o <= s

\* The latest event anchors the state that was read before it.
Content(at, event) == [event |-> event, state |-> at, parent |-> Parent(event),
                       altered |-> "no"]

\* A snapshot with the same content is returned, not made again.
SnapshotCommit(p) ==
   LET new == Content(peers[p].at, chain.length) IN
   /\ peers[p].pc = "snapshot"
   /\ IF \E s \in Taken : snapshots[s] = new THEN UNCHANGED snapshots
      ELSE \E s \in Slots \ Taken :
              /\ \A o \in Slots \ Taken : s <= o
              /\ snapshots' = [snapshots EXCEPT ![s] = new]
   /\ Rests(p)
   /\ UNCHANGED <<chain, replays, handoff, cache, lease>>

\* Rows may be altered behind the service's back.
Damage(e) ==
   /\ chain.damage = 0 /\ e <= chain.length
   /\ chain' = [chain EXCEPT !.damage = e]
   /\ UNCHANGED <<snapshots, replays, handoff, cache, lease, peers>>

Alter(s) ==
   /\ s \in Taken /\ snapshots[s].altered = "no"
   /\ snapshots' = [snapshots EXCEPT ![s].altered = "yes"]
   /\ UNCHANGED <<chain, replays, handoff, cache, lease, peers>>

\* The events up to the anchor are all there and hash to each other.
WholeChain(s) == chain.length = snapshots[s].event /\ chain.damage = 0
ChainIntact(s) ==
   /\ snapshots[s].event <= chain.length
   /\ chain.damage = 0 \/ chain.damage > snapshots[s].event

Valid(s) == s \in Taken /\ snapshots[s].altered = "no" /\ ChainIntact(s)

-----------------------------------------------------------------------------
(* Replays.                                                                *)

\* A replay is a run of its own, linked to the snapshot in one transaction; its
\* life is that of any run.
StartReplay(r, s) ==
   /\ replays[r] = 0 /\ Valid(s)
   /\ replays' = [replays EXCEPT ![r] = s]
   /\ UNCHANGED <<chain, snapshots, handoff, cache, lease, peers>>

-----------------------------------------------------------------------------
(* Handoffs.                                                               *)

HandoffRead(p, s, notes) ==
   /\ Valid(s) /\ handoff.status = "NONE"
   /\ Starts(p, [Resting EXCEPT !.pc = "handoff", !.snapshot = s, !.notes = notes])
   /\ UNCHANGED <<chain, snapshots, replays, handoff, cache, lease>>

Publishes(p, status) ==
   peers' = [peers EXCEPT ![p] = [Resting EXCEPT !.pc = "publish", !.status = status]]

\* The manifest of a snapshot is unique: the second insert of it fails.  The
\* handoff of another manifest is not followed.
HandoffCommit(p) ==
   /\ peers[p].pc = "handoff"
   /\ IF handoff.status = "NONE"
      THEN /\ handoff' = [status |-> "PENDING", snapshot |-> peers[p].snapshot,
                          notes |-> peers[p].notes, by |-> NoPeer]
           /\ Publishes(p, "PENDING")
      ELSE UNCHANGED handoff /\ Rests(p)
   /\ UNCHANGED <<chain, snapshots, replays, cache, lease>>

\* Approvals of other roles than the evaluator's own count.
QuorumOfAll(notes, p) == notes.blocking = "no" /\ Cardinality(notes.approvers) >= QuorumSize
Quorum(notes, p) ==
   notes.blocking = "no" /\ Cardinality(notes.approvers \ {p}) >= QuorumSize

AcceptRead(p) ==
   /\ handoff.status = "PENDING" /\ Quorum(handoff.notes, p)
   /\ Starts(p, [Resting EXCEPT !.pc = "accept"])
   /\ UNCHANGED <<chain, snapshots, replays, handoff, cache, lease>>

AcceptCommit(p) ==
   /\ peers[p].pc = "accept"
   /\ handoff' = [handoff EXCEPT !.status = "ACCEPTED", !.by = p]
   /\ Publishes(p, "ACCEPTED")
   /\ UNCHANGED <<chain, snapshots, replays, cache, lease>>

\* Redis may fail, which is logged; a late creator overwrites a newer status.
Publish(p) ==
   /\ peers[p].pc = "publish"
   /\ cache' \in {cache, peers[p].status}
   /\ Rests(p)
   /\ UNCHANGED <<chain, snapshots, replays, handoff, lease>>

-----------------------------------------------------------------------------
(* Scope leases.                                                           *)

ClaimableAlways(row, p) == TRUE
Claimable(row, p) == row.token = 0 \/ row.live = "no" \/ row.owner = p

ClaimRead(p, t) ==
   /\ handoff.status = "ACCEPTED"
   /\ Claimable(lease[t], p) /\ lease[t].token < TokenBound
   /\ Starts(p, [Resting EXCEPT !.pc = "claim", !.task = t, !.owner = lease[t].owner,
                                !.token = lease[t].token, !.live = lease[t].live])
   /\ UNCHANGED <<chain, snapshots, replays, handoff, cache, lease>>

\* The token counts on from the one that was read, and the owner is written when
\* it differs from the one that was read.
Claimed(row, p, owner, token) ==
   [row EXCEPT !.owner = IF owner = p THEN @ ELSE p, !.live = "yes", !.token = token + 1]

ClaimCommit(p) ==
   LET t == peers[p].task
       row == lease[t]
       new == Claimed(row, p, peers[p].owner, peers[p].token) IN
   /\ peers[p].pc = "claim"
   /\ IF peers[p].token = 0 /\ row.token # 0    \* the second insert fails
      THEN UNCHANGED lease
      ELSE lease' = [lease EXCEPT ![t] =
              [new EXCEPT
                 !.lost = IF row.token # 0 /\ new.owner # row.owner
                          THEN @ \cup {<<row.owner, row.token>>} ELSE @,
                 !.overlapped = IF <<row.owner, row.token>> # <<peers[p].owner, peers[p].token>>
                                THEN "yes" ELSE @]]
   /\ Rests(p)
   /\ UNCHANGED <<chain, snapshots, replays, handoff, cache>>

LeaseExpires(t) ==
   /\ lease[t].live = "yes"
   /\ lease' = [lease EXCEPT ![t].live = "no"]
   /\ UNCHANGED <<chain, snapshots, replays, handoff, cache, peers>>

\* validate_fencing.
Fenced(t, p, token) ==
   lease[t].owner = p /\ lease[t].token = token /\ lease[t].live = "yes"

PeerDies(p) ==
   /\ peers[p].pc # "idle" /\ Rests(p)
   /\ UNCHANGED <<chain, snapshots, replays, handoff, cache, lease>>

Capturing == \E p \in Peers : SnapshotRead(p) \/ SnapshotCommit(p)

Going ==
   \/ \E running \in {"yes", "no"} : AppendEvent(running)
   \/ \E e \in 1 .. EventBound : Damage(e)
   \/ \E s \in Slots : Alter(s)
   \/ \E r \in 1 .. ReplayBound, s \in Slots : StartReplay(r, s)

HandingOff ==
   \/ \E p \in Peers :
         \/ \E s \in Slots, notes \in Notes : HandoffRead(p, s, notes)
         \/ HandoffCommit(p) \/ AcceptRead(p) \/ AcceptCommit(p) \/ Publish(p)
         \/ \E t \in Subtasks : ClaimRead(p, t)
         \/ ClaimCommit(p) \/ PeerDies(p)
   \/ \E t \in Subtasks : LeaseExpires(t)

HandNext == Capturing \/ Going \/ HandingOff

HandSpec == HandInit /\ [][HandNext]_snapVars

-----------------------------------------------------------------------------
(* Properties.                                                             *)

\* The state in a snapshot is never newer than the event it is anchored at, so
\* that a restore leaves no event without its effect; and its parent is a
\* snapshot of an earlier event (SnapshotService.create).
SnapshotsLagBehind ==
   \A s \in Taken :
      /\ snapshots[s].state <= snapshots[s].event
      /\ snapshots[s].parent # 0 => snapshots[snapshots[s].parent].event < snapshots[s].event

\* An accepted handoff has its quorum without the role that accepted it, though
\* two evaluators accept it at once (accept, _require_quorum).
AcceptedIndependently ==
   handoff.status = "ACCEPTED" =>
      Cardinality(handoff.notes.approvers \ {handoff.by}) >= QuorumSize

\* What Redis tells of a handoff is what some commit made of it, whatever
\* publication failed or came late (_notify).
PublishedIsCommitted ==
   /\ cache # "NONE" => handoff.status # "NONE"
   /\ cache = "ACCEPTED" => handoff.status = "ACCEPTED"

\* As long as no two claims of a scope overlapped, an owner that lost it to
\* another never passes the fence again with the token it had
\* (claim_scope, validate_fencing).
SolitaryClaimsFence ==
   \A t \in Subtasks : lease[t].overlapped = "no" =>
      \A pair \in lease[t].lost : ~Fenced(t, pair[1], pair[2])

\* A snapshot that passes validation keeps passing it while the run goes on:
\* events appended after its anchor, later snapshots and replays do not touch it
\* (_validate_event_chain).
ValidStaysValid ==
   [][\A s \in Slots :
         Valid(s) /\ chain'.damage = chain.damage /\ snapshots'[s].altered = "no"
         => Valid(s)']_snapVars

\* A live lease changes hands only by a claim that was begun while the scope was
\* free (claim_scope).
LiveScopeKept ==
   [][\A t \in Subtasks : lease[t].live = "yes" /\ lease'[t].owner # lease[t].owner =>
         \E p \in Peers :
            peers[p].pc = "claim" /\ peers[p].task = t /\ peers[p].live = "no"]_snapVars

\* Snapshots, handoffs and the scopes of subtasks, whatever overlaps: state lags
\* behind its anchor, acceptance is independent, Redis tells what was committed
\* and a lost scope stays fenced off.
HandoffsHold ==
   /\ HandTypeOK /\ SnapshotsLagBehind /\ AcceptedIndependently
   /\ PublishedIsCommitted /\ SolitaryClaimsFence
=============================================================================
