--------------------------- MODULE ExecutorIdentity ---------------------------
(***************************************************************************)
(* The identity of a customer-hosted executor: enrollment tokens and       *)
(* registrations in the control plane, the key, token and drain file on    *)
(* the executor's disk, the daemon that heartbeats and polls for leases,   *)
(* and the operator's commands.  A request is authenticated by one read of *)
(* the registration and committed later; the answer may be lost and either *)
(* process of the host may die.  Keys and tokens are numbered per host, 0  *)
(* is none.  The unit of work only writes the attributes it changed.       *)
(***************************************************************************)
EXTENDS Naturals

CONSTANTS Hosts, Invites,
          Regions, AllowedRegions, \* regions a boundary names; the approved ones
          RotationBound,           \* rotations that reach the control plane
          HostFaultBound           \* lost answers and processes that die

VARIABLES deployment, invites, registry, disk, service, calls, hostFaults

idVars == <<deployment, invites, registry, disk, service, calls, hostFaults>>

\* "none" is no region.
ASSUME IdAssumption ==
   /\ RotationBound \in Nat /\ HostFaultBound \in Nat
   /\ "none" \notin Regions \cup AllowedRegions

-----------------------------------------------------------------------------
Serials == 0 .. RotationBound + 1
Later(m, n) == (IF m > n THEN m ELSE n) + 1

\* What an executor declares of its network: unversioned, or v1 with the region
\* it is in, whether it pins the control plane's keys, and the hosts it reaches.
Unversioned == [schema |-> "none", region |-> "none", pins |-> "none", outbound |-> "none"]
Boundaries == {Unversioned} \cup
   [schema : {"v1"}, region : Regions, pins : {"right", "wrong", "none"},
    outbound : {"approved", "excess", "metadata"}]

Statuses == {"ABSENT", "ACTIVE", "OFFLINE", "REVOKED"}

\* fresh: the last heartbeat is younger than SACM_EXECUTOR_OFFLINE_SECONDS.
Registration == [status : Statuses, fresh : {"yes", "no"}, key : Serials, token : Serials,
                 invite : SUBSET Invites, region : Regions \cup {"none"},
                 boundary : Boundaries, sandbox : {"verified", "unverified"}]

\* cleared: the operator took the drain file away since the last rotation began.
Disk == [key : Serials, token : Serials, drain : {"yes", "no"}, cleared : {"yes", "no"}]

\* A request of the daemon or of an operator's command, and the status it read.
Call == [op : {"none", "enroll", "heartbeat", "lease", "rotate"},
         phase : {"sent", "stale", "reload", "ready", "answered", "keyed", "stored"},
         token : Serials, seen : Statuses, payload : Boundaries, invite : SUBSET Invites,
         sandbox : {"verified", "unverified"}]
Processes == {"daemon", "operator"}

NoCall == [op |-> "none", phase |-> "sent", token |-> 0, seen |-> "ABSENT",
           payload |-> Unversioned, invite |-> {}, sandbox |-> "verified"]

IdTypeOK ==
   /\ deployment \in [dialect : {"postgresql", "sqlite"},
                      mode : {"production", "development"},
                      version : {"current", "outdated"}]
   /\ invites \in [Invites -> {"absent", "open", "used", "expired"}]
   /\ registry \in [Hosts -> Registration]
   /\ disk \in [Hosts -> Disk]
   /\ service \in [Hosts -> [state : {"off", "up", "clear"}, token : Serials]]
   /\ calls \in [Hosts -> [Processes -> Call]]
   /\ hostFaults \in 0 .. HostFaultBound

IdInit ==
   /\ deployment \in [dialect : {"postgresql", "sqlite"},
                      mode : {"production", "development"},
                      version : {"current", "outdated"}]
   /\ invites = [i \in Invites |-> "absent"]
   /\ registry = [h \in Hosts |->
         [status |-> "ABSENT", fresh |-> "no", key |-> 0, token |-> 0, invite |-> {},
          region |-> "none", boundary |-> Unversioned, sandbox |-> "unverified"]]
   /\ disk = [h \in Hosts |-> [key |-> 0, token |-> 0, drain |-> "no", cleared |-> "no"]]
   /\ service = [h \in Hosts |-> [state |-> "off", token |-> 0]]
   /\ calls = [h \in Hosts |-> [p \in Processes |-> NoCall]]
   /\ hostFaults = 0

-----------------------------------------------------------------------------
(* What the control plane tests of an executor.                            *)

Production == deployment.mode = "production"

\* A production executor runs in an approved, verified sandbox.
SandboxApproved(sandbox) == Production => sandbox = "verified"

\* A boundary without the version is let through outside production only; a
\* versioned one must lie in the storage region, reach no more than the policy
\* allows, and pin the right keys, in production without exception.
BoundaryApproved(boundary, region) ==
   IF boundary.schema # "v1"
   THEN ~Production
   ELSE /\ region # "none" => boundary.region = region
        /\ boundary.outbound = "approved"
        /\ IF Production THEN boundary.pins = "right" ELSE boundary.pins # "wrong"

\* The storage region follows the declared one where residency allows it.
StorageAllowed(region) == region \in AllowedRegions \cup {"none"}

\* Directives that stop an executor from taking leases.
Directed(row) == row.status # "ACTIVE" \/ deployment.version = "outdated"

-----------------------------------------------------------------------------
(* Calls.                                                                  *)

Busy(h, p) == calls[h][p].op # "none"
At(h, p, op, phase) == calls[h][p].op = op /\ calls[h][p].phase = phase
Calls(h, p, call) == calls' = [calls EXCEPT ![h][p] = call]
Reaches(h, p, phase) == Calls(h, p, [calls[h][p] EXCEPT !.phase = phase])
Ends(h, p) == Calls(h, p, NoCall)

Send(h, p, op, token) == Calls(h, p, [NoCall EXCEPT !.op = op, !.token = token])

\* The daemon is told that its credentials are not accepted: it drains and stops.
Rejected(h, p) ==
   /\ Ends(h, p)
   /\ IF p = "daemon"
      THEN /\ disk' = [disk EXCEPT ![h].drain = "yes"]
           /\ service' = [service EXCEPT ![h].state = "off"]
      ELSE UNCHANGED <<disk, service>>

\* The registration the bearer token names, unless it is revoked.
KnownByToken(h, token) == registry[h].token = token
Known(h, token) == registry[h].token = token /\ registry[h].status # "REVOKED"

Authenticate(h, p) ==
   /\ calls[h][p].op \in {"heartbeat", "lease", "rotate"}
   /\ calls[h][p].phase = "sent"
   /\ IF Known(h, calls[h][p].token)
      THEN /\ Calls(h, p, [calls[h][p] EXCEPT
                 !.seen = registry[h].status,
                 !.phase = IF registry[h].status = "ACTIVE" /\ registry[h].fresh = "no"
                           THEN "stale" ELSE "ready"])
           /\ UNCHANGED <<disk, service>>
      ELSE Rejected(h, p)
   /\ UNCHANGED <<deployment, invites, registry, hostFaults>>

\* The commit of OFFLINE expires what the session had read.
MarkOffline(h, p) ==
   /\ calls[h][p].op # "none" /\ calls[h][p].phase = "stale"
   /\ registry' = [registry EXCEPT ![h].status = "OFFLINE"]
   /\ Reaches(h, p, "reload")
   /\ UNCHANGED <<deployment, invites, disk, service, hostFaults>>

Reload(h, p) ==
   /\ calls[h][p].op # "none" /\ calls[h][p].phase = "reload"
   /\ Calls(h, p, [calls[h][p] EXCEPT !.phase = "ready", !.seen = registry[h].status])
   /\ UNCHANGED <<deployment, invites, registry, disk, service, hostFaults>>

-----------------------------------------------------------------------------
(* Enrollment.                                                             *)

IssueToken(i) ==
   /\ invites[i] = "absent"
   /\ invites' = [invites EXCEPT ![i] = "open"]
   /\ UNCHANGED <<deployment, registry, disk, service, calls, hostFaults>>

ExpireToken(i) ==
   /\ invites[i] = "open"
   /\ invites' = [invites EXCEPT ![i] = "expired"]
   /\ UNCHANGED <<deployment, registry, disk, service, calls, hostFaults>>

\* Every command first makes sure that the host has a key.
Initialize(h) ==
   /\ disk[h].key = 0
   /\ disk' = [disk EXCEPT ![h].key = 1]
   /\ UNCHANGED <<deployment, invites, registry, service, calls, hostFaults>>

\* PostgreSQL holds the token's row from the test to the commit.
RowNeverLocked(i) == TRUE
RowFree(i) ==
   deployment.dialect = "postgresql" =>
      \A h \in Hosts : calls[h]["operator"].invite # {i}

EnrollRead(h, i, boundary, sandbox) ==
   /\ ~Busy(h, "operator") /\ disk[h].key # 0
   /\ invites[i] = "open" /\ RowFree(i)
   /\ registry[h].status = "ABSENT"
   /\ SandboxApproved(sandbox)
   /\ StorageAllowed(boundary.region) /\ BoundaryApproved(boundary, boundary.region)
   /\ Calls(h, "operator", [NoCall EXCEPT !.op = "enroll", !.phase = "ready",
                              !.payload = boundary, !.invite = {i}, !.sandbox = sandbox])
   /\ UNCHANGED <<deployment, invites, registry, disk, service, hostFaults>>

EnrollCommit(h) ==
   LET call == calls[h]["operator"] IN
   /\ At(h, "operator", "enroll", "ready")
   /\ registry' = [registry EXCEPT ![h] =
         [status |-> "ACTIVE", fresh |-> "yes", key |-> disk[h].key, token |-> 1,
          invite |-> call.invite, region |-> call.payload.region,
          boundary |-> call.payload, sandbox |-> call.sandbox]]
   /\ invites' = [i \in Invites |-> IF i \in call.invite THEN "used" ELSE invites[i]]
   /\ Calls(h, "operator", [NoCall EXCEPT !.op = "enroll", !.phase = "answered", !.token = 1])
   /\ UNCHANGED <<deployment, disk, service, hostFaults>>

EnrollStore(h) ==
   /\ At(h, "operator", "enroll", "answered")
   /\ disk' = [disk EXCEPT ![h].token = calls[h]["operator"].token]
   /\ Ends(h, "operator")
   /\ UNCHANGED <<deployment, invites, registry, service, hostFaults>>

-----------------------------------------------------------------------------
(* The daemon.                                                             *)

\* The token is read once, when the daemon starts.
DaemonStart(h) ==
   /\ service[h].state = "off" /\ disk[h].token # 0 /\ ~Busy(h, "daemon")
   /\ service' = [service EXCEPT ![h] = [state |-> "up", token |-> disk[h].token]]
   /\ UNCHANGED <<deployment, invites, registry, disk, calls, hostFaults>>

\* A signal drains the host for its next start too.
DaemonStop(h) ==
   /\ service[h].state # "off" /\ ~Busy(h, "daemon")
   /\ service' = [service EXCEPT ![h].state = "off"]
   /\ disk' = [disk EXCEPT ![h].drain = "yes"]
   /\ UNCHANGED <<deployment, invites, registry, calls, hostFaults>>

SendHeartbeat(h) ==
   /\ service[h].state = "up" /\ ~Busy(h, "daemon")
   /\ Send(h, "daemon", "heartbeat", service[h].token)
   /\ UNCHANGED <<deployment, invites, registry, disk, service, hostFaults>>

\* The status is written when it differs from the one that was read.
Heartbeaten(row, seen, boundary) ==
   [row EXCEPT !.fresh = "yes", !.boundary = boundary,
               !.status = IF seen = "ACTIVE" THEN row.status ELSE "ACTIVE"]

\* A boundary that is not approved refuses the whole heartbeat; the daemon tries
\* again later.
HeartbeatCommit(h, boundary) ==
   LET seen == calls[h]["daemon"].seen IN
   /\ At(h, "daemon", "heartbeat", "ready")
   /\ IF seen = "REVOKED" THEN UNCHANGED registry /\ Rejected(h, "daemon")
      ELSE /\ IF BoundaryApproved(boundary, registry[h].region)
              THEN /\ registry' = [registry EXCEPT ![h] = Heartbeaten(@, seen, boundary)]
                   /\ Reaches(h, "daemon", "answered")
              ELSE UNCHANGED registry /\ Ends(h, "daemon")
           /\ UNCHANGED <<disk, service>>
   /\ UNCHANGED <<deployment, invites, hostFaults>>

\* The directives are made of the row as it is after the commit.
HeartbeatAnswer(h) ==
   /\ At(h, "daemon", "heartbeat", "answered")
   /\ IF registry[h].status = "REVOKED" THEN Rejected(h, "daemon")
      ELSE /\ Ends(h, "daemon")
           /\ disk' = [disk EXCEPT ![h].drain = IF Directed(registry[h]) THEN "yes" ELSE @]
           /\ service' = [service EXCEPT ![h].state = IF Directed(registry[h]) \/ disk[h].drain = "yes"
                                                    THEN "up" ELSE "clear"]
   /\ UNCHANGED <<deployment, invites, registry, hostFaults>>

SendLease(h) ==
   /\ service[h].state = "clear" /\ ~Busy(h, "daemon")
   /\ Send(h, "daemon", "lease", service[h].token)
   /\ service' = [service EXCEPT ![h].state = "up"]
   /\ UNCHANGED <<deployment, invites, registry, disk, hostFaults>>

\* A lease is a sign of life; which job it is for is ExecutionPlane's matter.
LeaseCommit(h) ==
   /\ At(h, "daemon", "lease", "ready")
   /\ IF calls[h]["daemon"].seen = "ACTIVE"
      THEN /\ registry' = [registry EXCEPT ![h].fresh = "yes"]
           /\ Ends(h, "daemon") /\ UNCHANGED <<disk, service>>
      ELSE UNCHANGED registry /\ Rejected(h, "daemon")
   /\ UNCHANGED <<deployment, invites, hostFaults>>

-----------------------------------------------------------------------------
(* Rotation: drain, register a new key, store the key, store the token that *)
(* came with the answer, end the drain.                                     *)

Draining(d) == [d EXCEPT !.drain = "yes", !.cleared = "no"]

RotateBegin(h) ==
   /\ ~Busy(h, "operator") /\ disk[h].token # 0 /\ registry[h].key <= RotationBound
   /\ disk' = [disk EXCEPT ![h] = Draining(@)]
   /\ Send(h, "operator", "rotate", disk[h].token)
   /\ UNCHANGED <<deployment, invites, registry, service, hostFaults>>

\* The status is not looked at again.
RotateCommit(h) ==
   /\ At(h, "operator", "rotate", "ready")
   /\ registry' = [registry EXCEPT ![h].key = Later(@, disk[h].key), ![h].token = @ + 1]
   /\ Calls(h, "operator", [calls[h]["operator"] EXCEPT !.phase = "answered",
                                                        !.token = registry[h].token + 1])
   /\ UNCHANGED <<deployment, invites, disk, service, hostFaults>>

RotateKey(h) ==
   /\ At(h, "operator", "rotate", "answered")
   /\ disk' = [disk EXCEPT ![h].key = registry[h].key]
   /\ Reaches(h, "operator", "keyed")
   /\ UNCHANGED <<deployment, invites, registry, service, hostFaults>>

RotateToken(h) ==
   /\ At(h, "operator", "rotate", "keyed")
   /\ disk' = [disk EXCEPT ![h].token = calls[h]["operator"].token]
   /\ Reaches(h, "operator", "stored")
   /\ UNCHANGED <<deployment, invites, registry, service, hostFaults>>

RotateEnd(h) ==
   /\ At(h, "operator", "rotate", "stored")
   /\ disk' = [disk EXCEPT ![h].drain = "no"]
   /\ Ends(h, "operator")
   /\ UNCHANGED <<deployment, invites, registry, service, hostFaults>>

-----------------------------------------------------------------------------
(* Operators, administrators, time and faults.                             *)

Drain(h) ==
   /\ ~Busy(h, "operator") /\ disk[h].key # 0 /\ disk[h].drain = "no"
   /\ disk' = [disk EXCEPT ![h].drain = "yes"]
   /\ UNCHANGED <<deployment, invites, registry, service, calls, hostFaults>>

Resume(h) ==
   /\ ~Busy(h, "operator") /\ disk[h].drain = "yes"
   /\ disk' = [disk EXCEPT ![h].drain = "no", ![h].cleared = "yes"]
   /\ UNCHANGED <<deployment, invites, registry, service, calls, hostFaults>>

RevokeExecutor(h) ==
   /\ registry[h].status \in {"ACTIVE", "OFFLINE"}
   /\ registry' = [registry EXCEPT ![h].status = "REVOKED"]
   /\ UNCHANGED <<deployment, invites, disk, service, calls, hostFaults>>

HeartbeatAges(h) ==
   /\ registry[h].fresh = "yes"
   /\ registry' = [registry EXCEPT ![h].fresh = "no"]
   /\ UNCHANGED <<deployment, invites, disk, service, calls, hostFaults>>

\* An answer is lost or the process that waits for it dies, at any point of the
\* call; a daemon that lives on tries again.
CutShort(h, p) ==
   /\ Busy(h, p) /\ hostFaults < HostFaultBound
   /\ hostFaults' = hostFaults + 1
   /\ Ends(h, p)
   /\ \/ UNCHANGED service
      \/ p = "daemon" /\ service' = [service EXCEPT ![h].state = "off"]
   /\ UNCHANGED <<deployment, invites, registry, disk>>

Enrolling ==
   \/ \E i \in Invites : IssueToken(i) \/ ExpireToken(i)
   \/ \E h \in Hosts : Initialize(h) \/ EnrollCommit(h) \/ EnrollStore(h)
   \/ \E h \in Hosts, i \in Invites, b \in Boundaries, s \in {"verified", "unverified"} :
         EnrollRead(h, i, b, s)

Operating(h) ==
   \/ DaemonStart(h) \/ DaemonStop(h) \/ SendHeartbeat(h) \/ HeartbeatAnswer(h)
   \/ SendLease(h) \/ LeaseCommit(h)
   \/ \E b \in Boundaries : HeartbeatCommit(h, b)
   \/ \E p \in Processes :
         Authenticate(h, p) \/ MarkOffline(h, p) \/ Reload(h, p) \/ CutShort(h, p)
   \/ RotateBegin(h) \/ RotateCommit(h) \/ RotateKey(h) \/ RotateToken(h) \/ RotateEnd(h)
   \/ Drain(h) \/ Resume(h) \/ RevokeExecutor(h) \/ HeartbeatAges(h)

IdNext == Enrolling \/ \E h \in Hosts : Operating(h)

IdSpec == IdInit /\ [][IdNext]_idVars

-----------------------------------------------------------------------------
(* Properties.                                                             *)

\* Where the token's row is locked, one enrollment token makes at most one
\* executor, however many hosts present it at once (enroll).
InviteUsedOnce ==
   deployment.dialect = "postgresql" =>
      \A g, h \in Hosts : g # h => registry[g].invite \cap registry[h].invite = {}

\* A host whose key or token is not the registered one is draining, whatever
\* step of a rotation was cut short, unless the operator resumed it (rotate,
\* rotate_with).
HalfRotatedIsDrained ==
   \A h \in Hosts :
      disk[h].token # 0 /\ <<disk[h].key, disk[h].token>> # <<registry[h].key, registry[h].token>>
      => disk[h].drain = "yes" \/ disk[h].cleared = "yes"

\* In production a registered executor keeps a verified sandbox and a pinned
\* boundary in its storage region, whatever its heartbeats declare later
\* (_validate_network_boundary).
StaysInBoundary ==
   Production => \A h \in Hosts : registry[h].status # "ABSENT" =>
      /\ registry[h].sandbox = "verified"
      /\ registry[h].region \in AllowedRegions
      /\ registry[h].boundary.region = registry[h].region
      /\ registry[h].boundary.pins = "right"

\* Once an executor is revoked and every request it was let in with before has
\* ended, it stays revoked and no request of it is let in again
\* (authenticate_executor, heartbeat_executor, revoke_executor).
Quiet(h) ==
   /\ registry[h].status = "REVOKED"
   /\ \A p \in Processes : calls[h][p].phase \in {"stale", "reload", "ready"} => ~Busy(h, p)

RevocationSettles == [][\A h \in Hosts : Quiet(h) => Quiet(h)']_idVars

\* The registered hosts stay sound through enrollments that race, rotations that
\* are cut short and heartbeats that declare another boundary.
HostsStaySound == IdTypeOK /\ InviteUsedOnce /\ HalfRotatedIsDrained /\ StaysInBoundary
=============================================================================
