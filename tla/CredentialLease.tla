--------------------------- MODULE CredentialLease ---------------------------
(***************************************************************************)
(* Credential leases (sacm/core/credential_lease_service.py): the executor *)
(* that holds the lease of an execution job is granted credentials the     *)
(* plan declares, exchanges a grant once for material of a secret provider *)
(* (sacm/core/secret_broker.py), or renews it.                             *)
(*                                                                         *)
(* issue, exchange and renew read rows without a lock, decide, call the    *)
(* provider and commit later: each is a read and a commit.  A commit       *)
(* writes the columns that differ from what was read.  Time is a counter   *)
(* of ticks.  The lease of the job is abstracted to its owner and expiry:  *)
(* every end of it (result, release, expiry, cancel, recovery) revokes the *)
(* grants of the job in the same commit.  A stale lease token is refused   *)
(* and is no step; the owner knows the current one.                        *)
(***************************************************************************)
EXTENDS Naturals, FiniteSets

CONSTANTS Executors, NoOne, Handlers,
          Keyed,        \* the executors that enrolled a wrapping key
          Providers,    \* the providers of the plan's requirement
          Production,   \* "yes" or "no": production_mode
          NullsFirst,   \* "yes" where NULL sorts above all (PostgreSQL)
          JobTtl, Ttls, AbsoluteTtl,  \* of a job lease, a grant, all renewals
          StsMinimum,   \* the shortest session that STS grants
          Horizon, GrantBound, LeaseBound,  \* bounds: ticks, grants, job leases
          ConfigBound     \* bound: edits of provider configurations

\* A grant is issued for at most 900 seconds, the limit of all its renewals.
ASSUME CredAssumption ==
  /\ NoOne \notin Executors
  /\ Providers \subseteq {"environment", "vault", "aws-secrets-manager", "aws-sts",
                          "azure-key-vault", "azure-managed-identity"}
  /\ JobTtl \in Nat /\ AbsoluteTtl \in Nat /\ Ttls \subseteq 0 .. AbsoluteTtl
  /\ StsMinimum \in Nat /\ GrantBound \in Nat

VARIABLES
  now, holder,   \* holder: who holds the job's lease and until when
  leases,        \* how many leases the job had
  enrolled,      \* the executors that are ACTIVE
  configs,       \* configs[s]: the provider configuration of scope s
  reconfigured,  \* how often configurations were edited
  grants,        \* the rows of credential_leases
  material,      \* material[g]: how often material was handed out for g
  call,          \* call[h]: what a request has read and will commit
  raced          \* whether a commit was overtaken by another step

credVars == <<now, holder, leases, enrolled, configs, reconfigured, grants, material, call, raced>>

Ids == 1 .. GrantBound
ConfigScopes == {"project", "organization"}
ConfigStates == {"none", "disabled", "enabled", "approved"}
Holder == [owner: Executors \cup {NoOne}, expires: Nat]
Grant == [executor: Executors \cup {NoOne}, provider: Providers \cup {NoOne},
          issued: Nat, expires: Nat, revoked: {"no", "yes"}, uses: 0 .. 1]
NoGrant == [executor |-> NoOne, provider |-> NoOne, issued |-> 0, expires |-> 0,
            revoked |-> "no", uses |-> 0]
Call == [pc: {"idle", "issue", "exchange", "renew"}, grant: Ids \cup {0},
         read: Grant, expires: Nat]
Resting == [pc |-> "idle", grant |-> 0, read |-> NoGrant, expires |-> 0]

CredInit ==
  /\ now = 0 /\ holder = [owner |-> NoOne, expires |-> 0] /\ leases = 0
  /\ enrolled = Executors
  /\ configs = [s \in ConfigScopes |-> "none"] /\ reconfigured = 0
  /\ grants = [g \in Ids |-> NoGrant] /\ material = [g \in Ids |-> 0]
  /\ call = [h \in Handlers |-> Resting] /\ raced = "no"

Least(a, b) == IF a <= b THEN a ELSE b
Greatest(a, b) == IF a >= b THEN a ELSE b
Exists(g) == grants[g].executor # NoOne
Live(g) == Exists(g) /\ grants[g].revoked = "no" /\ grants[g].expires > now

\* A step other than a commit overtakes the requests that are under way.
Overtaking == raced' = IF \E h \in Handlers : call[h].pc # "idle"
                       THEN "yes" ELSE raced

-----------------------------------------------------------------------------
(* The lease of the job                                                    *)

Tick ==
  /\ now < Horizon /\ now' = now + 1
  /\ UNCHANGED <<holder, leases, enrolled, configs, reconfigured, grants, material, call, raced>>

\* acquire_lease
AcquireJob(e) ==
  /\ holder.owner = NoOne /\ e \in enrolled /\ leases < LeaseBound
  /\ holder' = [owner |-> e, expires |-> now + JobTtl] /\ leases' = leases + 1
  /\ Overtaking
  /\ UNCHANGED <<now, enrolled, configs, reconfigured, grants, material, call>>

\* heartbeat_job extends a lease that has not expired.
ExtendJob ==
  /\ holder.owner # NoOne /\ holder.expires > now
  /\ holder' = [holder EXCEPT !.expires = now + JobTtl]
  /\ Overtaking
  /\ UNCHANGED <<now, leases, enrolled, configs, reconfigured, grants, material, call>>

\* revoke_for_job, revoke_for_executor: all grants that are not revoked yet.
RevokedAll(G) ==
  [g \in Ids |-> IF Exists(g) /\ g \in G
                 THEN [grants[g] EXCEPT !.revoked = "yes"] ELSE grants[g]]

\* The lease of the job ends, in whichever way.
EndJob ==
  /\ holder.owner # NoOne
  /\ holder' = [owner |-> NoOne, expires |-> 0]
  /\ grants' = RevokedAll(Ids)
  /\ Overtaking
  /\ UNCHANGED <<now, leases, enrolled, configs, reconfigured, material, call>>

\* revoke_executor: its job is released, its grants are revoked.
RevokeExecutor(e) ==
  /\ e \in enrolled /\ enrolled' = enrolled \ {e}
  /\ IF holder.owner = e
     THEN /\ holder' = [owner |-> NoOne, expires |-> 0]
          /\ grants' = RevokedAll(Ids)
     ELSE /\ grants' = RevokedAll({g \in Ids : Exists(g) /\ grants[g].executor = e})
          /\ UNCHANGED holder
  /\ Overtaking
  /\ UNCHANGED <<now, leases, configs, reconfigured, material, call>>

\* _owned_active_job
OwnsActiveJob(e) ==
  e \in enrolled /\ holder.owner = e /\ holder.expires > now

-----------------------------------------------------------------------------
(* Providers                                                               *)

\* create_provider_config: the environment is never approved for production
\* and has no configuration to keep.
Configure(s, state) ==
  /\ configs[s] # state /\ state # "none" /\ reconfigured < ConfigBound
  /\ reconfigured' = reconfigured + 1
  /\ configs' = [configs EXCEPT ![s] = state]
  /\ Overtaking
  /\ UNCHANGED <<now, holder, leases, enrolled, grants, material, call>>

\* _provider_config: the first enabled configuration in an order that differs
\* between databases, as NULL (the organization's) sorts first or last.
Selected ==
  LET on    == {s \in ConfigScopes : configs[s] \in {"enabled", "approved"}}
      first == IF NullsFirst = "yes" THEN "organization" ELSE "project"
  IN  IF first \in on THEN {first} ELSE on

MayUse(p) ==
  IF p = "environment" THEN Production = "no"
  ELSE \E s \in Selected : Production = "yes" => configs[s] = "approved"

\* When material that is fetched now expires, by provider, if it is asked for
\* ttl.  Secrets of Key Vault and tokens of a managed identity expire when
\* their issuer says.
EnvironmentExpiry(ttl) == {now + ttl}
VaultExpiry(ttl) == {now + Greatest(1, Least(ttl, d)) : d \in Ttls \cup {1}}
AwsExpiry(p, ttl) ==
  IF p = "aws-secrets-manager" THEN {now + ttl}
  ELSE {now + Greatest(StsMinimum, ttl)}
AzureExpiry(p, ttl) ==
  {now + d : d \in 0 .. StsMinimum}
    \cup (IF p = "azure-key-vault" THEN {now + ttl} ELSE {})

Fetch(p, ttl) ==
  CASE p = "environment" -> EnvironmentExpiry(ttl)
    [] p = "vault" -> VaultExpiry(ttl)
    [] p \in {"aws-secrets-manager", "aws-sts"} -> AwsExpiry(p, ttl)
    [] p \in {"azure-key-vault", "azure-managed-identity"} -> AzureExpiry(p, ttl)

-----------------------------------------------------------------------------
(* Requests of executors                                                   *)

BeginCall(h, x) ==
  /\ call[h].pc = "idle"
  /\ call' = [call EXCEPT ![h] = x]
  /\ Overtaking
  /\ UNCHANGED <<now, holder, leases, enrolled, configs, reconfigured, grants, material>>

\* A commit ends the call and overtakes the others.
EndCall(h) ==
  /\ call' = [call EXCEPT ![h] = Resting]
  /\ raced' = IF \E g \in Handlers \ {h} : call[g].pc # "idle"
              THEN "yes" ELSE raced
  /\ UNCHANGED <<now, holder, leases, enrolled, configs, reconfigured>>

\* issue: an unused grant that is live is returned as it is.
IssueRead(h, e, p, ttl) ==
  /\ OwnsActiveJob(e) /\ MayUse(p)
  /\ ~\E g \in Ids : Live(g) /\ grants[g].executor = e /\ grants[g].uses = 0
  /\ BeginCall(h, [Resting EXCEPT
                     !.pc = "issue",
                     !.read = [NoGrant EXCEPT !.executor = e, !.provider = p,
                                              !.issued = now],
                     !.expires = Least(now + ttl, holder.expires)])

IssueCommit(h) ==
  LET x == call[h] IN
  /\ x.pc = "issue"
  /\ \E g \in Ids :
       /\ ~Exists(g) /\ \A f \in Ids : f < g => Exists(f)
       /\ grants' = [grants EXCEPT ![g] = [x.read EXCEPT !.expires = x.expires]]
  /\ EndCall(h) /\ UNCHANGED material

\* The test of use is left out.
UsableAgain(g) == Live(g) /\ OwnsActiveJob(grants[g].executor)

\* _active_lease, and exchange's and renew's test that the grant is unused.
Usable(g) == Live(g) /\ OwnsActiveJob(grants[g].executor) /\ grants[g].uses = 0

\* exchange: the material is fetched for the time the grant has left.
ExchangeRead(h, g) ==
  /\ Usable(g) /\ grants[g].executor \in Keyed
  /\ \E t \in Fetch(grants[g].provider, Greatest(1, grants[g].expires - now)) :
       BeginCall(h, [pc |-> "exchange", grant |-> g, read |-> grants[g],
                     expires |-> Least(grants[g].expires, t)])

\* The expiry in the row if a call that read old commits new.
Written(g, old, new) == IF old = new THEN grants[g].expires ELSE new

ExchangeCommit(h) ==
  LET x == call[h] IN
  /\ x.pc = "exchange"
  /\ grants' = [grants EXCEPT
                  ![x.grant].uses = 1,
                  ![x.grant].expires = Written(x.grant, x.read.expires, x.expires)]
  /\ material' = [material EXCEPT ![x.grant] = @ + 1]
  /\ EndCall(h)

\* renew: within the job's lease and the absolute limit.
Renewed(g, ttl) ==
  Least(Least(now + ttl, grants[g].issued + AbsoluteTtl), holder.expires)

RenewRead(h, g, ttl) ==
  /\ Usable(g) /\ Renewed(g, ttl) > now
  /\ BeginCall(h, [pc |-> "renew", grant |-> g, read |-> grants[g],
                   expires |-> Renewed(g, ttl)])

\* The whole row is written back as it was read.
RenewCommitRow(h) ==
  LET x == call[h] IN
  /\ x.pc = "renew"
  /\ grants' = [grants EXCEPT ![x.grant] = [x.read EXCEPT !.expires = x.expires]]
  /\ EndCall(h) /\ UNCHANGED material

RenewCommit(h) ==
  LET x == call[h] IN
  /\ x.pc = "renew"
  /\ grants' = [grants EXCEPT
                  ![x.grant].expires = Written(x.grant, x.read.expires, x.expires)]
  /\ EndCall(h) /\ UNCHANGED material

\* revoke: by an administrator.
RevokeGrant(g) ==
  /\ Exists(g) /\ grants[g].revoked = "no"
  /\ grants' = [grants EXCEPT ![g].revoked = "yes"]
  /\ Overtaking
  /\ UNCHANGED <<now, holder, leases, enrolled, configs, reconfigured, material, call>>

\* The provider fails, or the wrapping key is not the one enrolled.
AbortCall(h) ==
  /\ call[h].pc # "idle"
  /\ EndCall(h) /\ UNCHANGED <<grants, material>>

CredNext ==
  \/ Tick \/ ExtendJob \/ EndJob
  \/ \E e \in Executors : AcquireJob(e) \/ RevokeExecutor(e)
  \/ \E s \in ConfigScopes, state \in ConfigStates : Configure(s, state)
  \/ \E g \in Ids : RevokeGrant(g)
  \/ \E h \in Handlers :
       \/ \E e \in Executors, p \in Providers, ttl \in Ttls :
            IssueRead(h, e, p, ttl)
       \/ \E g \in Ids : ExchangeRead(h, g)
       \/ \E g \in Ids, ttl \in Ttls : RenewRead(h, g, ttl)
       \/ IssueCommit(h) \/ ExchangeCommit(h) \/ RenewCommit(h) \/ AbortCall(h)

CredSpec == CredInit /\ [][CredNext]_credVars

-----------------------------------------------------------------------------
(* Properties                                                              *)

\* The job's lease, executors, configurations, grants and calls keep their
\* shape.
CredTypeOK ==
  /\ now \in Nat /\ holder \in Holder /\ leases \in Nat
  /\ enrolled \subseteq Executors /\ configs \in [ConfigScopes -> ConfigStates]
  /\ reconfigured \in Nat
  /\ grants \in [Ids -> Grant] /\ material \in [Ids -> Nat]
  /\ call \in [Handlers -> Call] /\ raced \in {"no", "yes"}

\* A grant that can still be used belongs to the executor that holds the job
\* and ends no later than that lease, however often leases are extended, lost
\* and granted anew; unless a request was overtaken between check and commit.
GrantWithinLease ==
  raced = "no" =>
    \A g \in Ids : Live(g) => /\ holder.owner = grants[g].executor
                              /\ grants[g].expires <= holder.expires
                              /\ holder.owner \in enrolled

\* policy_decision "one_time_exchange": a grant yields material once, and an
\* executor has one unused grant at a time, unless requests overtake.
OneTimeExchange ==
  raced = "no" =>
    \A g \in Ids : /\ material[g] <= 1 /\ material[g] = grants[g].uses
                   /\ \A f \in Ids : Live(f) /\ Live(g) /\ grants[f].uses = 0
                                       /\ grants[g].uses = 0 => f = g

\* Whatever overtakes what, renewals do not carry a grant past its absolute
\* limit, and material was handed out only for grants marked as used.
AbsoluteLimit ==
  \A g \in Ids : /\ grants[g].expires <= grants[g].issued + AbsoluteTtl
                 /\ material[g] > 0 => grants[g].uses = 1

\* A revoked grant stays revoked and a used one stays used, also when a call
\* that read the row earlier commits afterwards.
GrantsOnlyEnd ==
  [][\A g \in Ids : /\ grants[g].revoked = "yes" => grants'[g].revoked = "yes"
                    /\ grants[g].uses <= grants'[g].uses]_credVars

\* A grant is bound to the lease of its job, to one exchange and to its limit.
GrantsAreBound == CredTypeOK /\ GrantWithinLease /\ OneTimeExchange /\ AbsoluteLimit
=============================================================================
