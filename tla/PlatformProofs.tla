--------------------------- MODULE PlatformProofs ---------------------------
(***************************************************************************)
(* Proofs about CredentialLease, CognitiveHistory, EvidenceChain,          *)
(* BackupDrill and TenantAccess, for any sets of handlers, commits,        *)
(* builders, backups and requests and any bounds.  Each inductive          *)
(* invariant adds to what is checked what a call, a process or a worker    *)
(* relies on between two of its steps.  What is promised only to work that *)
(* nothing overtook is carried by the mark that the model keeps of an      *)
(* overlap (raced, doubled, alone, overlapped).                            *)
(***************************************************************************)
EXTENDS CredentialLease, CognitiveHistory, EvidenceChain, BackupDrill,
        TenantAccess, FiniteSetTheorems, WellFoundedInduction, TLAPS

\* The order of the naturals as a relation.
Below == {p \in Nat \X Nat : p[1] < p[2]}

\* The order of the naturals is well founded.
LEMMA BelowWF == IsWellFoundedOn(Below, Nat)
BY NatLessThanWellFounded DEF OpToRel, Below

\* A set of naturals that is not empty has a least member,
LEMMA LeastExists ==
  ASSUME NEW T \in SUBSET Nat, T # {}
  PROVE  \E x \in T : \A y \in T : x <= y
<1>1. PICK u \in T : \A v \in T : ~ (<<v, u>> \in Below)
  BY BelowWF, WFMin
<1>2. ASSUME NEW v \in T, v < u PROVE FALSE
  <2>1. v \in Nat /\ u \in Nat
    OBVIOUS
  <2>2. <<v, u>> \in Below
    BY <1>2, <2>1 DEF Below
  <2> QED BY <1>1, <2>2
<1>3. ASSUME NEW v \in T PROVE u <= v
  <2>1. v \in Nat /\ u \in Nat
    OBVIOUS
  <2> QED BY <1>2, <2>1
<1> QED BY <1>3

\* and a greatest one if it is bounded.
LEMMA GreatestExists ==
  ASSUME NEW n \in Nat, NEW T \in SUBSET (0 .. n), T # {}
  PROVE  \E x \in T : \A y \in T : y <= x
<1> DEFINE U == {n - t : t \in T}
<1>1. U \in SUBSET Nat /\ U # {}
  <2>1. ASSUME NEW t \in T PROVE n - t \in Nat
    BY SMT
  <2>2. PICK t \in T : TRUE
    OBVIOUS
  <2>3. n - t \in U
    OBVIOUS
  <2> QED BY <2>1, <2>3
<1>2. PICK u \in U : \A v \in U : u <= v
  BY <1>1, LeastExists
<1>3. PICK x \in T : u = n - x
  OBVIOUS
<1>4. ASSUME NEW y \in T PROVE y <= x
  <2>1. n - y \in U /\ n - x <= n - y
     BY <1>2, <1>3
  <2>2. x \in Nat /\ y \in Nat
     OBVIOUS
  <2> QED BY <2>1, <2>2
<1> QED BY <1>4

-----------------------------------------------------------------------------
(* Credential leases                                                       *)

\* The lease of a job was granted or extended for JobTtl at most, from a moment
\* that is past: an extension never shortens it.
JobLeaseSound == holder.owner # NoOne => holder.expires <= now + JobTtl

\* A row that was not issued is blank and yielded no material.
RowSound(g) ==
  /\ Exists(g) => grants[g].provider \in Providers
  /\ ~Exists(g) => grants[g] = NoGrant /\ material[g] = 0
  /\ grants[g].expires <= grants[g].issued + AbsoluteTtl
  /\ material[g] > 0 => grants[g].uses = 1

\* What a call under way will commit keeps the absolute limit, whatever was
\* written since it read.
CallSound(x) ==
  /\ x.pc = "issue" => /\ x.read \in Grant /\ x.read.executor \in Executors
                       /\ x.read.provider \in Providers
                       /\ x.read.revoked = "no" /\ x.read.uses = 0
                       /\ x.expires <= x.read.issued + AbsoluteTtl
  /\ x.pc \in {"exchange", "renew"} =>
       /\ x.grant \in Ids /\ Exists(x.grant)
       /\ x.expires <= grants[x.grant].issued + AbsoluteTtl

\* As long as nothing was overtaken, what a call read is still so: its grant is
\* unused, and the executor holds the job for as long as the grant will last;
CallFresh(x) ==
  /\ holder.owner \in enrolled /\ x.expires <= holder.expires
  /\ x.pc = "issue" =>
       /\ x.read.executor = holder.owner
       /\ ~\E f \in Ids : Live(f) /\ grants[f].uses = 0
  /\ x.pc \in {"exchange", "renew"} =>
       /\ x.read = grants[x.grant]
       /\ grants[x.grant].executor = holder.owner
       /\ grants[x.grant].uses = 0
       /\ \A f \in Ids : Live(f) /\ grants[f].uses = 0 => f = x.grant

\* and one call at a time is under way.
CallsFresh ==
  raced = "no" =>
    \A h \in Handlers : call[h].pc # "idle" =>
      /\ \A g \in Handlers : call[g].pc # "idle" => g = h
      /\ CallFresh(call[h])

\* Every row and every call.
RowsSound == \A g \in Ids : RowSound(g)
CallsSound == \A h \in Handlers : CallSound(call[h])

\* The inductive invariant of the leases.
CredInv == /\ CredTypeOK /\ JobLeaseSound /\ RowsSound /\ CallsSound /\ CallsFresh
           /\ GrantWithinLease /\ OneTimeExchange

\* An unissued row and a call at rest.
LEMMA CredShapes ==
  /\ NoGrant \in Grant /\ Resting \in Call /\ Resting.pc = "idle"
  /\ Resting.read = NoGrant /\ NoGrant.revoked = "no" /\ NoGrant.uses = 0
  /\ NoGrant.executor = NoOne
<1>1. /\ NoGrant \in Grant /\ NoGrant.revoked = "no" /\ NoGrant.uses = 0
      /\ NoGrant.executor = NoOne
  BY DEF NoGrant, Grant
<1> QED
  BY <1>1 DEF Resting, Call

\* A step that may overtake a call is marked unless no call is under way.
LEMMA Overtaken ==
  ASSUME CredTypeOK, Overtaking
  PROVE  /\ raced' \in {"no", "yes"}
         /\ raced' = "no" => raced = "no" /\ \A h \in Handlers : call[h].pc = "idle"
  BY DEF CredTypeOK, Overtaking

\* The numbers the arguments below compare.
LEMMA CredTimes ==
  ASSUME CredTypeOK
  PROVE  /\ now \in Nat /\ holder.expires \in Nat /\ JobTtl \in Nat /\ AbsoluteTtl \in Nat
         /\ \A g \in Ids : /\ grants[g] \in Grant /\ grants[g].expires \in Nat
                           /\ grants[g].issued \in Nat
         /\ \A h \in Handlers : call[h] \in Call /\ call[h].expires \in Nat
  BY CredAssumption DEF CredTypeOK, Holder, Grant, Call

\* A step that writes no row and no call: while nothing was overtaken there is no call

\* to invalidate.
LEMMA CallsRest ==
  ASSUME CredInv, UNCHANGED <<grants, material, call>>, CredTypeOK', JobLeaseSound',
         Overtaking,
         ASSUME raced = "no", \A h \in Handlers : call[h].pc = "idle", raced' = "no"
         PROVE  GrantWithinLease' /\ OneTimeExchange'
  PROVE  CredInv'
<1> USE DEF CredInv
<1>1. RowsSound' /\ CallsSound'
  BY DEF RowsSound, RowSound, CallsSound, CallSound, Exists
<1>2. CallsFresh'
  BY Overtaken DEF CallsFresh
<1>3. GrantWithinLease' /\ OneTimeExchange'
  <2>1. CASE raced' = "no"
    BY <2>1, Overtaken
  <2>2. CASE raced' # "no"
    BY <2>2 DEF GrantWithinLease, OneTimeExchange
  <2> QED
    BY <2>1, <2>2
<1> QED
  BY <1>1, <1>2, <1>3

\* Time only ends leases and grants.
LEMMA TickStep ==
  ASSUME CredInv, Tick
  PROVE  CredInv'
<1> USE DEF CredInv
<1>1. /\ now' = now + 1 /\ now \in Nat
      /\ UNCHANGED <<holder, leases, enrolled, configs, reconfigured, grants, material,
                     call, raced>>
  BY CredTimes DEF Tick
<1>2. CredTypeOK'
  BY <1>1 DEF CredTypeOK
<1>3. JobLeaseSound'
  BY <1>1, CredTimes DEF JobLeaseSound
<1>4. RowsSound' /\ CallsSound'
  BY <1>1 DEF RowsSound, RowSound, CallsSound, CallSound, Exists
<1>5. \A f \in Ids : Live(f)' => Live(f)
  BY <1>1, CredTimes DEF Live, Exists
<1>6. \A h \in Handlers : CallFresh(call[h]) => CallFresh(call[h])'
  BY <1>1, <1>5 DEF CallFresh
<1>7. CallsFresh'
  BY <1>1, <1>6 DEF CallsFresh
<1>8. GrantWithinLease'
  BY <1>1, <1>5 DEF GrantWithinLease
<1>9. OneTimeExchange'
  BY <1>1, <1>5 DEF OneTimeExchange
<1> QED
  BY <1>2, <1>3, <1>4, <1>7, <1>8, <1>9

\* Acquiring, extending and configuring.
LEMMA JobSteps ==
  ASSUME CredInv,
         \/ \E e \in Executors : AcquireJob(e)
         \/ ExtendJob
         \/ \E s \in ConfigScopes, state \in ConfigStates : Configure(s, state)
  PROVE  CredInv'
<1> USE DEF CredInv
<1>1. ASSUME NEW e \in Executors, AcquireJob(e) PROVE CredInv'
  <2>1. /\ holder.owner = NoOne /\ holder' = [owner |-> e, expires |-> now + JobTtl]
        /\ leases' = leases + 1 /\ Overtaking
        /\ UNCHANGED <<now, enrolled, configs, reconfigured, grants, material, call>>
    BY <1>1 DEF AcquireJob
  <2>2. CredTypeOK'
    BY <2>1, Overtaken, CredTimes DEF CredTypeOK, Holder
  <2>3. JobLeaseSound'
    BY <2>1, CredTimes DEF JobLeaseSound
  <2>4. ASSUME raced = "no" PROVE GrantWithinLease' /\ OneTimeExchange'
    <3>1. \A g \in Ids : ~Live(g)
      BY <2>1, <2>4 DEF GrantWithinLease, Live, Exists
    <3>2. \A g \in Ids : Live(g)' <=> Live(g)
      BY <2>1 DEF Live, Exists
    <3> QED
      BY <2>1, <2>4, <3>1, <3>2 DEF GrantWithinLease, OneTimeExchange
  <2> QED
    BY <2>1, <2>2, <2>3, <2>4, CallsRest
<1>2. CASE ExtendJob
  <2>1. /\ holder' = [holder EXCEPT !.expires = now + JobTtl]
        /\ holder.owner # NoOne /\ Overtaking
        /\ UNCHANGED <<now, leases, enrolled, configs, reconfigured, grants, material, call>>
    BY <1>2 DEF ExtendJob
  <2>2. /\ holder'.owner = holder.owner /\ holder'.expires = now + JobTtl
        /\ holder' \in Holder
    BY <2>1, CredTimes DEF CredTypeOK, Holder
  <2>3. CredTypeOK'
    BY <2>1, <2>2, Overtaken DEF CredTypeOK
  <2>4. JobLeaseSound'
    BY <2>1, <2>2, CredTimes DEF JobLeaseSound
  <2>5. ASSUME raced = "no" PROVE GrantWithinLease' /\ OneTimeExchange'
    <3>1. \A g \in Ids : Live(g)' <=> Live(g)
      BY <2>1 DEF Live, Exists
    <3>2. holder.expires <= holder'.expires
      BY <2>1, <2>2 DEF JobLeaseSound
    <3>3. \A g \in Ids : grants[g].expires <= holder.expires =>
                           grants[g].expires <= holder'.expires
      BY <2>2, <3>2, CredTimes
    <3> QED
      BY <2>1, <2>2, <2>5, <3>1, <3>3 DEF GrantWithinLease, OneTimeExchange
  <2> QED
    BY <2>1, <2>3, <2>4, <2>5, CallsRest
<1>3. ASSUME NEW s \in ConfigScopes, NEW state \in ConfigStates, Configure(s, state)
      PROVE  CredInv'
  <2>1. /\ configs' = [configs EXCEPT ![s] = state] /\ reconfigured' = reconfigured + 1
        /\ Overtaking
        /\ UNCHANGED <<now, holder, leases, enrolled, grants, material, call>>
    BY <1>3 DEF Configure
  <2>2. CredTypeOK'
    BY <2>1, Overtaken DEF CredTypeOK
  <2>3. JobLeaseSound'
    BY <2>1 DEF JobLeaseSound
  <2>4. ASSUME raced = "no" PROVE GrantWithinLease' /\ OneTimeExchange'
    BY <2>1, <2>4 DEF GrantWithinLease, OneTimeExchange, Live, Exists
  <2> QED
    BY <2>1, <2>2, <2>3, <2>4, CallsRest
<1> QED
  BY <1>1, <1>2, <1>3

\* Rows are only revoked, and those left live keep their executor.
LEMMA Revoking ==
  ASSUME CredInv, UNCHANGED <<now, leases, configs, reconfigured, material, call>>,
         holder' \in Holder, enrolled' \subseteq Executors, Overtaking, JobLeaseSound',
         NEW G \in SUBSET Ids, grants' = RevokedAll(G),
         ASSUME raced = "no", NEW g \in Ids \ G, Live(g)
         PROVE  holder' = holder /\ grants[g].executor \in enrolled'
  PROVE  CredInv'
<1> USE DEF CredInv
<1>1. /\ \A g \in Ids : /\ grants'[g] \in Grant
                        /\ grants'[g].executor = grants[g].executor
                        /\ grants'[g].provider = grants[g].provider
                        /\ grants'[g].issued = grants[g].issued
                        /\ grants'[g].expires = grants[g].expires
                        /\ grants'[g].uses = grants[g].uses
                        /\ Exists(g) /\ g \in G => grants'[g].revoked = "yes"
                        /\ ~(Exists(g) /\ g \in G) => grants'[g] = grants[g]
      /\ grants' \in [Ids -> Grant]
  BY CredTimes DEF RevokedAll, Grant
<1>2. CredTypeOK'
  BY <1>1, Overtaken DEF CredTypeOK
<1>3. RowsSound' /\ CallsSound'
  BY <1>1 DEF RowsSound, RowSound, CallsSound, CallSound, Exists
<1>4. CallsFresh'
  BY Overtaken DEF CallsFresh
<1>5. \A g \in Ids : Live(g)' => Live(g) /\ g \notin G
  BY <1>1 DEF Live, Exists
<1>6. GrantWithinLease'
  <2> SUFFICES ASSUME raced' = "no", NEW g \in Ids, Live(g)'
               PROVE  /\ holder'.owner = grants'[g].executor
                      /\ grants'[g].expires <= holder'.expires
                      /\ holder'.owner \in enrolled'
    BY DEF GrantWithinLease
  <2>1. raced = "no"
    BY Overtaken
  <2> QED
    BY <1>1, <1>5, <2>1 DEF GrantWithinLease
<1>7. OneTimeExchange'
  BY <1>1, <1>5, Overtaken DEF OneTimeExchange
<1> QED
  BY <1>2, <1>3, <1>4, <1>6, <1>7

\* The end of the job, and revocations of an executor or of one grant.
LEMMA RevokeSteps ==
  ASSUME CredInv,
         \/ EndJob \/ \E e \in Executors : RevokeExecutor(e)
         \/ \E g \in Ids : RevokeGrant(g)
  PROVE  CredInv'
<1> USE DEF CredInv
<1>0. [owner |-> NoOne, expires |-> 0] \in Holder /\ holder \in Holder /\ enrolled \subseteq Executors
  BY DEF Holder, CredTypeOK
<1>1. CASE EndJob
  <2>1. JobLeaseSound'
    BY <1>1 DEF EndJob, JobLeaseSound
  <2> QED
    BY <1>0, <1>1, <2>1, Revoking DEF EndJob
<1>2. ASSUME NEW e \in Executors, RevokeExecutor(e) PROVE CredInv'
  <2>1. /\ enrolled' = enrolled \ {e} /\ Overtaking
        /\ UNCHANGED <<now, leases, configs, reconfigured, material, call>>
    BY <1>2 DEF RevokeExecutor
  <2>2. CASE holder.owner = e
    <3>1. holder' = [owner |-> NoOne, expires |-> 0] /\ grants' = RevokedAll(Ids)
      BY <1>2, <2>2 DEF RevokeExecutor
    <3>2. JobLeaseSound'
      BY <3>1 DEF JobLeaseSound
    <3> QED
      BY <1>0, <2>1, <3>1, <3>2, Revoking
  <2>3. CASE holder.owner # e
    <3> DEFINE G == {g \in Ids : Exists(g) /\ grants[g].executor = e}
    <3>1. holder' = holder /\ grants' = RevokedAll(G) /\ G \in SUBSET Ids
      BY <1>2, <2>3 DEF RevokeExecutor
    <3>2. JobLeaseSound'
      BY <2>1, <3>1 DEF JobLeaseSound
    <3>3. ASSUME raced = "no", NEW g \in Ids \ G, Live(g)
          PROVE  holder' = holder /\ grants[g].executor \in enrolled'
      BY <2>1, <3>1, <3>3 DEF GrantWithinLease, Live
    <3> HIDE DEF G
    <3> QED
      BY <1>0, <2>1, <3>1, <3>2, <3>3, Revoking
  <2> QED
    BY <2>2, <2>3
<1>3. ASSUME NEW g \in Ids, RevokeGrant(g) PROVE CredInv'
  <2>1. grants' = RevokedAll({g})
    BY <1>3, CredTimes DEF RevokeGrant, RevokedAll, CredTypeOK, Grant
  <2>2. /\ Overtaking
        /\ UNCHANGED <<now, holder, leases, enrolled, configs, reconfigured, material, call>>
    BY <1>3 DEF RevokeGrant
  <2>3. JobLeaseSound'
    BY <2>2 DEF JobLeaseSound
  <2>4. ASSUME raced = "no", NEW f \in Ids \ {g}, Live(f)
        PROVE  holder' = holder /\ grants[f].executor \in enrolled'
    BY <2>2, <2>4 DEF GrantWithinLease
  <2> QED
    BY <1>0, <2>1, <2>2, <2>3, <2>4, Revoking
<1> QED
  BY <1>1, <1>2, <1>3

\* A call begins with what it read.
LEMMA BeginKeeps ==
  ASSUME CredInv, NEW h \in Handlers, NEW x \in Call, BeginCall(h, x),
         CallSound(x), raced = "no" => CallFresh(x)
  PROVE  CredInv'
<1> USE DEF CredInv
<1>1. /\ call' = [call EXCEPT ![h] = x] /\ Overtaking /\ call[h].pc = "idle"
      /\ UNCHANGED <<now, holder, leases, enrolled, configs, reconfigured, grants, material>>
  BY DEF BeginCall
<1>2. CredTypeOK'
  BY <1>1, Overtaken DEF CredTypeOK
<1>3. \A g \in Handlers : call'[g] = IF g = h THEN x ELSE call[g]
  BY <1>1 DEF CredTypeOK
<1>4. RowsSound' /\ CallsSound' /\ JobLeaseSound'
  BY <1>1, <1>3 DEF RowsSound, RowSound, CallsSound, CallSound, Exists, JobLeaseSound
<1>5. CallFresh(x) => CallFresh(x)'
  BY <1>1 DEF CallFresh, Live, Exists
<1>6. CallsFresh'
  BY <1>1, <1>3, <1>5, Overtaken DEF CallsFresh
<1>7. GrantWithinLease' /\ OneTimeExchange'
  BY <1>1, Overtaken DEF GrantWithinLease, OneTimeExchange, Live, Exists
<1> QED
  BY <1>2, <1>4, <1>6, <1>7

\* Least and Greatest of two numbers.
LEMMA LeastIs ==
  ASSUME NEW a \in Nat, NEW b \in Nat
  PROVE  /\ Least(a, b) \in Nat /\ Least(a, b) <= a /\ Least(a, b) <= b
         /\ Greatest(a, b) \in Nat
  BY DEF Least, Greatest

\* The expiry a provider gives is a time.
LEMMA FetchedWhen ==
  ASSUME CredTypeOK, NEW p \in Providers, NEW ttl \in Nat, NEW t \in Fetch(p, ttl)
  PROVE  t \in Nat
<1>0. now \in Nat /\ StsMinimum \in Nat /\ Ttls \subseteq Nat
  BY CredAssumption DEF CredTypeOK
<1>1. CASE p = "environment"
  BY <1>0, <1>1 DEF Fetch, EnvironmentExpiry
<1>2. CASE p = "vault"
  <2>1. PICK d \in Ttls \cup {1} : t = now + Greatest(1, Least(ttl, d))
    BY <1>2 DEF Fetch, VaultExpiry
  <2>2. Greatest(1, Least(ttl, d)) \in Nat
    BY <1>0, LeastIs
  <2> QED
    BY <1>0, <2>1, <2>2
<1>3. CASE p = "aws-secrets-manager"
  BY <1>0, <1>3 DEF Fetch, AwsExpiry
<1>4. CASE p = "aws-sts"
  <2>1. t = now + Greatest(StsMinimum, ttl)
    BY <1>4 DEF Fetch, AwsExpiry
  <2>2. Greatest(StsMinimum, ttl) \in Nat
    BY <1>0, LeastIs
  <2> QED
    BY <1>0, <2>1, <2>2
<1>5. CASE p \in {"azure-key-vault", "azure-managed-identity"}
  <2>1. t \in AzureExpiry(p, ttl)
    BY <1>5 DEF Fetch
  <2> QED
    BY <1>0, <2>1 DEF AzureExpiry
<1> QED
  BY <1>1, <1>2, <1>3, <1>4, <1>5, CredAssumption

\* The reads of issue, exchange and renew.
LEMMA ReadSteps ==
  ASSUME CredInv, NEW h \in Handlers,
         \/ \E e \in Executors, p \in Providers, ttl \in Ttls : IssueRead(h, e, p, ttl)
         \/ \E g \in Ids : ExchangeRead(h, g)
         \/ \E g \in Ids, ttl \in Ttls : RenewRead(h, g, ttl)
  PROVE  CredInv'
<1> USE DEF CredInv
<1>0. \A ttl \in Ttls : ttl \in Nat /\ ttl <= AbsoluteTtl
  BY CredAssumption
<1>1. ASSUME NEW e \in Executors, NEW p \in Providers, NEW ttl \in Ttls,
             IssueRead(h, e, p, ttl)
      PROVE  CredInv'
  <2> DEFINE read == [NoGrant EXCEPT !.executor = e, !.provider = p, !.issued = now]
             expires == Least(now + ttl, holder.expires)
             x == [Resting EXCEPT !.pc = "issue", !.read = read, !.expires = expires]
  <2>1. /\ read \in Grant /\ read.executor = e /\ read.issued = now
        /\ read.revoked = "no" /\ read.uses = 0 /\ read.provider = p
    BY CredShapes, CredTimes DEF Grant
  <2>2. /\ expires \in Nat /\ expires <= now + ttl /\ expires <= holder.expires
        /\ expires <= now + AbsoluteTtl
    <3>1. now + ttl \in Nat /\ holder.expires \in Nat /\ now + ttl <= now + AbsoluteTtl
      BY <1>0, CredTimes
    <3>2. expires \in Nat /\ expires <= now + ttl /\ expires <= holder.expires
      BY <3>1, LeastIs
    <3> HIDE DEF expires
    <3> QED
      BY <1>0, <3>1, <3>2, CredTimes
  <2>3. BeginCall(h, x)
    BY <1>1 DEF IssueRead
  <2> HIDE DEF read, expires
  <2>4. x \in Call /\ x.pc = "issue" /\ x.read = read /\ x.expires = expires
    BY <2>1, <2>2, CredShapes DEF Call
  <2> HIDE DEF x
  <2>5. CallSound(x)
    BY <2>1, <2>2, <2>4 DEF CallSound
  <2>6. ASSUME raced = "no" PROVE CallFresh(x)
    <3>1. /\ holder.owner = e /\ e \in enrolled
          /\ ~\E g \in Ids : Live(g) /\ grants[g].executor = e /\ grants[g].uses = 0
      BY <1>1 DEF IssueRead, OwnsActiveJob
    <3>2. \A f \in Ids : Live(f) => grants[f].executor = e
      BY <2>6, <3>1 DEF GrantWithinLease
    <3> QED
      BY <2>1, <2>2, <2>4, <3>1, <3>2 DEF CallFresh
  <2> QED
    BY <2>3, <2>4, <2>5, <2>6, BeginKeeps
<1>2. ASSUME NEW g \in Ids, Usable(g), NEW pc \in {"exchange", "renew"},
             NEW expires \in Nat, expires <= grants[g].issued + AbsoluteTtl,
             raced = "no" => expires <= holder.expires,
             BeginCall(h, [pc |-> pc, grant |-> g, read |-> grants[g],
                           expires |-> expires])
      PROVE  CredInv'
  <2> DEFINE x == [pc |-> pc, grant |-> g, read |-> grants[g], expires |-> expires]
  <2>1. x \in Call /\ x.pc = pc /\ x.grant = g /\ x.read = grants[g] /\ x.expires = expires
    BY <1>2, CredTimes DEF Call
  <2>2. BeginCall(h, x)
    BY <1>2
  <2> HIDE DEF x
  <2>3. /\ Live(g) /\ Exists(g) /\ grants[g].uses = 0
        /\ holder.owner = grants[g].executor /\ holder.owner \in enrolled
    BY <1>2 DEF Usable, Live, OwnsActiveJob
  <2>4. CallSound(x)
    BY <1>2, <2>1, <2>3 DEF CallSound
  <2>5. raced = "no" => CallFresh(x)
    BY <1>2, <2>1, <2>3 DEF CallFresh, OneTimeExchange
  <2> QED
    BY <2>1, <2>2, <2>4, <2>5, BeginKeeps
<1>3. ASSUME NEW g \in Ids, ExchangeRead(h, g) PROVE CredInv'
  <2> DEFINE left == Greatest(1, grants[g].expires - now)
  <2>1. Usable(g) /\ Live(g) /\ Exists(g)
    BY <1>3 DEF ExchangeRead, Usable, Live
  <2>2. /\ grants[g] \in Grant /\ grants[g].expires \in Nat /\ grants[g].issued \in Nat
        /\ now \in Nat /\ grants[g].expires > now
    BY <2>1, CredTimes DEF Live
  <2>3. grants[g].provider \in Providers
    BY <2>1 DEF RowsSound, RowSound
  <2>4. left \in Nat
    <3>1. 1 \in Nat /\ grants[g].expires - now \in Nat
      BY <2>2
    <3>2. QED
      BY <3>1, LeastIs
  <2> HIDE DEF left
  <2>5. PICK t \in Fetch(grants[g].provider, left) :
          BeginCall(h, [pc |-> "exchange", grant |-> g, read |-> grants[g],
                        expires |-> Least(grants[g].expires, t)])
    BY <1>3 DEF ExchangeRead, left
  <2>6. t \in Nat
    BY <2>3, <2>4, <2>5, FetchedWhen
  <2>7. Least(grants[g].expires, t) \in Nat /\ Least(grants[g].expires, t) <= grants[g].expires
    BY <2>2, <2>6, LeastIs
  <2>8. grants[g].expires <= grants[g].issued + AbsoluteTtl
    BY DEF RowsSound, RowSound
  <2>9. raced = "no" => grants[g].expires <= holder.expires
    BY <2>1 DEF GrantWithinLease
  <2>10. /\ Least(grants[g].expires, t) <= grants[g].issued + AbsoluteTtl
         /\ raced = "no" => Least(grants[g].expires, t) <= holder.expires
    BY <2>2, <2>7, <2>8, <2>9, CredTimes
  <2> QED
    BY <1>2, <2>1, <2>5, <2>7, <2>10
<1>4. ASSUME NEW g \in Ids, NEW ttl \in Ttls, RenewRead(h, g, ttl) PROVE CredInv'
  <2> DEFINE a == now + ttl
             b == grants[g].issued + AbsoluteTtl
  <2>1. a \in Nat /\ b \in Nat /\ holder.expires \in Nat
    BY <1>0, CredTimes
  <2>2. Renewed(g, ttl) = Least(Least(a, b), holder.expires)
    BY DEF Renewed
  <2> HIDE DEF a, b
  <2>3. Least(a, b) \in Nat /\ Least(a, b) <= b
    BY <2>1, LeastIs
  <2>4. /\ Renewed(g, ttl) \in Nat /\ Renewed(g, ttl) <= Least(a, b)
        /\ Renewed(g, ttl) <= holder.expires
    BY <2>1, <2>2, <2>3, LeastIs
  <2>5. Renewed(g, ttl) <= b
    BY <2>1, <2>3, <2>4
  <2> QED
    BY <1>2, <1>4, <2>4, <2>5 DEF RenewRead, b
<1> QED
  BY <1>1, <1>3, <1>4

\* The end of a call, which overtakes the calls that are under way.
LEMMA Ended ==
  ASSUME CredTypeOK, NEW h \in Handlers, EndCall(h)
  PROVE  /\ raced' \in {"no", "yes"} /\ call' \in [Handlers -> Call]
         /\ \A g \in Handlers : call'[g] = IF g = h THEN Resting ELSE call[g]
         /\ raced' = "no" => raced = "no" /\ \A g \in Handlers : call'[g].pc = "idle"
<1>1. /\ call' = [call EXCEPT ![h] = Resting]
      /\ raced' = IF \E g \in Handlers \ {h} : call[g].pc # "idle" THEN "yes" ELSE raced
  BY DEF EndCall
<1>2. \A g \in Handlers : call'[g] = IF g = h THEN Resting ELSE call[g]
  BY <1>1 DEF CredTypeOK
<1> QED
  BY <1>1, <1>2, CredShapes DEF CredTypeOK

\* A commit that writes one row is left to show of that row.
LEMMA RowWritten ==
  ASSUME CredInv, NEW h \in Handlers, EndCall(h),
         NEW g \in Ids, NEW new \in Grant, grants' = [grants EXCEPT ![g] = new],
         material' \in [Ids -> Nat],
         \A f \in Ids : f # g => material'[f] = material[f],
         new.executor # NoOne, new.provider \in Providers,
         Exists(g) => new.issued = grants[g].issued,
         new.expires <= new.issued + AbsoluteTtl,
         material'[g] > 0 => new.uses = 1,
         raced = "no" =>
           /\ material'[g] = new.uses
           /\ holder.owner = new.executor /\ new.expires <= holder.expires
           /\ holder.owner \in enrolled
           /\ new.uses = 0 => \A f \in Ids : Live(f) /\ grants[f].uses = 0 => f = g
  PROVE  CredInv'
<1> USE DEF CredInv
<1>1. UNCHANGED <<now, holder, leases, enrolled, configs, reconfigured>>
  BY DEF EndCall
<1>2. \A f \in Ids : grants'[f] = IF f = g THEN new ELSE grants[f]
  BY DEF CredTypeOK
<1>3. CredTypeOK'
  BY <1>1, Ended DEF CredTypeOK
<1>4. RowsSound' /\ JobLeaseSound'
  BY <1>1, <1>2 DEF RowsSound, RowSound, Exists, JobLeaseSound
<1>5. \A f \in Ids : Exists(f) => Exists(f)' /\ grants'[f].issued = grants[f].issued
  BY <1>2 DEF Exists
<1>6. CallsSound'
  BY <1>5, Ended, CredShapes DEF CallsSound, CallSound
<1>7. CallsFresh'
  BY Ended DEF CallsFresh
<1>8. \A f \in Ids : f # g => (Live(f)' <=> Live(f))
  BY <1>1, <1>2 DEF Live, Exists
<1>9. GrantWithinLease'
  <2> SUFFICES ASSUME raced = "no", NEW f \in Ids, Live(f)'
               PROVE  /\ holder.owner = grants'[f].executor
                      /\ grants'[f].expires <= holder.expires
                      /\ holder.owner \in enrolled
    BY <1>1, Ended DEF GrantWithinLease
  <2> QED
    BY <1>2, <1>8 DEF GrantWithinLease
<1>10. OneTimeExchange'
  <2>1. ASSUME raced = "no", NEW f \in Ids
        PROVE  material'[f] <= 1 /\ material'[f] = grants'[f].uses
    <3>1. new.uses <= 1
      BY DEF Grant
    <3> QED
      BY <1>2, <2>1, <3>1 DEF OneTimeExchange
  <2>2. ASSUME raced = "no", NEW f \in Ids, NEW k \in Ids, Live(f)', Live(k)',
               grants'[f].uses = 0, grants'[k].uses = 0
        PROVE  f = k
    BY <1>2, <1>8, <2>2 DEF OneTimeExchange
  <2> QED
    BY <2>1, <2>2, Ended DEF OneTimeExchange
<1> QED
  BY <1>3, <1>4, <1>6, <1>7, <1>9, <1>10

\* The expiry a commit writes keeps the absolute limit, and the lease of the job when

\* nothing was overtaken.
LEMMA WrittenIs ==
  ASSUME CredInv, NEW h \in Handlers, call[h].pc \in {"exchange", "renew"}
  PROVE  LET x == call[h]
             e == Written(x.grant, x.read.expires, x.expires)
         IN  /\ x.grant \in Ids /\ Exists(x.grant) /\ e \in Nat
             /\ e <= grants[x.grant].issued + AbsoluteTtl
             /\ raced = "no" =>
                  /\ holder.owner = grants[x.grant].executor
                  /\ holder.owner \in enrolled /\ e <= holder.expires
                  /\ grants[x.grant].uses = 0
                  /\ \A f \in Ids : Live(f) /\ grants[f].uses = 0 => f = x.grant
<1> USE DEF CredInv
<1> DEFINE x == call[h]
           g == x.grant
           e == Written(g, x.read.expires, x.expires)
<1>1. /\ g \in Ids /\ Exists(g) /\ x.expires <= grants[g].issued + AbsoluteTtl
      /\ x.expires \in Nat
  BY CredTimes DEF CallsSound, CallSound
<1>2. /\ grants[g].expires \in Nat /\ grants[g].issued \in Nat
      /\ grants[g].expires <= grants[g].issued + AbsoluteTtl
  BY <1>1, CredTimes DEF RowsSound, RowSound
<1>3. e = grants[g].expires \/ e = x.expires
  BY DEF Written
<1>4. raced = "no" => CallFresh(x)
  BY DEF CallsFresh
<1>5. raced = "no" => e = x.expires
  BY <1>4 DEF Written, CallFresh
<1> HIDE DEF e
<1> QED
  BY <1>1, <1>2, <1>3, <1>4, <1>5 DEF CallFresh, e

\* The commits of issue, exchange and renew, and a call that is given up.
LEMMA CommitSteps ==
  ASSUME CredInv, NEW h \in Handlers,
         IssueCommit(h) \/ ExchangeCommit(h) \/ RenewCommit(h) \/ AbortCall(h)
  PROVE  CredInv'
<1> USE DEF CredInv
<1> DEFINE x == call[h]
<1>0. x \in Call /\ x.expires \in Nat /\ CallSound(x)
      /\ (raced = "no" /\ x.pc # "idle" => CallFresh(x))
  BY CredTimes DEF CallsSound, CallsFresh
<1>1. CASE IssueCommit(h)
  <2>1. PICK g \in Ids :
          /\ ~Exists(g)
          /\ grants' = [grants EXCEPT ![g] = [x.read EXCEPT !.expires = x.expires]]
    BY <1>1 DEF IssueCommit
  <2> DEFINE new == [x.read EXCEPT !.expires = x.expires]
  <2>2. /\ x.pc = "issue" /\ EndCall(h) /\ UNCHANGED material
        /\ x.read \in Grant /\ x.read.executor \in Executors
    BY <1>0, <1>1 DEF IssueCommit, CallSound
  <2>3. /\ new \in Grant /\ new.executor = x.read.executor /\ new.issued = x.read.issued
        /\ new.provider = x.read.provider
        /\ new.expires = x.expires /\ new.uses = x.read.uses
    BY <1>0, <2>2 DEF Grant
  <2>4. grants' = [grants EXCEPT ![g] = new]
    BY <2>1
  <2> HIDE DEF new, x
  <2>5. /\ material'[g] = 0 /\ material' \in [Ids -> Nat]
        /\ \A f \in Ids : f # g => material'[f] = material[f]
    BY <2>1, <2>2 DEF RowsSound, RowSound, CredTypeOK
  <2>6. /\ new.executor # NoOne /\ new.provider \in Providers
        /\ new.uses = 0 /\ new.expires <= new.issued + AbsoluteTtl
    BY <1>0, <2>2, <2>3, CredAssumption DEF CallSound
  <2>7. raced = "no" =>
          /\ holder.owner = new.executor /\ new.expires <= holder.expires
          /\ holder.owner \in enrolled
          /\ \A f \in Ids : Live(f) /\ grants[f].uses = 0 => f = g
    BY <1>0, <2>2, <2>3 DEF CallFresh
  <2>8. ~(material'[g] > 0) /\ material'[g] = new.uses
    BY <2>5, <2>6
  <2> QED
    BY <2>1, <2>2, <2>3, <2>4, <2>5, <2>6, <2>7, <2>8, RowWritten
<1>2. ASSUME NEW g, g = x.grant, x.pc \in {"exchange", "renew"}, EndCall(h),
             NEW e, e = Written(g, x.read.expires, x.expires),
             NEW uses \in {grants[g].uses, 1},
             grants' = [grants EXCEPT ![g] = [grants[g] EXCEPT !.uses = uses,
                                                               !.expires = e]],
             material' \in [Ids -> Nat],
             \A f \in Ids : f # g => material'[f] = material[f],
             material'[g] > 0 => uses = 1, raced = "no" => material'[g] = uses
      PROVE  CredInv'
  <2> DEFINE new == [grants[g] EXCEPT !.uses = uses, !.expires = e]
  <2>1. /\ g \in Ids /\ Exists(g) /\ e \in Nat /\ e <= grants[g].issued + AbsoluteTtl
        /\ raced = "no" =>
             /\ holder.owner = grants[g].executor /\ holder.owner \in enrolled
             /\ e <= holder.expires
             /\ \A f \in Ids : Live(f) /\ grants[f].uses = 0 => f = g
    BY <1>2, WrittenIs
  <2>2. /\ new \in Grant /\ new.executor = grants[g].executor
        /\ new.provider = grants[g].provider
        /\ new.issued = grants[g].issued /\ new.expires = e /\ new.uses = uses
    <3>1. grants[g] \in Grant /\ uses \in 0 .. 1
      BY <1>2, <2>1, CredTimes DEF Grant
    <3> QED
      BY <2>1, <3>1 DEF Grant
  <2>3. grants' = [grants EXCEPT ![g] = new]
    BY <1>2
  <2> HIDE DEF new, x
  <2>4. /\ new.executor # NoOne /\ new.provider \in Providers
        /\ new.expires <= new.issued + AbsoluteTtl
    BY <2>1, <2>2 DEF Exists, RowsSound, RowSound
  <2>5. /\ EndCall(h) /\ material' \in [Ids -> Nat]
        /\ \A f \in Ids : f # g => material'[f] = material[f]
        /\ material'[g] > 0 => new.uses = 1
    BY <1>2, <2>2
  <2>6. raced = "no" =>
          /\ material'[g] = new.uses
          /\ holder.owner = new.executor /\ new.expires <= holder.expires
          /\ holder.owner \in enrolled
          /\ new.uses = 0 => \A f \in Ids : Live(f) /\ grants[f].uses = 0 => f = g
    BY <1>2, <2>1, <2>2
  <2> QED
    BY <2>1, <2>2, <2>3, <2>4, <2>5, <2>6, RowWritten
<1>3. CASE ExchangeCommit(h)
  <2> DEFINE g == x.grant
             e == Written(g, x.read.expires, x.expires)
             m == material[g] + 1
  <2>1. x.pc = "exchange" /\ EndCall(h)
    BY <1>3 DEF ExchangeCommit
  <2>2. /\ g \in Ids /\ grants[g] \in Grant /\ m \in Nat
        /\ raced = "no" => grants[g].uses = 0
    BY <2>1, WrittenIs, CredTimes DEF CredTypeOK
  <2>3. raced = "no" => material[g] = 0
    BY <2>2 DEF OneTimeExchange
  <2>4. grants' = [grants EXCEPT ![g] = [grants[g] EXCEPT !.uses = 1, !.expires = e]]
    BY <1>3, <2>2 DEF ExchangeCommit, CredTypeOK, Grant
  <2>5. /\ material' \in [Ids -> Nat] /\ material'[g] = m
        /\ \A f \in Ids : f # g => material'[f] = material[f]
    BY <1>3, <2>2 DEF ExchangeCommit, CredTypeOK
  <2>6. raced = "no" => material'[g] = 1
    BY <2>3, <2>5
  <2> HIDE DEF x, m, e, g
  <2> QED
    BY <1>2, <2>1, <2>2, <2>4, <2>5, <2>6 DEF g, e
<1>4. CASE RenewCommit(h)
  <2> DEFINE g == x.grant
             e == Written(g, x.read.expires, x.expires)
             u == grants[g].uses
  <2>1. x.pc = "renew" /\ EndCall(h) /\ UNCHANGED material
    BY <1>4 DEF RenewCommit
  <2>2. g \in Ids /\ grants[g] \in Grant
    BY <2>1, WrittenIs, CredTimes DEF CredTypeOK
  <2>3. grants' = [grants EXCEPT ![g] = [grants[g] EXCEPT !.uses = u, !.expires = e]]
    BY <1>4, <2>2 DEF RenewCommit, CredTypeOK, Grant
  <2>4. /\ material' \in [Ids -> Nat]
        /\ \A f \in Ids : f # g => material'[f] = material[f]
    BY <2>1 DEF CredTypeOK
  <2>5. (material'[g] > 0 => u = 1) /\ (raced = "no" => material'[g] = u)
    BY <2>1, <2>2 DEF RowsSound, RowSound, OneTimeExchange
  <2> HIDE DEF x, e, g, u
  <2> QED
    BY <1>2, <2>1, <2>2, <2>3, <2>4, <2>5 DEF g, e, u
<1>5. CASE AbortCall(h)
  <2>1. EndCall(h) /\ UNCHANGED <<grants, material>>
    BY <1>5 DEF AbortCall
  <2>2. UNCHANGED <<now, holder, leases, enrolled, configs, reconfigured>>
    BY <2>1 DEF EndCall
  <2>3. CredTypeOK'
    BY <2>1, <2>2, Ended DEF CredTypeOK
  <2>4. RowsSound' /\ JobLeaseSound'
    BY <2>1, <2>2 DEF RowsSound, RowSound, Exists, JobLeaseSound
  <2>5. CallsSound'
    BY <2>1, Ended, CredShapes DEF CallsSound, CallSound, Exists
  <2>6. CallsFresh'
    BY <2>1, Ended DEF CallsFresh
  <2>7. GrantWithinLease' /\ OneTimeExchange'
    BY <2>1, <2>2, Ended DEF GrantWithinLease, OneTimeExchange, Live, Exists
  <2> QED
    BY <2>3, <2>4, <2>5, <2>6, <2>7
<1> QED
  BY <1>1, <1>3, <1>4, <1>5

\* The invariant holds before anything was issued.
LEMMA CredInitInv == CredInit => CredInv
<1> SUFFICES ASSUME CredInit PROVE CredInv
  OBVIOUS
<1>1. CredTypeOK
  BY CredShapes DEF CredInit, CredTypeOK, Holder, ConfigStates
<1>2. /\ \A g \in Ids : /\ grants[g] = NoGrant /\ material[g] = 0
                        /\ ~Exists(g) /\ ~Live(g)
      /\ \A h \in Handlers : call[h].pc = "idle"
      /\ holder.owner = NoOne
  BY CredShapes DEF CredInit, Exists, Live
<1>3. NoGrant.expires = 0 /\ NoGrant.issued = 0 /\ NoGrant.uses = 0
  BY DEF NoGrant
<1>4. RowsSound
  BY <1>2, <1>3, CredAssumption DEF RowsSound, RowSound
<1>5. CallsSound /\ CallsFresh /\ JobLeaseSound /\ GrantWithinLease
  BY <1>2 DEF CallsSound, CallSound, CallsFresh, JobLeaseSound, GrantWithinLease
<1>6. OneTimeExchange
  BY <1>2, <1>3 DEF OneTimeExchange
<1> QED
  BY <1>1, <1>4, <1>5, <1>6 DEF CredInv

\* CredInv holds in every state.
THEOREM CredInvariant == CredSpec => []CredInv
<1>1. CredInv /\ [CredNext]_credVars => CredInv'
  <2> SUFFICES ASSUME CredInv, [CredNext]_credVars PROVE CredInv'
    OBVIOUS
  <2>1. CASE UNCHANGED credVars
    BY <2>1 DEF credVars, CredInv, CredTypeOK, JobLeaseSound, RowsSound, RowSound,
       CallsSound, CallSound, CallsFresh, CallFresh, GrantWithinLease, OneTimeExchange,
       Live, Exists
  <2> QED
    BY <2>1, TickStep, JobSteps, RevokeSteps, ReadSteps, CommitSteps DEF CredNext
<1> QED
  BY CredInitInv, <1>1, PTL DEF CredSpec

\* For any handlers, executors, providers and time limits: a grant never outlives its

\* absolute limit, material is handed out at most once, and while no call was overtaken
\* a live grant belongs to the enrolled owner of the job and ends with its lease
\* (CredentialLeaseService).
THEOREM GrantsBound == CredSpec => []GrantsAreBound
<1>1. CredInv => GrantsAreBound
  BY DEF CredInv, GrantsAreBound, AbsoluteLimit, RowsSound, RowSound
<1> QED
  BY CredInvariant, <1>1, PTL

\* A revoked grant stays revoked and the count of its uses never falls, whatever

\* commits overlap (_revoke, exchange).
THEOREM GrantsEnd == CredSpec => GrantsOnlyEnd
<1>1. CredInv /\ [CredNext]_credVars =>
        [\A g \in Ids : /\ grants[g].revoked = "yes" => grants'[g].revoked = "yes"
                        /\ grants[g].uses <= grants'[g].uses]_credVars
  <2> SUFFICES ASSUME CredInv, CredNext, NEW g \in Ids
               PROVE  /\ grants[g].revoked = "yes" => grants'[g].revoked = "yes"
                      /\ grants[g].uses <= grants'[g].uses
    BY DEF credVars
  <2> USE DEF CredInv
  <2>0. /\ grants \in [Ids -> Grant] /\ grants[g] \in Grant
        /\ grants[g].uses \in 0 .. 1 /\ grants[g].uses <= grants[g].uses
    BY DEF CredTypeOK, Grant
  <2>1. ASSUME NEW G, grants' = RevokedAll(G)
        PROVE  /\ grants[g].revoked = "yes" => grants'[g].revoked = "yes"
               /\ grants[g].uses <= grants'[g].uses
    BY <2>0, <2>1 DEF RevokedAll, Grant
  <2>2. ASSUME NEW h \in Handlers, IssueCommit(h)
        PROVE  /\ grants[g].revoked = "yes" => grants'[g].revoked = "yes"
               /\ grants[g].uses <= grants'[g].uses
    <3>1. PICK f \in Ids :
            /\ ~Exists(f)
            /\ grants' = [grants EXCEPT ![f] = [call[h].read EXCEPT !.expires = call[h].expires]]
      BY <2>2 DEF IssueCommit
    <3>2. call[h].read \in Grant /\ call[h].read.uses = 0
      BY <2>2 DEF IssueCommit, CallsSound, CallSound
    <3>3. grants[f].revoked = "no" /\ grants[f].uses = 0
      BY <3>1, CredShapes DEF RowsSound, RowSound
    <3>4. CASE f # g
      BY <2>0, <3>1, <3>4
    <3>5. CASE f = g
      BY <2>0, <3>1, <3>2, <3>3, <3>5 DEF Grant
    <3> QED
      BY <3>4, <3>5
  <2>3. ASSUME NEW h \in Handlers, ExchangeCommit(h) \/ RenewCommit(h)
        PROVE  /\ grants[g].revoked = "yes" => grants'[g].revoked = "yes"
               /\ grants[g].uses <= grants'[g].uses
    BY <2>0, <2>3 DEF ExchangeCommit, RenewCommit, Grant
  <2>4. ASSUME NEW f \in Ids, RevokeGrant(f)
        PROVE  /\ grants[g].revoked = "yes" => grants'[g].revoked = "yes"
               /\ grants[g].uses <= grants'[g].uses
    BY <2>0, <2>4 DEF RevokeGrant, Grant
  <2>5. CASE UNCHANGED grants
    BY <2>0, <2>5
  <2> QED
    BY <2>1, <2>2, <2>3, <2>4, <2>5 DEF CredNext, Tick, ExtendJob, EndJob, AcquireJob,
       RevokeExecutor, Configure, IssueRead, ExchangeRead, RenewRead, BeginCall, AbortCall
<1> QED
  BY CredInvariant, <1>1, PTL DEF CredSpec, GrantsOnlyEnd

-----------------------------------------------------------------------------
(* The cognitive history                                                   *)

\* What a process does: a snapshot of a commit, or an ingestion that is not
\* committed yet.
Shooting(x) == \/ x.pc \in {"snapshot", "anchor"}
               \/ x.pc = "write" /\ x.kind = "SNAPSHOT_CREATED"
Creating(x) == x.pc = "ingest" \/ (x.pc = "write" /\ x.kind = "COMMIT_CREATED")
Indexing(x) == x.pc = "look" \/ Creating(x)
Queueing(x) == x.kind = "COMMIT_ANALYSIS_QUEUED"

\* A commit with a snapshot, a history without overtaking or deaths, and a time that
\* an event has.
Snapped(c) == \E s \in snapshots : s.commit = c
Undisturbed == doubled = "no" /\ cogCrashes = 0
Known(t) == t = 0 \/ \E e \in events : e.time = t

\* On PostgreSQL a writer holds the lock: it has the last time drawn and the
\* newest event, and a snapshot not committed yet is of a part of the history
\* that no writer adds to.
Serialised(x) ==
  /\ x.pc = "write" => /\ x.time = clock /\ x.prev = NewestTime(events)
                       /\ \A e \in events : e.time < clock
  /\ (x.pc = "anchor" \/ (x.pc = "write" /\ x.kind = "SNAPSHOT_CREATED"))
        /\ x.commit # NoCommit
       => Known(x.upto) /\ x.state = StateUpTo(x.upto)

\* What a process relies on until its next step.
ActorFits(x) ==
  /\ x.time <= clock /\ (x.pc = "write" => x.time > 0)
  /\ x.pc = "write" /\ x.kind = "DELIVERY_COMPLETED" => x.token = 0
  /\ Indexing(x) \/ x.pc \in {"claiming", "finish"} => x.commit \in Commits
  /\ Queueing(x) => /\ x.pc = "write" /\ x.commit \in Commits
                    /\ queue[x.commit].state = "NONE"
  /\ x.pc = "claiming" => x.attempt < MaxAttempts /\ queue[x.commit].state # "NONE"
  /\ x.pc = "recover" => \A c \in x.seen : queue[c].state # "NONE"
  /\ Shooting(x) /\ x.token > 0 => x.commit \in Commits /\ Indexed(x.commit) # {}
  /\ x.pc = "finish" => Indexed(x.commit) # {} /\ (Undisturbed => Snapped(x.commit))
  /\ doubled = "no" /\ Creating(x) => Indexed(x.commit) = {}
  /\ Undisturbed /\ x.pc = "look" => Indexed(x.commit) = {} \/ Snapped(x.commit)
  /\ database = "postgresql" => Serialised(x)

\* Two processes at once.
Apart(x, y) ==
  /\ database = "postgresql" => ~ (x.pc = "write" /\ y.pc = "write")
  /\ Queueing(x) /\ Queueing(y) => x.commit # y.commit
  /\ doubled = "no" /\ Indexing(x) /\ Indexing(y) => x.commit # y.commit

\* A completed job left its index.
JobFits(c) ==
  /\ queue[c].state = "QUEUED" => queue[c].attempt < MaxAttempts
  /\ queue[c].state = "NONE" => queue[c].attempt = 0
  /\ queue[c].state = "COMPLETED" => Indexed(c) # {} /\ (Undisturbed => Snapped(c))

\* An indexed commit has its snapshot, or a process that is about to take it.
CommitFits(c) ==
  /\ doubled = "no" => \A e, f \in Indexed(c) : e = f
  /\ Undisturbed /\ Indexed(c) # {} =>
       \/ Snapped(c)
       \/ \E p \in Processes : Shooting(actor[p]) /\ actor[p].commit = c

\* Every process, job, commit, event and snapshot.
ActorsFit == \A p \in Processes : ActorFits(actor[p])
ActorsApart == \A p, q \in Processes : p # q => Apart(actor[p], actor[q])
JobsFit == \A c \in Commits : JobFits(c)
CommitsFit == \A c \in Commits : CommitFits(c)
EventsTimed == \A e \in events : e.time <= clock
SnapshotsKnown == database = "postgresql" =>
                    \A s \in snapshots : s.commit # NoCommit => Known(s.upto)
CogTypes == CogTypeOK /\ cogCrashes \in Nat /\ doubled \in {"yes", "no"}

\* The inductive invariant of the history.
CogInv == /\ CogTypes /\ ActorsFit /\ ActorsApart /\ JobsFit /\ CommitsFit
          /\ EventsTimed /\ OneChain /\ SnapshotsAreComplete /\ SnapshotsKnown

\* The newest time of some events is the time of one of them.
LEMMA NewestIs ==
  ASSUME EventsTimed, CogTypes, NEW rows \in SUBSET events
  PROVE  NewestTime(rows) \in Nat /\ Known(NewestTime(rows))
<1>1. CASE rows = {}
  BY <1>1 DEF NewestTime, Known
<1>2. CASE rows # {}
  <2> DEFINE T == {r.time : r \in rows}
             top == CHOOSE r \in rows : \A q \in rows : q.time <= r.time
  <2>1. clock \in Nat /\ \A r \in rows : r.time \in 0 .. clock
    BY DEF EventsTimed, CogTypes, CogTypeOK, CogEvent, Times
  <2>2. T \in SUBSET (0 .. clock) /\ T # {}
    BY <1>2, <2>1
  <2>3. PICK t \in T : \A u \in T : u <= t
    BY <2>1, <2>2, GreatestExists
  <2>4. \E r \in rows : \A q \in rows : q.time <= r.time
    BY <2>3
  <2>5. top \in rows
    BY <2>4
  <2>6. NewestTime(rows) = top.time
    BY <1>2 DEF NewestTime
  <2> HIDE DEF top, T
  <2> QED
    BY <2>1, <2>5, <2>6 DEF Known
<1> QED
  BY <1>1, <1>2

\* A process at rest.
LEMMA AtRestIs ==
  /\ AtRest \in Actor /\ AtRest.pc = "idle" /\ AtRest.kind = "COMMIT_CREATED"
  /\ AtRest.time = 0 /\ AtRest.token = 0 /\ AtRest.commit = NoCommit
  BY DEF AtRest, Actor, Kinds, CommitsOrNone, Times

\* What depends on events, relations and snapshots only.
LEMMA IndexedKept ==
  ASSUME UNCHANGED <<events, relations, snapshots>>
  PROVE  /\ \A c : Indexed(c)' = Indexed(c) /\ (Snapped(c)' <=> Snapped(c))
         /\ \A t : StateUpTo(t)' = StateUpTo(t) /\ (Known(t)' <=> Known(t))
         /\ NewestTime(events)' = NewestTime(events)
  BY DEF Indexed, Snapped, StateUpTo, Known, NewestTime

\* A step that adds nothing to the history is left to show of the process that takes it.
LEMMA ActorStep ==
  ASSUME CogInv, NEW p \in Processes,
         actor' = [actor EXCEPT ![p] = actor'[p]], actor'[p] \in Actor,
         UNCHANGED <<database, events, relations, snapshots>>,
         tokens' \in Nat, cogCrashes' \in Nat, doubled' \in {"yes", "no"},
         cogCrashes' = 0 => cogCrashes = 0, doubled' = "no" => doubled = "no",
         clock' = clock \/ (clock' = clock + 1 /\ Unlocked),
         queue' \in [Commits -> CommitJob], JobsFit',
         \A c \in Commits : queue'[c].state = "NONE" <=> queue[c].state = "NONE",
         ActorFits(actor[p])', \A q \in Processes : q # p => Apart(actor[p], actor[q])',
         Shooting(actor[p]) /\ cogCrashes' = 0
           => Shooting(actor'[p]) /\ actor'[p].commit = actor[p].commit
  PROVE  CogInv'
<1> USE DEF CogInv
<1>0. /\ actor \in [Processes -> Actor] /\ clock \in Nat /\ clock' \in Nat /\ clock' >= clock
      /\ \A q \in Processes : q # p => actor'[q] = actor[q]
  BY DEF CogTypes, CogTypeOK, Times
<1>1. CogTypes'
  BY <1>0 DEF CogTypes, CogTypeOK, Times
<1>2. Undisturbed' => Undisturbed
  BY DEF Undisturbed
<1>3. ActorsFit'
  <2> SUFFICES ASSUME NEW q \in Processes, q # p PROVE ActorFits(actor[q])'
    BY DEF ActorsFit
  <2>0. ActorFits(actor[q]) /\ actor'[q] = actor[q] /\ actor[q] \in Actor
    BY <1>0 DEF ActorsFit
  <2>1. /\ actor[q].time \in Nat /\ actor[q].seen \subseteq Commits
    BY <2>0 DEF Actor, Times
  <2>2. actor[q].time <= clock'
    BY <1>0, <2>0, <2>1 DEF ActorFits
  <2>3. database = "postgresql" => Serialised(actor[q])'
    BY <1>0, <2>0, IndexedKept DEF ActorFits, Serialised, Unlocked
  <2> QED
    BY <1>2, <2>0, <2>1, <2>2, <2>3, IndexedKept DEF ActorFits, Shooting, Creating, Indexing, Queueing
<1>4. ActorsApart'
  <2> SUFFICES ASSUME NEW q \in Processes, NEW r \in Processes, q # r
               PROVE  Apart(actor[q], actor[r])'
    BY DEF ActorsApart
  <2>1. CASE q # p /\ r # p
    BY <1>0, <2>1 DEF ActorsApart, Apart, Queueing, Indexing, Creating
  <2>2. CASE q = p
    BY <2>2
  <2>3. CASE r = p
    <3>1. Apart(actor[r], actor[q])'
      BY <2>3
    <3> QED
      BY <3>1 DEF Apart
  <2> QED
    BY <2>1, <2>2, <2>3
<1>5. CommitsFit'
  <2> SUFFICES ASSUME NEW c \in Commits PROVE CommitFits(c)'
    BY DEF CommitsFit
  <2>1. CommitFits(c)
    BY DEF CommitsFit
  <2>2. ASSUME Undisturbed',
               \E q \in Processes : Shooting(actor[q]) /\ actor[q].commit = c
        PROVE  \E q \in Processes : Shooting(actor[q])' /\ actor'[q].commit = c
    <3>1. PICK q \in Processes : Shooting(actor[q]) /\ actor[q].commit = c
      BY <2>2
    <3>2. CASE q = p
      BY <2>2, <3>1, <3>2 DEF Undisturbed, Shooting
    <3>3. CASE q # p
      BY <1>0, <3>1, <3>3 DEF Shooting
    <3> QED
      BY <3>2, <3>3
  <2> QED
    BY <1>2, <2>1, <2>2, IndexedKept DEF CommitFits
<1>6. EventsTimed'
  BY <1>0 DEF EventsTimed, CogTypes, CogTypeOK, CogEvent, Times
<1>7. OneChain' /\ SnapshotsAreComplete' /\ SnapshotsKnown'
  BY IndexedKept DEF OneChain, SnapshotsAreComplete, SnapshotsKnown, NewestTime
<1> QED
  BY <1>1, <1>3, <1>4, <1>5, <1>6, <1>7

\* A writer draws its time under the lock.
LEMMA WriteStep ==
  ASSUME CogInv, NEW p \in Processes, NEW kind \in Kinds, NEW y \in Actor,
         Write(p, kind, y), UNCHANGED <<Rest, History, queue, tokens, doubled>>,
         Shooting(actor[p]) => kind = "SNAPSHOT_CREATED",
         kind = "SNAPSHOT_CREATED" => y = actor[p] /\ actor[p].pc = "anchor",
         kind = "COMMIT_CREATED" => y = actor[p] /\ actor[p].pc = "ingest",
         kind = "DELIVERY_COMPLETED" => y.token = 0,
         kind = "COMMIT_ANALYSIS_QUEUED" =>
           /\ y.commit \in Commits /\ queue[y.commit].state = "NONE"
           /\ \A q \in Processes : ~ (Queueing(actor[q]) /\ actor[q].commit = y.commit)
  PROVE  CogInv'
<1> USE DEF CogInv
<1> DEFINE z == [y EXCEPT !.kind = kind]
           t == clock + 1
           n == NewestTime(events)
           x == [z EXCEPT !.pc = "write", !.time = t, !.prev = n]
<1>0. /\ clock \in Nat /\ actor \in [Processes -> Actor] /\ NewestTime(events) \in Nat
      /\ ActorFits(actor[p]) /\ \A e \in events : e.time \in Nat /\ e.time <= clock
  BY NewestIs DEF CogTypes, CogTypeOK, Times, ActorsFit, CogEvent, EventsTimed
<1>1. z \in Actor /\ z.kind = kind /\ z.commit = y.commit /\ z.token = y.token
      /\ z.upto = y.upto /\ z.state = y.state
  BY DEF Actor
<1> HIDE DEF z
<1>2. /\ x \in Actor /\ x.pc = "write" /\ x.kind = kind /\ x.commit = y.commit
      /\ x.time = clock + 1 /\ x.prev = NewestTime(events) /\ x.token = y.token
      /\ x.upto = y.upto /\ x.state = y.state
  <2>1. t \in Nat /\ n \in Nat
    BY <1>0
  <2> HIDE DEF t, n
  <2>2. /\ x \in Actor /\ x.pc = "write" /\ x.kind = z.kind /\ x.commit = z.commit
        /\ x.time = t /\ x.prev = n /\ x.token = z.token
        /\ x.upto = z.upto /\ x.state = z.state
    BY <1>1, <2>1 DEF Actor, Times
  <2> HIDE DEF x
  <2> QED
    BY <1>1, <2>2 DEF t, n
<1>3. /\ Unlocked /\ clock' = clock + 1 /\ actor' = [actor EXCEPT ![p] = x]
      /\ UNCHANGED <<database, cogCrashes, events, relations, snapshots, queue, tokens, doubled>>
  BY DEF Write, Becomes, Stamped, z, Rest, History
<1> HIDE DEF x
<1>4. actor'[p] = x /\ \A q \in Processes : q # p => actor'[q] = actor[q]
  BY <1>0, <1>3
<1>5. Undisturbed' <=> Undisturbed
  BY <1>3 DEF Undisturbed
<1>6. ActorFits(actor[p])'
  <2>1. database = "postgresql" => Serialised(actor[p])'
    <3>1. kind = "SNAPSHOT_CREATED" /\ database = "postgresql" /\ x.commit # NoCommit
            => Known(x.upto) /\ x.state = StateUpTo(x.upto)
      BY <1>0, <1>2 DEF ActorFits, Serialised
    <3> QED
      BY <1>0, <1>2, <1>3, <1>4, <3>1, IndexedKept DEF Serialised
  <2>2. Creating(x) => kind = "COMMIT_CREATED" /\ Creating(actor[p]) /\ x.commit = actor[p].commit
    BY <1>2 DEF Creating
  <2>3. Shooting(x) => Shooting(actor[p]) /\ x.commit = actor[p].commit /\ x.token = actor[p].token
    BY <1>2 DEF Shooting
  <2>4. Queueing(x) => /\ x.commit \in Commits /\ queue[x.commit].state = "NONE"
    BY <1>2 DEF Queueing
  <2>5. /\ Indexing(x) => x.commit \in Commits
        /\ doubled = "no" /\ Creating(x) => Indexed(x.commit) = {}
        /\ Shooting(x) /\ x.token > 0 => x.commit \in Commits /\ Indexed(x.commit) # {}
    BY <1>0, <1>2, <2>2, <2>3 DEF ActorFits, Indexing
  <2>6. x.time <= clock' /\ x.time > 0
    BY <1>0, <1>2, <1>3
  <2> QED
    BY <1>2, <1>3, <1>4, <2>1, <2>4, <2>5, <2>6, IndexedKept
       DEF ActorFits, Shooting, Creating, Indexing, Queueing
<1>7. ASSUME NEW q \in Processes, q # p PROVE Apart(actor[p], actor[q])'
  <2>1. Apart(actor[p], actor[q])
    BY <1>7 DEF ActorsApart
  <2>2. Indexing(x) => Indexing(actor[p]) /\ x.commit = actor[p].commit
    BY <1>2 DEF Indexing, Creating
  <2>3. database = "postgresql" => actor[q].pc # "write"
    BY <1>3 DEF Unlocked
  <2>4. Queueing(x) /\ Queueing(actor[q]) => x.commit # actor[q].commit
    BY <1>2 DEF Queueing
  <2> QED
    BY <1>3, <1>4, <1>7, <2>1, <2>2, <2>3, <2>4 DEF Apart, Queueing, Indexing, Creating
<1>8. Shooting(actor[p]) => Shooting(actor'[p]) /\ actor'[p].commit = actor[p].commit
  BY <1>2, <1>4 DEF Shooting
<1>9. /\ JobsFit' /\ queue' \in [Commits -> CommitJob] /\ tokens' \in Nat /\ cogCrashes' \in Nat
      /\ doubled' \in {"yes", "no"}
  BY <1>3, <1>5, IndexedKept DEF JobsFit, JobFits, CogTypes, CogTypeOK
<1> QED
  BY <1>2, <1>3, <1>4, <1>6, <1>7, <1>8, <1>9, ActorStep

\* The requests that record an event.
LEMMA RecordingSteps ==
  ASSUME CogInv, NEW p \in Processes,
         \/ AddRelation(p) \/ Handoff(p) \/ ReconstructContext(p) \/ RecordDelivery(p)
         \/ AnchorSnapshot(p) \/ LinkDelivery(p) \/ Ingest(p)
         \/ \E c \in Commits : Submit(p, c)
  PROVE  CogInv'
<1>0. actor[p] \in Actor
  BY DEF CogInv, CogTypes, CogTypeOK
<1> USE DEF Shooting
<1>1. CASE AddRelation(p)
  BY <1>1, AtRestIs, WriteStep DEF AddRelation, RecordOne, Kinds
<1>2. CASE Handoff(p)
  BY <1>2, AtRestIs, WriteStep DEF Handoff, RecordOne, Kinds
<1>3. CASE ReconstructContext(p)
  BY <1>3, AtRestIs, WriteStep DEF ReconstructContext, RecordOne, Kinds
<1>4. CASE RecordDelivery(p)
  <2> DEFINE y == [AtRest EXCEPT !.seen = Commits]
  <2>1. y \in Actor /\ y.token = 0
    BY AtRestIs DEF Actor
  <2>2. /\ Write(p, "DELIVERY_COMPLETED", y) /\ actor[p].pc = "idle"
        /\ UNCHANGED <<Rest, History, queue, tokens, doubled>>
    BY <1>4 DEF RecordDelivery
  <2> HIDE DEF y
  <2> QED
    BY <2>1, <2>2, WriteStep DEF Kinds
<1>5. CASE AnchorSnapshot(p)
  BY <1>0, <1>5, WriteStep DEF AnchorSnapshot, Kinds
<1>6. CASE LinkDelivery(p)
  BY <1>6, AtRestIs, WriteStep DEF LinkDelivery, Kinds
<1>7. CASE Ingest(p)
  BY <1>0, <1>7, WriteStep DEF Ingest, Kinds
<1>8. ASSUME NEW c \in Commits, Submit(p, c) PROVE CogInv'
  <2> DEFINE y == [AtRest EXCEPT !.commit = c]
  <2>1. y \in Actor /\ y.commit = c
    BY AtRestIs DEF Actor, CommitsOrNone
  <2>2. /\ Write(p, "COMMIT_ANALYSIS_QUEUED", y) /\ actor[p].pc = "idle"
        /\ UNCHANGED <<Rest, History, queue, tokens, doubled>> /\ queue[c].state = "NONE"
        /\ \A q \in Processes : ~ (Queueing(actor[q]) /\ actor[q].commit = c)
    BY <1>8 DEF Submit, Queueing
  <2> HIDE DEF y
  <2> QED
    BY <2>1, <2>2, WriteStep DEF Kinds
<1> QED
  BY <1>1, <1>2, <1>3, <1>4, <1>5, <1>6, <1>7, <1>8

\* A step of one process that leaves the history alone.
LEMMA LocalStep ==
  ASSUME CogInv, NEW p \in Processes, NEW x \in Actor,
         actor' = [actor EXCEPT ![p] = x], UNCHANGED <<database, History, clock>>,
         tokens' \in Nat, cogCrashes' \in Nat, doubled' \in {"yes", "no"},
         cogCrashes' = 0 => cogCrashes = 0, doubled' = "no" => doubled = "no",
         queue' \in [Commits -> CommitJob],
         \A c \in Commits :
           /\ queue'[c].state = "NONE" <=> queue[c].state = "NONE"
           /\ queue'[c].state = "QUEUED" => queue'[c].attempt < MaxAttempts
           /\ queue'[c].state = "NONE" => queue'[c].attempt = 0
           /\ queue'[c].state = "COMPLETED" =>
                \/ queue[c].state = "COMPLETED"
                \/ Indexed(c) # {} /\ (Undisturbed => Snapped(c)),
         x.pc # "write", x.kind # "COMMIT_ANALYSIS_QUEUED", x.time <= clock,
         x.pc \in {"look", "ingest", "claiming", "finish"} => x.commit \in Commits,
         x.pc = "claiming" => x.attempt < MaxAttempts /\ queue[x.commit].state # "NONE",
         x.pc = "recover" => \A c \in x.seen : queue[c].state # "NONE",
         x.pc \in {"snapshot", "anchor"} /\ x.token > 0 =>
           x.commit \in Commits /\ Indexed(x.commit) # {},
         x.pc = "finish" => Indexed(x.commit) # {} /\ (Undisturbed => Snapped(x.commit)),
         doubled = "no" /\ x.pc = "ingest" => Indexed(x.commit) = {},
         Undisturbed' /\ x.pc = "look" => Indexed(x.commit) = {} \/ Snapped(x.commit),
         database = "postgresql" /\ x.pc = "anchor" /\ x.commit # NoCommit
           => Known(x.upto) /\ x.state = StateUpTo(x.upto),
         doubled' = "no" /\ x.pc \in {"look", "ingest"} =>
           \A q \in Processes \ {p} : Indexing(actor[q]) => actor[q].commit # x.commit,
         Shooting(actor[p]) /\ cogCrashes' = 0
           => x.pc \in {"snapshot", "anchor"} /\ x.commit = actor[p].commit
  PROVE  CogInv'
<1> USE DEF CogInv
<1>0. /\ actor \in [Processes -> Actor] /\ actor'[p] = x
      /\ \A q \in Processes : q # p => actor'[q] = actor[q]
      /\ UNCHANGED <<database, events, relations, snapshots>>
  BY DEF CogTypes, CogTypeOK, History
<1>1. Undisturbed' => Undisturbed
  BY DEF Undisturbed
<1>2. x.seen \subseteq Commits
  BY DEF Actor
<1>3. ActorFits(actor[p])'
  <2>1. database = "postgresql" => Serialised(actor[p])'
    BY <1>0, IndexedKept DEF Serialised
  <2> QED
    BY <1>0, <1>1, <1>2, <2>1, IndexedKept
       DEF ActorFits, Shooting, Creating, Indexing, Queueing
<1>4. \A q \in Processes : q # p => Apart(actor[p], actor[q])'
  BY <1>0 DEF Apart, Queueing, Indexing, Creating
<1>5. JobsFit'
  BY <1>0, <1>1, IndexedKept DEF JobsFit, JobFits
<1>6. Shooting(actor[p]) /\ cogCrashes' = 0
        => Shooting(actor'[p]) /\ actor'[p].commit = actor[p].commit
  BY <1>0 DEF Shooting
<1>7. actor' = [actor EXCEPT ![p] = actor'[p]] /\ actor'[p] \in Actor
  BY <1>0
<1> QED
  BY <1>0, <1>3, <1>4, <1>5, <1>6, <1>7, ActorStep

\* What is known when an ingestion of c begins and none was under way.

\* An ingestion that begins where none is under way finds the commit unindexed or
\* with its snapshot.
LEMMA BeginIngest ==
  ASSUME CogInv, NEW c \in Commits, Ingesting(c) = {}
  PROVE  /\ \A q \in Processes : Indexing(actor[q]) => actor[q].commit # c
         /\ Undisturbed => Indexed(c) = {} \/ Snapped(c)
<1>1. \A q \in Processes : Indexing(actor[q]) \/ Shooting(actor[q]) => actor[q].commit # c
  BY DEF Ingesting, Indexing, Creating, Shooting
<1> QED
  BY <1>1 DEF CogInv, CommitsFit, CommitFits

\* The types of queue and processes.
LEMMA QueueKept ==
  ASSUME CogInv
  PROVE  /\ queue \in [Commits -> CommitJob] /\ tokens \in Nat /\ cogCrashes \in Nat
         /\ doubled \in {"yes", "no"} /\ clock \in Nat /\ actor \in [Processes -> Actor]
         /\ \A c \in Commits : /\ queue[c].state = "QUEUED" => queue[c].attempt < MaxAttempts
                               /\ queue[c].state = "NONE" => queue[c].attempt = 0
                               /\ queue[c] \in CommitJob /\ queue[c].attempt \in Nat
         /\ \A p \in Processes : actor[p] \in Actor /\ ActorFits(actor[p])
  BY CogAssumption DEF CogInv, CogTypes, CogTypeOK, JobsFit, JobFits, Times, ActorsFit, CommitJob

\* A process at rest has drawn no time.
LEMMA AtRestTimed ==
  ASSUME CogInv
  PROVE  AtRest.time <= clock
  BY AtRestIs, QueueKept

\* A process ends.
LEMMA RestStep ==
  ASSUME CogInv, NEW p \in Processes, Becomes(p, AtRest), UNCHANGED <<database, History, clock>>,
         UNCHANGED <<queue, tokens, doubled>>, cogCrashes' \in Nat,
         cogCrashes' = cogCrashes => ~ Shooting(actor[p]),
         cogCrashes' = cogCrashes \/ cogCrashes' = cogCrashes + 1
  PROVE  CogInv'
<1>1. cogCrashes' = 0 => cogCrashes = 0 /\ cogCrashes' = cogCrashes
  BY QueueKept
<1>2. AtRest \in Actor /\ AtRest.pc = "idle" /\ AtRest.kind = "COMMIT_CREATED" /\ AtRest.time <= clock
  BY AtRestIs, QueueKept
<1>3. actor' = [actor EXCEPT ![p] = AtRest]
  BY DEF Becomes
<1> QED
  BY <1>1, <1>2, <1>3, QueueKept, LocalStep

\* A process dies.
LEMMA DieStep ==
  ASSUME CogInv, NEW p \in Processes, Die(p)
  PROVE  CogInv'
<1>1. cogCrashes \in Nat
  BY QueueKept
<1>2. cogCrashes' = cogCrashes + 1 /\ cogCrashes' \in Nat /\ cogCrashes' # cogCrashes
  BY <1>1 DEF Die
<1> QED
  BY <1>2, RestStep DEF Die

\* A step that changes nothing but its process.
LEMMA NothingStep ==
  ASSUME CogInv, NEW p \in Processes, NothingToClaim(p)
  PROVE  CogInv'
<1>1. cogCrashes \in Nat /\ UNCHANGED cogCrashes /\ ~ Shooting(actor[p])
      /\ UNCHANGED <<database, History, clock>> /\ UNCHANGED <<queue, tokens, doubled>>
  BY QueueKept DEF NothingToClaim, Rest, Shooting
<1> QED
  BY <1>1, RestStep DEF NothingToClaim

\* Requests and reads that leave the queue alone.
LEMMA RequestSteps ==
  ASSUME CogInv, NEW p \in Processes,
         \/ \E c \in Commits : RequestSnapshot(p, c) \/ ClaimRead(p, c)
         \/ RecoverRead(p)
  PROVE  CogInv'
<1> USE DEF Shooting, Becomes
<1>1. ASSUME NEW c \in Commits, RequestSnapshot(p, c) PROVE CogInv'
  <2> DEFINE x == [AtRest EXCEPT !.pc = "snapshot", !.commit = c]
  <2>1. /\ x \in Actor /\ x.pc = "snapshot" /\ x.kind = "COMMIT_CREATED" /\ x.time <= clock
        /\ x.token = 0
    BY AtRestIs, AtRestTimed DEF Actor, CommitsOrNone
  <2>2. /\ actor' = [actor EXCEPT ![p] = x] /\ actor[p].pc = "idle"
        /\ UNCHANGED <<database, History, clock>> /\ UNCHANGED <<queue, tokens, doubled, cogCrashes>>
    BY <1>1 DEF RequestSnapshot, Rest
  <2> HIDE DEF x
  <2>3. ~ (x.token > 0) /\ ~ Shooting(actor[p])
    BY <2>1, <2>2
  <2> QED
    BY <2>1, <2>2, <2>3, QueueKept, LocalStep
<1>2. ASSUME NEW c \in Commits, ClaimRead(p, c) PROVE CogInv'
  <2> DEFINE n == queue[c].attempt
             x == [AtRest EXCEPT !.pc = "claiming", !.commit = c, !.attempt = n]
  <2>0. n \in Nat /\ n < MaxAttempts /\ queue[c].state # "NONE"
    BY <1>2, QueueKept DEF ClaimRead
  <2>1. /\ actor' = [actor EXCEPT ![p] = x] /\ actor[p].pc = "claim"
        /\ UNCHANGED <<database, History, clock>> /\ UNCHANGED <<queue, tokens, doubled, cogCrashes>>
    BY <1>2 DEF ClaimRead, Rest
  <2> HIDE DEF n
  <2>2. /\ x \in Actor /\ x.pc = "claiming" /\ x.kind = "COMMIT_CREATED" /\ x.time <= clock
        /\ x.token = 0 /\ x.commit = c /\ x.attempt = n
    BY <2>0, AtRestIs, AtRestTimed DEF Actor, CommitsOrNone
  <2> HIDE DEF x
  <2> QED
    BY <2>0, <2>1, <2>2, QueueKept, LocalStep
<1>3. CASE RecoverRead(p)
  <2> DEFINE late == {c \in Commits : queue[c].state = "RUNNING" /\ queue[c].lease = "expired"}
             pc == IF late = {} THEN "claim" ELSE "recover"
             x == [AtRest EXCEPT !.pc = pc, !.seen = late]
  <2>0. pc \in {"claim", "recover"} /\ late \subseteq Commits
        /\ \A c \in late : queue[c].state # "NONE"
    OBVIOUS
  <2>1. /\ actor' = [actor EXCEPT ![p] = x] /\ actor[p].pc = "idle"
        /\ UNCHANGED <<database, History, clock>> /\ UNCHANGED <<queue, tokens, doubled, cogCrashes>>
    BY <1>3 DEF RecoverRead, Rest
  <2> HIDE DEF late, pc
  <2>2. x \in Actor /\ x.pc = pc /\ x.kind = "COMMIT_CREATED" /\ x.time <= clock /\ x.seen = late
    BY <2>0, AtRestIs, AtRestTimed DEF Actor
  <2> HIDE DEF x
  <2> QED
    BY <2>0, <2>1, <2>2, QueueKept, LocalStep
<1> QED
  BY <1>1, <1>2, <1>3

\* Claiming a job and beginning to ingest it.
LEMMA IngestSteps ==
  ASSUME CogInv, NEW p \in Processes,
         \/ \E c \in Commits : RequestIngest(p, c) \/ ClaimCommit(p, c)
         \/ ClaimLate(p)
  PROVE  CogInv'
<1>1. PICK c \in Commits, n \in Nat :
        /\ Becomes(p, [AtRest EXCEPT !.pc = "look", !.commit = c, !.token = n])
        /\ doubled' = IF Ingesting(c) # {} THEN "yes" ELSE doubled
        /\ UNCHANGED <<Rest, History, clock>> /\ tokens' \in Nat
        /\ queue' \in [Commits -> CommitJob]
        /\ \A d \in Commits :
             \/ queue'[d] = queue[d]
             \/ d = c /\ queue[c].state # "NONE" /\ queue'[c].state = "RUNNING"
        /\ ~ Shooting(actor[p])
  <2>1. ASSUME NEW c \in Commits, RequestIngest(p, c)
        PROVE  /\ Becomes(p, [AtRest EXCEPT !.pc = "look", !.commit = c, !.token = 0])
               /\ doubled' = IF Ingesting(c) # {} THEN "yes" ELSE doubled
               /\ UNCHANGED <<Rest, History, clock>> /\ tokens' \in Nat /\ UNCHANGED queue
               /\ queue \in [Commits -> CommitJob] /\ ~ Shooting(actor[p])
    <3>1. [AtRest EXCEPT !.pc = "look", !.commit = c, !.token = 0]
            = [AtRest EXCEPT !.pc = "look", !.commit = c]
      BY AtRestIs DEF Actor
    <3> QED
      BY <2>1, <3>1, QueueKept DEF RequestIngest, Shooting
  <2>2. ASSUME NEW c \in Commits, NEW a \in Nat, a < MaxAttempts, NEW t \in Nat,
               queue' = [queue EXCEPT ![c] = [state |-> "RUNNING", attempt |-> a + 1,
                                              token |-> t, lease |-> "live"]]
        PROVE  /\ queue' \in [Commits -> CommitJob]
               /\ queue'[c].state = "RUNNING" /\ \A d \in Commits : d # c => queue'[d] = queue[d]
    <3>1. a + 1 \in 0 .. MaxAttempts
      BY <2>2, CogAssumption
    <3>2. [state |-> "RUNNING", attempt |-> a + 1, token |-> t, lease |-> "live"] \in CommitJob
      BY <3>1 DEF CommitJob
    <3> QED
      BY <2>2, <3>2, QueueKept
  <2>3. ASSUME NEW c \in Commits, ClaimCommit(p, c)
        PROVE  /\ Becomes(p, [AtRest EXCEPT !.pc = "look", !.commit = c, !.token = tokens'])
               /\ doubled' = IF Ingesting(c) # {} THEN "yes" ELSE doubled
               /\ UNCHANGED <<Rest, History, clock>> /\ tokens' \in Nat /\ queue[c].state # "NONE"
               /\ queue' \in [Commits -> CommitJob] /\ ~ Shooting(actor[p])
               /\ queue'[c].state = "RUNNING" /\ \A d \in Commits : d # c => queue'[d] = queue[d]
    <3>1. /\ queue[c].attempt \in Nat /\ queue[c].attempt < MaxAttempts /\ tokens' \in Nat
          /\ queue' = [queue EXCEPT ![c] = [state |-> "RUNNING", attempt |-> queue[c].attempt + 1,
                                            token |-> tokens', lease |-> "live"]]
          /\ queue[c].state = "QUEUED" /\ actor[p].pc = "claim"
      <4>1. queue[c].state = "QUEUED" /\ actor[p].pc = "claim" /\ tokens' = tokens + 1
        BY <2>3 DEF ClaimCommit
      <4>2. queue[c].attempt \in Nat /\ queue[c].attempt < MaxAttempts /\ tokens' \in Nat
        BY <4>1, QueueKept
      <4>3. queue' = [queue EXCEPT ![c] = [state |-> "RUNNING", attempt |-> queue[c].attempt + 1,
                                           token |-> tokens', lease |-> "live"]]
        BY <2>3 DEF ClaimCommit
      <4> QED
        BY <4>1, <4>2, <4>3
    <3>2. /\ queue' \in [Commits -> CommitJob]
          /\ queue'[c].state = "RUNNING" /\ \A d \in Commits : d # c => queue'[d] = queue[d]
      BY <2>2, <3>1
    <3> QED
      BY <2>3, <3>1, <3>2 DEF ClaimCommit, Shooting
  <2>4. ASSUME ClaimLate(p)
        PROVE  LET c == actor[p].commit IN
               /\ c \in Commits
               /\ Becomes(p, [AtRest EXCEPT !.pc = "look", !.commit = c, !.token = tokens'])
               /\ doubled' = IF Ingesting(c) # {} THEN "yes" ELSE doubled
               /\ UNCHANGED <<Rest, History, clock>> /\ tokens' \in Nat /\ queue[c].state # "NONE"
               /\ queue' \in [Commits -> CommitJob] /\ ~ Shooting(actor[p])
               /\ queue'[c].state = "RUNNING" /\ \A d \in Commits : d # c => queue'[d] = queue[d]
    <3> DEFINE c == actor[p].commit
    <3>1. /\ actor[p].attempt \in Nat /\ tokens' \in Nat /\ actor[p].pc = "claiming"
          /\ queue' = [queue EXCEPT ![c] = [state |-> "RUNNING", attempt |-> actor[p].attempt + 1,
                                            token |-> tokens', lease |-> "live"]]
      BY <2>4, QueueKept DEF ClaimLate, Actor
    <3>2. c \in Commits /\ actor[p].attempt < MaxAttempts /\ queue[c].state # "NONE"
      BY <3>1, QueueKept DEF ActorFits
    <3>3. /\ queue' \in [Commits -> CommitJob]
          /\ queue'[c].state = "RUNNING" /\ \A d \in Commits : d # c => queue'[d] = queue[d]
      BY <2>2, <3>1, <3>2
    <3> QED
      BY <2>4, <3>1, <3>2, <3>3 DEF ClaimLate, Shooting
  <2>5. CASE \E c \in Commits : RequestIngest(p, c)
    BY <2>1, <2>5
  <2>6. CASE \E c \in Commits : ClaimCommit(p, c)
    BY <2>3, <2>6
  <2>7. CASE ClaimLate(p)
    BY <2>4, <2>7
  <2> QED
    BY <2>5, <2>6, <2>7
<1> DEFINE x == [AtRest EXCEPT !.pc = "look", !.commit = c, !.token = n]
<1>2. /\ x \in Actor /\ x.pc = "look" /\ x.kind = "COMMIT_CREATED" /\ x.time <= clock
      /\ x.commit = c
  BY AtRestIs, AtRestTimed DEF Actor, CommitsOrNone
<1>3. /\ actor' = [actor EXCEPT ![p] = x] /\ UNCHANGED <<database, History, clock>>
      /\ UNCHANGED cogCrashes
  BY <1>1 DEF Becomes, Rest
<1> HIDE DEF x
<1>4. doubled' \in {"yes", "no"} /\ (doubled' = "no" => doubled = "no" /\ Ingesting(c) = {})
  BY <1>1, QueueKept
<1>5. /\ doubled' = "no" => \A q \in Processes : Indexing(actor[q]) => actor[q].commit # c
      /\ Undisturbed' => Indexed(c) = {} \/ Snapped(c)
  BY <1>3, <1>4, BeginIngest DEF Undisturbed
<1>6. \A d \in Commits :
        /\ queue'[d].state = "NONE" <=> queue[d].state = "NONE"
        /\ queue'[d].state = "QUEUED" => queue'[d].attempt < MaxAttempts
        /\ queue'[d].state = "NONE" => queue'[d].attempt = 0
        /\ queue'[d].state = "COMPLETED" => queue[d].state = "COMPLETED"
  BY <1>1, QueueKept
<1> QED
  BY <1>1, <1>2, <1>3, <1>4, <1>5, <1>6, QueueKept, LocalStep

\* The look for an index the commit already has.
LEMMA LookStep ==
  ASSUME CogInv, NEW p \in Processes, Look(p)
  PROVE  CogInv'
<1> DEFINE y == actor[p]
           at(pc) == [y EXCEPT !.pc = pc]
<1>0. y \in Actor /\ ActorFits(y) /\ y.pc = "look" /\ y.commit \in Commits /\ ~ Shooting(y)
      /\ y.kind # "COMMIT_ANALYSIS_QUEUED"
  BY QueueKept DEF ActorFits, Look, Indexing, Shooting, Queueing
<1>1. \A pc \in {"ingest", "finish"} :
        /\ at(pc) \in Actor /\ at(pc).pc = pc /\ at(pc).kind = y.kind /\ at(pc).time = y.time
        /\ at(pc).commit = y.commit
  BY <1>0 DEF Actor
<1>2. UNCHANGED <<database, History, clock>> /\ UNCHANGED <<queue, tokens, doubled, cogCrashes>>
  BY DEF Look, Rest
<1>3. Indexing(y) /\ y.time <= clock
      /\ (Undisturbed => Indexed(y.commit) = {} \/ Snapped(y.commit))
  BY <1>0 DEF Indexing, ActorFits
<1>4. doubled = "no" => \A q \in Processes \ {p} : Indexing(actor[q]) => actor[q].commit # y.commit
  BY <1>3 DEF CogInv, ActorsApart, Apart
<1>5. CASE Becomes(p, AtRest)
  BY <1>0, <1>2, <1>5, RestStep, QueueKept
<1>6. CASE Indexed(y.commit) = {} /\ ToPc(p, "ingest")
  <2>1. actor' = [actor EXCEPT ![p] = at("ingest")]
    BY <1>6 DEF ToPc, Becomes
  <2> DEFINE x == at("ingest")
  <2> HIDE DEF y, at
  <2>2. /\ x \in Actor /\ x.pc = "ingest" /\ x.kind # "COMMIT_ANALYSIS_QUEUED"
        /\ x.time <= clock /\ x.commit \in Commits /\ Indexed(x.commit) = {}
        /\ doubled = "no" =>
             \A q \in Processes \ {p} : Indexing(actor[q]) => actor[q].commit # x.commit
    BY <1>0, <1>1, <1>3, <1>4, <1>6
  <2>3. ~ Shooting(actor[p])
    BY <1>0 DEF y
  <2> HIDE DEF x
  <2> QED
    BY <1>2, <2>1, <2>2, <2>3, QueueKept, LocalStep DEF x
<1>7. CASE Indexed(y.commit) # {} /\ ToPc(p, "finish")
  <2>1. actor' = [actor EXCEPT ![p] = at("finish")]
    BY <1>7 DEF ToPc, Becomes
  <2> HIDE DEF y, at
  <2> QED
    BY <1>0, <1>1, <1>2, <1>3, <1>4, <1>7, <2>1, QueueKept, LocalStep DEF y
<1> QED
  BY <1>5, <1>6, <1>7 DEF Look

\* The state of a snapshot is computed.
LEMMA CreateSnapshotStep ==
  ASSUME CogInv, NEW p \in Processes, CreateSnapshot(p)
  PROVE  CogInv'
<1> DEFINE y == actor[p]
           t == UpTo(y.commit)
           s == StateUpTo(t)
           x == [y EXCEPT !.pc = "anchor", !.upto = t, !.state = s]
<1>0. y \in Actor /\ ActorFits(y) /\ y.pc = "snapshot"
  BY QueueKept DEF CreateSnapshot
<1>1. y.kind # "COMMIT_ANALYSIS_QUEUED" /\ y.time <= clock
      /\ (y.token > 0 => y.commit \in Commits /\ Indexed(y.commit) # {})
  BY <1>0 DEF ActorFits, Shooting, Queueing
<1>2. t \in Nat /\ (y.commit # NoCommit => Known(t))
  <2>1. Indexed(y.commit) \in SUBSET events
    BY DEF Indexed
  <2>2. NewestTime(Indexed(y.commit)) \in Nat /\ Known(NewestTime(Indexed(y.commit)))
    BY <2>1, NewestIs DEF CogInv
  <2> QED
    BY <2>2, QueueKept DEF UpTo
<1>3. s \in SUBSET Relation
  BY DEF StateUpTo, CogInv, CogTypes, CogTypeOK
<1>4. actor' = [actor EXCEPT ![p] = x]
      /\ UNCHANGED <<database, History, clock>> /\ UNCHANGED <<queue, tokens, doubled, cogCrashes>>
  BY DEF CreateSnapshot, Becomes, Rest
<1> HIDE DEF t, s
<1>5. x \in Actor /\ x.pc = "anchor" /\ x.kind = y.kind /\ x.time = y.time /\ x.token = y.token
      /\ x.commit = y.commit /\ x.upto = t /\ x.state = s
  BY <1>0, <1>2, <1>3 DEF Actor, Times
<1> HIDE DEF x, y
<1>6. x.state = StateUpTo(x.upto)
  BY <1>5 DEF s
<1> QED
  BY <1>1, <1>2, <1>4, <1>5, <1>6, QueueKept, LocalStep DEF y

\* A job that failed is queued again or dead.
LEMMA GivenBackIs ==
  ASSUME NEW job \in CommitJob
  PROVE  /\ GivenBack(job) \in CommitJob /\ GivenBack(job).state \in {"QUEUED", "FAILED"}
         /\ GivenBack(job).attempt = job.attempt
         /\ GivenBack(job).state = "QUEUED" => job.attempt < MaxAttempts
  BY DEF GivenBack, CommitJob

\* Jobs given back by failure or recovery.
LEMMA ReturnSteps ==
  ASSUME CogInv, NEW p \in Processes, RecoverCommit(p) \/ Fail(p)
  PROVE  CogInv'
<1> DEFINE y == actor[p]
<1>0. y \in Actor /\ ActorFits(y) /\ y.seen \subseteq Commits
  BY QueueKept DEF Actor
<1>1. PICK x \in Actor, C \in SUBSET Commits :
        /\ actor' = [actor EXCEPT ![p] = x] /\ x.pc \in {"idle", "claim"}
        /\ x.kind = "COMMIT_CREATED" /\ x.time <= clock /\ ~ Shooting(y)
        /\ queue' = [c \in Commits |-> IF c \in C THEN GivenBack(queue[c]) ELSE queue[c]]
        /\ \A c \in C : queue[c].state # "NONE"
        /\ UNCHANGED <<database, History, clock>> /\ UNCHANGED <<tokens, doubled, cogCrashes>>
  <2>1. CASE RecoverCommit(p)
    <3> DEFINE x == [AtRest EXCEPT !.pc = "claim"]
    <3>1. x \in Actor /\ x.pc = "claim" /\ x.kind = "COMMIT_CREATED" /\ x.time <= clock
      BY AtRestIs, AtRestTimed DEF Actor
    <3>2. /\ actor' = [actor EXCEPT ![p] = x] /\ ~ Shooting(y)
          /\ queue' = [c \in Commits |-> IF c \in y.seen THEN GivenBack(queue[c]) ELSE queue[c]]
          /\ UNCHANGED <<database, History, clock>> /\ UNCHANGED <<tokens, doubled, cogCrashes>>
      BY <2>1 DEF RecoverCommit, Becomes, Rest, Shooting
    <3>3. \A c \in y.seen : queue[c].state # "NONE"
      BY <1>0, <2>1 DEF RecoverCommit, ActorFits
    <3> HIDE DEF x, y
    <3> QED
      BY <1>0, <3>1, <3>2, <3>3
  <2>2. CASE Fail(p)
    <3> DEFINE C == IF Owns(p) THEN {y.commit} ELSE {}
    <3>1. y.commit \in Commits /\ y.pc = "look"
      BY <1>0, <2>2 DEF Fail, ActorFits, Indexing
    <3>2. queue' = [c \in Commits |-> IF c \in C THEN GivenBack(queue[c]) ELSE queue[c]]
      BY <2>2, <3>1, QueueKept DEF Fail
    <3>3. \A c \in C : queue[c].state # "NONE"
      BY DEF Owns
    <3>4. /\ actor' = [actor EXCEPT ![p] = AtRest] /\ ~ Shooting(y)
          /\ UNCHANGED <<database, History, clock>> /\ UNCHANGED <<tokens, doubled, cogCrashes>>
      BY <2>2, <3>1 DEF Fail, Becomes, Rest, Shooting
    <3>5. C \in SUBSET Commits
      BY <3>1
    <3>6. AtRest.time <= clock
      BY AtRestIs, QueueKept
    <3> HIDE DEF C, y
    <3> QED
      BY <3>2, <3>3, <3>4, <3>5, <3>6, AtRestIs
  <2> QED
    BY <2>1, <2>2
<1>2. \A c \in Commits : queue'[c] = IF c \in C THEN GivenBack(queue[c]) ELSE queue[c]
  BY <1>1
<1>3. queue' \in [Commits -> CommitJob]
  BY <1>1, GivenBackIs, QueueKept
<1>4. \A c \in Commits :
        /\ queue'[c].state = "NONE" <=> queue[c].state = "NONE"
        /\ queue'[c].state = "QUEUED" => queue'[c].attempt < MaxAttempts
        /\ queue'[c].state = "NONE" => queue'[c].attempt = 0
        /\ queue'[c].state = "COMPLETED" => queue[c].state = "COMPLETED"
  BY <1>1, <1>2, GivenBackIs, QueueKept
<1> QED
  BY <1>1, <1>3, <1>4, QueueKept, LocalStep

\* A job is completed.
LEMMA CompleteStep ==
  ASSUME CogInv, NEW p \in Processes, Complete(p)
  PROVE  CogInv'
<1> DEFINE y == actor[p]
           x == [y EXCEPT !.pc = "report"]
           c == y.commit
           job == [queue[c] EXCEPT !.state = "COMPLETED", !.token = 0, !.lease = "none"]
<1>0. y \in Actor /\ ActorFits(y) /\ y.pc = "finish" /\ c \in Commits /\ ~ Shooting(y)
      /\ queue[c] \in CommitJob /\ y.kind # "COMMIT_ANALYSIS_QUEUED"
  BY QueueKept DEF Complete, ActorFits, Shooting, Queueing
<1>1. UNCHANGED <<database, History, clock>> /\ UNCHANGED <<tokens, doubled, cogCrashes>>
  BY DEF Complete, Rest
<1>2. CASE ~ Owns(p)
  BY <1>0, <1>1, <1>2, RestStep, QueueKept DEF Complete
<1>3. CASE Owns(p)
  <2>1. x \in Actor /\ x.pc = "report" /\ x.kind = y.kind /\ x.time = y.time
    BY <1>0 DEF Actor
  <2>2. job \in CommitJob /\ job.state = "COMPLETED"
    BY <1>0 DEF CommitJob
  <2>3. actor' = [actor EXCEPT ![p] = x] /\ queue' = [queue EXCEPT ![c] = job]
        /\ queue[c].state = "RUNNING"
    BY <1>3 DEF Complete, ToPc, Becomes, Owns
  <2>4. Indexed(c) # {} /\ (Undisturbed => Snapped(c)) /\ y.time <= clock
    BY <1>0 DEF ActorFits
  <2> HIDE DEF x, job
  <2>5. queue' \in [Commits -> CommitJob]
        /\ \A d \in Commits : queue'[d] = IF d = c THEN job ELSE queue[d]
    BY <1>0, <2>2, <2>3, QueueKept
  <2>6. \A d \in Commits :
          /\ queue'[d].state = "NONE" <=> queue[d].state = "NONE"
          /\ queue'[d].state = "QUEUED" => queue'[d].attempt < MaxAttempts
          /\ queue'[d].state = "NONE" => queue'[d].attempt = 0
          /\ queue'[d].state = "COMPLETED" =>
               \/ queue[d].state = "COMPLETED"
               \/ Indexed(d) # {} /\ (Undisturbed => Snapped(d))
    BY <2>2, <2>3, <2>4, <2>5, QueueKept
  <2> HIDE DEF c, y
  <2> QED
    BY <1>0, <1>1, <2>1, <2>3, <2>4, <2>5, <2>6, QueueKept, LocalStep DEF y
<1> QED
  BY <1>2, <1>3

\* A job is reported.
LEMMA ReportStep ==
  ASSUME CogInv, NEW p \in Processes, Report(p)
  PROVE  CogInv'
<1> DEFINE y == [actor[p] EXCEPT !.token = 0]
<1>1. y \in Actor
  BY QueueKept DEF Actor
<1>2. actor[p].pc = "report" /\ ~ Shooting(actor[p])
      /\ UNCHANGED <<Rest, History, queue, tokens, doubled>>
  BY DEF Report, Shooting
<1>3. Write(p, "COMMIT_ANALYZED", y) \/ (Becomes(p, AtRest) /\ UNCHANGED clock)
  BY DEF Report
<1> HIDE DEF y
<1>4. CASE Write(p, "COMMIT_ANALYZED", y)
  BY <1>1, <1>2, <1>4, WriteStep DEF Kinds
<1>5. CASE Becomes(p, AtRest) /\ UNCHANGED clock
  BY <1>2, <1>5, RestStep, QueueKept DEF Rest
<1> QED
  BY <1>3, <1>4, <1>5

\* The lease of a job expires.
LEMMA ExpireLeaseStep ==
  ASSUME CogInv, NEW c \in Commits, ExpireLease(c)
  PROVE  CogInv'
<1> USE DEF CogInv
<1> DEFINE job == [queue[c] EXCEPT !.lease = "expired"]
<1>1. job \in CommitJob /\ job.state = queue[c].state /\ job.attempt = queue[c].attempt
  BY QueueKept DEF CommitJob
<1>2. /\ queue' = [queue EXCEPT ![c] = job]
      /\ UNCHANGED <<database, cogCrashes, events, relations, snapshots, actor, clock, tokens,
                     doubled>>
  BY QueueKept DEF ExpireLease, Rest, History
<1> HIDE DEF job
<1>3. queue' \in [Commits -> CommitJob]
      /\ \A d \in Commits : queue'[d].state = queue[d].state /\ queue'[d].attempt = queue[d].attempt
  BY <1>1, <1>2, QueueKept
<1>4. CogTypes'
  BY <1>2, <1>3 DEF CogTypes, CogTypeOK
<1>5. Undisturbed' <=> Undisturbed
  BY <1>2 DEF Undisturbed
<1>6. ActorsFit'
  <2> SUFFICES ASSUME NEW q \in Processes PROVE ActorFits(actor[q])'
    BY DEF ActorsFit
  <2>1. ActorFits(actor[q]) /\ actor[q].seen \subseteq Commits
    BY QueueKept DEF Actor
  <2>2. database = "postgresql" => Serialised(actor[q])'
    BY <1>2, <2>1, IndexedKept DEF ActorFits, Serialised
  <2> QED
    BY <1>2, <1>3, <1>5, <2>1, <2>2, IndexedKept
       DEF ActorFits, Shooting, Creating, Indexing, Queueing
<1>7. ActorsApart'
  BY <1>2 DEF ActorsApart, Apart, Queueing, Indexing, Creating
<1>8. JobsFit' /\ CommitsFit'
  BY <1>2, <1>3, <1>5, IndexedKept DEF JobsFit, JobFits, CommitsFit, CommitFits, Shooting
<1>9. EventsTimed' /\ OneChain' /\ SnapshotsAreComplete' /\ SnapshotsKnown'
  BY <1>2, IndexedKept DEF EventsTimed, OneChain, SnapshotsAreComplete, SnapshotsKnown, NewestTime
<1> QED
  BY <1>4, <1>6, <1>7, <1>8, <1>9

\* The commit of a writer adds its event, its relation, its snapshot or its job.
LEMMA CommitWriteStep ==
  ASSUME CogInv, NEW p \in Processes, CommitWrite(p)
  PROVE  CogInv'
<1> USE DEF CogInv
<1>21. PICK x \in Actor : x = actor[p]
  BY QueueKept
<1> DEFINE ev == [kind |-> x.kind, commit |-> x.commit, time |-> x.time, prev |-> x.prev]
           rel == [commit |-> x.commit, time |-> x.time]
           snap == [commit |-> x.commit, upto |-> x.upto, state |-> x.state]
           next == After(x)
           y == IF next = "idle" THEN AtRest ELSE [x EXCEPT !.pc = next]
<1>0. x \in Actor /\ ActorFits(x) /\ x.pc = "write"
  BY <1>21, QueueKept DEF CommitWrite
<1>1. /\ ev \in CogEvent /\ ev.kind = x.kind /\ ev.commit = x.commit
      /\ ev.time = x.time /\ ev.prev = x.prev
      /\ rel \in Relation /\ rel.time = x.time
      /\ snap \in CogSnapshot /\ snap.commit = x.commit /\ snap.upto = x.upto
      /\ snap.state = x.state
  BY <1>0 DEF Actor, CogEvent, Relation, CogSnapshot
<1>2. /\ next \in {"snapshot", "finish", "link", "idle"}
      /\ next = "snapshot" <=> x.kind \in {"COMMIT_CREATED", "DELIVERY_COMPLETED"}
      /\ next = "finish" => x.kind = "SNAPSHOT_CREATED" /\ x.token > 0
      /\ next = "link" => x.kind = "SNAPSHOT_CREATED"
  BY DEF After
<1>3. /\ events' = events \cup {ev}
      /\ relations' = relations \/ (relations' = relations \cup {rel} /\ x.kind # "SNAPSHOT_CREATED")
      /\ snapshots' = IF x.kind = "SNAPSHOT_CREATED" THEN snapshots \cup {snap} ELSE snapshots
      /\ queue' = IF x.kind = "COMMIT_ANALYSIS_QUEUED"
                  THEN [queue EXCEPT ![x.commit].state = "QUEUED"] ELSE queue
      /\ actor' = [actor EXCEPT ![p] = y]
      /\ UNCHANGED <<database, cogCrashes, clock, tokens, doubled>>
  BY <1>21 DEF CommitWrite, Becomes, Rest, Relating
<1> HIDE DEF next, ev, rel, snap
<1>4. /\ y \in Actor /\ y.pc = next
      /\ next = "idle" => y = AtRest
      /\ next # "idle" => /\ y.kind = x.kind /\ y.commit = x.commit /\ y.token = x.token
                          /\ y.time = x.time
  BY <1>0, <1>2, AtRestIs DEF Actor
<1> HIDE DEF y
<1>5. actor'[p] = y /\ \A q \in Processes : q # p => actor'[q] = actor[q]
  BY <1>3, QueueKept
<1>6. Undisturbed' <=> Undisturbed
  BY <1>3 DEF Undisturbed
<1>7. /\ \A c : Indexed(c)' = IF x.kind = "COMMIT_CREATED" /\ x.commit = c
                              THEN Indexed(c) \cup {ev} ELSE Indexed(c)
      /\ \A c : Snapped(c) => Snapped(c)'
      /\ \A t : Known(t) => Known(t)'
      /\ x.kind = "SNAPSHOT_CREATED" => Snapped(x.commit)'
  <2>1. \A c : Indexed(c)' = IF x.kind = "COMMIT_CREATED" /\ x.commit = c
                             THEN Indexed(c) \cup {ev} ELSE Indexed(c)
    BY <1>1, <1>3 DEF Indexed
  <2>2. \A c : Snapped(c) => Snapped(c)'
    BY <1>3 DEF Snapped
  <2>3. \A t : Known(t) => Known(t)'
    BY <1>3 DEF Known
  <2>4. x.kind = "SNAPSHOT_CREATED" => Snapped(x.commit)'
    BY <1>1, <1>3 DEF Snapped
  <2> QED
    BY <2>1, <2>2, <2>3, <2>4
<1>8. /\ x.time \in Nat /\ x.time <= clock /\ x.time > 0 /\ clock \in Nat
      /\ \A e \in events : e \in CogEvent /\ e.time \in Nat
  BY <1>0, QueueKept DEF ActorFits, Actor, Times, CogTypes, CogTypeOK, CogEvent
<1>9. database = "postgresql" => /\ x.time = clock /\ x.prev = NewestTime(events)
                                 /\ \A e \in events : e.time < x.time
  BY <1>0 DEF ActorFits, Serialised
<1>10. ASSUME database = "postgresql", NEW t, Known(t) PROVE StateUpTo(t)' = StateUpTo(t)
  <2>1. ~ (x.time <= t)
    BY <1>8, <1>9, <1>10 DEF Known
  <2> QED
    BY <1>1, <1>3, <2>1 DEF StateUpTo
<1>11. /\ queue' \in [Commits -> CommitJob]
       /\ Queueing(x) => /\ x.commit \in Commits /\ queue[x.commit].state = "NONE"
                         /\ queue'[x.commit].state = "QUEUED"
                         /\ queue'[x.commit].attempt = queue[x.commit].attempt
                         /\ \A c \in Commits : c # x.commit => queue'[c] = queue[c]
       /\ ~ Queueing(x) => queue' = queue
  <2>1. Queueing(x) => x.commit \in Commits /\ queue[x.commit].state = "NONE"
    BY <1>0 DEF ActorFits
  <2>2. CASE Queueing(x)
    <3> DEFINE c == x.commit
               job == [queue[c] EXCEPT !.state = "QUEUED"]
    <3>1. job \in CommitJob /\ job.state = "QUEUED" /\ job.attempt = queue[c].attempt
      BY <2>1, <2>2, QueueKept DEF CommitJob
    <3>2. queue' = [queue EXCEPT ![c] = job]
      BY <1>3, <2>1, <2>2, QueueKept DEF Queueing
    <3> HIDE DEF job
    <3> QED
      BY <2>1, <2>2, <3>1, <3>2, QueueKept
  <2>3. CASE ~ Queueing(x)
    BY <1>3, <2>3, QueueKept DEF Queueing
  <2> QED
    BY <2>2, <2>3
<1>12. \A q \in Processes : q # p => Apart(x, actor[q])
  BY <1>21 DEF ActorsApart
<1>13. CogTypes'
  BY <1>1, <1>3, <1>4, <1>11 DEF CogTypes, CogTypeOK
<1>14. EventsTimed'
  BY <1>1, <1>3, <1>8 DEF EventsTimed
<1>15. OneChain'
  <2> SUFFICES ASSUME database = "postgresql", NEW e \in events \cup {ev}
               PROVE  e.prev = NewestTime({f \in events' : f.time < e.time})
    BY <1>3 DEF OneChain, NewestTime
  <2>1. CASE e \in events
    <3>1. {f \in events' : f.time < e.time} = {f \in events : f.time < e.time}
      BY <1>1, <1>3, <1>8, <1>9, <2>1
    <3> QED
      BY <2>1, <3>1 DEF OneChain
  <2>2. CASE e = ev
    <3>1. {f \in events' : f.time < e.time} = events
      BY <1>1, <1>3, <1>8, <1>9, <2>2
    <3> QED
      BY <1>1, <1>9, <2>2, <3>1
  <2> QED
    BY <2>1, <2>2
<1>16. SnapshotsAreComplete' /\ SnapshotsKnown'
  <2> SUFFICES ASSUME database = "postgresql", NEW s \in snapshots', s.commit # NoCommit
               PROVE  s.state = StateUpTo(s.upto)' /\ Known(s.upto)'
    BY <1>3 DEF SnapshotsAreComplete, SnapshotsKnown, StateUpTo, Known
  <2>1. Known(s.upto) /\ s.state = StateUpTo(s.upto)
    <3>1. CASE s \in snapshots
      BY <3>1 DEF SnapshotsAreComplete, SnapshotsKnown
    <3>2. CASE s \notin snapshots
      <4>1. s = snap /\ x.kind = "SNAPSHOT_CREATED"
        BY <1>3, <3>2
      <4> QED
        BY <1>0, <1>1, <4>1 DEF ActorFits, Serialised
    <3> QED
      BY <3>1, <3>2
  <2> QED
    BY <1>7, <1>10, <2>1
<1>17. ActorsFit'
  <2>1. ASSUME NEW q \in Processes, q # p PROVE ActorFits(actor[q])'
    <3>12. PICK z \in Actor : z = actor[q]
      BY QueueKept
    <3>0. z \in Actor /\ ActorFits(z) /\ actor'[q] = z /\ Apart(x, z) /\ z.seen \subseteq Commits
      BY <1>5, <1>12, <2>1, <3>12, QueueKept DEF Actor
    <3>1. database = "postgresql" => Serialised(z)
      BY <3>0 DEF ActorFits
    <3>2. database = "postgresql" => Serialised(actor[q])'
      BY <1>0, <1>3, <1>7, <1>10, <3>0, <3>1 DEF Serialised, Apart
    <3>3. doubled = "no" /\ Creating(z) => Indexed(z.commit)' = {}
      BY <1>0, <1>7, <3>0 DEF ActorFits, Apart, Creating, Indexing
    <3>4. Undisturbed /\ z.pc = "look" => Indexed(z.commit)' = {} \/ Snapped(z.commit)'
      <4>1. Undisturbed /\ z.pc = "look" => Indexed(z.commit)' = Indexed(z.commit)
        BY <1>0, <1>7, <3>0 DEF Apart, Creating, Indexing, Undisturbed
      <4> QED
        BY <1>7, <3>0, <4>1 DEF ActorFits
    <3>5. \A c : Indexed(c) # {} => Indexed(c)' # {}
      BY <1>7
    <3>6. Queueing(z) => queue'[z.commit].state = "NONE"
      <4>1. Queueing(z) => z.commit \in Commits /\ queue[z.commit].state = "NONE"
        BY <3>0 DEF ActorFits
      <4> QED
        BY <1>11, <3>0, <4>1 DEF Apart
    <3>7. \A c \in Commits : queue[c].state # "NONE" => queue'[c].state # "NONE"
      BY <1>11
    <3>8. z.pc = "recover" => \A c \in z.seen : queue'[c].state # "NONE"
      BY <3>0, <3>7 DEF ActorFits
    <3>9. z.pc = "claiming" => z.attempt < MaxAttempts /\ queue'[z.commit].state # "NONE"
      BY <3>0, <3>7 DEF ActorFits
    <3>10. z.pc = "finish" => Indexed(z.commit)' # {} /\ (Undisturbed' => Snapped(z.commit)')
      BY <1>6, <1>7, <3>0, <3>5 DEF ActorFits
    <3>11. /\ z.time <= clock /\ (z.pc = "write" => z.time > 0)
           /\ z.pc = "write" /\ z.kind = "DELIVERY_COMPLETED" => z.token = 0
           /\ Indexing(z) \/ z.pc \in {"claiming", "finish"} => z.commit \in Commits
           /\ Queueing(z) => z.pc = "write" /\ z.commit \in Commits
           /\ Shooting(z) /\ z.token > 0 => z.commit \in Commits /\ Indexed(z.commit)' # {}
      BY <3>0, <3>5 DEF ActorFits
    <3> QED
      BY <1>3, <1>6, <3>0, <3>2, <3>3, <3>4, <3>6, <3>8, <3>9, <3>10, <3>11
         DEF ActorFits, Shooting, Creating, Indexing, Queueing
  <2>2. ActorFits(actor[p])'
    <3>1. CASE next = "idle"
      BY <1>3, <1>4, <1>5, <3>1, AtRestIs, AtRestTimed
         DEF ActorFits, Shooting, Creating, Indexing, Queueing, Serialised
    <3>2. CASE next = "snapshot"
      <4>1. y.token > 0 => y.commit \in Commits /\ Indexed(y.commit)' # {}
        <5>1. x.kind = "DELIVERY_COMPLETED" => ~ (x.token > 0)
          BY <1>0, QueueKept DEF ActorFits, Actor
        <5>2. x.kind = "COMMIT_CREATED" => x.commit \in Commits /\ Indexed(x.commit)' # {}
          BY <1>0, <1>7 DEF ActorFits, Indexing, Creating
        <5> QED
          BY <1>2, <1>4, <3>2, <5>1, <5>2
      <4> QED
        BY <1>2, <1>3, <1>4, <1>5, <1>8, <3>2, <4>1
           DEF ActorFits, Shooting, Creating, Indexing, Queueing, Serialised
    <3>3. CASE next = "finish"
      <4>1. y.commit \in Commits /\ Indexed(y.commit)' # {} /\ Snapped(y.commit)'
        BY <1>0, <1>2, <1>4, <1>7, <3>3 DEF ActorFits, Shooting
      <4> QED
        BY <1>2, <1>3, <1>4, <1>5, <1>8, <3>3, <4>1
           DEF ActorFits, Shooting, Creating, Indexing, Queueing, Serialised
    <3>4. CASE next = "link"
      BY <1>2, <1>3, <1>4, <1>5, <1>8, <3>4
         DEF ActorFits, Shooting, Creating, Indexing, Queueing, Serialised
    <3> QED
      BY <1>2, <3>1, <3>2, <3>3, <3>4
  <2> QED
    BY <2>1, <2>2 DEF ActorsFit
<1>18. ActorsApart'
  <2>1. y.pc # "write" /\ ~ Queueing(y) /\ ~ Indexing(y)
    BY <1>2, <1>4, AtRestIs DEF Queueing, Indexing, Creating
  <2>2. ASSUME NEW q \in Processes, NEW r \in Processes, q # r
        PROVE  Apart(actor[q], actor[r])'
    <3>1. CASE q = p \/ r = p
      BY <1>5, <2>1, <3>1 DEF Apart, Queueing, Indexing, Creating
    <3>2. CASE q # p /\ r # p
      BY <1>3, <1>5, <2>2, <3>2 DEF ActorsApart, Apart, Queueing, Indexing, Creating
    <3> QED
      BY <3>1, <3>2
  <2> QED
    BY <2>2 DEF ActorsApart
<1>19. JobsFit'
  <2> SUFFICES ASSUME NEW c \in Commits PROVE JobFits(c)'
    BY DEF JobsFit
  <2>1. JobFits(c) /\ (Indexed(c) # {} => Indexed(c)' # {})
    BY <1>7 DEF JobsFit
  <2>2. CASE Queueing(x) /\ c = x.commit
    BY <1>11, <2>1, <2>2, CogAssumption DEF JobFits
  <2>3. CASE ~ (Queueing(x) /\ c = x.commit)
    <3>1. queue'[c] = queue[c]
      BY <1>11, <2>3
    <3> QED
      BY <1>6, <1>7, <2>1, <3>1 DEF JobFits
  <2> QED
    BY <2>2, <2>3
<1>20. CommitsFit'
  <2> SUFFICES ASSUME NEW c \in Commits PROVE CommitFits(c)'
    BY DEF CommitsFit
  <2>1. CommitFits(c)
    BY DEF CommitsFit
  <2>2. doubled = "no" => \A e, f \in Indexed(c)' : e = f
    <3>1. CASE x.kind = "COMMIT_CREATED" /\ x.commit = c
      <4>1. doubled = "no" => Indexed(c) = {}
        BY <1>0, <3>1 DEF ActorFits, Creating
      <4> QED
        BY <1>7, <3>1, <4>1
    <3>2. CASE ~ (x.kind = "COMMIT_CREATED" /\ x.commit = c)
      BY <1>7, <2>1, <3>2 DEF CommitFits
    <3> QED
      BY <3>1, <3>2
  <2>3. ASSUME Undisturbed, Indexed(c)' # {}
        PROVE  \/ Snapped(c)'
               \/ \E q \in Processes : Shooting(actor[q])' /\ actor'[q].commit = c
    <3>1. CASE x.kind = "COMMIT_CREATED" /\ x.commit = c
      BY <1>2, <1>4, <1>5, <3>1 DEF Shooting
    <3>2. CASE ~ (x.kind = "COMMIT_CREATED" /\ x.commit = c)
      <4>1. Snapped(c) \/ \E q \in Processes : Shooting(actor[q]) /\ actor[q].commit = c
        BY <1>7, <2>1, <2>3, <3>2 DEF CommitFits
      <4>2. ASSUME NEW q \in Processes, Shooting(actor[q]), actor[q].commit = c, q # p
            PROVE  Shooting(actor[q])' /\ actor'[q].commit = c
        BY <1>5, <4>2 DEF Shooting
      <4>3. Shooting(x) /\ x.commit = c => Snapped(c)'
        BY <1>0, <1>7 DEF Shooting
      <4> QED
        BY <1>21, <1>7, <4>1, <4>2, <4>3
    <3> QED
      BY <3>1, <3>2
  <2> QED
    BY <1>3, <1>6, <2>2, <2>3 DEF CommitFits
<1> QED
  BY <1>13, <1>14, <1>15, <1>16, <1>17, <1>18, <1>19, <1>20

\* The invariant holds of an empty history.
LEMMA CogInitInv ==
  ASSUME CogInit
  PROVE  CogInv
<1>1. /\ events = {} /\ relations = {} /\ snapshots = {} /\ clock = 0 /\ tokens = 0
      /\ cogCrashes = 0 /\ doubled = "no" /\ actor = [p \in Processes |-> AtRest]
      /\ queue = [c \in Commits |-> [state |-> "NONE", attempt |-> 0, token |-> 0,
                                     lease |-> "none"]]
  BY DEF CogInit
<1>2. /\ queue \in [Commits -> CommitJob]
      /\ \A c \in Commits : queue[c].state = "NONE" /\ queue[c].attempt = 0
  BY <1>1, CogAssumption DEF CommitJob
<1>3. CogTypes
  BY <1>1, <1>2, AtRestIs DEF CogTypes, CogTypeOK, Times
<1>4. ActorsFit /\ ActorsApart
  BY <1>1, AtRestIs DEF ActorsFit, ActorFits, ActorsApart, Apart, Shooting, Creating, Indexing,
     Queueing, Serialised
<1>5. JobsFit /\ CommitsFit
  BY <1>1, <1>2 DEF JobsFit, JobFits, CommitsFit, CommitFits, Indexed
<1>6. EventsTimed /\ OneChain /\ SnapshotsAreComplete /\ SnapshotsKnown
  BY <1>1 DEF EventsTimed, OneChain, SnapshotsAreComplete, SnapshotsKnown
<1> QED
  BY <1>3, <1>4, <1>5, <1>6 DEF CogInv

\* CogInv holds in every state.
THEOREM HistoryInvariant == CogSpec => []CogInv
<1>1. CogInit => CogInv
  BY CogInitInv
<1>2. CogInv /\ [CogNext]_cogVars => CogInv'
  <2> SUFFICES ASSUME CogInv, [CogNext]_cogVars PROVE CogInv'
    OBVIOUS
  <2>1. CASE UNCHANGED cogVars
    BY <2>1 DEF cogVars, CogInv, CogTypes, CogTypeOK, ActorsFit, ActorFits, ActorsApart, Apart,
       JobsFit, JobFits, CommitsFit, CommitFits, EventsTimed, OneChain, SnapshotsAreComplete,
       SnapshotsKnown, Serialised, Known, Snapped, Indexed, Undisturbed, StateUpTo, NewestTime,
       Shooting, Creating, Indexing, Queueing
  <2>2. ASSUME NEW w \in Workers, WorkerStep(w) \/ Die(w) PROVE CogInv'
    <3>1. w \in Processes
      BY DEF Processes
    <3> QED
      BY <2>2, <3>1, DieStep, NothingStep, RequestSteps, IngestSteps, ReturnSteps, CompleteStep,
         ReportStep DEF WorkerStep
  <2>3. ASSUME NEW p \in Processes, Step(p) PROVE CogInv'
    BY <2>3, LookStep, CreateSnapshotStep, CommitWriteStep, RecordingSteps DEF Step
  <2>4. ASSUME NEW p \in Clients,
               \/ AddRelation(p) \/ Handoff(p) \/ ReconstructContext(p) \/ RecordDelivery(p)
               \/ \E c \in Commits : Submit(p, c) \/ RequestIngest(p, c) \/ RequestSnapshot(p, c)
        PROVE  CogInv'
    <3>1. p \in Processes
      BY DEF Processes
    <3> QED
      BY <2>4, <3>1, RecordingSteps, IngestSteps, RequestSteps
  <2> QED
    BY <2>1, <2>2, <2>3, <2>4, ExpireLeaseStep DEF CogNext
<1> QED
  BY <1>1, <1>2, PTL DEF CogSpec

\* For any commits, processes and bounds, on PostgreSQL: the events are one chain and

\* a snapshot holds every relation up to its time, however writers interleave or die
\* (CognitiveStateService).
THEOREM HistoryStaysComplete == CogSpec => []HistoryIsComplete
<1>1. CogInv => HistoryIsComplete
  BY DEF CogInv, CogTypes, HistoryIsComplete
<1> QED
  BY <1>1, HistoryInvariant, PTL

\* While no job was run twice a commit is indexed at most once, and a completed job left

\* its index, with its snapshot when no process died (CommitIngestionWorker).
THEOREM IngestionIsOnce == CogSpec => []CommitsIngestedOnce
<1>1. CogInv => CommitsIngestedOnce
  <2> SUFFICES ASSUME CogInv PROVE CommitsIngestedOnce
    OBVIOUS
  <2>1. ASSUME doubled = "no", NEW c \in Commits PROVE Cardinality(Indexed(c)) <= 1
    <3>1. CASE Indexed(c) = {}
      BY <3>1, FS_EmptySet
    <3>2. CASE Indexed(c) # {}
      <4>1. PICK e \in Indexed(c) : TRUE
        BY <3>2
      <4>2. Indexed(c) = {e}
        BY <2>1, <4>1 DEF CogInv, CommitsFit, CommitFits
      <4> QED
        BY <4>2, FS_Singleton
    <3> QED
      BY <3>1, <3>2
  <2>2. CompletedIsIndexed
    BY DEF CogInv, JobsFit, JobFits, CompletedIsIndexed, Undisturbed, Snapped
  <2> QED
    BY <2>1, <2>2 DEF CommitsIngestedOnce, IngestedOnce
<1> QED
  BY <1>1, HistoryInvariant, PTL

-----------------------------------------------------------------------------
(* Evidence packs, supply chain records and attestations                   *)

\* The builders under way.
ActiveBuilders == {b \in Builders : builders[b].pc # "idle"}

\* The types of packs and builders.
PackTypes ==
  /\ packs \in Seq(EvidencePack) /\ dirs \in [Dirs -> 0 .. Damaged]
  /\ builders \in [Builders -> Builder] /\ builds \in 0 .. BuildBound

\* Every pack is the end of a build, every builder under way is at another.
BuildsCounted == Len(packs) + Cardinality(ActiveBuilders) <= builds

\* While a builder is alone nobody writes its directory or adds a pack.
BuilderSound(b) ==
  builders[b].pc # "idle" =>
    /\ builders[b].dir <= builds
    /\ builders[b].alone = "yes" =>
         /\ \A o \in Builders : o # b => builders[o].pc = "idle"
         /\ builders[b].pc = "insert" =>
              /\ builders[b].previous = Len(packs)
              /\ dirs[builders[b].dir] \in {builders[b].manifest, Damaged}

\* The directory of a pack built alone is written by no later build.
PackSound(p) ==
  /\ packs[p].dir <= builds
  /\ packs[p].alone = "yes" =>
       /\ packs[p].previous = p - 1
       /\ dirs[packs[p].dir] \in {packs[p].manifest, Damaged}
       /\ \A b \in Builders : builders[b].pc # "idle" => builders[b].dir # packs[p].dir

\* Every builder and every pack.
BuildersSound == \A b \in Builders : BuilderSound(b)
PacksSound == \A p \in 1 .. Len(packs) : PackSound(p)
PackInv == PackTypes /\ BuildsCounted /\ BuildersSound /\ PacksSound

\* A completeness that was computed and is not written yet is still true.
RecordInv ==
  /\ records \in [Mandatory -> SupplyChainRecord]
  /\ reported \in {"INCOMPLETE", "COMPLETE"}
  /\ ingesters \in [Ingesters -> [pc : {"idle", "measure", "refresh"},
                                  result : {"INCOMPLETE", "COMPLETE"}]]
  /\ CompleteIsTrue
  /\ \A i \in Ingesters : ingesters[i].pc = "refresh" /\ ingesters[i].result = "COMPLETE"
                            => Successful = Mandatory

\* While an attester is alone nobody adds an attestation.
AttestInv ==
  /\ attestations \in Seq(Attestation) /\ Len(attestations) <= AttestBound
  /\ attesters \in [Attesters -> [pc : {"idle", "insert"}, previous : 0 .. AttestBound,
                                  alone : {"yes", "no"}]]
  /\ SolitaryAttestationsVerify
  /\ \A a \in Attesters :
       attesters[a].pc = "insert" /\ attesters[a].alone = "yes" =>
         /\ attesters[a].previous = Len(attestations)
         /\ \A o \in Attesters : o # a => attesters[o].pc = "idle"

\* The inductive invariant of the evidence.
EviInv == PackInv /\ RecordInv /\ AttestInv

\* The numbers of builds and of a damaged file.
LEMMA EvidenceNumbers ==
  /\ Dirs = 0 .. BuildBound /\ Damaged = BuildBound + 1 /\ Damaged \in 0 .. Damaged
  /\ BuildBound \in 0 .. BuildBound
  BY EvidenceAssumption DEF Dirs, Damaged

\* A builder at rest.
LEMMA NoBuildIs == NoBuild \in Builder /\ NoBuild.pc = "idle"
  BY EvidenceNumbers, EvidenceAssumption DEF NoBuild, Builder

\* The fields of a builder.
LEMMA BuilderFields ==
  ASSUME NEW x \in Builder
  PROVE  /\ x.dir \in 0 .. BuildBound /\ x.manifest \in 0 .. Damaged
         /\ x.previous \in 0 .. BuildBound /\ x.alone \in {"yes", "no"}
         /\ x.build \in 0 .. BuildBound
  BY EvidenceNumbers DEF Builder

\* When a builder moves, those under way beside it are no longer alone.
LEMMA MovedIs ==
  ASSUME PackTypes, NEW b \in Builders, NEW x \in Builder, builders' = Moved(b, x)
  PROVE  /\ builders' \in [Builders -> Builder] /\ builders'[b] = x
         /\ \A o \in Builders : o # b =>
              /\ builders'[o].pc = builders[o].pc /\ builders'[o].dir = builders[o].dir
              /\ builders[o].pc # "idle" => builders'[o].alone = "no"
<1>1. builders \in [Builders -> Builder]
  BY DEF PackTypes
<1>2. ASSUME NEW o \in Builders
      PROVE  /\ [builders[o] EXCEPT !.alone = "no"] \in Builder
             /\ [builders[o] EXCEPT !.alone = "no"].pc = builders[o].pc
             /\ [builders[o] EXCEPT !.alone = "no"].dir = builders[o].dir
             /\ [builders[o] EXCEPT !.alone = "no"].alone = "no"
  BY <1>1 DEF Builder
<1>3. \A o \in Builders : builders'[o] = IF o = b THEN x
                                         ELSE IF builders[o].pc = "idle" THEN builders[o]
                                         ELSE [builders[o] EXCEPT !.alone = "no"]
  BY DEF Moved
<1>4. builders' = [o \in Builders |-> builders'[o]]
  BY DEF Moved
<1>5. \A o \in Builders : builders'[o] \in Builder
  BY <1>1, <1>2, <1>3
<1> QED
  BY <1>2, <1>3, <1>4, <1>5

\* The builders under way can be counted.
LEMMA ActiveIsFinite ==
  /\ IsFiniteSet(ActiveBuilders) /\ Cardinality(ActiveBuilders) \in Nat
  /\ ActiveBuilders \subseteq Builders
<1>1. ActiveBuilders \subseteq Builders
  BY DEF ActiveBuilders
<1>2. IsFiniteSet(ActiveBuilders)
  BY <1>1, EvidenceAssumption, FS_Subset
<1> QED
  BY <1>1, <1>2, FS_CardinalityType

\* How their number changes when one builder moves.
LEMMA ActiveAfter ==
  ASSUME NEW b \in Builders, \A o \in Builders : o # b => builders'[o].pc = builders[o].pc
  PROVE  /\ builders'[b].pc # "idle" /\ builders[b].pc # "idle"
              => Cardinality(ActiveBuilders') = Cardinality(ActiveBuilders)
         /\ builders'[b].pc # "idle" /\ builders[b].pc = "idle"
              => Cardinality(ActiveBuilders') = Cardinality(ActiveBuilders) + 1
         /\ builders'[b].pc = "idle" /\ builders[b].pc # "idle"
              => Cardinality(ActiveBuilders') = Cardinality(ActiveBuilders) - 1
<1>1. builders'[b].pc # "idle" /\ builders[b].pc # "idle" => ActiveBuilders' = ActiveBuilders
  BY DEF ActiveBuilders
<1>2. builders'[b].pc # "idle" /\ builders[b].pc = "idle"
        => ActiveBuilders' = ActiveBuilders \cup {b} /\ b \notin ActiveBuilders
  BY DEF ActiveBuilders
<1>3. builders'[b].pc = "idle" /\ builders[b].pc # "idle"
        => ActiveBuilders' = ActiveBuilders \ {b} /\ b \in ActiveBuilders
  BY DEF ActiveBuilders
<1> QED
  BY <1>1, <1>2, <1>3, ActiveIsFinite, FS_AddElement, FS_RemoveElement

\* There is room for the pack of every builder under way.
LEMMA PackCount ==
  ASSUME PackInv
  PROVE  /\ Len(packs) \in 0 .. BuildBound
         /\ \A b \in Builders : builders[b].pc # "idle" => Len(packs) + 1 \in 0 .. BuildBound
         /\ \A p \in 1 .. Len(packs) : packs[p] \in EvidencePack /\ packs[p].dir \in 0 .. BuildBound
<1>1. Len(packs) \in Nat /\ builds \in 0 .. BuildBound /\ BuildBound \in Nat
  BY EvidenceAssumption DEF PackInv, PackTypes
<1>2. Cardinality(ActiveBuilders) \in Nat
  BY ActiveIsFinite
<1>3. ASSUME NEW b \in Builders, builders[b].pc # "idle"
      PROVE  Cardinality(ActiveBuilders) > 0
  <2>1. ActiveBuilders # {}
    BY <1>3 DEF ActiveBuilders
  <2> QED
    BY <1>2, <2>1, ActiveIsFinite, FS_EmptySet
<1>4. \A p \in 1 .. Len(packs) : packs[p] \in EvidencePack
  BY DEF PackInv, PackTypes
<1> QED
  BY <1>1, <1>2, <1>3, <1>4, EvidenceNumbers DEF PackInv, BuildsCounted, EvidencePack

\* A build reads the directory it will write; it is a new one unless it was overtaken.
LEMMA BeginBuildStep ==
  ASSUME PackInv, NEW b \in Builders, BeginBuild(b)
  PROVE  PackInv'
<1> DEFINE n == builds + 1
           alone == IF Overlapping(b) THEN "no" ELSE "yes"
           dir == Directory(n)
           x == [NoBuild EXCEPT !.pc = "write", !.build = n, !.dir = dir, !.alone = alone]
<1>1. /\ builders[b].pc = "idle" /\ builds' = n /\ builders' = Moved(b, x)
      /\ UNCHANGED <<packs, dirs>>
  BY DEF BeginBuild
<1>2. n \in 0 .. BuildBound /\ n > builds /\ builds \in Nat
  BY EvidenceAssumption DEF PackInv, PackTypes, BeginBuild
<1>3. dir \in 0 .. BuildBound /\ dir <= n /\ (packs # <<>> => dir = n)
  BY <1>2, EvidenceAssumption DEF Directory, OwnDirectory
<1>4. alone = "yes" => \A o \in Builders : o # b => builders[o].pc = "idle"
  BY DEF Overlapping
<1>5. alone \in {"yes", "no"}
  OBVIOUS
<1> HIDE DEF n, alone, dir
<1>6. x \in Builder /\ x.pc = "write" /\ x.dir = dir /\ x.alone = alone
  <2>1. dir \in Dirs
    BY <1>3, EvidenceNumbers
  <2> QED
    BY <1>2, <1>5, <2>1, NoBuildIs DEF Builder
<1> HIDE DEF x
<1>7. /\ builders' \in [Builders -> Builder] /\ builders'[b] = x
      /\ \A o \in Builders : o # b =>
           /\ builders'[o].pc = builders[o].pc /\ builders'[o].dir = builders[o].dir
           /\ builders[o].pc # "idle" => builders'[o].alone = "no"
  BY <1>1, <1>6, MovedIs DEF PackInv
<1>8. PackTypes'
  BY <1>1, <1>2, <1>7, EvidenceAssumption DEF PackInv, PackTypes
<1>9. BuildsCounted'
  <2>1. Cardinality(ActiveBuilders') = Cardinality(ActiveBuilders) + 1
    BY <1>1, <1>6, <1>7, ActiveAfter
  <2>2. Len(packs') = Len(packs) /\ Len(packs) \in Nat
    BY <1>1, PackCount
  <2> QED
    BY <1>1, <1>2, <2>1, <2>2, ActiveIsFinite DEF PackInv, BuildsCounted, n
<1>10. BuildersSound'
  <2> SUFFICES ASSUME NEW o \in Builders, builders'[o].pc # "idle" PROVE BuilderSound(o)'
    BY DEF BuildersSound, BuilderSound
  <2>1. CASE o = b
    BY <1>1, <1>3, <1>4, <1>6, <1>7, <2>1 DEF BuilderSound
  <2>2. CASE o # b
    <3>1. builders[o].dir <= builds /\ builders[o].dir \in Nat
      BY <1>7, <2>2, BuilderFields DEF PackInv, BuildersSound, BuilderSound, PackTypes
    <3> QED
      BY <1>1, <1>2, <1>7, <2>2, <3>1 DEF BuilderSound
  <2> QED
    BY <2>1, <2>2
<1>11. PacksSound'
  <2> SUFFICES ASSUME NEW p \in 1 .. Len(packs) PROVE PackSound(p)'
    BY <1>1 DEF PacksSound
  <2>1. PackSound(p) /\ packs[p].dir \in Nat /\ packs # <<>>
    BY PackCount DEF PackInv, PacksSound
  <2> QED
    BY <1>1, <1>2, <1>3, <1>6, <1>7, <2>1 DEF PackSound
<1> QED
  BY <1>8, <1>9, <1>10, <1>11 DEF PackInv

\* The manifest is written and sealed.
LEMMA WriteSealSteps ==
  ASSUME PackInv, NEW b \in Builders, WriteManifest(b) \/ SealManifest(b)
  PROVE  PackInv'
<1> DEFINE y == builders[b]
<1>0. y \in Builder /\ BuilderSound(b)
  BY DEF PackInv, PackTypes, BuildersSound
<1>1. PICK x \in Builder :
        /\ builders' = Moved(b, x) /\ x.dir = y.dir /\ x.alone = y.alone
        /\ x.pc # "idle" /\ y.pc # "idle" /\ UNCHANGED <<packs, builds>>
        /\ \/ x.pc = "seal" /\ dirs' = [dirs EXCEPT ![y.dir] = y.build]
           \/ x.pc = "insert" /\ x.manifest = dirs[y.dir] /\ x.previous = Len(packs)
              /\ dirs' = dirs
  <2>1. CASE WriteManifest(b)
    <3> DEFINE z == [y EXCEPT !.pc = "seal"]
    <3>1. z \in Builder /\ z.dir = y.dir /\ z.alone = y.alone /\ z.pc = "seal"
      BY <1>0 DEF Builder
    <3> HIDE DEF z
    <3>2. /\ builders' = Moved(b, z) /\ y.pc # "idle" /\ UNCHANGED <<packs, builds>>
          /\ dirs' = [dirs EXCEPT ![y.dir] = y.build]
      BY <2>1 DEF WriteManifest, z
    <3> HIDE DEF y
    <3> QED
      BY <3>1, <3>2
  <2>2. CASE SealManifest(b)
    <3> DEFINE m == dirs[y.dir]
               l == Len(packs)
               z == [y EXCEPT !.pc = "insert", !.manifest = m, !.previous = l]
    <3>1. m \in 0 .. Damaged /\ l \in 0 .. BuildBound
      BY <1>0, BuilderFields, EvidenceNumbers, PackCount DEF PackInv, PackTypes
    <3>2. /\ builders' = Moved(b, z) /\ y.pc # "idle" /\ UNCHANGED <<packs, builds>>
          /\ dirs' = dirs
      BY <2>2 DEF SealManifest, PreviousPack
    <3> HIDE DEF m, l
    <3>3. z \in Builder /\ z.dir = y.dir /\ z.alone = y.alone /\ z.pc = "insert"
          /\ z.manifest = m /\ z.previous = l
      BY <1>0, <3>1 DEF Builder
    <3> HIDE DEF z, y
    <3> QED
      BY <3>2, <3>3 DEF m, l
  <2> QED
    BY <2>1, <2>2
<1>2. /\ builders' \in [Builders -> Builder] /\ builders'[b] = x
      /\ \A o \in Builders : o # b =>
           /\ builders'[o].pc = builders[o].pc /\ builders'[o].dir = builders[o].dir
           /\ builders[o].pc # "idle" => builders'[o].alone = "no"
  BY <1>1, MovedIs DEF PackInv
<1>3. y.dir \in Dirs /\ y.build \in 0 .. Damaged
  BY <1>0, EvidenceNumbers, EvidenceAssumption DEF Builder
<1>4. PackTypes'
  BY <1>1, <1>2, <1>3 DEF PackInv, PackTypes
<1>5. BuildsCounted'
  <2>1. Cardinality(ActiveBuilders') = Cardinality(ActiveBuilders)
    BY <1>1, <1>2, ActiveAfter
  <2> QED
    BY <1>1, <2>1 DEF PackInv, BuildsCounted
<1>6. BuildersSound'
  <2> SUFFICES ASSUME NEW o \in Builders, builders'[o].pc # "idle" PROVE BuilderSound(o)'
    BY DEF BuildersSound, BuilderSound
  <2>1. CASE o = b
    <3>1. y.dir <= builds /\ (y.alone = "yes" => \A q \in Builders : q # b => builders[q].pc = "idle")
      BY <1>0, <1>1 DEF BuilderSound
    <3> QED
      BY <1>1, <1>2, <2>1, <3>1 DEF BuilderSound
  <2>2. CASE o # b
    BY <1>1, <1>2, <2>2 DEF BuilderSound, PackInv, BuildersSound
  <2> QED
    BY <2>1, <2>2
<1>7. PacksSound'
  <2> SUFFICES ASSUME NEW p \in 1 .. Len(packs) PROVE PackSound(p)'
    BY <1>1 DEF PacksSound
  <2>1. PackSound(p) /\ packs[p].dir \in Dirs
    BY PackCount, EvidenceNumbers DEF PackInv, PacksSound
  <2>2. packs[p].alone = "yes" => dirs'[packs[p].dir] = dirs[packs[p].dir]
    BY <1>1, <1>3, <2>1 DEF PackSound, PackInv, PackTypes
  <2>3. \A o \in Builders : /\ builders'[o].pc # "idle" <=> builders[o].pc # "idle"
                            /\ builders'[o].dir = builders[o].dir
    BY <1>1, <1>2
  <2> QED
    BY <1>1, <2>1, <2>2, <2>3 DEF PackSound
<1> QED
  BY <1>4, <1>5, <1>6, <1>7 DEF PackInv

\* A builder dies and leaves its directory.
LEMMA BuilderDiesStep ==
  ASSUME PackInv, NEW b \in Builders, BuilderDies(b)
  PROVE  PackInv'
<1>1. /\ builders' = Moved(b, NoBuild) /\ builders[b].pc # "idle"
      /\ UNCHANGED <<packs, dirs, builds>>
  BY DEF BuilderDies
<1>2. /\ builders' \in [Builders -> Builder] /\ builders'[b] = NoBuild
      /\ \A o \in Builders : o # b =>
           /\ builders'[o].pc = builders[o].pc /\ builders'[o].dir = builders[o].dir
           /\ builders[o].pc # "idle" => builders'[o].alone = "no"
  BY <1>1, NoBuildIs, MovedIs DEF PackInv
<1>3. PackTypes'
  BY <1>1, <1>2 DEF PackInv, PackTypes
<1>4. BuildsCounted'
  <2>1. Cardinality(ActiveBuilders') = Cardinality(ActiveBuilders) - 1
    BY <1>1, <1>2, NoBuildIs, ActiveAfter
  <2> QED
    BY <1>1, <2>1, ActiveIsFinite, PackCount DEF PackInv, BuildsCounted, PackTypes
<1>5. BuildersSound'
  BY <1>1, <1>2, NoBuildIs DEF BuilderSound, PackInv, BuildersSound
<1>6. PacksSound'
  BY <1>1, <1>2, NoBuildIs DEF PackSound, PackInv, PacksSound
<1> QED
  BY <1>3, <1>4, <1>5, <1>6 DEF PackInv

\* A file is damaged.
LEMMA DamageStep ==
  ASSUME PackInv, NEW d \in Dirs, DamageFile(d)
  PROVE  PackInv'
<1>1. dirs' = [dirs EXCEPT ![d] = Damaged] /\ UNCHANGED <<packs, builders, builds>>
  BY DEF DamageFile
<1>2. PackTypes' /\ \A e \in Dirs : dirs'[e] = dirs[e] \/ dirs'[e] = Damaged
  BY <1>1, EvidenceNumbers DEF PackInv, PackTypes
<1>3. BuildsCounted'
  BY <1>1 DEF PackInv, BuildsCounted, ActiveBuilders
<1>4. \A b \in Builders : builders[b].dir \in Dirs
  BY BuilderFields, EvidenceNumbers DEF PackInv, PackTypes
<1>5. \A p \in 1 .. Len(packs) : packs[p].dir \in Dirs
  BY PackCount, EvidenceNumbers
<1>6. BuildersSound'
  BY <1>1, <1>2, <1>4 DEF BuilderSound, PackInv, BuildersSound
<1>7. PacksSound'
  BY <1>1, <1>2, <1>5 DEF PackSound, PackInv, PacksSound
<1> QED
  BY <1>2, <1>3, <1>6, <1>7 DEF PackInv

\* The row of the pack is inserted.
LEMMA InsertPackStep ==
  ASSUME PackInv, NEW b \in Builders, InsertPack(b)
  PROVE  PackInv'
<1> DEFINE y == builders[b]
           row == [dir |-> y.dir, manifest |-> y.manifest, previous |-> y.previous,
                   status |-> "UNVERIFIED", alone |-> y.alone]
<1>0. y \in Builder /\ BuilderSound(b) /\ y.pc = "insert"
  BY DEF PackInv, PackTypes, BuildersSound, InsertPack
<1>1. /\ packs' = Append(packs, row) /\ builders' = Moved(b, NoBuild)
      /\ UNCHANGED <<dirs, builds>>
  BY DEF InsertPack
<1>2. /\ row \in EvidencePack /\ row.dir = y.dir /\ row.manifest = y.manifest
      /\ row.previous = y.previous /\ row.alone = y.alone
  BY <1>0, BuilderFields, EvidenceNumbers DEF EvidencePack
<1> HIDE DEF row
<1>3. /\ builders' \in [Builders -> Builder] /\ builders'[b] = NoBuild
      /\ \A o \in Builders : o # b =>
           /\ builders'[o].pc = builders[o].pc /\ builders'[o].dir = builders[o].dir
           /\ builders[o].pc # "idle" => builders'[o].alone = "no"
  BY <1>1, NoBuildIs, MovedIs DEF PackInv
<1>4. packs \in Seq(EvidencePack)
  BY DEF PackInv, PackTypes
<1>5. /\ packs' \in Seq(EvidencePack) /\ Len(packs') = Len(packs) + 1
      /\ \A p \in 1 .. Len(packs) : packs'[p] = packs[p]
      /\ packs'[Len(packs) + 1] = row
  BY <1>1, <1>2, <1>4
<1>6. PackTypes'
  BY <1>1, <1>3, <1>5 DEF PackInv, PackTypes
<1>7. BuildsCounted'
  <2>1. Cardinality(ActiveBuilders') = Cardinality(ActiveBuilders) - 1
    BY <1>0, <1>3, NoBuildIs, ActiveAfter
  <2> QED
    BY <1>1, <1>5, <2>1, ActiveIsFinite, PackCount DEF PackInv, BuildsCounted, PackTypes
<1>8. BuildersSound'
  BY <1>1, <1>3, NoBuildIs DEF BuilderSound, PackInv, BuildersSound
<1>9. PacksSound'
  <2> SUFFICES ASSUME NEW p \in 1 .. Len(packs) + 1 PROVE PackSound(p)'
    BY <1>5 DEF PacksSound
  <2>1. CASE p \in 1 .. Len(packs)
    BY <1>1, <1>3, <1>5, <2>1, NoBuildIs DEF PackSound, PackInv, PacksSound
  <2>2. CASE p = Len(packs) + 1
    <3>1. /\ y.dir <= builds
          /\ y.alone = "yes" =>
               /\ \A o \in Builders : o # b => builders[o].pc = "idle"
               /\ y.previous = Len(packs) /\ dirs[y.dir] \in {y.manifest, Damaged}
      BY <1>0 DEF BuilderSound
    <3>2. packs'[p] = row /\ p - 1 = Len(packs)
      BY <1>4, <1>5, <2>2
    <3> QED
      BY <1>1, <1>2, <1>3, <3>1, <3>2, NoBuildIs DEF PackSound
  <2> QED
    BY <1>4, <2>1, <2>2
<1> QED
  BY <1>6, <1>7, <1>8, <1>9 DEF PackInv

\* Verification records a verdict.
LEMMA VerifyPackStep ==
  ASSUME PackInv, NEW p \in 1 .. Len(packs), VerifyPack(p)
  PROVE  PackInv'
<1> DEFINE v == PackVerdict(p)
           row == [packs[p] EXCEPT !.status = v]
<1>0. packs \in Seq(EvidencePack) /\ packs[p] \in EvidencePack
  BY PackCount DEF PackInv, PackTypes
<1>1. v \in {"UNVERIFIED", "UNSIGNED", "VALID", "INVALID"}
  BY DEF PackVerdict
<1>2. packs' = [packs EXCEPT ![p] = row] /\ UNCHANGED <<dirs, builders, builds>>
  BY <1>0 DEF VerifyPack
<1> HIDE DEF v
<1>3. /\ row \in EvidencePack /\ row.dir = packs[p].dir /\ row.manifest = packs[p].manifest
      /\ row.previous = packs[p].previous /\ row.alone = packs[p].alone
  BY <1>0, <1>1 DEF EvidencePack
<1> HIDE DEF row
<1>4. /\ packs' \in Seq(EvidencePack) /\ Len(packs') = Len(packs)
      /\ \A q \in 1 .. Len(packs) : packs'[q] = IF q = p THEN row ELSE packs[q]
  BY <1>0, <1>2, <1>3
<1>5. PackTypes'
  BY <1>2, <1>4 DEF PackInv, PackTypes
<1>6. BuildsCounted'
  BY <1>2, <1>4 DEF PackInv, BuildsCounted, ActiveBuilders
<1>7. BuildersSound'
  BY <1>2, <1>4 DEF BuilderSound, PackInv, BuildersSound
<1>8. PacksSound'
  BY <1>2, <1>3, <1>4 DEF PackSound, PackInv, PacksSound
<1> QED
  BY <1>5, <1>6, <1>7, <1>8 DEF PackInv

\* Supply chain records: written once in a pack, and complete only when all are.
LEMMA RecordSteps ==
  ASSUME PackInv, RecordInv, PackNext \/ RecordNext
  PROVE  /\ RecordInv'
         /\ \A t \in Mandatory : records[t].pack # 0 => records'[t].pack = records[t].pack
<1> USE DEF RecordInv
<1>1. CASE UNCHANGED <<records, reported, ingesters>>
  BY <1>1 DEF CompleteIsTrue, Successful
<1>2. ASSUME NEW b \in Builders, InsertPack(b)
      PROVE  /\ RecordInv'
             /\ \A t \in Mandatory : records[t].pack # 0 => records'[t].pack = records[t].pack
  <2> DEFINE n == Len(packs')
  <2>1. n \in 0 .. BuildBound
    <3>1. packs \in Seq(EvidencePack) /\ builders[b].pc # "idle"
      BY <1>2 DEF PackInv, PackTypes, InsertPack
    <3>2. n = Len(packs) + 1
      BY <1>2, <3>1 DEF InsertPack
    <3> QED
      BY <3>1, <3>2, PackCount
  <2>2. /\ records' = [t \in Mandatory |->
               IF records[t].status # "ABSENT" /\ records[t].pack = 0
               THEN [records[t] EXCEPT !.pack = n] ELSE records[t]]
        /\ UNCHANGED <<reported, ingesters>>
    BY <1>2 DEF InsertPack, Attach, Attached
  <2> HIDE DEF n
  <2>3. \A t \in Mandatory : [records[t] EXCEPT !.pack = n] \in SupplyChainRecord
                             /\ [records[t] EXCEPT !.pack = n].status = records[t].status
    BY <2>1 DEF SupplyChainRecord
  <2>4. /\ records' \in [Mandatory -> SupplyChainRecord]
        /\ \A t \in Mandatory : records'[t].status = records[t].status
    BY <2>2, <2>3
  <2>5. Successful' = Successful
    BY <2>4 DEF Successful
  <2> QED
    BY <2>2, <2>4, <2>5 DEF CompleteIsTrue
<1>3. ASSUME NEW i \in Ingesters, NEW t \in Mandatory, NEW s \in {"FAILED", "PASSED"},
             IngestRecord(i, t, s)
      PROVE  /\ RecordInv'
             /\ \A u \in Mandatory : records[u].pack # 0 => records'[u].pack = records[u].pack
  <2> DEFINE row == [records[t] EXCEPT !.status = s]
             x == [ingesters[i] EXCEPT !.pc = "measure"]
  <2>1. row \in SupplyChainRecord /\ row.pack = records[t].pack /\ row.status = s
    BY DEF SupplyChainRecord
  <2>2. x \in [pc : {"idle", "measure", "refresh"}, result : {"INCOMPLETE", "COMPLETE"}]
        /\ x.pc = "measure"
    OBVIOUS
  <2>3. /\ records[t].status = "ABSENT" /\ records' = [records EXCEPT ![t] = row]
        /\ ingesters' = [ingesters EXCEPT ![i] = x] /\ UNCHANGED reported
    BY <1>3 DEF IngestRecord
  <2> HIDE DEF row, x
  <2>4. Successful # Mandatory
    BY <2>3 DEF Successful
  <2>5. \A j \in Ingesters : ingesters'[j] = IF j = i THEN x ELSE ingesters[j]
    BY <2>3
  <2> QED
    BY <2>1, <2>2, <2>3, <2>4, <2>5 DEF CompleteIsTrue
<1>4. ASSUME NEW i \in Ingesters, Measure(i) PROVE RecordInv' /\ UNCHANGED records
  <2> DEFINE x == [pc |-> "refresh", result |-> Completeness]
  <2>1. Completeness \in {"INCOMPLETE", "COMPLETE"}
        /\ (Completeness = "COMPLETE" => Successful = Mandatory)
    BY DEF Completeness, Counted, Successful
  <2>2. ingesters' = [ingesters EXCEPT ![i] = x] /\ UNCHANGED <<records, reported>>
        /\ Successful' = Successful
    BY <1>4 DEF Measure, Successful
  <2> QED
    BY <2>1, <2>2 DEF CompleteIsTrue
<1>5. ASSUME NEW i \in Ingesters, RefreshCompleteness(i) PROVE RecordInv' /\ UNCHANGED records
  <2>1. /\ ingesters[i].pc = "refresh" /\ reported' = ingesters[i].result
        /\ ingesters' = [ingesters EXCEPT ![i] = NoIngest] /\ UNCHANGED records
        /\ Successful' = Successful
    BY <1>5 DEF RefreshCompleteness, Successful
  <2>2. NoIngest \in [pc : {"idle", "measure", "refresh"}, result : {"INCOMPLETE", "COMPLETE"}]
        /\ NoIngest.pc = "idle"
    BY DEF NoIngest
  <2> QED
    BY <2>1, <2>2 DEF CompleteIsTrue
<1>6. CASE PackNext
  BY <1>1, <1>2, <1>6 DEF PackNext, BeginBuild, WriteManifest, SealManifest, BuilderDies,
     DamageFile, VerifyPack, recordVars
<1>7. CASE RecordNext
  BY <1>3, <1>4, <1>5, <1>7 DEF RecordNext
<1> QED
  BY <1>6, <1>7

\* Attestations chain to the last one read.
LEMMA AttestSteps ==
  ASSUME AttestInv, AttestNext
  PROVE  AttestInv'
<1> USE DEF AttestInv
<1> DEFINE Shape == [pc : {"idle", "insert"}, previous : 0 .. AttestBound,
                     alone : {"yes", "no"}]
<1>1. Len(attestations) \in 0 .. AttestBound
  BY EvidenceAssumption
<1>2. ASSUME NEW a \in Attesters, Attest(a) PROVE AttestInv'
  <2> DEFINE alone == IF \E x \in Attesters \ {a} : attesters[x].pc # "idle" THEN "no" ELSE "yes"
             x == [pc |-> "insert", previous |-> Len(attestations), alone |-> alone]
             y(o) == [attesters[o] EXCEPT !.alone = "no"]
  <2>1. alone \in {"yes", "no"}
        /\ (alone = "yes" => \A o \in Attesters : o # a => attesters[o].pc = "idle")
    OBVIOUS
  <2>2. attesters' = [o \in Attesters |-> IF o = a THEN x ELSE y(o)] /\ UNCHANGED attestations
    BY <1>2 DEF Attest, PreviousAttestation, LatestAttestation
  <2> HIDE DEF alone
  <2>3. x \in Shape /\ x.previous = Len(attestations) /\ x.alone = alone
    BY <1>1, <2>1
  <2>4. \A o \in Attesters : y(o) \in Shape /\ y(o).pc = attesters[o].pc /\ y(o).alone = "no"
    OBVIOUS
  <2> HIDE DEF x, y
  <2>5. \A o \in Attesters : attesters'[o] = IF o = a THEN x ELSE y(o)
    BY <2>2
  <2> QED
    BY <2>1, <2>2, <2>3, <2>4, <2>5 DEF SolitaryAttestationsVerify
<1>3. ASSUME NEW a \in Attesters, InsertAttestation(a) PROVE AttestInv'
  <2> DEFINE v == VerifyAttestation(attesters[a].previous)
             row == [previous |-> attesters[a].previous, alone |-> attesters[a].alone,
                     status |-> v]
  <2>1. v \in {"VALID", "INVALID"} /\ (attesters[a].previous = Len(attestations) => v = "VALID")
    BY DEF VerifyAttestation
  <2>2. /\ attestations' = Append(attestations, row) /\ Len(attestations) < AttestBound
        /\ attesters' = [attesters EXCEPT ![a] = NoAttest] /\ attesters[a].pc = "insert"
    BY <1>3 DEF InsertAttestation
  <2> HIDE DEF v
  <2>3. row \in Attestation /\ row.alone = attesters[a].alone /\ row.status = v
    BY <2>1 DEF Attestation
  <2> HIDE DEF row
  <2>4. NoAttest \in Shape /\ NoAttest.pc = "idle"
    BY EvidenceAssumption DEF NoAttest
  <2>5. /\ attestations' \in Seq(Attestation) /\ Len(attestations') = Len(attestations) + 1
        /\ \A n \in 1 .. Len(attestations) : attestations'[n] = attestations[n]
        /\ attestations'[Len(attestations) + 1] = row
    BY <2>2, <2>3
  <2>6. SolitaryAttestationsVerify'
    <3> SUFFICES ASSUME NEW n \in 1 .. Len(attestations) + 1,
                        attestations'[n].alone = "yes"
                 PROVE  attestations'[n].status = "VALID"
      BY <2>5 DEF SolitaryAttestationsVerify
    <3>1. CASE n \in 1 .. Len(attestations)
      BY <2>5, <3>1 DEF SolitaryAttestationsVerify
    <3>2. CASE n = Len(attestations) + 1
      BY <2>1, <2>2, <2>3, <2>5, <3>2
    <3> QED
      BY <1>1, <3>1, <3>2
  <2>7. \A o \in Attesters : attesters'[o] = IF o = a THEN NoAttest ELSE attesters[o]
    BY <2>2
  <2>8. Len(attestations') <= AttestBound /\ attesters' \in [Attesters -> Shape]
    BY <1>1, <2>2, <2>4, <2>5, EvidenceAssumption
  <2> QED
    BY <2>2, <2>4, <2>5, <2>6, <2>7, <2>8
<1> QED
  BY <1>2, <1>3 DEF AttestNext

\* The invariant holds before any build.
LEMMA EviInitInv ==
  ASSUME EviInit
  PROVE  EviInv
<1>1. PackInv
  <2>1. /\ packs = <<>> /\ Len(packs) = 0 /\ builds = 0
        /\ builders = [b \in Builders |-> NoBuild] /\ dirs = [d \in Dirs |-> 0]
    BY DEF EviInit
  <2>2. PackTypes
    BY <2>1, NoBuildIs, EvidenceAssumption, EvidenceNumbers DEF PackTypes
  <2>3. ActiveBuilders = {}
    BY <2>1, NoBuildIs DEF ActiveBuilders
  <2>4. BuildsCounted
    BY <2>1, <2>3, FS_EmptySet DEF BuildsCounted
  <2>5. BuildersSound /\ PacksSound
    BY <2>1, NoBuildIs DEF BuildersSound, BuilderSound, PacksSound
  <2> QED
    BY <2>2, <2>4, <2>5 DEF PackInv
<1>2. RecordInv
  BY EvidenceAssumption
     DEF EviInit, RecordInv, SupplyChainRecord, NoIngest, CompleteIsTrue
<1>3. AttestInv
  BY EvidenceAssumption DEF EviInit, AttestInv, NoAttest, SolitaryAttestationsVerify
<1> QED
  BY <1>1, <1>2, <1>3 DEF EviInv

\* Every step keeps the invariant and the pack of a record.
LEMMA EviSteps ==
  ASSUME EviInv, [EviNext]_evidenceVars
  PROVE  /\ EviInv'
         /\ \A t \in Mandatory : records[t].pack # 0 => records'[t].pack = records[t].pack
<1> USE DEF EviInv
<1>1. UNCHANGED packVars => PackInv'
  BY DEF packVars, PackInv, PackTypes, BuildsCounted, ActiveBuilders, BuildersSound,
     BuilderSound, PacksSound, PackSound
<1>2. UNCHANGED recordVars =>
        RecordInv' /\ \A t \in Mandatory : records'[t].pack = records[t].pack
  BY DEF recordVars, RecordInv, CompleteIsTrue, Successful
<1>3. UNCHANGED attestVars => AttestInv'
  BY DEF attestVars, AttestInv, SolitaryAttestationsVerify
<1>4. CASE PackNext
  <2>1. PackInv'
    BY <1>4, BeginBuildStep, WriteSealSteps, InsertPackStep, BuilderDiesStep, DamageStep,
       VerifyPackStep DEF PackNext
  <2>2. UNCHANGED attestVars
    BY <1>4 DEF PackNext, BeginBuild, WriteManifest, SealManifest, InsertPack, BuilderDies,
       DamageFile, VerifyPack
  <2> QED
    BY <1>3, <1>4, <2>1, <2>2, RecordSteps
<1>5. CASE RecordNext
  <2>1. UNCHANGED packVars /\ UNCHANGED attestVars
    BY <1>5 DEF RecordNext, IngestRecord, Measure, RefreshCompleteness
  <2> QED
    BY <1>1, <1>3, <1>5, <2>1, RecordSteps
<1>6. CASE AttestNext
  <2>1. UNCHANGED packVars /\ UNCHANGED recordVars
    BY <1>6 DEF AttestNext, Attest, InsertAttestation
  <2> QED
    BY <1>1, <1>2, <1>6, <2>1, AttestSteps
<1>7. CASE UNCHANGED evidenceVars
  BY <1>1, <1>2, <1>3, <1>7 DEF evidenceVars, packVars, recordVars, attestVars
<1> QED
  BY <1>4, <1>5, <1>6, <1>7 DEF EviNext

\* EviInv holds in every state.
THEOREM EvidenceInvariant == EviSpec => []EviInv
<1>1. EviInit => EviInv
  BY EviInitInv
<1>2. EviInv /\ [EviNext]_evidenceVars => EviInv'
  BY EviSteps
<1> QED
  BY <1>1, <1>2, PTL DEF EviSpec

\* For any builders, record types and attesters: a pack or attestation made alone

\* verifies unless its file was damaged, a report of completeness is true, and a record
\* stays in the pack that holds it (EvidencePackService, SupplyChainService).
THEOREM EvidenceStaysVerifiable == EviSpec => EvidenceVerifies
<1>1. EviInv => EviTypeOK /\ SolitaryPacksVerify /\ CompleteIsTrue /\ SolitaryAttestationsVerify
  <2> SUFFICES ASSUME EviInv
               PROVE  EviTypeOK /\ SolitaryPacksVerify /\ CompleteIsTrue
                      /\ SolitaryAttestationsVerify
    OBVIOUS
  <2>1. Len(packs) <= BuildBound
    BY PackCount, EvidenceAssumption DEF EviInv
  <2>2. EviTypeOK
    BY <2>1 DEF EviInv, PackInv, PackTypes, RecordInv, AttestInv, EviTypeOK
  <2>3. SolitaryPacksVerify
    BY DEF EviInv, PackInv, PacksSound, PackSound, SolitaryPacksVerify, PackVerdict,
       ManifestMatches, ChainMatches
  <2> QED
    BY <2>2, <2>3 DEF EviInv, RecordInv, AttestInv
<1>2. EviInv /\ [EviNext]_evidenceVars
        => [\A t \in Mandatory : records[t].pack # 0
              => records'[t].pack = records[t].pack]_evidenceVars
  BY EviSteps
<1> QED
  BY <1>1, <1>2, EvidenceInvariant, PTL DEF EviSpec, EvidenceVerifies, AttachmentIsFinal

-----------------------------------------------------------------------------
(* Backups and restore drills                                              *)

\* The stages of an execution.
ExecStages == {"claim", "dump", "encrypt", "seal"}

\* The stages of a drill, and those from which a restore may pass.
DrillStages == {"compare", "decrypt", "createdb", "restore", "finish"}
Reading(w) == \/ workers[w].pc \in {"createdb", "restore"}
              \/ workers[w].pc = "finish" /\ workers[w].verdict = "PASSED"

\* A backup that was sealed, and one whose file no other backup writes.
BackupSettled(b) == backups[b].status \in {"COMPLETED", "CORRUPT"}
OwnFile(b) == ~ \E c \in Backups \ {b} : backups[c].path = backups[b].path

\* While executions of a backup did not overlap there is one at a time, and none
\* after the backup was sealed, so that its file is what the checksum says.
BackupSealed(b) ==
  backups[b].overlapped = "no" =>
    /\ \A v, w \in Executing(b) : v = w
    /\ BackupSettled(b) => /\ Executing(b) = {}
                           /\ OwnFile(b) => files[backups[b].path] = backups[b].checksum

\* A drill is of a sealed backup; what it decrypted, and what it restored, is
\* what the backup recorded.
DrillSound(w) ==
  drills[w] # Nothing =>
    LET b == drills[w].backup IN
    backups[b].overlapped = "no" =>
      /\ BackupSettled(b)
      /\ OwnFile(b) =>
           /\ workers[w].pc \in DrillStages /\ Reading(w) =>
                workers[w].source = backups[b].checksum
           /\ drills[w].status = "PASSED" => drills[w].restored = backups[b].checksum

\* A drill under way knows its record, and its database is one of its own.
DrillKnown(w) ==
  /\ workers[w].pc \in DrillStages =>
       /\ drills[w] \in Drill /\ drills[w].backup = workers[w].backup
       /\ drills[w].status = "RUNNING"
  /\ workers[w].pc = "createdb" => drills[w].isolated = "yes"
  /\ w \in databases =>
       /\ drills[w] \in Drill /\ drills[w].isolated = "yes"
       /\ drills[w].keep = "no" /\ workers[w].pc \notin DrillStages /\ kills = 0
            => drills[w].status = "FAILED"

\* Every drill and every backup.
DrillsKept == drills \in [BackupWorkers -> Drill \cup {Nothing}]
BackupsSealed == \A b \in Backups : BackupSealed(b)
DrillsSound == \A w \in BackupWorkers : DrillSound(w)
DrillsKnown == \A w \in BackupWorkers : DrillKnown(w)

\* The inductive invariant of backups and drills.
BakInv == /\ BakTypeOK /\ DrillsKept /\ NoPlainDump
          /\ BackupsSealed /\ DrillsSound /\ DrillsKnown

\* The values in a state of the right type.
LEMMA BackupShapes ==
  ASSUME BakTypeOK
  PROVE  /\ \A b \in Backups : /\ Idle(b) \in Worker /\ Idle(b).pc = "idle"
                               /\ Idle(b).backup = b /\ Idle(b).verdict = "RUNNING"
                               /\ backups[b] \in BackupRow /\ backups[b].path \in Paths
                               /\ plain[b] \in 0 .. DumpBound
         /\ \A w \in BackupWorkers : /\ workers[w] \in Worker /\ workers[w].backup \in Backups
                                     /\ workers[w].source \in 0 .. DumpBound
         /\ \A p \in Paths : files[p] \in 0 .. DumpBound
         /\ 0 \in 0 .. DumpBound
<1>1. 0 \in 0 .. DumpBound
  BY BackupAssumption
<1>2. \A b \in Backups : /\ Idle(b) \in Worker /\ Idle(b).pc = "idle"
                         /\ Idle(b).backup = b /\ Idle(b).verdict = "RUNNING"
  BY <1>1 DEF Idle, Worker
<1> QED
  BY <1>1, <1>2 DEF BakTypeOK, BackupRow, Worker

\* Who executes a backup after one worker moved.
LEMMA ExecutingAfter ==
  ASSUME BakTypeOK, NEW w \in BackupWorkers, NEW x, workers' = [workers EXCEPT ![w] = x],
         NEW b
  PROVE  \A v \in BackupWorkers :
           v \in Executing(b)' <=> IF v = w THEN x.backup = b /\ x.pc \in ExecStages
                                   ELSE v \in Executing(b)
  BY DEF BakTypeOK, Executing, Of, ExecStages

\* Who executes a backup.
LEMMA ExecutingIs ==
  ASSUME NEW b, NEW v \in BackupWorkers
  PROVE  v \in Executing(b) <=> workers[v].backup = b /\ workers[v].pc \in ExecStages
  BY DEF Executing, Of, ExecStages

\* A step of an execution: drills read only sealed backups, which it does not touch.
LEMMA ExecutionSide ==
  ASSUME BakInv, NEW w \in BackupWorkers, NEW x \in Worker,
         workers[w].pc \in ExecStages, workers' = [workers EXCEPT ![w] = x],
         x.backup = workers[w].backup, x.pc \notin DrillStages,
         UNCHANGED <<databases, drills, kills>>, dumps' \in 0 .. DumpBound,
         NEW b \in Backups, b = workers[w].backup,
         NEW row \in BackupRow, backups' = [backups EXCEPT ![b] = row],
         row.path = backups[b].path, row.overlapped = backups[b].overlapped,
         row.status \in {"COMPLETED", "CORRUPT"} =>
           \/ row.status = backups[b].status /\ row.checksum = backups[b].checksum
           \/ x.pc \notin ExecStages /\ files'[row.path] = row.checksum,
         files' \in [Paths -> 0 .. DumpBound], plain' \in [Backups -> 0 .. DumpBound],
         \A p \in Paths : p # row.path => files'[p] = files[p],
         \A c \in Backups : c # b => plain'[c] = plain[c],
         plain'[b] = 0 \/ x.pc \in ExecStages
  PROVE  BakInv'
<1> USE DEF BakInv
<1>0. w \in Executing(b)
  BY ExecutingIs
<1>1. BakTypeOK' /\ DrillsKept'
  BY DEF BakTypeOK, DrillsKept
<1>2. /\ \A c \in Backups : backups'[c] = IF c = b THEN row ELSE backups[c]
      /\ \A v \in BackupWorkers : workers'[v] = IF v = w THEN x ELSE workers[v]
  BY DEF BakTypeOK
<1>3. \A c \in Backups, v \in BackupWorkers :
        v \in Executing(c)' <=> IF v = w THEN x.backup = c /\ x.pc \in ExecStages
                                ELSE v \in Executing(c)
  BY ExecutingAfter
<1>4. \A c \in Backups : Executing(c)' \subseteq BackupWorkers /\ Executing(c) \subseteq BackupWorkers
  BY DEF Executing
<1>5. NoPlainDump'
  <2> SUFFICES ASSUME NEW c \in Backups, plain'[c] # 0
               PROVE  Executing(c)' # {} \/ kills > 0
    BY DEF NoPlainDump
  <2>1. CASE c = b
    BY <1>3, <2>1
  <2>2. CASE c # b
    <3>1. Executing(c) # {} \/ kills > 0
      BY <2>2 DEF NoPlainDump
    <3>2. \A v \in Executing(c) : v \in Executing(c)'
      BY <1>0, <1>3, <1>4, <2>2, ExecutingIs
    <3> QED
      BY <3>1, <3>2
  <2> QED
    BY <2>1, <2>2
<1>6. \A c \in Backups : /\ backups'[c].path = backups[c].path /\ OwnFile(c)' <=> OwnFile(c)
                         /\ backups'[c].overlapped = backups[c].overlapped
                         /\ backups[c].path \in Paths
  BY <1>2, BackupShapes DEF OwnFile
<1>7. \A c \in Backups : \A v \in Executing(c)' : v \in Executing(c)
  BY <1>0, <1>3, <1>4, ExecutingIs
<1>8. BackupsSealed'
  <2> SUFFICES ASSUME NEW c \in Backups, backups[c].overlapped = "no"
               PROVE  /\ \A u, v \in Executing(c)' : u = v
                      /\ BackupSettled(c)' =>
                           /\ Executing(c)' = {}
                           /\ OwnFile(c) => files'[backups[c].path] = backups'[c].checksum
    BY <1>6 DEF BackupsSealed, BackupSealed
  <2>1. /\ \A u, v \in Executing(c) : u = v
        /\ BackupSettled(c) => /\ Executing(c) = {}
                               /\ OwnFile(c) => files[backups[c].path] = backups[c].checksum
    BY DEF BackupsSealed, BackupSealed
  <2>2. \A u, v \in Executing(c)' : u = v
    BY <1>7, <2>1
  <2>3. CASE c # b
    <3>1. backups'[c] = backups[c]
      BY <1>2, <2>3
    <3>2. OwnFile(c) => files'[backups[c].path] = files[backups[c].path]
      BY <1>6, <2>3 DEF OwnFile
    <3>3. Executing(c) = {} => Executing(c)' = {}
      BY <1>7
    <3> QED
      BY <2>1, <2>2, <3>1, <3>2, <3>3 DEF BackupSettled
  <2>4. CASE c = b
    <3>1. ~BackupSettled(b) /\ \A v \in Executing(b) : v = w
      BY <1>0, <2>1, <2>4
    <3>2. ASSUME BackupSettled(b)'
          PROVE  x.pc \notin ExecStages /\ files'[row.path] = row.checksum
      BY <1>2, <3>1, <3>2 DEF BackupSettled
    <3>3. x.pc \notin ExecStages => Executing(b)' = {}
      BY <1>3, <1>4, <1>7, <3>1
    <3> QED
      BY <1>2, <2>2, <2>4, <3>2, <3>3
  <2> QED
    BY <2>3, <2>4
<1>9. DrillsSound'
  <2> SUFFICES ASSUME NEW v \in BackupWorkers PROVE DrillSound(v)'
    BY DEF DrillsSound
  <2>1. CASE drills[v] = Nothing
    BY <2>1 DEF DrillSound
  <2>2. CASE drills[v] # Nothing
    <3> DEFINE c == drills[v].backup
    <3>1. c \in Backups
      BY <2>2 DEF DrillsKept, Drill
    <3>2. DrillSound(v)
      BY DEF DrillsSound
    <3>3. CASE backups[c].overlapped # "no"
      BY <1>6, <3>1, <3>3 DEF DrillSound
    <3>4. CASE backups[c].overlapped = "no"
      <4>1. BackupSettled(c)
        BY <2>2, <3>2, <3>4 DEF DrillSound
      <4>2. c # b
        BY <1>0, <3>1, <3>4, <4>1 DEF BackupsSealed, BackupSealed
      <4>3. backups'[c] = backups[c]
        BY <1>2, <3>1, <4>2
      <4>4. workers'[v] = workers[v] \/ workers'[v].pc \notin DrillStages
        BY <1>2
      <4> QED
        BY <1>6, <2>2, <3>1, <3>2, <3>4, <4>1, <4>3, <4>4
           DEF DrillSound, BackupSettled, Reading
    <3> QED
      BY <3>3, <3>4
  <2> QED
    BY <2>1, <2>2
<1>10. DrillsKnown'
  <2>1. workers[w].pc \notin DrillStages /\ x.pc # "createdb"
    BY DEF DrillStages, ExecStages
  <2> QED
    BY <1>2, <2>1 DEF DrillsKnown, DrillKnown
<1> QED
  BY <1>1, <1>5, <1>8, <1>9, <1>10

\* The stages of an execution and its failure.
LEMMA ExecutionSteps ==
  ASSUME BakInv, NEW w \in BackupWorkers,
         Claim(w) \/ Dump(w) \/ Encrypt(w) \/ Seal(w) \/ ExecuteFails(w)
  PROVE  BakInv'
<1> USE DEF BakInv
<1> DEFINE b == workers[w].backup
           at(pc) == [workers[w] EXCEPT !.pc = pc]
           p == backups[b].path
<1>0. /\ b \in Backups /\ p \in Paths /\ backups[b] \in BackupRow
      /\ workers[w] \in Worker /\ files[p] \in 0 .. DumpBound
      /\ plain[b] \in 0 .. DumpBound /\ 0 \in 0 .. DumpBound
  BY BackupShapes
<1>1. \A pc \in {"dump", "encrypt", "seal", "idle"} :
        /\ at(pc) \in Worker /\ at(pc).pc = pc /\ at(pc).backup = b
        /\ MovesTo(w, pc) => workers' = [workers EXCEPT ![w] = at(pc)]
        /\ pc \notin DrillStages /\ (pc # "idle" => pc \in ExecStages)
        /\ "idle" \notin ExecStages
  BY <1>0 DEF Worker, MovesTo, BakTypeOK, DrillStages, ExecStages
<1>2. Row(w) = backups[b] /\ Of(w) = b
  BY DEF Row, Of
<1>3. backups = [backups EXCEPT ![b] = backups[b]]
  BY <1>0 DEF BakTypeOK
<1>4. dumps \in 0 .. DumpBound /\ backups[b].path = p /\ files \in [Paths -> 0 .. DumpBound]
      /\ plain \in [Backups -> 0 .. DumpBound]
  BY DEF BakTypeOK
<1> DEFINE Moves(x, row) ==
      /\ workers[w].pc \in ExecStages /\ workers' = [workers EXCEPT ![w] = x]
      /\ x.backup = b /\ x.pc \notin DrillStages
      /\ UNCHANGED <<databases, drills, kills>> /\ dumps' \in 0 .. DumpBound
      /\ backups' = [backups EXCEPT ![b] = row]
      /\ row.path = p /\ row.overlapped = backups[b].overlapped
      /\ row.status \in {"COMPLETED", "CORRUPT"} =>
           \/ row.status = backups[b].status /\ row.checksum = backups[b].checksum
           \/ x.pc \notin ExecStages /\ files'[row.path] = row.checksum
      /\ files' \in [Paths -> 0 .. DumpBound] /\ plain' \in [Backups -> 0 .. DumpBound]
      /\ \A q \in Paths : q # p => files'[q] = files[q]
      /\ \A c \in Backups : c # b => plain'[c] = plain[c]
      /\ plain'[b] = 0 \/ x.pc \in ExecStages
<1>10. ASSUME NEW x \in Worker, NEW row \in BackupRow, Moves(x, row) PROVE BakInv'
  <2>1. row.path = backups[workers[w].backup].path
    BY <1>10
  <2> QED
    BY <1>0, <1>10, <2>1, ExecutionSide
<1> HIDE DEF at, b, p, Moves
<1>5. CASE Claim(w)
  <2> DEFINE row == [backups[b] EXCEPT !.status = "RUNNING"]
  <2>1. /\ row \in BackupRow /\ row.path = p /\ row.overlapped = backups[b].overlapped
        /\ row.status = "RUNNING"
    BY <1>0 DEF BackupRow, p
  <2>2. /\ backups' = [backups EXCEPT ![b] = row]
        /\ UNCHANGED <<files, plain, databases, drills, dumps, kills>>
        /\ workers' = [workers EXCEPT ![w] = at("dump")]
        /\ workers[w].pc \in ExecStages
    BY <1>0, <1>1, <1>2, <1>5 DEF Claim, Doing, ExecStages, BakTypeOK
  <2> HIDE DEF row
  <2>9. Moves(at("dump"), row)
    BY <1>0, <1>1, <1>4, <2>1, <2>2 DEF Moves
  <2> QED
    BY <1>0, <1>1, <1>10, <2>1, <2>9
<1>6. CASE Dump(w)
  <2>1. dumps' = dumps + 1 /\ dumps' \in 0 .. DumpBound
    BY <1>4, <1>6, BackupAssumption DEF Dump
  <2>2. /\ UNCHANGED <<backups, databases, drills, kills>>
        /\ workers[w].pc \in ExecStages
    BY <1>6 DEF Dump, Doing, ExecStages
  <2>3. CASE backups[b].algorithm = "age"
    <3>1. /\ plain' = [plain EXCEPT ![b] = dumps'] /\ UNCHANGED files
          /\ workers' = [workers EXCEPT ![w] = at("encrypt")]
      BY <1>1, <1>2, <1>6, <2>3 DEF Dump
    <3>2. /\ plain' \in [Backups -> 0 .. DumpBound]
          /\ \A c \in Backups : c # b => plain'[c] = plain[c]
      BY <1>4, <2>1, <3>1
    <3>9. Moves(at("encrypt"), backups[b])
      BY <1>0, <1>1, <1>3, <1>4, <2>1, <2>2, <3>1, <3>2 DEF Moves
    <3> QED
      BY <1>0, <1>1, <1>10, <3>9
  <2>4. CASE backups[b].algorithm # "age"
    <3>1. /\ files' = [files EXCEPT ![p] = dumps'] /\ UNCHANGED plain
          /\ workers' = [workers EXCEPT ![w] = at("seal")]
      BY <1>1, <1>2, <1>6, <2>4 DEF Dump, p
    <3>2. /\ files' \in [Paths -> 0 .. DumpBound]
          /\ \A q \in Paths : q # p => files'[q] = files[q]
      BY <1>4, <2>1, <3>1
    <3>9. Moves(at("seal"), backups[b])
      BY <1>0, <1>1, <1>3, <1>4, <2>1, <2>2, <3>1, <3>2 DEF Moves
    <3> QED
      BY <1>0, <1>1, <1>10, <3>9
  <2> QED
    BY <2>3, <2>4
<1>7. CASE Encrypt(w)
  <2>1. /\ files' = [files EXCEPT ![p] = plain[b]]
        /\ UNCHANGED <<backups, plain, databases, drills, dumps, kills>>
        /\ workers' = [workers EXCEPT ![w] = at("seal")]
        /\ workers[w].pc \in ExecStages
    BY <1>1, <1>2, <1>7 DEF Encrypt, Doing, ExecStages, p
  <2>2. /\ files' \in [Paths -> 0 .. DumpBound]
        /\ \A q \in Paths : q # p => files'[q] = files[q]
    BY <1>0, <1>4, <2>1
  <2>9. Moves(at("seal"), backups[b])
    BY <1>0, <1>1, <1>3, <1>4, <2>1, <2>2 DEF Moves
  <2> QED
    BY <1>0, <1>1, <1>10, <2>9
<1>8. CASE Seal(w)
  <2> DEFINE row == [backups[b] EXCEPT !.status = "COMPLETED", !.checksum = files[p]]
  <2>1. /\ row \in BackupRow /\ row.path = p /\ row.overlapped = backups[b].overlapped
        /\ row.checksum = files[p]
    BY <1>0 DEF BackupRow, p
  <2>2. backups' = [backups EXCEPT ![b] = row]
    BY <1>0, <1>2, <1>8 DEF Seal, BakTypeOK, BackupRow, p
  <2>3. /\ UNCHANGED <<files, databases, drills, dumps, kills>>
        /\ plain' = [plain EXCEPT ![b] = 0]
        /\ workers' = [workers EXCEPT ![w] = at("idle")]
        /\ workers[w].pc \in ExecStages
    BY <1>1, <1>2, <1>8 DEF Seal, Doing, ExecStages, Unlink, UnlinkFinally
  <2>4. /\ plain' \in [Backups -> 0 .. DumpBound] /\ plain'[b] = 0
        /\ \A c \in Backups : c # b => plain'[c] = plain[c]
    BY <1>0, <1>4, <2>3
  <2> HIDE DEF row
  <2>9. Moves(at("idle"), row)
    BY <1>0, <1>1, <1>4, <2>1, <2>2, <2>3, <2>4 DEF Moves
  <2> QED
    BY <1>0, <1>1, <1>10, <2>1, <2>9
<1>9. CASE ExecuteFails(w)
  <2> DEFINE row == [backups[b] EXCEPT !.status = "FAILED"]
  <2>1. /\ row \in BackupRow /\ row.path = p /\ row.overlapped = backups[b].overlapped
        /\ row.status = "FAILED"
    BY <1>0 DEF BackupRow, p
  <2>2. /\ backups' = [backups EXCEPT ![b] = row]
        /\ UNCHANGED <<databases, drills, dumps, kills>>
        /\ plain' = [plain EXCEPT ![b] = 0]
        /\ workers' = [workers EXCEPT ![w] = at("idle")]
        /\ workers[w].pc \in ExecStages
    BY <1>0, <1>1, <1>2, <1>9 DEF ExecuteFails, ExecStages, Unlink, UnlinkFinally, BakTypeOK
  <2>3. files' = files \/ files' = [files EXCEPT ![p] = 0]
    BY <1>2, <1>9 DEF ExecuteFails, Spoilt, p
  <2>4. /\ files' \in [Paths -> 0 .. DumpBound]
        /\ \A q \in Paths : q # p => files'[q] = files[q]
    BY <1>0, <1>4, <2>3
  <2>5. /\ plain' \in [Backups -> 0 .. DumpBound] /\ plain'[b] = 0
        /\ \A c \in Backups : c # b => plain'[c] = plain[c]
    BY <1>0, <1>4, <2>2
  <2> HIDE DEF row
  <2>9. Moves(at("idle"), row)
    BY <1>0, <1>1, <1>4, <2>1, <2>2, <2>4, <2>5 DEF Moves
  <2> QED
    BY <1>0, <1>1, <1>10, <2>1, <2>9
<1> QED
  BY <1>5, <1>6, <1>7, <1>8, <1>9

\* A step of a drill changes no backup but its verification.
LEMMA DrillSide ==
  ASSUME BakInv, NEW w \in BackupWorkers, NEW x \in Worker, NEW row,
         workers[w].pc \notin ExecStages, x.pc \notin ExecStages,
         workers' = [workers EXCEPT ![w] = x], drills' = [drills EXCEPT ![w] = row],
         row \in Drill \cup {Nothing}, UNCHANGED <<files, plain, dumps, kills>>,
         databases' \subseteq BackupWorkers,
         \A v \in BackupWorkers \ {w} : v \in databases' <=> v \in databases,
         backups' \in [Backups -> BackupRow],
         \A c \in Backups : /\ backups'[c].path = backups[c].path
                            /\ backups'[c].checksum = backups[c].checksum
                            /\ backups'[c].overlapped = backups[c].overlapped
                            /\ backups[c].overlapped = "no" =>
                                 (BackupSettled(c)' <=> BackupSettled(c)),
         DrillSound(w)', DrillKnown(w)'
  PROVE  BakInv'
<1> USE DEF BakInv
<1>1. BakTypeOK' /\ DrillsKept'
  BY DEF BakTypeOK, DrillsKept
<1>2. \A v \in BackupWorkers : v # w => workers'[v] = workers[v] /\ drills'[v] = drills[v]
  BY DEF BakTypeOK, DrillsKept
<1>3. \A c \in Backups : Executing(c)' = Executing(c)
  <2>1. \A c \in Backups, v \in BackupWorkers : v \in Executing(c)' <=> v \in Executing(c)
    BY ExecutingAfter, ExecutingIs
  <2> QED
    BY <2>1 DEF Executing
<1>4. \A c \in Backups : OwnFile(c)' <=> OwnFile(c)
  BY DEF OwnFile
<1>5. NoPlainDump'
  BY <1>3 DEF NoPlainDump
<1>6. BackupsSealed'
  BY <1>3, <1>4 DEF BackupsSealed, BackupSealed
<1>7. DrillsSound'
  <2> SUFFICES ASSUME NEW v \in BackupWorkers, v # w, drills[v] # Nothing
               PROVE  DrillSound(v)'
    BY <1>2 DEF DrillsSound, DrillSound
  <2>1. drills[v].backup \in Backups
    BY DEF DrillsKept, Drill
  <2> QED
    BY <1>2, <1>4, <2>1 DEF DrillsSound, DrillSound, Reading
<1>8. DrillsKnown'
  BY <1>2 DEF DrillsKnown, DrillKnown
<1> QED
  BY <1>1, <1>5, <1>6, <1>7, <1>8

\* The start of a drill.
LEMMA BeginDrillStep ==
  ASSUME BakInv, NEW w \in BackupWorkers, NEW b \in Backups, BeginDrill(w, b)
  PROVE  BakInv'
<1> USE DEF BakInv
<1> DEFINE x == [Idle(b) EXCEPT !.pc = "compare"]
<1>1. PICK kind \in {<<"yes", "no">>, <<"yes", "yes">>, <<"no", "no">>} :
        drills' = [drills EXCEPT ![w] = [backup |-> b, status |-> "RUNNING",
                     isolated |-> kind[1], keep |-> kind[2], restored |-> 0]]
  BY DEF BeginDrill
<1> DEFINE row == [backup |-> b, status |-> "RUNNING", isolated |-> kind[1],
                   keep |-> kind[2], restored |-> 0]
<1>2. row \in Drill /\ row.backup = b /\ row.status = "RUNNING"
  BY BackupShapes DEF Drill
<1>3. x \in Worker /\ x.pc = "compare" /\ x.backup = b
  BY BackupShapes DEF Worker
<1>4. /\ workers' = [workers EXCEPT ![w] = x] /\ drills' = [drills EXCEPT ![w] = row]
      /\ UNCHANGED <<backups, files, plain, databases, dumps, kills>>
      /\ workers[w].pc = "idle" /\ w \notin databases
      /\ backups[b].status = "COMPLETED"
  BY <1>1 DEF BeginDrill, Doing
<1> HIDE DEF x, row
<1>5. workers'[w] = x /\ drills'[w] = row
  BY <1>4 DEF BakTypeOK, DrillsKept
<1>6. DrillSound(w)'
  BY <1>2, <1>3, <1>4, <1>5 DEF DrillSound, Reading, BackupSettled
<1>7. DrillKnown(w)'
  BY <1>2, <1>3, <1>4, <1>5 DEF DrillKnown
<1>8. "idle" \notin ExecStages /\ "compare" \notin ExecStages
  BY DEF ExecStages
<1>9. backups' \in [Backups -> BackupRow] /\ databases' \subseteq BackupWorkers
  BY <1>4 DEF BakTypeOK
<1> QED
  BY <1>2, <1>3, <1>4, <1>6, <1>7, <1>8, <1>9, DrillSide DEF BackupSettled

\* The stages of a drill and its failure.
LEMMA DrillSteps ==
  ASSUME BakInv, NEW w \in BackupWorkers,
         Compare(w) \/ Decrypt(w) \/ CreateDb(w) \/ Restore(w) \/ DrillFails(w)
  PROVE  BakInv'
<1> USE DEF BakInv
<1>0. /\ workers[w] \in Worker /\ workers[w].backup \in Backups
      /\ backups[workers[w].backup].path \in Paths
      /\ files[backups[workers[w].backup].path] \in 0 .. DumpBound
      /\ DrillSound(w) /\ DrillKnown(w)
  BY BackupShapes DEF DrillsSound, DrillsKnown
<1>1. workers[w].pc \in DrillStages /\ workers[w].pc \notin ExecStages /\ workers[w].pc # "finish"
  BY DEF Compare, Decrypt, CreateDb, Restore, DrillFails, Doing, DrillStages, ExecStages
<1>2. /\ drills[w] \in Drill /\ drills[w].backup = workers[w].backup
      /\ drills[w].status = "RUNNING"
  BY <1>0, <1>1 DEF DrillKnown
<1>3. /\ UNCHANGED <<backups, files, plain, drills, dumps, kills>>
      /\ drills' = [drills EXCEPT ![w] = drills[w]]
      /\ backups' \in [Backups -> BackupRow]
      /\ \A c \in Backups : BackupSettled(c)' <=> BackupSettled(c)
      /\ \A c \in Backups : OwnFile(c)' <=> OwnFile(c)
  BY DEF Compare, Decrypt, CreateDb, Restore, DrillFails, DrillsKept, BakTypeOK,
     BackupSettled, OwnFile
<1>4. ASSUME NEW x \in Worker, workers' = [workers EXCEPT ![w] = x],
             x.backup = workers[w].backup, x.pc \in DrillStages,
             x.pc = "createdb" => drills[w].isolated = "yes",
             \/ UNCHANGED databases
             \/ databases' = databases \cup {w} /\ drills[w].isolated = "yes",
             x.pc \in {"createdb", "restore"} \/ (x.pc = "finish" /\ x.verdict = "PASSED") =>
               \/ Reading(w) /\ x.source = workers[w].source
               \/ x.source = files[backups[workers[w].backup].path]
      PROVE  BakInv'
  <2>1. workers'[w] = x
    BY <1>4 DEF BakTypeOK
  <2>2. x.pc \notin ExecStages
    BY <1>4 DEF DrillStages, ExecStages
  <2>3. DrillKnown(w)'
    BY <1>0, <1>2, <1>3, <1>4, <2>1 DEF DrillKnown
  <2>4. DrillSound(w)'
    <3> DEFINE b == workers[w].backup
    <3> SUFFICES ASSUME drills[w] # Nothing, backups[b].overlapped = "no"
                 PROVE  /\ BackupSettled(b)
                        /\ OwnFile(b) => (Reading(w)' => x.source = backups[b].checksum)
      BY <1>0, <1>2, <1>3, <2>1 DEF DrillSound
    <3>1. BackupSettled(b)
      BY <1>0, <1>2 DEF DrillSound
    <3>2. OwnFile(b) => files[backups[b].path] = backups[b].checksum
      BY <1>0, <3>1 DEF BackupsSealed, BackupSealed
    <3>3. OwnFile(b) /\ Reading(w) => workers[w].source = backups[b].checksum
      BY <1>0, <1>1, <1>2 DEF DrillSound
    <3> HIDE DEF b
    <3> QED
      BY <1>4, <2>1, <3>1, <3>2, <3>3 DEF Reading, b
  <2>5. databases' \subseteq BackupWorkers
        /\ \A v \in BackupWorkers \ {w} : v \in databases' <=> v \in databases
    BY <1>4 DEF BakTypeOK
  <2> QED
    BY <1>1, <1>2, <1>3, <1>4, <2>2, <2>3, <2>4, <2>5, DrillSide
<1> DEFINE at(pc) == [workers[w] EXCEPT !.pc = pc]
           ends(verdict) == [workers[w] EXCEPT !.pc = "finish", !.verdict = verdict]
<1>5. \A pc \in {"decrypt", "restore"} :
        /\ at(pc) \in Worker /\ at(pc).pc = pc /\ at(pc).backup = workers[w].backup
        /\ at(pc).source = workers[w].source /\ at(pc).verdict = workers[w].verdict
        /\ MovesTo(w, pc) => workers' = [workers EXCEPT ![w] = at(pc)]
        /\ pc \in DrillStages
  BY <1>0 DEF Worker, MovesTo, BakTypeOK, DrillStages
<1>6. \A verdict \in {"PASSED", "FAILED", "CORRUPT"} :
        /\ ends(verdict) \in Worker /\ ends(verdict).pc = "finish"
        /\ ends(verdict).backup = workers[w].backup
        /\ ends(verdict).source = workers[w].source /\ ends(verdict).verdict = verdict
        /\ Verdict(w, verdict) => workers' = [workers EXCEPT ![w] = ends(verdict)]
        /\ "finish" \in DrillStages
  BY <1>0 DEF Worker, Verdict, BakTypeOK, DrillStages
<1> HIDE DEF at, ends
<1>7. CASE Compare(w)
  <2>1. UNCHANGED databases /\ (MovesTo(w, "decrypt") \/ Verdict(w, "CORRUPT"))
    BY <1>7 DEF Compare
  <2>2. CASE MovesTo(w, "decrypt")
    BY <1>4, <1>5, <2>1, <2>2
  <2>3. CASE Verdict(w, "CORRUPT")
    BY <1>4, <1>6, <2>1, <2>3
  <2> QED
    BY <2>1, <2>2, <2>3
<1>8. CASE Decrypt(w)
  <2> DEFINE src == files[backups[workers[w].backup].path]
             pc == IF drills[w].isolated = "yes" THEN "createdb" ELSE "restore"
             x == [workers[w] EXCEPT !.source = src, !.pc = pc]
  <2>1. pc \in {"createdb", "restore"} /\ src \in 0 .. DumpBound
        /\ (pc = "createdb" => drills[w].isolated = "yes")
    BY <1>0
  <2>2. workers' = [workers EXCEPT ![w] = x] /\ UNCHANGED databases
    BY <1>0, <1>8 DEF Decrypt, Row, Of, BakTypeOK, Worker
  <2> HIDE DEF src, pc
  <2>3. /\ x \in Worker /\ x.pc = pc /\ x.backup = workers[w].backup /\ x.source = src
    BY <1>0, <2>1 DEF Worker
  <2>4. pc \in DrillStages
    BY <2>1 DEF DrillStages
  <2> HIDE DEF x
  <2> QED
    BY <1>4, <2>1, <2>2, <2>3, <2>4 DEF src
<1>9. CASE CreateDb(w)
  <2>1. databases' = databases \cup {w} /\ workers[w].pc = "createdb" /\ MovesTo(w, "restore")
    BY <1>9 DEF CreateDb, Doing
  <2>2. drills[w].isolated = "yes" /\ Reading(w)
    BY <1>0, <2>1 DEF DrillKnown, Reading
  <2> QED
    BY <1>4, <1>5, <2>1, <2>2
<1>10. CASE Restore(w)
  <2>1. UNCHANGED databases /\ Verdict(w, "PASSED") /\ Reading(w)
    BY <1>10 DEF Restore, Reading, Doing
  <2> QED
    BY <1>4, <1>6, <2>1
<1>11. CASE DrillFails(w)
  <2>1. UNCHANGED databases /\ Verdict(w, "FAILED")
    BY <1>11 DEF DrillFails
  <2> QED
    BY <1>4, <1>6, <2>1
<1> QED
  BY <1>7, <1>8, <1>9, <1>10, <1>11

\* A backup is created.
LEMMA CreateStep ==
  ASSUME BakInv, NEW b \in Backups, Create(b)
  PROVE  BakInv'
<1> USE DEF BakInv
<1> DEFINE row == [backups[b] EXCEPT !.status = "PENDING"]
<1>1. /\ row \in BackupRow /\ row.path = backups[b].path /\ row.checksum = backups[b].checksum
      /\ row.overlapped = backups[b].overlapped /\ row.status = "PENDING"
  BY BackupShapes DEF BackupRow
<1>2. /\ backups[b].status = "ABSENT" /\ backups' = [backups EXCEPT ![b] = row]
      /\ UNCHANGED <<files, plain, databases, drills, workers, dumps, kills>>
  BY DEF Create, BakTypeOK, BackupRow
<1> HIDE DEF row
<1>3. \A c \in Backups : backups'[c] = IF c = b THEN row ELSE backups[c]
  BY <1>2 DEF BakTypeOK
<1>4. \A c \in Backups : /\ BackupSettled(c)' <=> BackupSettled(c)
                         /\ OwnFile(c)' <=> OwnFile(c)
                         /\ backups'[c].path = backups[c].path
                         /\ backups'[c].checksum = backups[c].checksum
                         /\ backups'[c].overlapped = backups[c].overlapped
  BY <1>1, <1>2, <1>3 DEF BackupSettled, OwnFile
<1>5. \A c \in Backups : Executing(c)' = Executing(c)
  BY <1>2 DEF Executing, Of
<1>6. BakTypeOK' /\ DrillsKept' /\ DrillsKnown'
  BY <1>1, <1>2 DEF BakTypeOK, DrillsKept, DrillsKnown, DrillKnown
<1>7. NoPlainDump'
  BY <1>2, <1>5 DEF NoPlainDump
<1>8. BackupsSealed'
  BY <1>2, <1>4, <1>5 DEF BackupsSealed, BackupSealed
<1>9. DrillsSound'
  <2> SUFFICES ASSUME NEW v \in BackupWorkers, drills[v] # Nothing PROVE DrillSound(v)'
    BY <1>2 DEF DrillsSound, DrillSound
  <2>1. drills[v].backup \in Backups
    BY DEF DrillsKept, Drill
  <2> QED
    BY <1>2, <1>4, <2>1 DEF DrillsSound, DrillSound, Reading
<1> QED
  BY <1>6, <1>7, <1>8, <1>9

\* An execution begins; beside another it is marked.
LEMMA ExecuteStep ==
  ASSUME BakInv, NEW w \in BackupWorkers, NEW b \in Backups, Execute(w, b)
  PROVE  BakInv'
<1> USE DEF BakInv
<1> DEFINE x == [Idle(b) EXCEPT !.pc = "claim"]
           o == IF Executing(b) = {} THEN backups[b].overlapped ELSE "yes"
           row == [backups[b] EXCEPT !.overlapped = o]
<1>1. x \in Worker /\ x.pc = "claim" /\ x.backup = b
  BY BackupShapes DEF Worker
<1>2. o \in {"yes", "no"} /\ backups[b] \in BackupRow
      /\ (o = "no" => backups[b].overlapped = "no" /\ Executing(b) = {})
  BY BackupShapes DEF BackupRow
<1>3. /\ workers[w].pc = "idle" /\ backups[b].status \in {"PENDING", "FAILED"}
      /\ workers' = [workers EXCEPT ![w] = x]
      /\ backups' = [backups EXCEPT ![b] = row]
      /\ UNCHANGED <<files, plain, databases, drills, dumps, kills>>
  BY DEF Execute, Doing, Executable, ExecutableOnce, BakTypeOK, BackupRow
<1> HIDE DEF x, o
<1>4. /\ row \in BackupRow /\ row.path = backups[b].path /\ row.checksum = backups[b].checksum
      /\ row.overlapped = o /\ row.status = backups[b].status
  BY <1>2 DEF BackupRow
<1> HIDE DEF row
<1>5. /\ \A c \in Backups : backups'[c] = IF c = b THEN row ELSE backups[c]
      /\ \A v \in BackupWorkers : workers'[v] = IF v = w THEN x ELSE workers[v]
  BY <1>3 DEF BakTypeOK
<1>6. \A c \in Backups, v \in BackupWorkers :
        v \in Executing(c)' <=> IF v = w THEN c = b ELSE v \in Executing(c)
  <2>1. "claim" \in ExecStages
    BY DEF ExecStages
  <2>2. \A c \in Backups, v \in BackupWorkers :
          v \in Executing(c)' <=> IF v = w THEN x.backup = c /\ x.pc \in ExecStages
                                  ELSE v \in Executing(c)
    BY <1>3, ExecutingAfter
  <2> QED
    BY <1>1, <2>1, <2>2
<1>7. \A c \in Backups : Executing(c)' \subseteq BackupWorkers /\ Executing(c) \subseteq BackupWorkers
                         /\ w \notin Executing(c)
  BY <1>3 DEF Executing
<1>8. \A c \in Backups : /\ BackupSettled(c)' <=> BackupSettled(c)
                         /\ OwnFile(c)' <=> OwnFile(c)
                         /\ backups'[c].path = backups[c].path
                         /\ backups'[c].checksum = backups[c].checksum
                         /\ backups'[c].overlapped = "no" => backups[c].overlapped = "no"
  BY <1>2, <1>4, <1>5 DEF BackupSettled, OwnFile
<1>9. BakTypeOK' /\ DrillsKept'
  BY <1>1, <1>3, <1>4 DEF BakTypeOK, DrillsKept
<1>10. "idle" \notin DrillStages /\ "claim" \notin DrillStages
  BY DEF DrillStages
<1>11. DrillsKnown'
  BY <1>1, <1>3, <1>5, <1>10 DEF DrillsKnown, DrillKnown
<1>12. NoPlainDump'
  BY <1>3, <1>6, <1>7 DEF NoPlainDump
<1>13. BackupsSealed'
  <2> SUFFICES ASSUME NEW c \in Backups, backups'[c].overlapped = "no"
               PROVE  /\ \A u, v \in Executing(c)' : u = v
                      /\ BackupSettled(c)' =>
                           /\ Executing(c)' = {}
                           /\ OwnFile(c)' => files'[backups'[c].path] = backups'[c].checksum
    BY DEF BackupsSealed, BackupSealed
  <2>1. CASE c = b
    <3>1. Executing(b) = {} /\ ~ BackupSettled(b)
      BY <1>2, <1>3, <1>4, <1>5, <2>1 DEF BackupSettled
    <3> QED
      BY <1>6, <1>7, <1>8, <2>1, <3>1
  <2>2. CASE c # b
    <3>1. Executing(c)' = Executing(c)
      BY <1>6, <1>7, <2>2
    <3> QED
      BY <1>3, <1>8, <3>1 DEF BackupsSealed, BackupSealed
  <2> QED
    BY <2>1, <2>2
<1>14. DrillsSound'
  <2> SUFFICES ASSUME NEW v \in BackupWorkers, drills[v] # Nothing PROVE DrillSound(v)'
    BY <1>3 DEF DrillsSound, DrillSound
  <2>1. drills[v].backup \in Backups
    BY DEF DrillsKept, Drill
  <2>2. workers'[v] = workers[v] \/ workers'[v].pc \notin DrillStages
    BY <1>1, <1>5, <1>10
  <2> QED
    BY <1>3, <1>8, <2>1, <2>2 DEF DrillsSound, DrillSound, Reading
<1> QED
  BY <1>9, <1>11, <1>12, <1>13, <1>14

\* A worker dies between two stages.
LEMMA WorkerDiesStep ==
  ASSUME BakInv, NEW w \in BackupWorkers, WorkerDies(w)
  PROVE  BakInv'
<1> USE DEF BakInv
<1> DEFINE x == Idle(workers[w].backup)
<1>1. x \in Worker /\ x.pc = "idle"
  BY BackupShapes
<1>2. /\ workers' = [workers EXCEPT ![w] = x] /\ kills' \in 0 .. BackupCrashBound /\ kills' > 0
      /\ UNCHANGED <<backups, files, plain, databases, drills, dumps>>
  BY BackupAssumption DEF WorkerDies, Of, BakTypeOK
<1> HIDE DEF x
<1>3. \A v \in BackupWorkers : workers'[v] = IF v = w THEN x ELSE workers[v]
  BY <1>2 DEF BakTypeOK
<1>4. "idle" \notin DrillStages /\ "idle" \notin ExecStages
  BY DEF DrillStages, ExecStages
<1>5. \A c \in Backups : \A v \in Executing(c)' : v \in Executing(c)
  <2>1. \A c \in Backups : Executing(c)' \subseteq BackupWorkers
    BY DEF Executing
  <2> QED
    BY <1>1, <1>2, <1>4, <2>1, ExecutingAfter
<1>6. BakTypeOK' /\ DrillsKept'
  BY <1>1, <1>2 DEF BakTypeOK, DrillsKept
<1>7. NoPlainDump'
  BY <1>2 DEF NoPlainDump
<1>8. BackupsSealed'
  BY <1>2, <1>5 DEF BackupsSealed, BackupSealed, BackupSettled, OwnFile
<1>9. DrillsSound'
  BY <1>1, <1>2, <1>3, <1>4 DEF DrillsSound, DrillSound, Reading, BackupSettled, OwnFile
<1>10. DrillsKnown'
  BY <1>1, <1>2, <1>3, <1>4 DEF DrillsKnown, DrillKnown
<1> QED
  BY <1>6, <1>7, <1>8, <1>9, <1>10

\* The record of a finished drill is dropped.
LEMMA CleanUpStep ==
  ASSUME BakInv, NEW w \in BackupWorkers, CleanUp(w)
  PROVE  BakInv'
<1> USE DEF BakInv
<1>1. /\ workers[w].pc = "idle" /\ databases' = databases \ {w}
      /\ drills' = [drills EXCEPT ![w] = Nothing]
      /\ UNCHANGED <<backups, files, plain, workers, dumps, kills>>
  BY DEF CleanUp, Doing
<1>2. workers[w] \in Worker /\ workers' = [workers EXCEPT ![w] = workers[w]]
  BY <1>1, BackupShapes DEF BakTypeOK
<1>3. drills'[w] = Nothing /\ workers'[w] = workers[w]
  BY <1>1 DEF DrillsKept
<1>4. workers[w].pc \notin ExecStages /\ workers[w].pc \notin DrillStages
  BY <1>1 DEF ExecStages, DrillStages
<1>5. DrillSound(w)' /\ DrillKnown(w)'
  BY <1>1, <1>3, <1>4 DEF DrillSound, DrillKnown
<1>6. /\ backups' \in [Backups -> BackupRow] /\ databases' \subseteq BackupWorkers
      /\ \A v \in BackupWorkers \ {w} : v \in databases' <=> v \in databases
      /\ \A c \in Backups : BackupSettled(c)' <=> BackupSettled(c)
  BY <1>1 DEF BakTypeOK, BackupSettled
<1> QED
  BY <1>1, <1>2, <1>4, <1>5, <1>6, DrillSide

\* A drill drops its database and records its verdict.
LEMMA CloseDrillStep ==
  ASSUME BakInv, NEW w \in BackupWorkers, NEW dropped \in BOOLEAN, CloseDrill(w, dropped)
  PROVE  BakInv'
<1> USE DEF BakInv
<1> DEFINE b == workers[w].backup
           drops == w \in databases /\ drills[w].keep = "no"
           verdict == IF drops THEN Cleanup(workers[w].verdict, dropped)
                      ELSE workers[w].verdict
           status == IF verdict = "CORRUPT" THEN "FAILED" ELSE verdict
           source == workers[w].source
           row == [drills[w] EXCEPT !.status = status, !.restored = source]
           brow == [backups[b] EXCEPT !.status = "CORRUPT"]
           x == Idle(b)
<1>0. /\ workers[w] \in Worker /\ b \in Backups /\ source \in 0 .. DumpBound
      /\ workers[w].pc = "finish" /\ DrillSound(w) /\ DrillKnown(w) /\ backups[b] \in BackupRow
  BY BackupShapes DEF DrillsSound, DrillsKnown, CloseDrill, Doing
<1>1. /\ "finish" \in DrillStages /\ "finish" \notin ExecStages
      /\ "idle" \notin DrillStages /\ "idle" \notin ExecStages
  BY DEF DrillStages, ExecStages
<1>2. drills[w] \in Drill /\ drills[w].backup = b /\ drills[w] # Nothing
  BY <1>0, <1>1, NothingAssumption DEF DrillKnown
<1>3. x \in Worker /\ x.pc = "idle"
  BY <1>0, BackupShapes
<1>4. workers[w].verdict \in {"RUNNING", "PASSED", "FAILED", "CORRUPT"}
  BY <1>0 DEF Worker
<1>5. /\ verdict \in {"RUNNING", "PASSED", "FAILED", "CORRUPT"}
      /\ status \in {"RUNNING", "PASSED", "FAILED"}
      /\ status = "PASSED" => workers[w].verdict = "PASSED"
      /\ drops /\ ~ dropped => status = "FAILED"
  BY <1>4 DEF Cleanup, FailedCleanup
<1>6. drills[w] \in [backup : Backups, status : {"RUNNING", "PASSED", "FAILED"},
          isolated : {"yes", "no"}, keep : {"yes", "no"}, restored : 0 .. DumpBound]
  BY <1>2 DEF Drill
<1>7. /\ databases' = IF drops /\ dropped THEN databases \ {w} ELSE databases
      /\ backups' = IF verdict = "CORRUPT" THEN [backups EXCEPT ![b] = brow] ELSE backups
      /\ workers' = [workers EXCEPT ![w] = x]
      /\ UNCHANGED <<files, plain, dumps, kills>>
  BY <1>0 DEF CloseDrill, Of, BakTypeOK, BackupRow
<1>8. drills' = [drills EXCEPT ![w] = row]
  BY <1>6 DEF CloseDrill, DrillsKept
<1> HIDE DEF verdict, status, source, x
<1>9. /\ row \in Drill /\ row.backup = b /\ row.status = status /\ row.restored = source
      /\ row.isolated = drills[w].isolated /\ row.keep = drills[w].keep
  BY <1>0, <1>2, <1>5, <1>6 DEF Drill
<1>10. /\ brow \in BackupRow /\ brow.path = backups[b].path /\ brow.checksum = backups[b].checksum
       /\ brow.overlapped = backups[b].overlapped /\ brow.status = "CORRUPT"
  BY <1>0 DEF BackupRow
<1> HIDE DEF row, brow
<1>11. drills'[w] = row /\ workers'[w] = x
  BY <1>7, <1>8 DEF BakTypeOK, DrillsKept
<1>12. backups' \in [Backups -> BackupRow]
       /\ \A c \in Backups : backups'[c] = backups[c] \/ (c = b /\ backups'[c] = brow)
  <2>1. backups \in [Backups -> BackupRow]
    BY DEF BakTypeOK
  <2>2. backups' = backups \/ backups' = [backups EXCEPT ![b] = brow]
    BY <1>7
  <2>3. b \in Backups /\ brow \in BackupRow
    BY <1>0, <1>10
  <2> HIDE DEF b
  <2>4. CASE backups' = backups
    BY <2>1, <2>4
  <2>5. CASE backups' = [backups EXCEPT ![b] = brow]
    BY <2>1, <2>3, <2>5
  <2> QED
    BY <2>2, <2>4, <2>5
<1>13. backups[b].overlapped = "no" => BackupSettled(b)
  BY <1>0, <1>1, <1>2 DEF DrillSound
<1>14. \A c \in Backups : /\ backups'[c].path = backups[c].path
                          /\ backups'[c].checksum = backups[c].checksum
                          /\ backups'[c].overlapped = backups[c].overlapped
                          /\ backups[c].overlapped = "no" =>
                                 (BackupSettled(c)' <=> BackupSettled(c))
  BY <1>10, <1>12, <1>13 DEF BackupSettled
<1>15. \A c \in Backups : OwnFile(c)' <=> OwnFile(c)
  BY <1>14 DEF OwnFile
<1>16. backups[b].overlapped = "no" /\ OwnFile(b) /\ status = "PASSED"
         => source = backups[b].checksum
  <2>1. status = "PASSED" => Reading(w)
    BY <1>0, <1>5 DEF Reading
  <2> QED
    BY <1>0, <1>1, <1>2, <2>1 DEF DrillSound, source
<1>17. DrillSound(w)'
  BY <1>0, <1>1, <1>3, <1>9, <1>11, <1>13, <1>14, <1>15, <1>16 DEF DrillSound
<1>18. DrillKnown(w)'
  BY <1>0, <1>1, <1>3, <1>5, <1>7, <1>9, <1>11 DEF DrillKnown
<1>19. /\ databases' \subseteq BackupWorkers
       /\ \A v \in BackupWorkers \ {w} : v \in databases' <=> v \in databases
  BY <1>7 DEF BakTypeOK
<1>20. workers[w].pc \notin ExecStages /\ x.pc \notin ExecStages
  BY <1>0, <1>1, <1>3
<1> QED
  BY <1>3, <1>7, <1>8, <1>9, <1>12, <1>14, <1>17, <1>18, <1>19, <1>20, DrillSide

\* The invariant holds before any backup.
LEMMA BakInitInv ==
  ASSUME BakInit
  PROVE  BakInv
<1> DEFINE first == CHOOSE b \in Backups : TRUE
<1>1. first \in Backups
  BY BackupAssumption
<1>2. 0 \in 0 .. DumpBound /\ 0 \in 0 .. BackupCrashBound
  BY BackupAssumption
<1>3. Idle(first) \in Worker /\ Idle(first).pc = "idle"
  BY <1>1, <1>2 DEF Idle, Worker
<1> HIDE DEF first
<1>4. workers = [w \in BackupWorkers |-> Idle(first)]
  BY DEF BakInit, first
<1>5. backups \in [Backups -> BackupRow] /\ \A b \in Backups : backups[b].status = "ABSENT"
  <2>1. PICK path \in [Backups -> Paths], algorithm \in [Backups -> {"age", "none"}] :
          backups = [b \in Backups |-> [status |-> "ABSENT", path |-> path[b],
                       algorithm |-> algorithm[b], checksum |-> 0, overlapped |-> "no"]]
    BY DEF BakInit
  <2> QED
    BY <1>2, <2>1 DEF BackupRow
<1>6. BakTypeOK /\ DrillsKept
  BY <1>2, <1>3, <1>4, <1>5 DEF BakInit, BakTypeOK, DrillsKept
<1>7. \A b \in Backups : Executing(b) = {}
  BY <1>3, <1>4 DEF Executing
<1>8. NoPlainDump
  BY DEF BakInit, NoPlainDump
<1>9. BackupsSealed
  BY <1>5, <1>7 DEF BackupsSealed, BackupSealed, BackupSettled
<1>10. DrillsSound /\ DrillsKnown
  BY <1>3, <1>4 DEF BakInit, DrillsSound, DrillSound, DrillsKnown, DrillKnown, DrillStages
<1> QED
  BY <1>6, <1>8, <1>9, <1>10 DEF BakInv

\* BakInv holds in every state.
THEOREM BackupInvariant == BakSpec => []BakInv
<1>1. BakInit => BakInv
  BY BakInitInv
<1>2. BakInv /\ [BakNext]_bakVars => BakInv'
  <2> SUFFICES ASSUME BakInv, [BakNext]_bakVars PROVE BakInv'
    OBVIOUS
  <2>1. CASE UNCHANGED bakVars
    BY <2>1 DEF BakInv, bakVars, BakTypeOK, DrillsKept, NoPlainDump, BackupsSealed,
       BackupSealed, BackupSettled, OwnFile, Executing, Of, DrillsSound, DrillSound, Reading,
       DrillsKnown, DrillKnown
  <2>2. CASE BakNext
    BY <2>2, CreateStep, ExecuteStep, BeginDrillStep, ExecutionSteps, DrillSteps, CleanUpStep,
       WorkerDiesStep, CloseDrillStep DEF BakNext
  <2> QED
    BY <2>1, <2>2
<1> QED
  BY <1>1, <1>2, PTL DEF BakSpec

\* For any backups, files and workers: no plaintext dump outlives its execution, a drill

\* that nobody killed leaves no database, and a drill that passed restored what the
\* backup recorded when its executions did not overlap (BackupService, RestoreDrillService).
THEOREM BackupsStayClean == BakSpec => []BackupsAreClean
<1>1. BakInv => BackupsAreClean
  <2> SUFFICES ASSUME BakInv PROVE BackupsAreClean
    OBVIOUS
  <2>1. DrillsCleanUp
    BY DEF BakInv, BakTypeOK, DrillsKnown, DrillKnown, DrillsCleanUp, Doing, DrillStages
  <2>2. PassedIsRecorded
    BY DEF BakInv, DrillsSound, DrillSound, OwnFile, PassedIsRecorded
  <2> QED
    BY <2>1, <2>2 DEF BakInv, BackupsAreClean
<1> QED
  BY <1>1, BackupInvariant, PTL

-----------------------------------------------------------------------------
(* Who may do what.                                                        *)

\* What every handler of the tables is: the only ones that change a tenant's
\* data through a check, and are open in production, ask for a permission
\* that viewers lack; an administrative operation has a target of its kind.
RouteFits(n) ==
  /\ n.gate \in {"open", "legacy", "direct"}
  /\ n.check \in {"permission", "role", "none"}
  /\ n.check # "none" => n.target \in {"organization", "project", "scope", "task", "run"}
  /\ n.gate = "open" /\ n.effect = "writes" /\ n.check # "none" =>
       n.check = "permission" /\ n.what \notin ReadPermissions
  /\ n.op \in {"create_organization", "create_project", "add_member",
               "revoke_credential", "backfill"} => n.target = "organization"
  /\ n.op = "create_credential" => n.target = "scope"
  /\ n.op = "create_run" => n.target = "project"

\* The target of a handler is a row of its kind, and stays one.
TargetFits(n, x) ==
  /\ n.target = "organization" => x \in Orgs
  /\ n.target = "project" => x \in Projects /\ projects[x] # None
  /\ n.target = "scope" => x \in Orgs \X (Projects \cup {None})
  /\ n.target = "task" => x \in Tasks /\ tasks[x] # None
  /\ n.target = "run" =>
       /\ x \in Tasks \X (Projects \cup {None})
       /\ tasks[x[1]] # None
       /\ x[2] = None \/ x[2] \in tasks[x[1]].runs

\* A task with an organization has a project, and its runs name projects
\* that exist: they are the only ones its context can ever be.
TaskSound(t) ==
  tasks[t] # None =>
    /\ tasks[t].org = None => tasks[t].project = None
    /\ tasks[t].org # None =>
         /\ tasks[t].project # None /\ projects[tasks[t].project] # None
         /\ \A p \in tasks[t].runs : p # None => projects[p] # None

\* What authorized a project's credential still ties its target to that
\* project.
ScopeBound(q) ==
  (q.stage = "authorized" /\ q.actor \in Credentials /\ q.need.check = "permission") =>
    /\ credentials[q.actor] # None
    /\ credentials[q.actor].scope # None =>
         /\ Tenants(q.need, q.target) # {}
         /\ \A x \in Tenants(q.need, q.target) : x[2] = credentials[q.actor].scope

RequestsTyped == requests \in [Slots -> Request \cup {None}]
TasksSound == \A t \in Tasks : TaskSound(t)
\* The requests under way.
Pending(s) == {requests[s]} \ {None}
TargetsFit == \A s \in Slots : \A q \in Pending(s) : TargetFits(q.need, q.target)
ScopesBound == mode = "production" =>
  \A s \in Slots : \A q \in Pending(s) : ScopeBound(q)

\* The inductive invariant.
AccInv == /\ AccTypeOK /\ RequestsTyped /\ SafeStart /\ LegacyClosed
          /\ TasksSound /\ TargetsFit /\ ScopesBound

TargetKinds == {"organization", "project", "scope", "task", "run"}

\* The tables are made of a few kinds of handler.
LEMMA RouteKinds ==
  ASSUME NEW target \in TargetKinds, NEW what
  PROVE  /\ RouteFits(Reads(target, what))
         /\ RouteFits(Derives(target, what))
         /\ what \notin ReadPermissions => RouteFits(Writes(target, what))
         /\ what \notin ReadPermissions =>
              /\ RouteFits(Admin("organization", what, "create_project"))
              /\ RouteFits(Admin("organization", what, "add_member"))
              /\ RouteFits(Admin("organization", what, "revoke_credential"))
              /\ RouteFits(Admin("organization", what, "backfill"))
              /\ RouteFits(Admin("scope", what, "create_credential"))
              /\ RouteFits(Admin("project", what, "create_run"))
         /\ RouteFits(Legacy(Writes(target, what)))
         /\ RouteFits(Legacy(Reads(target, what)))
<1>1. /\ RouteFits(Reads(target, what))
      /\ RouteFits(Derives(target, what))
  BY DEF RouteFits, Reads, Derives, Needs, TargetKinds
<1>2. what \notin ReadPermissions => RouteFits(Writes(target, what))
  BY DEF RouteFits, Writes, Needs, TargetKinds
<1>3. what \notin ReadPermissions =>
              /\ RouteFits(Admin("organization", what, "create_project"))
              /\ RouteFits(Admin("organization", what, "add_member"))
              /\ RouteFits(Admin("organization", what, "revoke_credential"))
              /\ RouteFits(Admin("organization", what, "backfill"))
              /\ RouteFits(Admin("scope", what, "create_credential"))
              /\ RouteFits(Admin("project", what, "create_run"))
  BY DEF RouteFits, Admin, Writes, Needs
<1>4. /\ RouteFits(Legacy(Writes(target, what)))
      /\ RouteFits(Legacy(Reads(target, what)))
  BY DEF RouteFits, Legacy, Writes, Reads, Needs, TargetKinds
<1> QED
  BY <1>1, <1>2, <1>3, <1>4

\* The handlers without a check, and those that ask for a role.
LEMMA RouteOthers ==
  ASSUME NEW target \in TargetKinds, NEW what, NEW effect \in {"reads", "derives"},
         NEW done \in {"reads", "writes"}
  PROVE  /\ RouteFits(Needs(target, "role", what, effect))
         /\ RouteFits(Legacy(Needs(target, "none", "none", done)))
         /\ RouteFits(Direct(done))
         /\ RouteFits([Needs("organization", "none", "none", "writes")
                         EXCEPT !.op = "create_organization"])
BY DEF RouteFits, Legacy, Direct, Needs, TargetKinds

\* Every handler of the API fits.
LEMMA RoutesFit == \A n \in Routes : RouteFits(n)
<1> USE DEF Range, TargetKinds
<1>p. /\ "runs.write" \notin ReadPermissions /\ "runs.execute" \notin ReadPermissions
      /\ "tasks.write" \notin ReadPermissions /\ "evidence.build" \notin ReadPermissions
      /\ "approvals.decide" \notin ReadPermissions
      /\ "executors.manage" \notin ReadPermissions
      /\ "secrets.manage" \notin ReadPermissions
      /\ "audit.export" \notin ReadPermissions /\ "data.manage" \notin ReadPermissions
      /\ "resilience.manage" \notin ReadPermissions
      /\ "operations.manage" \notin ReadPermissions
  BY DEF ReadPermissions
<1>1. \A n \in Range(RunRoutes) \cup Range(SnapshotRoutes) : RouteFits(n)
  BY <1>p, RouteKinds DEF RunRoutes, SnapshotRoutes
<1>2. \A n \in Range(AgentStepRoutes) \cup Range(ExecutionRoutes) : RouteFits(n)
  BY <1>p, RouteKinds DEF AgentStepRoutes, ExecutionRoutes
<1>3. \A n \in Range(EvidenceRoutes) \cup Range(SupplyChainRoutes) : RouteFits(n)
  BY <1>p, RouteKinds DEF EvidenceRoutes, SupplyChainRoutes
<1>4. \A n \in Range(OrganizationRoutes) : RouteFits(n)
  BY <1>p, RouteKinds, RouteOthers DEF OrganizationRoutes
<1>5. \A n \in Range(CredentialRoutes) \cup Range(PolicyRoutes) : RouteFits(n)
  BY <1>p, RouteKinds DEF CredentialRoutes, PolicyRoutes
<1>6. \A n \in Range(GovernanceRoutes) \cup Range(AuditRoutes) : RouteFits(n)
  BY <1>p, RouteKinds DEF GovernanceRoutes, AuditRoutes
<1>7. \A n \in Range(DeliveryRoutes) \cup Range(SecretRoutes) \cup Range(ExecutorRoutes) : RouteFits(n)
  BY <1>p, RouteKinds DEF DeliveryRoutes, SecretRoutes, ExecutorRoutes
<1>8. \A n \in Range(BackupRoutes) \cup Range(OperationRoutes) : RouteFits(n)
  BY <1>p, RouteKinds DEF BackupRoutes, OperationRoutes
<1>9. \A n \in Range(CognitiveWrites) \cup Range(CognitiveReads) : RouteFits(n)
  BY <1>p, RouteKinds DEF CognitiveWrites, CognitiveReads
<1>10. \A n \in Range(ContextRoutes) \cup Range(PlanRoutes) : RouteFits(n)
  BY <1>p, RouteKinds DEF ContextRoutes, PlanRoutes
<1>11. \A n \in Range(TraceabilityRoutes) \cup Range(ApprovalRoutes) : RouteFits(n)
  BY <1>p, RouteKinds DEF TraceabilityRoutes, ApprovalRoutes
<1>12. \A n \in Range(AnalyticsRoutes) : RouteFits(n)
  BY <1>p, RouteKinds, RouteOthers DEF AnalyticsRoutes
<1>13. \A n \in Range(JiraRoutes) \cup Range(IntakeRoutes) : RouteFits(n)
  BY <1>p, RouteKinds DEF JiraRoutes, IntakeRoutes
<1>14. \A n \in Range(RepositoryRoutes) : RouteFits(n)
  BY <1>p, RouteKinds DEF RepositoryRoutes
<1>15. \A n \in Range(TaskRoutes) \cup Range(GithubRoutes) : RouteFits(n)
  BY <1>p, RouteKinds, RouteOthers DEF TaskRoutes, GithubRoutes
<1> HIDE DEF Range
<1> QED
  BY <1>1, <1>2, <1>3, <1>4, <1>5, <1>6, <1>7, <1>8, <1>9, <1>10, <1>11, <1>12, <1>13, <1>14, <1>15 DEF Routes

\* The projects a row names, its context, and the row with empty columns
\* filled from context x, as functions of the row and the known projects.
Named(row) == (row.runs \cup {row.contract}) \ {None}
ContextOf(row, known) ==
  IF row.org # None THEN {<<row.org, row.project>>}
  ELSE IF Cardinality(Named(row)) = 1
       THEN UNION {{<<o, p>> : o \in {known[p]} \ {None}} : p \in Named(row)} ELSE {}
Filled(row, x) ==
  [org |-> IF row.org = None THEN x[1] ELSE row.org,
   project |-> IF row.project = None THEN x[2] ELSE row.project,
   contract |-> row.contract,
   runs |-> {IF p = None THEN (IF row.project = None THEN x[2] ELSE row.project)
             ELSE p : p \in row.runs}]
RowTied(row, known) ==
  /\ row.org = None => row.project = None
  /\ row.org # None =>
       /\ row.project # None /\ known[row.project] # None
       /\ \A p \in row.runs : p # None => known[p] # None

\* A row that has no organization has the context of the one project it names.
LEMMA ContextIs ==
  ASSUME NEW row \in TaskRow, NEW known \in [Projects -> Project]
  PROVE  /\ row.org # None => ContextOf(row, known) = {<<row.org, row.project>>}
         /\ \A p \in Projects :
              (row.org = None /\ Named(row) = {p} /\ known[p] # None) =>
                ContextOf(row, known) = {<<known[p], p>>}
         /\ (row.org = None /\ ContextOf(row, known) # {}) =>
              \E p \in Projects : Named(row) = {p} /\ known[p] # None
<1>1. row.org # None => ContextOf(row, known) = {<<row.org, row.project>>}
  BY DEF ContextOf
<1>2. ASSUME NEW p \in Projects, row.org = None, Named(row) = {p}, known[p] # None
      PROVE  ContextOf(row, known) = {<<known[p], p>>}
  <2>1. Cardinality(Named(row)) = 1
    BY <1>2, FS_Singleton
  <2>2. {<<o, p>> : o \in {known[p]} \ {None}} = {<<known[p], p>>}
    BY <1>2
  <2>3. ContextOf(row, known) =
          UNION {{<<o, q>> : o \in {known[q]} \ {None}} : q \in Named(row)}
    BY <1>2, <2>1 DEF ContextOf
  <2>4. {{<<o, q>> : o \in {known[q]} \ {None}} : q \in {p}} = {{<<known[p], p>>}}
    BY <2>2
  <2> QED
    BY <1>2, <2>3, <2>4
<1>3. ASSUME row.org = None, ContextOf(row, known) # {}
      PROVE  \E p \in Projects : Named(row) = {p} /\ known[p] # None
  <2>1. /\ Cardinality(Named(row)) = 1
        /\ UNION {{<<o, q>> : o \in {known[q]} \ {None}} : q \in Named(row)} # {}
    BY <1>3 DEF ContextOf
  <2>2. Named(row) \subseteq Projects
    BY DEF Named, TaskRow
  <2>3. IsFiniteSet(Named(row))
    BY <2>2, AccAssumption, FS_Subset
  <2>4. PICK p : Named(row) = {p}
    BY <2>1, <2>3, FS_Singleton
  <2>5. PICK q \in Named(row) : {<<o, q>> : o \in {known[q]} \ {None}} # {}
    BY <2>1
  <2>6. known[q] # None
    BY <2>5
  <2> QED
    BY <2>2, <2>4, <2>5, <2>6
<1> QED
  BY <1>1, <1>2, <1>3

\* Filling the columns of a row from its context changes neither the context
\* nor a column that was filled.
LEMMA FilledIs ==
  ASSUME NEW row \in TaskRow, NEW known \in [Projects -> Project],
         NEW x \in ContextOf(row, known), RowTied(row, known)
  PROVE  /\ Filled(row, x) \in TaskRow
         /\ ContextOf(Filled(row, x), known) = ContextOf(row, known)
         /\ RowTied(Filled(row, x), known)
         /\ \A p \in row.runs : p # None => p \in Filled(row, x).runs
<1> DEFINE new == Filled(row, x)
<1>a. /\ None \notin Orgs /\ None \notin Projects
  BY AccAssumption
<1>r. /\ row.org \in Orgs \cup {None} /\ row.project \in Projects \cup {None}
      /\ row.contract \in Projects \cup {None}
      /\ row.runs \in SUBSET (Projects \cup {None})
  BY DEF TaskRow
<1>n. /\ new.org = (IF row.org = None THEN x[1] ELSE row.org)
      /\ new.project = (IF row.project = None THEN x[2] ELSE row.project)
      /\ new.contract = row.contract
      /\ new.runs = {IF p = None THEN new.project ELSE p : p \in row.runs}
  BY DEF Filled
<1>k. \A p \in row.runs : p # None => p \in new.runs
  BY <1>n
<1>t. ASSUME new.org \in Orgs, new.project \in Projects PROVE new \in TaskRow
  <2>1. new.runs \in SUBSET (Projects \cup {None})
    BY <1>n, <1>r, <1>t
  <2>2. new = [org |-> new.org, project |-> new.project, contract |-> new.contract,
               runs |-> new.runs]
    BY DEF Filled
  <2> HIDE DEF new
  <2> QED
    BY <1>r, <1>n, <1>t, <2>1, <2>2 DEF TaskRow
<1>1. CASE row.org # None
  <2>1. x = <<row.org, row.project>> /\ row.project # None
    BY <1>1, ContextIs DEF RowTied
  <2>2. new.org = row.org /\ new.project = row.project
    BY <1>1, <1>n, <2>1
  <2>3. new \in TaskRow
    BY <1>1, <1>r, <1>t, <2>1, <2>2
  <2> HIDE DEF new
  <2>4. ContextOf(new, known) = ContextOf(row, known)
    BY <1>1, <2>2, <2>3, ContextIs
  <2>5. RowTied(new, known)
    <3>1. \A p \in row.runs : p # None => known[p] # None
      BY <1>1 DEF RowTied
    <3>2. known[row.project] # None
      BY <1>1 DEF RowTied
    <3> QED
      BY <1>1, <1>n, <1>r, <2>1, <2>2, <3>1, <3>2 DEF RowTied
  <2> QED
    BY <1>k, <2>3, <2>4, <2>5 DEF new
<1>2. CASE row.org = None
  <2>1. PICK p \in Projects : Named(row) = {p} /\ known[p] # None
    BY <1>2, ContextIs
  <2>2. ContextOf(row, known) = {<<known[p], p>>}
    BY <1>2, <2>1, ContextIs
  <2>3. x = <<known[p], p>> /\ row.project = None /\ known[p] \in Orgs
    BY <1>2, <2>1, <2>2 DEF RowTied, Project
  <2>4. new.org = known[p] /\ new.project = p
    BY <1>2, <1>n, <2>3
  <2>5. new \in TaskRow
    BY <1>t, <2>3, <2>4
  <2> HIDE DEF new
  <2>6. ContextOf(new, known) = ContextOf(row, known)
    BY <1>a, <2>2, <2>3, <2>4, <2>5, ContextIs
  <2>7. \A q \in new.runs : q = p
    BY <1>n, <2>1, <2>4 DEF Named
  <2>8. RowTied(new, known)
    BY <1>a, <2>1, <2>3, <2>4, <2>7 DEF RowTied
  <2> QED
    BY <1>k, <2>5, <2>6, <2>8 DEF new
<1> QED
  BY <1>1, <1>2

\* What a step may do to the rows that tenants are read from: a project that
\* exists keeps its organization, a task is made whole or has its empty
\* columns filled from its context, and a credential keeps its scope.
RowsGrow ==
  /\ projects' \in [Projects -> Project]
  /\ tasks' \in [Tasks -> TaskRow \cup {None}]
  /\ credentials' \in [Credentials -> Credential \cup {None}]
  /\ \A p \in Projects : projects[p] # None => projects'[p] = projects[p]
  /\ \A t \in Tasks :
       /\ tasks[t] = None => (tasks'[t] = None \/ RowTied(tasks'[t], projects'))
       /\ tasks[t] # None =>
            \/ tasks'[t] = tasks[t]
            \/ \E x \in ContextOf(tasks[t], projects) : tasks'[t] = Filled(tasks[t], x)
  /\ \A c \in Credentials :
       credentials[c] # None =>
         credentials'[c] # None /\ credentials'[c].scope = credentials[c].scope

\* The context of a task, and what is invariant of it, by these operators.
LEMMA ContextAgrees ==
  \A t \in Tasks :
    /\ TaskContext(t) = ContextOf(tasks[t], projects)
    /\ TaskContext(t)' = ContextOf(tasks'[t], projects')
    /\ TaskSound(t) <=> (tasks[t] # None => RowTied(tasks[t], projects))
    /\ TaskSound(t)' <=> (tasks'[t] # None => RowTied(tasks'[t], projects'))
<1> SUFFICES ASSUME NEW t \in Tasks
             PROVE /\ TaskContext(t) = ContextOf(tasks[t], projects)
                   /\ TaskContext(t)' = ContextOf(tasks'[t], projects')
                   /\ TaskSound(t) <=> (tasks[t] # None => RowTied(tasks[t], projects))
                   /\ TaskSound(t)' <=> (tasks'[t] # None => RowTied(tasks'[t], projects'))
  OBVIOUS
<1>1. TaskContext(t) = ContextOf(tasks[t], projects)
  BY DEF TaskContext, ContextOf, Named, ProjectTenant
<1>2. TaskContext(t)' = ContextOf(tasks'[t], projects')
  BY DEF TaskContext, ContextOf, Named, ProjectTenant
<1> QED
  BY <1>1, <1>2 DEF TaskSound, RowTied

\* Such a step keeps every task sound, and its context once it has one.
LEMMA TasksKept ==
  ASSUME AccTypeOK, TasksSound, RowsGrow
  PROVE  /\ TasksSound'
         /\ \A t \in Tasks : tasks[t] # None =>
              /\ tasks'[t] # None /\ tasks'[t] \in TaskRow /\ tasks[t] \in TaskRow
              /\ TaskContext(t) # {} => TaskContext(t)' = TaskContext(t)
              /\ \A p \in tasks[t].runs : p # None => p \in tasks'[t].runs
<1>a. None \notin TaskRow /\ None \notin Projects
  BY AccAssumption
<1>t. /\ projects \in [Projects -> Project] /\ projects' \in [Projects -> Project]
      /\ tasks \in [Tasks -> TaskRow \cup {None}]
      /\ tasks' \in [Tasks -> TaskRow \cup {None}]
  BY DEF AccTypeOK, RowsGrow
<1>g. \A p \in Projects : projects[p] # None => projects'[p] = projects[p]
  BY DEF RowsGrow
<1>k. ASSUME NEW row \in TaskRow, RowTied(row, projects)
      PROVE  /\ RowTied(row, projects')
             /\ ContextOf(row, projects) # {} =>
                  ContextOf(row, projects') = ContextOf(row, projects)
  <2>1. /\ row.project \in Projects \cup {None}
        /\ row.runs \in SUBSET (Projects \cup {None})
    BY DEF TaskRow
  <2>2. RowTied(row, projects')
    BY <1>k, <1>g, <2>1, <1>a DEF RowTied
  <2>3. ASSUME ContextOf(row, projects) # {}
        PROVE  ContextOf(row, projects') = ContextOf(row, projects)
    <3>1. CASE row.org # None
      BY <1>t, <3>1, ContextIs
    <3>2. CASE row.org = None
      <4>1. PICK p \in Projects : Named(row) = {p} /\ projects[p] # None
        BY <1>t, <3>2, <2>3, ContextIs
      <4>2. ContextOf(row, projects) = {<<projects[p], p>>}
        BY <1>t, <3>2, <4>1, ContextIs
      <4>3. projects'[p] = projects[p]
        BY <1>g, <4>1
      <4>4. ContextOf(row, projects') = {<<projects'[p], p>>}
        BY <1>t, <3>2, <4>1, <4>3, ContextIs
      <4> QED
        BY <4>2, <4>3, <4>4
    <3> QED
      BY <3>1, <3>2
  <2> QED
    BY <2>2, <2>3
<1>1. ASSUME NEW t \in Tasks, tasks[t] # None
      PROVE  /\ tasks'[t] # None /\ tasks'[t] \in TaskRow /\ tasks[t] \in TaskRow
             /\ TaskContext(t) # {} => TaskContext(t)' = TaskContext(t)
             /\ \A p \in tasks[t].runs : p # None => p \in tasks'[t].runs
             /\ TaskSound(t)'
  <2>1. tasks[t] \in TaskRow /\ RowTied(tasks[t], projects)
    BY <1>t, <1>1, ContextAgrees DEF TasksSound
  <2>2. CASE tasks'[t] = tasks[t]
    <3>1. RowTied(tasks'[t], projects')
      BY <1>k, <2>1, <2>2
    <3>2. TaskContext(t) # {} => TaskContext(t)' = TaskContext(t)
      BY <1>k, <2>1, <2>2, ContextAgrees
    <3>3. \A p \in tasks[t].runs : p # None => p \in tasks'[t].runs
      BY <2>2
    <3> QED
      BY <1>1, <2>1, <2>2, <3>1, <3>2, <3>3, ContextAgrees
  <2>3. ASSUME NEW x \in ContextOf(tasks[t], projects), tasks'[t] = Filled(tasks[t], x)
        PROVE  /\ tasks'[t] # None /\ tasks'[t] \in TaskRow
               /\ TaskContext(t) # {} => TaskContext(t)' = TaskContext(t)
               /\ \A p \in tasks[t].runs : p # None => p \in tasks'[t].runs
               /\ TaskSound(t)'
    <3>1. /\ tasks'[t] \in TaskRow /\ RowTied(tasks'[t], projects)
          /\ ContextOf(tasks'[t], projects) = ContextOf(tasks[t], projects)
          /\ \A p \in tasks[t].runs : p # None => p \in tasks'[t].runs
      BY <1>t, <2>1, <2>3, FilledIs
    <3>2. /\ RowTied(tasks'[t], projects')
          /\ ContextOf(tasks'[t], projects') = ContextOf(tasks'[t], projects)
      BY <1>k, <2>3, <3>1
    <3> QED
      BY <1>a, <3>1, <3>2, ContextAgrees
  <2> QED
    BY <1>1, <2>1, <2>2, <2>3 DEF RowsGrow
<1>2. ASSUME NEW t \in Tasks PROVE TaskSound(t)'
  <2>1. CASE tasks[t] = None
    BY <2>1, ContextAgrees DEF RowsGrow
  <2> QED
    BY <1>1, <2>1
<1> QED
  BY <1>1, <1>2 DEF TasksSound

\* Such a step keeps the target of a request what it is, and the tenants of
\* the target once there are any.
LEMMA TenantsKept ==
  ASSUME AccTypeOK, TasksSound, RowsGrow, NEW n, NEW x, TargetFits(n, x)
  PROVE  /\ TargetFits(n, x)'
         /\ (n.check # "role" /\ n.target \in TargetKinds /\ Tenants(n, x) # {}) =>
              Tenants(n, x)' = Tenants(n, x)
<1>a. None \notin TaskRow /\ None \notin Projects
  BY AccAssumption
<1>t. /\ projects \in [Projects -> Project] /\ projects' \in [Projects -> Project]
  BY DEF AccTypeOK, RowsGrow
<1>g. \A p \in Projects : projects[p] # None => projects'[p] = projects[p]
  BY DEF RowsGrow
<1>k. \A t \in Tasks : tasks[t] # None =>
              /\ tasks'[t] # None /\ tasks'[t] \in TaskRow /\ tasks[t] \in TaskRow
              /\ TaskContext(t) # {} => TaskContext(t)' = TaskContext(t)
              /\ \A p \in tasks[t].runs : p # None => p \in tasks'[t].runs
  BY TasksKept
<1>1. TargetFits(n, x)'
  BY <1>g, <1>k DEF TargetFits
<1>2. ASSUME n.check # "role", n.target \in TargetKinds, Tenants(n, x) # {}
      PROVE  Tenants(n, x)' = Tenants(n, x)
  <2>1. CASE n.target = "organization" \/ n.target = "scope"
    BY <2>1 DEF Tenants
  <2>2. CASE n.target = "project"
    <3>1. x \in Projects /\ projects[x] # None
      BY <2>2 DEF TargetFits
    <3> QED
      BY <1>g, <2>2, <3>1 DEF Tenants, ProjectTenant
  <2>3. CASE n.target = "task"
    <3>1. x \in Tasks /\ tasks[x] # None
      BY <2>3 DEF TargetFits
    <3>2. Tenants(n, x) = TaskContext(x) /\ Tenants(n, x)' = TaskContext(x)'
      BY <1>2, <2>3 DEF Tenants
    <3> QED
      BY <1>k, <1>2, <3>1, <3>2
  <2>4. CASE n.target = "run"
    <3>1. PICK t \in Tasks, p \in Projects \cup {None} : x = <<t, p>>
      BY <2>4 DEF TargetFits
    <3>2. tasks[t] # None /\ (p = None \/ p \in tasks[t].runs)
      BY <2>4, <3>1 DEF TargetFits
    <3>3. Tenants(n, x) = RunContext(t, p) /\ Tenants(n, x)' = RunContext(t, p)'
      BY <1>2, <2>4, <3>1 DEF Tenants
    <3>4. CASE p # None /\ projects[p] # None
      <4>1. projects'[p] = projects[p]
        BY <1>g, <3>1, <3>4
      <4> QED
        BY <3>3, <3>4, <4>1 DEF RunContext, ProjectTenant
    <3>5. CASE ~ (p # None /\ projects[p] # None)
      <4>1. RunContext(t, p) = TaskContext(t)
        BY <3>5 DEF RunContext
      <4>2. TaskContext(t)' = TaskContext(t)
        BY <1>k, <1>2, <3>2, <3>3, <4>1
      <4>3. p = None
        <5> SUFFICES ASSUME p # None PROVE FALSE
          OBVIOUS
        <5>1. p \in tasks[t].runs /\ p \in Projects /\ projects[p] = None
          BY <3>1, <3>2, <3>5
        <5>2. RowTied(tasks[t], projects) /\ tasks[t] \in TaskRow
          BY <1>k, <3>2, ContextAgrees DEF TasksSound
        <5>3. tasks[t].org = None
          BY <5>1, <5>2 DEF RowTied
        <5>4. PICK q \in Projects : Named(tasks[t]) = {q} /\ projects[q] # None
          BY <1>t, <1>2, <3>3, <4>1, <5>2, <5>3, ContextAgrees, ContextIs
        <5>5. p \in Named(tasks[t])
          BY <5>1, <1>a DEF Named
        <5> QED
          BY <5>1, <5>4, <5>5
      <4>4. RunContext(t, p)' = TaskContext(t)'
        BY <4>3 DEF RunContext
      <4> QED
        BY <3>3, <4>1, <4>2, <4>4
    <3> QED
      BY <3>4, <3>5
  <2> QED
    BY <1>2, <2>1, <2>2, <2>3, <2>4 DEF TargetKinds
<1> QED
  BY <1>1, <1>2

\* A request under way keeps what its authorization tied it to.
LEMMA RequestKept ==
  ASSUME AccTypeOK, TasksSound, RowsGrow, NEW q \in Request,
         TargetFits(q.need, q.target)
  PROVE  /\ TargetFits(q.need, q.target)'
         /\ ScopeBound(q) => ScopeBound(q)'
<1>1. TargetFits(q.need, q.target)'
  BY TenantsKept
<1>2. ASSUME ScopeBound(q), q.stage = "authorized", q.actor \in Credentials,
             q.need.check = "permission"
      PROVE  /\ credentials'[q.actor] # None
             /\ credentials'[q.actor].scope # None =>
                  /\ Tenants(q.need, q.target)' # {}
                  /\ \A x \in Tenants(q.need, q.target)' :
                       x[2] = credentials'[q.actor].scope
  <2>1. /\ credentials[q.actor] # None
        /\ credentials[q.actor].scope # None =>
             /\ Tenants(q.need, q.target) # {}
             /\ \A x \in Tenants(q.need, q.target) : x[2] = credentials[q.actor].scope
    BY <1>2 DEF ScopeBound
  <2>2. credentials'[q.actor] # None
        /\ credentials'[q.actor].scope = credentials[q.actor].scope
    BY <1>2, <2>1 DEF RowsGrow
  <2>3. q.need.target \in TargetKinds
    BY <1>2, RoutesFit DEF Request, RouteFits, TargetKinds
  <2>4. Tenants(q.need, q.target) # {} =>
          Tenants(q.need, q.target)' = Tenants(q.need, q.target)
    BY <1>2, <2>3, TenantsKept
  <2> QED
    BY <2>1, <2>2, <2>4
<1> QED
  BY <1>1, <1>2 DEF ScopeBound

\* The targets a handler can be asked for fit it.
LEMMA TargetsAre ==
  ASSUME AccTypeOK, NEW n \in Routes, NEW x \in Targets(n)
  PROVE  /\ TargetFits(n, x)
         /\ x \in Orgs \cup Projects \cup Tasks \cup {None}
                    \cup ((Orgs \cup Tasks) \X (Projects \cup {None}))
<1>r. RouteFits(n)
  BY RoutesFit
<1>1. CASE n.op = "create_organization"
  <2>1. x \in Orgs /\ n.target = "organization"
    BY <1>r, <1>1 DEF Targets, RouteFits
  <2> QED
    BY <2>1 DEF TargetFits
<1>2. CASE n.op # "create_organization" /\ n.target = "organization"
  BY <1>2 DEF Targets, TargetFits, KnownOrgs
<1>3. CASE n.op # "create_organization" /\ n.target = "project"
  BY <1>3 DEF Targets, TargetFits
<1>4. CASE n.op # "create_organization" /\ n.target = "scope"
  <2>1. x \in Orgs \X (Projects \cup {None})
    BY <1>4 DEF Targets, KnownOrgs
  <2> QED
    BY <1>4, <2>1 DEF TargetFits
<1>5. CASE n.op # "create_organization" /\ n.target = "task"
  BY <1>5 DEF Targets, TargetFits, KnownTasks
<1>6. CASE n.op # "create_organization" /\ n.target = "run"
  <2>1. x \in {y \in KnownTasks \X (Projects \cup {None}) : y[2] \in tasks[y[1]].runs}
    BY <1>6 DEF Targets
  <2>2. /\ x \in Tasks \X (Projects \cup {None}) /\ tasks[x[1]] # None
        /\ x[2] \in tasks[x[1]].runs
    BY <2>1 DEF KnownTasks
  <2> QED
    BY <1>6, <2>2 DEF TargetFits
<1>7. CASE n.op # "create_organization" /\ n.target \notin TargetKinds
  <2>1. x = None
    BY <1>7 DEF Targets, TargetKinds
  <2> QED
    BY <1>7, <2>1 DEF TargetFits, TargetKinds
<1> QED
  BY <1>1, <1>2, <1>3, <1>4, <1>5, <1>6, <1>7 DEF TargetKinds

\* A step that leaves these rows alone is such a step.
LEMMA RowsRest ==
  ASSUME AccTypeOK
  PROVE  UNCHANGED <<projects, credentials, tasks>> => RowsGrow
BY DEF AccTypeOK, RowsGrow

\* So is the end of a credential, by revocation or by time.
LEMMA CredentialEnds ==
  ASSUME AccTypeOK, NEW c \in Credentials, NEW to \in {"revoked", "expired"},
         credentials[c] # None,
         credentials' = [credentials EXCEPT ![c].status = to],
         UNCHANGED <<projects, tasks>>
  PROVE  RowsGrow
<1>a. None \notin Credential
  BY AccAssumption
<1>1. /\ projects \in [Projects -> Project]
      /\ tasks \in [Tasks -> TaskRow \cup {None}]
      /\ credentials \in [Credentials -> Credential \cup {None}]
  BY DEF AccTypeOK
<1>2. PICK row \in Credential : row = credentials[c]
  BY <1>1
<1>3. /\ [row EXCEPT !.status = to] \in Credential
      /\ [row EXCEPT !.status = to].scope = row.scope
  BY DEF Credential
<1>4. credentials' = [credentials EXCEPT ![c] = [row EXCEPT !.status = to]]
  BY <1>2
<1>5. PICK new \in Credential : new = [row EXCEPT !.status = to] /\ new.scope = row.scope
  BY <1>3
<1>6. /\ credentials' \in [Credentials -> Credential \cup {None}]
      /\ \A d \in Credentials : credentials[d] # None =>
           credentials'[d] # None /\ credentials'[d].scope = credentials[d].scope
  BY <1>a, <1>1, <1>2, <1>4, <1>5
<1> QED
  BY <1>1, <1>6 DEF RowsGrow

\* The tenant columns of a task are kept in this step.
ColumnsKept ==
  \A t \in Tasks :
    tasks[t] # None =>
      /\ tasks[t].org # None => tasks'[t].org = tasks[t].org
      /\ tasks[t].project # None => tasks'[t].project = tasks[t].project

\* A backfill fills empty columns and does nothing else.
LEMMA BackfillGrows ==
  ASSUME AccTypeOK, TasksSound, NEW o, Backfill(o)
  PROVE  RowsGrow /\ ColumnsKept
<1>t. /\ projects \in [Projects -> Project]
      /\ tasks \in [Tasks -> TaskRow \cup {None}]
      /\ credentials \in [Credentials -> Credential \cup {None}]
  BY DEF AccTypeOK
<1>u. /\ projects' = projects /\ credentials' = credentials
      /\ tasks' = [t \in Tasks |-> Backfilled(t, o)]
  BY DEF Backfill
<1>1. ASSUME NEW t \in Tasks, tasks[t] # None
      PROVE  /\ \/ tasks'[t] = tasks[t]
                \/ \E x \in ContextOf(tasks[t], projects) : tasks'[t] = Filled(tasks[t], x)
             /\ tasks'[t] \in TaskRow
             /\ tasks[t].org # None => tasks'[t].org = tasks[t].org
             /\ tasks[t].project # None => tasks'[t].project = tasks[t].project
  <2>1. tasks'[t] = Backfilled(t, o) /\ tasks[t] \in TaskRow
    BY <1>t, <1>u, <1>1
  <2>2. CASE \A x \in TaskContext(t) : x[1] # o
    BY <2>1, <2>2 DEF Backfilled
  <2>3. CASE ~ \A x \in TaskContext(t) : x[1] # o
    <3>1. PICK x \in TaskContext(t) : x = CHOOSE y \in TaskContext(t) : TRUE
      BY <2>3
    <3>2. x \in ContextOf(tasks[t], projects) /\ RowTied(tasks[t], projects)
      BY <1>1, <3>1, ContextAgrees DEF TasksSound
    <3>3. Filled(tasks[t], x) \in TaskRow
      BY <1>t, <2>1, <3>2, FilledIs
    <3>4. Backfilled(t, o) = Filled(tasks[t], x)
      <4>1. Backfilled(t, o) =
              [Attribute(tasks[t], x) EXCEPT
                 !.runs = {IF p = None THEN Attribute(tasks[t], x).project ELSE p : p \in @}]
        BY <1>1, <2>3, <3>1 DEF Backfilled
      <4>2. PICK row \in TaskRow : row = tasks[t]
        BY <2>1
      <4>3. PICK b, p : /\ b = (IF row.org = None THEN x[1] ELSE row.org)
                        /\ p = (IF row.project = None THEN x[2] ELSE row.project)
        OBVIOUS
      <4>4. b \in Orgs \cup {None} /\ p \in Projects \cup {None}
        BY <3>3, <4>2, <4>3 DEF Filled, TaskRow
      <4>5. PICK first \in TaskRow : first = [row EXCEPT !.org = b]
        BY <4>4 DEF TaskRow
      <4>6. /\ first.org = b /\ first.project = row.project
            /\ first.contract = row.contract /\ first.runs = row.runs
        BY <4>5 DEF TaskRow
      <4>7. Attribute(row, x) = [first EXCEPT !.project = p]
        BY <4>3, <4>5 DEF Attribute, Attributed
      <4>8. [first EXCEPT !.project = p] =
              [org |-> b, project |-> p, contract |-> row.contract, runs |-> row.runs]
        BY <4>6 DEF TaskRow
      <4>9. PICK second \in TaskRow : second = Attribute(row, x)
        BY <4>4, <4>7 DEF TaskRow
      <4>10. /\ second.org = b /\ second.project = p
             /\ second.contract = row.contract /\ second.runs = row.runs
        BY <4>7, <4>8, <4>9
      <4>11. PICK rs : rs = {IF q = None THEN p ELSE q : q \in row.runs}
        OBVIOUS
      <4>12. Backfilled(t, o) = [second EXCEPT !.runs = rs]
        BY <4>1, <4>2, <4>9, <4>10, <4>11
      <4>13. [second EXCEPT !.runs = rs] =
              [org |-> b, project |-> p, contract |-> row.contract, runs |-> rs]
        BY <4>10 DEF TaskRow
      <4>14. Filled(row, x) =
              [org |-> b, project |-> p, contract |-> row.contract, runs |-> rs]
        BY <4>3, <4>11 DEF Filled
      <4> QED
        BY <4>2, <4>12, <4>13, <4>14
    <3>5. /\ Filled(tasks[t], x).org =
               (IF tasks[t].org = None THEN x[1] ELSE tasks[t].org)
          /\ Filled(tasks[t], x).project =
               (IF tasks[t].project = None THEN x[2] ELSE tasks[t].project)
      BY DEF Filled
    <3> QED
      BY <2>1, <3>2, <3>3, <3>4, <3>5
  <2> QED
    BY <2>2, <2>3
<1>2. ASSUME NEW t \in Tasks, tasks[t] = None PROVE tasks'[t] = None
  BY <1>u, <1>2 DEF Backfilled
<1>3. tasks' \in [Tasks -> TaskRow \cup {None}]
  BY <1>u, <1>1, <1>2
<1>4. RowsGrow
  BY <1>t, <1>u, <1>1, <1>2, <1>3 DEF RowsGrow
<1> QED
  BY <1>1, <1>4 DEF ColumnsKept

\* Every administrative operation is such a step.
LEMMA EffectGrows ==
  ASSUME AccTypeOK, TasksSound, NEW n \in Routes, NEW a \in Users \cup Credentials,
         NEW x, TargetFits(n, x), Effect(n.op, a, x)
  PROVE  /\ RowsGrow /\ ColumnsKept
         /\ organizations' \in [Orgs -> {"absent", "present"}]
         /\ members' \in [Orgs -> [Users -> Member \cup {None}]]
<1>r. RouteFits(n)
  BY RoutesFit
<1>a. None \notin Credential /\ None \notin TaskRow /\ None \notin Projects
      /\ None \notin Orgs /\ GrantedRoles \subseteq DOMAIN RoleRank
  BY AccAssumption
<1>t. /\ projects \in [Projects -> Project]
      /\ tasks \in [Tasks -> TaskRow \cup {None}]
      /\ credentials \in [Credentials -> Credential \cup {None}]
      /\ organizations \in [Orgs -> {"absent", "present"}]
      /\ members \in [Orgs -> [Users -> Member \cup {None}]]
  BY DEF AccTypeOK
<1>m. ASSUME NEW o \in Orgs, NEW u \in Users, NEW r \in DOMAIN RoleRank,
             members' = [members EXCEPT ![o][u] = [role |-> r]]
      PROVE  members' \in [Orgs -> [Users -> Member \cup {None}]]
  <2>1. [role |-> r] \in Member
    BY DEF Member
  <2>2. PICK entry \in Member : entry = [role |-> r]
    BY <2>1
  <2> QED
    BY <1>t, <1>m, <2>2
<1>c. tasks' = tasks => ColumnsKept
  BY DEF ColumnsKept
<1>1. CASE n.op = "create_organization" /\ CreateOrganization(a, x)
  <2>1. x \in Orgs
    BY <1>r, <1>1 DEF RouteFits, TargetFits
  <2>2. "owner" \in DOMAIN RoleRank
    BY DEF RoleRank
  <2> QED
    BY <1>1, <1>t, <1>m, <1>c, <2>1, <2>2, RowsRest DEF CreateOrganization
<1>2. CASE n.op = "create_project" /\ CreateProject(x)
  <2>1. x \in Orgs
    BY <1>r, <1>2 DEF RouteFits, TargetFits
  <2>2. PICK p \in Projects : projects[p] = None /\ projects' = [projects EXCEPT ![p] = x]
    BY <1>2 DEF CreateProject
  <2>3. projects' \in [Projects -> Project]
    BY <1>t, <2>1, <2>2 DEF Project
  <2>4. UNCHANGED <<organizations, members, credentials, tasks>>
    BY <1>2 DEF CreateProject
  <2>5. \A q \in Projects : projects[q] # None => projects'[q] = projects[q]
    BY <1>t, <2>2
  <2>6. RowsGrow
    BY <1>t, <2>3, <2>4, <2>5 DEF RowsGrow
  <2> QED
    BY <1>t, <1>c, <2>4, <2>6
<1>3. CASE n.op = "add_member" /\ AddMember(x)
  <2>1. x \in Orgs
    BY <1>r, <1>3 DEF RouteFits, TargetFits
  <2>2. PICK u \in Users, r \in GrantedRoles :
          members' = [members EXCEPT ![x][u] = [role |-> r]]
    BY <1>3 DEF AddMember
  <2> QED
    BY <1>3, <1>a, <1>t, <1>m, <1>c, <2>1, <2>2, RowsRest DEF AddMember
<1>4. CASE n.op = "create_credential" /\ CreateCredential(x)
  <2>1. x \in Orgs \X (Projects \cup {None})
    BY <1>r, <1>4 DEF RouteFits, TargetFits
  <2>2. PICK c \in Credentials, r \in GrantedRoles :
          /\ credentials[c] = None
          /\ credentials' = [credentials EXCEPT ![c] =
                [org |-> x[1], scope |-> x[2], role |-> r, status |-> "live"]]
    BY <1>4 DEF CreateCredential
  <2>3. [org |-> x[1], scope |-> x[2], role |-> r, status |-> "live"] \in Credential
    BY <1>a, <2>1 DEF Credential
  <2>4. /\ credentials' \in [Credentials -> Credential \cup {None}]
        /\ \A d \in Credentials : credentials[d] # None => credentials'[d] = credentials[d]
    BY <1>t, <2>2, <2>3
  <2>5. UNCHANGED <<organizations, members, projects, tasks>>
    BY <1>4 DEF CreateCredential
  <2>6. RowsGrow
    BY <1>t, <2>4, <2>5 DEF RowsGrow
  <2> QED
    BY <1>t, <1>c, <2>5, <2>6
<1>5. CASE n.op = "revoke_credential" /\ RevokeCredential(x)
  <2>1. PICK c \in Credentials :
          /\ credentials[c] # None
          /\ credentials' = [credentials EXCEPT ![c].status = "revoked"]
    BY <1>5 DEF RevokeCredential
  <2>2. UNCHANGED <<organizations, members, projects, tasks>>
    BY <1>5 DEF RevokeCredential
  <2>3. RowsGrow
    BY <2>1, <2>2, CredentialEnds
  <2> QED
    BY <1>t, <1>c, <2>2, <2>3
<1>6. CASE n.op = "create_run" /\ CreateRun(x)
  <2>1. x \in Projects /\ projects[x] # None
    BY <1>r, <1>6 DEF RouteFits, TargetFits
  <2> DEFINE row == [org |-> projects[x], project |-> x, contract |-> None, runs |-> {x}]
  <2>2. PICK t \in Tasks : tasks[t] = None /\ tasks' = [tasks EXCEPT ![t] = row]
    BY <1>6 DEF CreateRun
  <2>3. row \in TaskRow
    BY <1>t, <2>1 DEF TaskRow, Project
  <2>4. RowTied(row, projects)
    BY <1>a, <2>1 DEF RowTied
  <2> HIDE DEF row
  <2>5. UNCHANGED <<organizations, members, projects, credentials>>
    BY <1>6 DEF CreateRun
  <2>6. /\ tasks' \in [Tasks -> TaskRow \cup {None}]
        /\ \A u \in Tasks : tasks[u] # None => tasks'[u] = tasks[u]
        /\ \A u \in Tasks : tasks[u] = None =>
             (tasks'[u] = None \/ RowTied(tasks'[u], projects'))
    BY <1>t, <2>2, <2>3, <2>4, <2>5
  <2>7. RowsGrow /\ ColumnsKept
    BY <1>t, <2>5, <2>6 DEF RowsGrow, ColumnsKept
  <2> QED
    BY <1>t, <2>5, <2>7
<1>7. CASE n.op = "backfill" /\ Backfill(x)
  <2>1. UNCHANGED <<organizations, members>>
    BY <1>7 DEF Backfill
  <2> QED
    BY <1>t, <1>7, <2>1, BackfillGrows
<1> QED
  BY <1>1, <1>2, <1>3, <1>4, <1>5, <1>6, <1>7 DEF Effect

\* A principal that holds a permission viewers lack is at least a developer.
LEMMA BeyondViewer ==
  ASSUME AccTypeOK, NEW a \in Users \cup Credentials, NEW n, NEW x, x[1] \in Orgs,
         n.check = "permission", n.what \notin ReadPermissions, Permits(a, n, x)
  PROVE  RoleRank[Role(a, x[1])] >= RoleRank["developer"]
<1>1. Role(a, x[1]) \in DOMAIN RoleRank
  <2>1. CASE a \in Users
    <3>1. members[x[1]][a] \in Member
      BY <2>1 DEF Permits, IsPrincipal, AccTypeOK
    <3> QED
      BY <2>1, <3>1 DEF Role, Member
  <2>2. CASE a \notin Users
    <3>1. a \in Credentials /\ credentials[a] # None
      BY <2>2 DEF Permits, IsPrincipal, Principal, LivePrincipal
    <3>2. credentials[a] \in Credential
      BY <3>1 DEF AccTypeOK
    <3> QED
      BY <2>2, <3>2 DEF Role, Credential
  <2> QED
    BY <2>1, <2>2
<1>2. n.what \in RolePermissions[Role(a, x[1])]
  BY DEF Permits
<1>3. Role(a, x[1]) # "viewer"
  BY <1>2 DEF RolePermissions
<1>4. Role(a, x[1]) \in {"developer", "admin", "owner"}
  BY <1>1, <1>3 DEF RoleRank
<1> QED
  BY <1>4 DEF RoleRank

\* The tenants a permission is checked in are organizations.
LEMMA TenantsAreOrgs ==
  ASSUME AccTypeOK, TasksSound, NEW n, NEW x, TargetFits(n, x),
         n.check = "permission", n.target \in TargetKinds
  PROVE  \A y \in Tenants(n, x) : y[1] \in Orgs
<1>t. projects \in [Projects -> Project] /\ tasks \in [Tasks -> TaskRow \cup {None}]
  BY DEF AccTypeOK
<1>p. \A p \in Projects : \A y \in ProjectTenant(p) : y[1] \in Orgs
  BY <1>t DEF ProjectTenant, Project
<1>c. ASSUME NEW t \in Tasks, tasks[t] # None, NEW y \in TaskContext(t)
      PROVE  y[1] \in Orgs
  <2>1. tasks[t] \in TaskRow /\ y \in ContextOf(tasks[t], projects)
    BY <1>t, <1>c, ContextAgrees
  <2>2. CASE tasks[t].org # None
    <3>1. y = <<tasks[t].org, tasks[t].project>>
      BY <1>t, <2>1, <2>2, ContextIs
    <3>2. tasks[t].org \in Orgs
      BY <2>1, <2>2 DEF TaskRow
    <3> QED
      BY <3>1, <3>2
  <2>3. CASE tasks[t].org = None
    <3>1. PICK p \in Projects : Named(tasks[t]) = {p} /\ projects[p] # None
      BY <1>t, <2>1, <2>3, ContextIs
    <3>2. y = <<projects[p], p>>
      BY <1>t, <2>1, <2>3, <3>1, ContextIs
    <3> QED
      BY <1>t, <3>1, <3>2 DEF Project
  <2> QED
    BY <2>2, <2>3
<1>1. CASE n.target = "organization"
  BY <1>1 DEF Tenants, TargetFits
<1>2. CASE n.target = "project"
  BY <1>2, <1>p DEF Tenants, TargetFits
<1>3. CASE n.target = "scope"
  <2>1. Tenants(n, x) = {x} /\ x \in Orgs \X (Projects \cup {None})
    BY <1>3 DEF Tenants, TargetFits
  <2> QED
    BY <2>1
<1>4. CASE n.target = "task"
  BY <1>4, <1>c DEF Tenants, TargetFits
<1>5. CASE n.target = "run"
  <2>1. /\ x \in Tasks \X (Projects \cup {None}) /\ tasks[x[1]] # None
        /\ Tenants(n, x) = RunContext(x[1], x[2])
    BY <1>5 DEF Tenants, TargetFits
  <2> QED
    BY <2>1, <1>p, <1>c DEF RunContext
<1> QED
  BY <1>1, <1>2, <1>3, <1>4, <1>5 DEF TargetKinds

\* What an authorization in production has found out.
LEMMA AuthorizedIs ==
  ASSUME AccInv, NEW q \in Request, TargetFits(q.need, q.target),
         mode = "production", q.need.check # "none",
         Holds(q.actor, q.need, q.target)
  PROVE  /\ Tenants(q.need, q.target) # {}
         /\ q.actor \in Credentials =>
              credentials[q.actor] # None /\ credentials[q.actor].status = "live"
         /\ (q.need.gate = "open" /\ q.need.effect = "writes") =>
              \A x \in Tenants(q.need, q.target) :
                RoleRank[Role(q.actor, x[1])] >= RoleRank["developer"]
         /\ (q.actor \in Credentials /\ q.need.check = "permission"
               /\ credentials[q.actor].scope # None) =>
              \A x \in Tenants(q.need, q.target) : x[2] = credentials[q.actor].scope
<1>1. /\ Tenants(q.need, q.target) # {}
      /\ \A x \in Tenants(q.need, q.target) : Permits(q.actor, q.need, x)
  BY DEF Holds
<1>2. RouteFits(q.need) /\ q.actor \in Users \cup Credentials
  BY RoutesFit DEF Request
<1>3. ASSUME q.actor \in Credentials
      PROVE  credentials[q.actor] # None /\ credentials[q.actor].status = "live"
  <2>1. q.actor \notin Users
    BY <1>3, AccAssumption
  <2>2. PICK x \in Tenants(q.need, q.target) : Permits(q.actor, q.need, x)
    BY <1>1
  <2> QED
    BY <2>1, <2>2 DEF Permits, IsPrincipal, Principal, LivePrincipal
<1>4. ASSUME q.need.gate = "open", q.need.effect = "writes",
             NEW x \in Tenants(q.need, q.target)
      PROVE  RoleRank[Role(q.actor, x[1])] >= RoleRank["developer"]
  <2>1. /\ q.need.check = "permission" /\ q.need.what \notin ReadPermissions
        /\ q.need.target \in TargetKinds
    BY <1>2, <1>4 DEF RouteFits, TargetKinds
  <2>2. x[1] \in Orgs
    BY <1>4, <2>1, TenantsAreOrgs DEF AccInv
  <2> QED
    BY <1>1, <1>2, <1>4, <2>1, <2>2, BeyondViewer DEF AccInv
<1>5. ASSUME q.actor \in Credentials, q.need.check = "permission",
             credentials[q.actor].scope # None, NEW x \in Tenants(q.need, q.target)
      PROVE  x[2] = credentials[q.actor].scope
  BY <1>1, <1>5 DEF Permits, InScope, ScopeMatches
<1> QED
  BY <1>1, <1>3, <1>4, <1>5

\* What is invariant of a request under way.
Ready(q) ==
  /\ TargetFits(q.need, q.target)
  /\ mode = "production" => ScopeBound(q) /\ q.need.gate = "open"

\* The invariant says so of every request under way.
LEMMA PendingReady ==
  ASSUME AccInv, NEW s \in Slots, NEW q \in Pending(s)
  PROVE  q \in Request /\ Ready(q)
BY DEF AccInv, RequestsTyped, Pending, Ready, TargetsFit, ScopesBound, LegacyClosed

\* A step that grows the rows keeps the invariant when the requests that it
\* leaves under way were as the invariant says before it.
LEMMA GrowKeeps ==
  ASSUME AccInv, RowsGrow, UNCHANGED <<mode, settings>>, edits' \in 0 .. EditBound,
         organizations' \in [Orgs -> {"absent", "present"}],
         members' \in [Orgs -> [Users -> Member \cup {None}]],
         RequestsTyped',
         \A s \in Slots : \A q \in Pending(s)' : Ready(q)
  PROVE  AccInv'
<1>1. AccTypeOK' /\ SafeStart'
  BY DEF AccInv, AccTypeOK, SafeStart, RowsGrow, RequestsTyped
<1>2. TasksSound'
  BY TasksKept DEF AccInv
<1>3. LegacyClosed'
  BY DEF LegacyClosed, Ready, Pending
<1>4. ASSUME NEW s \in Slots, NEW q \in Pending(s)'
      PROVE  TargetFits(q.need, q.target)' /\ (mode' = "production" => ScopeBound(q)')
  <2>1. q \in Request
    BY <1>4 DEF RequestsTyped, Pending
  <2>2. TargetFits(q.need, q.target) /\ (mode = "production" => ScopeBound(q))
    BY <1>4 DEF Ready
  <2> QED
    BY <2>1, <2>2, RequestKept DEF AccInv
<1>5. TargetsFit' /\ ScopesBound'
  BY <1>4 DEF TargetsFit, ScopesBound
<1> QED
  BY <1>1, <1>2, <1>3, <1>5 DEF AccInv

\* What a request may be for.
AnyTarget == Orgs \cup Projects \cup Tasks \cup {None}
               \cup ((Orgs \cup Tasks) \X (Projects \cup {None}))

\* Requests, by what they may be for.
LEMMA RequestIs ==
  Request = [stage : {"authenticated", "authorized"}, actor : Users \cup Credentials,
             need : Routes, target : AnyTarget]
BY DEF Request, AnyTarget

\* The steps of a request that change no row.
LEMMA ServingSteps ==
  ASSUME AccInv, NEW s \in Slots, Begin(s) \/ Authorize(s) \/ Finish(s)
  PROVE  AccInv' /\ ColumnsKept
<1>u. UNCHANGED <<mode, settings, organizations, members, projects, credentials,
                  tasks, edits>>
  BY DEF Begin, Authorize, Finish
<1>c. ColumnsKept
  BY <1>u DEF ColumnsKept
<1> SUFFICES AccInv'
  BY <1>c
<1>t. RequestsTyped /\ AccTypeOK
  BY DEF AccInv
<1>k. \A q \in Request \cup {None} :
        (requests' = [requests EXCEPT ![s] = q] /\ (q # None => Ready(q))) => AccInv'
  <2> SUFFICES ASSUME NEW q \in Request \cup {None}, requests' = [requests EXCEPT ![s] = q],
                      q # None => Ready(q)
               PROVE  AccInv'
    OBVIOUS
  <2>1. RequestsTyped'
    BY <1>t DEF RequestsTyped
  <2>2. \A r \in Slots : \A p \in Pending(r)' : Ready(p)
    <3>1. ASSUME NEW r \in Slots, NEW p \in Pending(r)' PROVE Ready(p)
      <4>1. CASE r = s
        BY <1>t, <3>1, <4>1 DEF Pending, RequestsTyped
      <4>2. CASE r # s
        <5>1. p \in Pending(r)
          BY <1>t, <3>1, <4>2 DEF Pending, RequestsTyped
        <5> QED
          BY <5>1, PendingReady
      <4> QED
        BY <4>1, <4>2
    <3> QED
      BY <3>1
  <2>3. RowsGrow
    BY <1>t, <1>u, RowsRest
  <2>4. /\ edits' \in 0 .. EditBound /\ organizations' \in [Orgs -> {"absent", "present"}]
        /\ members' \in [Orgs -> [Users -> Member \cup {None}]]
    BY <1>t, <1>u DEF AccTypeOK
  <2> QED
    BY <1>u, <2>1, <2>2, <2>3, <2>4, GrowKeeps
<1>1. CASE Begin(s)
  <2>1. PICK a \in Users \cup Credentials, n \in Routes :
          /\ GateOpen(n)
          /\ \E x \in Targets(n) :
               requests' = [requests EXCEPT ![s] = [stage |-> "authenticated",
                              actor |-> a, need |-> n, target |-> x]]
    BY <1>1 DEF Begin
  <2>2. PICK x \in Targets(n) :
          requests' = [requests EXCEPT ![s] = [stage |-> "authenticated",
                         actor |-> a, need |-> n, target |-> x]]
    BY <2>1
  <2>3. TargetFits(n, x)
        /\ x \in AnyTarget
    BY <1>t, TargetsAre DEF AnyTarget
  <2> DEFINE q == [stage |-> "authenticated", actor |-> a, need |-> n, target |-> x]
  <2>4. q \in Request /\ q.stage = "authenticated" /\ q.need = n /\ q.target = x
    BY <2>1, <2>3, RequestIs
  <2>q. requests' = [requests EXCEPT ![s] = q]
    BY <2>2
  <2> HIDE DEF q
  <2>5. mode = "production" => n.gate = "open"
    <3>1. RouteFits(n)
      BY RoutesFit
    <3>2. mode = "production" => settings = {"configured"}
      BY DEF AccInv, SafeStart
    <3> QED
      BY <2>1, <3>1, <3>2 DEF GateOpen, RouteFits
  <2>6. Ready(q)
    <3>1. ScopeBound(q)
      BY <2>4 DEF ScopeBound
    <3> QED
      BY <2>3, <2>4, <2>5, <3>1 DEF Ready
  <2> QED
    BY <1>k, <2>q, <2>4, <2>6
<1>2. CASE Authorize(s)
  <2>1. PICK q \in Request : q = requests[s] /\ q.stage = "authenticated" /\ q \in Pending(s)
    BY <1>2, <1>t DEF Authorize, RequestsTyped, Pending
  <2>2. requests' = [requests EXCEPT ![s] =
             IF Holds(q.actor, q.need, q.target)
             THEN [q EXCEPT !.stage = "authorized"] ELSE None]
    BY <1>2, <2>1 DEF Authorize
  <2>3. Ready(q)
    BY <2>1, PendingReady
  <2> DEFINE r == [q EXCEPT !.stage = "authorized"]
  <2>4. /\ r \in Request
        /\ r.actor = q.actor /\ r.need = q.need /\ r.target = q.target
    BY RequestIs
  <2>r. /\ Holds(q.actor, q.need, q.target) => requests' = [requests EXCEPT ![s] = r]
        /\ ~ Holds(q.actor, q.need, q.target) => requests' = [requests EXCEPT ![s] = None]
    BY <2>2
  <2> HIDE DEF r
  <2>5. ASSUME Holds(q.actor, q.need, q.target) PROVE Ready(r)
    <3>1. ASSUME mode = "production" PROVE ScopeBound(r)
      <4>1. CASE r.actor \in Credentials /\ r.need.check = "permission"
        BY <2>3, <2>4, <2>5, <3>1, <4>1, AuthorizedIs DEF Ready, ScopeBound
      <4>2. CASE ~ (r.actor \in Credentials /\ r.need.check = "permission")
        BY <4>2 DEF ScopeBound
      <4> QED
        BY <4>1, <4>2
    <3> QED
      BY <2>3, <2>4, <3>1 DEF Ready
  <2>6. CASE Holds(q.actor, q.need, q.target)
    BY <1>k, <2>r, <2>4, <2>5, <2>6
  <2>7. CASE ~ Holds(q.actor, q.need, q.target)
    BY <1>k, <2>r, <2>7
  <2> QED
    BY <2>6, <2>7
<1>3. CASE Finish(s)
  <2>1. requests' = [requests EXCEPT ![s] = None]
    BY <1>3 DEF Finish
  <2>2. None \in Request \cup {None}
    OBVIOUS
  <2> QED
    BY <1>k, <2>1, <2>2
<1> QED
  BY <1>1, <1>2, <1>3

\* The steps that change rows.
LEMMA RowSteps ==
  ASSUME AccInv, (\E s \in Slots : Perform(s)) \/ Meanwhile
                  \/ (\E c \in Credentials : Expire(c))
  PROVE  AccInv' /\ ColumnsKept
<1>t. /\ RequestsTyped /\ AccTypeOK /\ TasksSound /\ edits \in 0 .. EditBound
      /\ EditBound \in Nat
  BY AccAssumption DEF AccInv, AccTypeOK
<1>1. ASSUME NEW s \in Slots, Perform(s) PROVE AccInv' /\ ColumnsKept
  <2>1. PICK q \in Request : q = requests[s] /\ q \in Pending(s)
    BY <1>1, <1>t DEF Perform, RequestsTyped, Pending
  <2>2. /\ TargetFits(q.need, q.target) /\ q.need \in Routes
        /\ q.actor \in Users \cup Credentials /\ Effect(q.need.op, q.actor, q.target)
    BY <1>1, <2>1, PendingReady DEF Perform, Ready, Request
  <2>3. /\ RowsGrow /\ ColumnsKept
        /\ organizations' \in [Orgs -> {"absent", "present"}]
        /\ members' \in [Orgs -> [Users -> Member \cup {None}]]
    BY <1>t, <2>2, EffectGrows
  <2>4. /\ requests' = [requests EXCEPT ![s] = None] /\ edits' \in 0 .. EditBound
        /\ UNCHANGED <<mode, settings>>
    BY <1>1, <1>t DEF Perform
  <2>5. RequestsTyped' /\ (\A r \in Slots : Pending(r)' \subseteq Pending(r))
    BY <1>t, <2>4 DEF RequestsTyped, Pending
  <2>6. \A r \in Slots : \A p \in Pending(r)' : Ready(p)
    BY <2>5, PendingReady
  <2> QED
    BY <2>3, <2>4, <2>5, <2>6, GrowKeeps
<1>m. ASSUME UNCHANGED requests
      PROVE  RequestsTyped' /\ (\A r \in Slots : \A p \in Pending(r)' : Ready(p))
  <2>1. RequestsTyped' /\ (\A r \in Slots : Pending(r)' \subseteq Pending(r))
    BY <1>m, <1>t DEF RequestsTyped, Pending
  <2> QED
    BY <2>1, PendingReady
<1>2. ASSUME Meanwhile PROVE AccInv' /\ ColumnsKept
  <2>1. PICK a \in Users \cup Credentials, n \in Routes :
          \E x \in Targets(n) : Effect(n.op, a, x)
    BY <1>2 DEF Meanwhile
  <2>2. PICK x \in Targets(n) : Effect(n.op, a, x)
    BY <2>1
  <2>3. TargetFits(n, x)
    BY <1>t, TargetsAre
  <2>4. /\ RowsGrow /\ ColumnsKept
        /\ organizations' \in [Orgs -> {"absent", "present"}]
        /\ members' \in [Orgs -> [Users -> Member \cup {None}]]
    BY <1>t, <2>2, <2>3, EffectGrows
  <2>5. edits' \in 0 .. EditBound /\ UNCHANGED <<mode, settings, requests>>
    BY <1>2, <1>t DEF Meanwhile
  <2> QED
    BY <1>m, <2>4, <2>5, GrowKeeps
<1>3. ASSUME NEW c \in Credentials, Expire(c) PROVE AccInv' /\ ColumnsKept
  <2>1. RowsGrow
    BY <1>3, <1>t, CredentialEnds DEF Expire
  <2>2. /\ edits' \in 0 .. EditBound
        /\ UNCHANGED <<mode, settings, organizations, members, tasks, requests>>
    BY <1>3, <1>t DEF Expire
  <2>3. /\ organizations' \in [Orgs -> {"absent", "present"}]
        /\ members' \in [Orgs -> [Users -> Member \cup {None}]]
    BY <1>t, <2>2 DEF AccTypeOK
  <2>4. ColumnsKept
    BY <2>2 DEF ColumnsKept
  <2> QED
    BY <1>m, <2>1, <2>2, <2>3, <2>4, GrowKeeps
<1> QED
  BY <1>1, <1>2, <1>3

\* Initially.
LEMMA AccInitInv == AccInit => AccInv
<1> SUFFICES ASSUME AccInit PROVE AccInv
  OBVIOUS
<1>a. /\ Modes \subseteq {"production", "development"} /\ EditBound \in Nat
      /\ Founded \subseteq Orgs /\ Settled \subseteq Projects
      /\ None \notin Orgs /\ None \notin TaskRow
  BY AccAssumption
<1>1. /\ mode \in {"production", "development"}
      /\ settings \subseteq {"legacy", "direct", "configured"} /\ SafeStart
      /\ organizations \in [Orgs -> {"absent", "present"}]
      /\ credentials \in [Credentials -> Credential \cup {None}]
      /\ requests = [s \in Slots |-> None] /\ edits \in 0 .. EditBound
  BY <1>a DEF AccInit, ValidConfiguration
<1>2. members \in [Orgs -> [Users -> Member \cup {None}]]
  <2>1. PICK founder \in Users :
          members = [o \in Orgs |-> [u \in Users |->
            IF o \in Founded /\ u = founder THEN [role |-> "owner"] ELSE None]]
    BY DEF AccInit
  <2>2. PICK entry \in Member : entry = [role |-> "owner"]
    BY DEF Member, RoleRank
  <2> QED
    BY <2>1, <2>2
<1>3. projects \in [Projects -> Project]
  <2>1. PICK home \in [Settled -> Founded] :
          projects = [p \in Projects |-> IF p \in Settled THEN home[p] ELSE None]
    BY DEF AccInit
  <2> QED
    BY <1>a, <2>1 DEF Project
<1>4. ASSUME NEW row \in LegacyRows PROVE row \in TaskRow /\ RowTied(row, projects)
  <2>1. PICK c \in Projects \cup {None}, rs \in {{p} : p \in Projects \cup {None}} :
          row = [org |-> None, project |-> None, contract |-> c, runs |-> rs]
    BY <1>4 DEF LegacyRows
  <2> QED
    BY <2>1 DEF TaskRow, RowTied
<1>5. PICK first \in Tasks, row \in LegacyRows \cup {None} :
        tasks = [t \in Tasks |-> IF t = first THEN row ELSE None]
  BY DEF AccInit
<1>6. tasks \in [Tasks -> TaskRow \cup {None}]
  BY <1>4, <1>5
<1>7. TasksSound
  BY <1>4, <1>5, ContextAgrees DEF TasksSound
<1>8. RequestsTyped /\ \A s \in Slots : requests[s] = None /\ Pending(s) = {}
  BY <1>1 DEF RequestsTyped, Pending
<1>9. LegacyClosed /\ TargetsFit /\ ScopesBound
  BY <1>8 DEF LegacyClosed, TargetsFit, ScopesBound
<1> QED
  BY <1>1, <1>2, <1>3, <1>6, <1>7, <1>8, <1>9 DEF AccInv, AccTypeOK

\* One step of the system.
LEMMA AccStep ==
  ASSUME AccInv, [AccNext]_accVars
  PROVE  AccInv' /\ ColumnsKept
<1>1. CASE UNCHANGED accVars
  <2>1. RowsGrow /\ RequestsTyped'
        /\ edits' \in 0 .. EditBound /\ organizations' \in [Orgs -> {"absent", "present"}]
        /\ members' \in [Orgs -> [Users -> Member \cup {None}]]
    BY <1>1, RowsRest DEF accVars, AccInv, AccTypeOK, RequestsTyped
  <2>2. \A s \in Slots : Pending(s)' \subseteq Pending(s)
    BY <1>1 DEF accVars, Pending
  <2>3. \A s \in Slots : \A q \in Pending(s)' : Ready(q)
    BY <2>2, PendingReady
  <2>4. UNCHANGED <<mode, settings>>
    BY <1>1 DEF accVars
  <2>5. AccInv'
    BY <2>1, <2>3, <2>4, GrowKeeps
  <2> QED
    BY <1>1, <2>5 DEF accVars, ColumnsKept
<1>2. CASE AccNext
  BY <1>2, ServingSteps, RowSteps DEF AccNext
<1> QED
  BY <1>1, <1>2

(* Handlers keep their kind of target, tasks their context, and requests   *)
(* what their authorization tied them to.                                  *)
THEOREM AccInvariant == AccSpec => []AccInv
<1>1. AccInv /\ [AccNext]_accVars => AccInv'
  BY AccStep
<1> QED
  BY <1>1, AccInitInv, PTL DEF AccSpec

\* What a step that authorizes a request has found out.
LEMMA AuthorizingStep ==
  ASSUME AccInv, [AccNext]_accVars, NEW s \in Slots, Authorizes(s),
         mode = "production", requests[s].need.check # "none"
  PROVE  /\ requests[s].actor \in Credentials =>
              credentials[requests[s].actor].status = "live"
         /\ requests[s].need.effect = "writes" =>
              \A x \in Tenants(requests[s].need, requests[s].target) :
                RoleRank[Role(requests[s].actor, x[1])] >= RoleRank["developer"]
<1>t. requests \in [Slots -> Request \cup {None}]
  BY DEF AccInv, RequestsTyped
<1>1. PICK q \in Request : /\ q = requests[s] /\ q \in Pending(s)
                           /\ q.stage = "authenticated"
  BY <1>t DEF Authorizes, Pending
<1>2. requests'[s] # requests[s] /\ requests'[s] # None
      /\ requests'[s].stage = "authorized"
  BY <1>1 DEF Authorizes
<1>3. Authorize(s)
  <2>1. ~ UNCHANGED requests
    BY <1>2
  <2>2. PICK r \in Slots : Begin(r) \/ Authorize(r) \/ Perform(r) \/ Finish(r)
    BY <2>1 DEF AccNext, accVars, Meanwhile, Expire
  <2>3. r = s
    BY <1>2, <1>t, <2>2 DEF Begin, Authorize, Perform, Finish
  <2>4. ~ Begin(s)
    BY <1>1, <1>2 DEF Begin, Authorizes
  <2>5. ~ Perform(s) /\ ~ Finish(s)
    BY <1>1 DEF Perform, Finish
  <2> QED
    BY <2>2, <2>3, <2>4, <2>5
<1>4. Holds(q.actor, q.need, q.target)
  BY <1>t, <1>1, <1>2, <1>3 DEF Authorize
<1>5. Ready(q)
  BY <1>1, PendingReady
<1>6. /\ q.actor \in Credentials => credentials[q.actor].status = "live"
      /\ q.need.effect = "writes" =>
           \A x \in Tenants(q.need, q.target) :
              RoleRank[Role(q.actor, x[1])] >= RoleRank["developer"]
  BY <1>1, <1>4, <1>5, AuthorizedIs DEF Ready
<1> QED
  BY <1>1, <1>6

(* A request is served within the rights its caller has when it is served: *)
(* viewers only observe, what a credential is scoped to is what it acts    *)
(* on, one that was revoked or has expired gets nothing authorized, tenant *)
(* columns are final, and production serves no legacy interface.           *)
THEOREM AccessIsBound == AccSpec => AccessHolds
<1>1. AccInv => AccTypeOK /\ LegacyClosed
  BY DEF AccInv
<1>2. ASSUME AccInv, [AccNext]_accVars
      PROVE  \A s \in Slots :
        Authorizes(s) /\ mode = "production" =>
          LET q == requests[s]
          IN  q.need.effect = "writes" /\ q.need.check # "none" =>
                \A x \in Tenants(q.need, q.target) :
                   RoleRank[Role(q.actor, x[1])] >= RoleRank["developer"]
  BY <1>2, AuthorizingStep
<1>3. ASSUME AccInv, [AccNext]_accVars
      PROVE  \A s \in Slots :
        Authorizes(s) /\ mode = "production" /\ requests[s].need.check # "none"
             /\ requests[s].actor \in Credentials =>
          credentials[requests[s].actor].status = "live"
  BY <1>3, AuthorizingStep
<1>4. ASSUME AccInv
      PROVE  \A s \in Slots :
        Performs(s) /\ mode = "production" =>
          LET q == requests[s]
          IN  (q.actor \in Credentials /\ q.need.check = "permission")
                => (credentials[q.actor].scope # None =>
                  \A x \in Tenants(q.need, q.target) :
                     x[2] = credentials[q.actor].scope)
  <2> SUFFICES ASSUME NEW s \in Slots, Performs(s), mode = "production",
                      requests[s].actor \in Credentials,
                      requests[s].need.check = "permission",
                      credentials[requests[s].actor].scope # None
               PROVE  \A x \in Tenants(requests[s].need, requests[s].target) :
                         x[2] = credentials[requests[s].actor].scope
    OBVIOUS
  <2>1. PICK q \in Pending(s) : q = requests[s] /\ q.stage = "authorized"
    BY DEF Performs, Pending
  <2>2. ScopeBound(q)
    BY <1>4, <2>1, PendingReady DEF Ready
  <2> QED
    BY <2>1, <2>2 DEF ScopeBound
<1>5. ASSUME AccInv, [AccNext]_accVars PROVE ColumnsKept
  BY <1>5, AccStep
<1> QED
  BY <1>1, <1>2, <1>3, <1>4, <1>5, AccInvariant, PTL
     DEF AccSpec, AccessHolds, ViewersOnlyObserve, RevokedStaysOut, ScopeHolds,
         AttributionIsFinal, ColumnsKept
=============================================================================
