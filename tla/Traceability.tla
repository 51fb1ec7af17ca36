----------------------------- MODULE Traceability -----------------------------
(***************************************************************************)
(* Requirements of a task and the links from them to the records of its    *)
(* work (TraceabilityService).  A handler that changes the task commits    *)
(* its change and then refreshes: it reads the contract and the stored     *)
(* requirements, replaces the requirements and the derived links in one    *)
(* transaction, and reads both back for the coverage report.  External     *)
(* systems submit links of their own meanwhile.                            *)
(*                                                                         *)
(* A requirement is its normalized text: hash and identifier are functions *)
(* of it.  A link is its identity (requirement, type, target, relation)    *)
(* and its source; metadata is left out.  The records a refresh reads are  *)
(* abstracted to what decides the links.  An optional value is a set of at *)
(* most one element.                                                       *)
(***************************************************************************)
EXTENDS Naturals, Sequences, FiniteSets, Functions

CONSTANTS Texts,        \* normalized texts of criteria and scenarios
          Near,         \* pairs of texts of which one, of 12 or more
                        \* characters, is contained in the other
          Contracts,    \* acceptance criteria a contract may have
          Descriptions, \* texts of the scenarios a description may hold
          EventIds,     \* a sequence: identifiers of registrations
          Plans,        \* [id, policy, steps, findings, gates]
          Events,       \* [id, kinds, names, contract, step, details]
          RunSteps,     \* [id, step, contract, names, agent]
          RuntimeEvents,\* [id, runStep, names]
          Artifacts,    \* [id, names]
          Packs,        \* [id]
          Submissions,  \* [req, type, target, rel, run, secret] sent from outside
          Sessions,     \* database sessions; each serves one handler
          ChangeBound

\* Registrations have identifiers enough, events are told apart by theirs, and
\* the types that _event_detail_links gives are its own.
ASSUME TraceAssumption ==
  /\ IsFiniteSet(Texts) /\ ChangeBound \in Nat
  /\ Contracts \subseteq Seq(Texts) /\ Descriptions \subseteq Seq(Texts)
  /\ 1 .. ChangeBound \subseteq DOMAIN EventIds
  /\ \A e, f \in Events : e.id = f.id => e = f
  /\ \A e \in Events : \A d \in e.details :
       d.type \notin {"context_event", "execution_plan_step"}

VARIABLES
  contract,   \* acceptance criteria of the task
  scenarios,  \* registered scenarios [event, text], in order
  store,      \* persisted plans, events, run steps, artifacts and packs
  reqs,       \* requirements: text -> position
  links,
  autoflush,  \* "off": SessionLocal; "on": the demo's and the benchmark's sessions
  sessions,
  changes

traceVars == <<contract, scenarios, store, reqs, links, autoflush, sessions, changes>>

-----------------------------------------------------------------------------
Records == Plans \cup Events \cup RunSteps \cup RuntimeEvents \cup Artifacts \cup Packs

\* alone: no other session has committed since the refresh began.
\* goal: the pack that the handler stores once its first refresh is done.
Session ==
  [pc : {"idle", "read", "write", "list", "count", "link", "done", "failed"},
   alone : {"yes", "no"},
   goal : SUBSET Packs,
   cands : SUBSET Texts, order : [Texts -> 0 .. Cardinality(Texts)],
   upto : 0 .. Len(scenarios), seen : SUBSET Texts, covered : SUBSET Texts,
   link : SUBSET Submissions, found : {"none", "derived", "external"}]

Free == [pc |-> "idle", alone |-> "yes", goal |-> {}, cands |-> {},
         order |-> [t \in Texts |-> 0], upto |-> 0, seen |-> {}, covered |-> {}, link |-> {},
         found |-> "none"]

Key(l) == [req |-> l.req, type |-> l.type, target |-> l.target, rel |-> l.rel]
Sourced(l, source) == [req |-> l.req, type |-> l.type, target |-> l.target,
                       rel |-> l.rel, source |-> source]

\* Requirements and links keep the constraints of their tables: positions and
\* link identities are unique, and a link belongs to a requirement.
TraceTypeOK ==
  /\ contract \in Contracts
  /\ \A i \in DOMAIN scenarios : scenarios[i] \in [event : Range(EventIds), text : Texts]
  /\ store \subseteq Records
  /\ DOMAIN reqs \subseteq Texts
  /\ IsInjective(reqs) /\ Range(reqs) \subseteq 1 .. Cardinality(Texts)
  /\ \A l \in links : l.req \in DOMAIN reqs /\ l.source \in {"derived", "external"}
  /\ \A l, k \in links : Key(l) = Key(k) => l = k
  /\ autoflush \in {"on", "off"}
  /\ sessions \in [Sessions -> Session]
  /\ changes \in 0 .. ChangeBound

TraceInit ==
  /\ contract \in Contracts
  /\ scenarios = <<>> /\ store = {}
  /\ reqs = <<>> /\ links = {}
  /\ autoflush \in {"on", "off"}
  /\ sessions = [s \in Sessions |-> Free]
  /\ changes = 0

\* A commit of s: the refreshes that others have under way are not alone.
Moves(s, to) ==
  sessions' = [r \in Sessions |->
                 IF r = s THEN to
                 ELSE IF sessions[r].pc \in {"idle", "failed"} THEN sessions[r]
                 ELSE [sessions[r] EXCEPT !.alone = "no"]]
Goes(s, to) == sessions' = [sessions EXCEPT ![s] = to]

-----------------------------------------------------------------------------
(* Requirements of a task.                                                 *)

\* Criteria of the contract, then scenarios; a text counts where it is first.
Candidates == contract \o [i \in DOMAIN scenarios |-> scenarios[i].text]
First(t) == CHOOSE i \in DOMAIN Candidates :
              Candidates[i] = t /\ \A j \in 1 .. i - 1 : Candidates[j] # t
Ordered == [t \in Texts |->
              IF t \notin Range(Candidates) THEN 0
              ELSE Cardinality({u \in Range(Candidates) : First(u) <= First(t)})]

Matches(t, values) == \E v \in values : v = t \/ <<v, t>> \in Near
Matched(R, values) == {t \in R : Matches(t, values)}

-----------------------------------------------------------------------------
(* The calls of _link that a refresh of the requirements R makes; from     *)
(* tells apart the calls that ask for the same link.                       *)

LinkCall(t, type, target, rel, from) ==
  [req |-> t, type |-> type, target |-> target, rel |-> rel, from |-> from]

\* The scenarios are those read with the candidates.
SourceCalls(upto) ==
  {LinkCall(scenarios[i].text, "context_event", scenarios[i].event, "source", <<"scenario", i>>) :
     i \in 1 .. upto}

\* Findings and gates that name no step are about every step of the plan.
About(of, step) == of.steps = {} \/ step.id \in of.steps

StepCalls(R, p, s) ==
  UNION {{LinkCall(t, "execution_plan_step", s.id, "planned_by", <<p.id, s.id>>),
          LinkCall(t, "agent", s.agent, "assigned_to", <<p.id, s.id>>)}
         \cup {LinkCall(t, "policy_decision", d, "governed_by", <<p.id, s.id>>) : d \in p.policy}
         \cup {LinkCall(t, "security_finding", f.id, "reviewed_by", <<p.id, s.id>>) :
                 f \in {g \in p.findings : About(g, s)}}
         \cup {LinkCall(t, "approval", g.id, "gated_by", <<p.id, s.id>>) :
                 g \in {h \in p.gates : About(h, s)}} :
         t \in Matched(R, s.texts)}

PlanCalls(R) ==
  UNION {StepCalls(R, x[1], x[2]) :
           x \in UNION {{<<p, s>> : s \in p.steps} : p \in store \cap Plans}}

\* step_requirements: what the plans link to a step.
Planned(R, step) == {c.req : c \in {d \in PlanCalls(R) : d.type = "execution_plan_step"
                                                       /\ d.target = step}}
AllPlanned(R) == {c.req : c \in {d \in PlanCalls(R) : d.type = "execution_plan_step"}}

EveryRequirement(R) == R
RepositoryTargets(R) == IF AllPlanned(R) # {} THEN AllPlanned(R) ELSE R

\* The requirements an event names; else those its contract matches, or else
\* those of the contract's step; else, for repository events, the planned ones.
RequirementsForEvent(R, e) ==
  LET texts == UNION e.contract
  IN  IF e.names \cap R # {} THEN e.names \cap R
      ELSE IF e.contract # {} /\ Matched(R, texts) # {} THEN Matched(R, texts)
      ELSE IF e.contract # {} /\ e.step # {} THEN UNION {Planned(R, i) : i \in e.step}
      ELSE IF "repository" \in e.kinds THEN RepositoryTargets(R)
      ELSE {}

\* details: what the payload holds of files, diffs, commits, commands,
\* artifacts, evidence and findings, one [type, target, rel, field] per call.
EventRelation(e) == IF "verification" \in e.kinds THEN "verified_by"
                    ELSE IF "repository" \in e.kinds THEN "implemented_by"
                    ELSE "observed_in"

DetailCalls(t, e) == {LinkCall(t, d.type, d.target, d.rel, <<e.id, d.field>>) : d \in e.details}

EventCalls(R) ==
  UNION {UNION {{LinkCall(t, "context_event", e.id, EventRelation(e), <<e.id>>)}
                  \cup DetailCalls(t, e) : t \in RequirementsForEvent(R, e)} :
         e \in store \cap Events}

RequirementsForRunStep(R, x) ==
  LET planned == UNION {Planned(R, i) : i \in x.step}
  IN  IF planned # {} THEN planned
      ELSE IF x.contract # {} THEN Matched(R, UNION x.contract)
      ELSE x.names \cap R

RunStepCalls(R) ==
  UNION {UNION {{LinkCall(t, "run_step", x.id, "executed_by", <<x.id>>)}
                  \cup {LinkCall(t, "agent", a, "executed_by", <<x.id>>) : a \in x.agent} :
                t \in RequirementsForRunStep(R, x)} :
         x \in store \cap RunSteps}

RuntimeEventCalls(R) ==
  LET linked(e) == UNION {RequirementsForRunStep(R, x) :
                            x \in {y \in store \cap RunSteps : y.id = e.runStep}}
  IN  UNION {{LinkCall(t, "runtime_event", e.id, "observed_in", <<e.id>>) :
                t \in IF linked(e) # {} THEN linked(e) ELSE e.names \cap R} :
             e \in store \cap RuntimeEvents}

External == {l \in links : l.source = "external"}

\* linked_ids is a query: it returns the links added in this session only when
\* queries flush them.
LinkedToPlan(R) ==
  {l.req : l \in {k \in External : k.type = "execution_plan_step"}}
    \cup (IF autoflush = "on" THEN AllPlanned(R) ELSE {})

ArtifactCalls(R) ==
  UNION {{LinkCall(t, "artifact", a.id, "evidenced_by", <<a.id>>) :
            t \in IF a.names \cap R # {} THEN a.names \cap R ELSE LinkedToPlan(R) \cap R} :
         a \in store \cap Artifacts}

PackCalls(R) ==
  UNION {{LinkCall(t, "evidence_pack", p.id, "packaged_in", <<p.id>>) : t \in R} :
         p \in store \cap Packs}

Calls(R, upto) == SourceCalls(upto) \cup PlanCalls(R) \cup EventCalls(R) \cup RunStepCalls(R)
                    \cup RuntimeEventCalls(R) \cup ArtifactCalls(R) \cup PackCalls(R)

-----------------------------------------------------------------------------
(* Refresh.                                                                *)

Begun(goal) == [Free EXCEPT !.pc = "read", !.goal = goal]

\* The contract, the scenarios and the stored requirements are read.
RefreshRead(s) ==
  /\ sessions[s].pc = "read"
  /\ Goes(s, [sessions[s] EXCEPT !.pc = "write", !.cands = Range(Candidates),
                                 !.order = Ordered, !.upto = Len(scenarios),
                                 !.seen = DOMAIN reqs])
  /\ UNCHANGED <<contract, scenarios, store, reqs, links, autoflush, changes>>

\* The rows read are first moved to negative positions, so that only the rows
\* that others added hold a position.
Held(x) == {reqs[t] : t \in DOMAIN reqs \ x.seen}

\* A row that was read is gone, or a row to be added or its position is there.
Conflicts(x) ==
  \/ ~(x.seen \subseteq DOMAIN reqs)
  \/ (x.cands \ x.seen) \cap DOMAIN reqs # {}
  \/ {x.order[t] : t \in x.cands} \cap Held(x) # {}

Derived(l) == l.source = "derived"

\* The links that a refresh takes away before it derives them again.
ReplacedAll(l) == TRUE
Replaced(l) == Derived(l)

\* An identity that an external link holds is left to it.
Wanted(x, kept) == {c \in Calls(x.cands, x.upto) : Key(c) \notin {Key(l) : l \in kept}}

\* Two calls ask for one identity: without a flush between them the second
\* does not find the row of the first, and both are inserted.
Doubled(calls) == autoflush = "off" /\ Cardinality({Key(c) : c \in calls}) # Cardinality(calls)

\* Requirements without a candidate are deleted with all their links.
RefreshWrite(s) ==
  LET x == sessions[s]
      kept == {l \in links : ~Replaced(l) /\ l.req \notin x.seen \ x.cands}
      wanted == Wanted(x, kept)
      rows == (DOMAIN reqs \ x.seen) \cup x.cands
  IN  /\ x.pc = "write"
      /\ IF Conflicts(x) \/ Doubled(wanted)
         THEN /\ Goes(s, [Free EXCEPT !.pc = "failed", !.alone = x.alone])
              /\ UNCHANGED <<reqs, links>>
         ELSE /\ reqs' = [t \in rows |-> IF t \in x.cands THEN x.order[t] ELSE reqs[t]]
              /\ links' = kept \cup {Sourced(c, "derived") : c \in wanted}
              /\ Moves(s, [Free EXCEPT !.pc = "list", !.alone = x.alone, !.goal = x.goal])
      /\ UNCHANGED <<contract, scenarios, store, autoflush, changes>>

\* get reads the requirements, then the links.
ListRequirements(s) ==
  /\ sessions[s].pc = "list"
  /\ Goes(s, [sessions[s] EXCEPT !.pc = "count", !.seen = DOMAIN reqs])
  /\ UNCHANGED <<contract, scenarios, store, reqs, links, autoflush, changes>>

\* The link from a scenario's registration is no coverage.
Material == {l \in links : l.rel # "source"}

\* A report of more covered requirements than there are is refused by its schema.
CountCoverage(s) ==
  LET x == sessions[s]
      covered == {l.req : l \in Material}
  IN  /\ x.pc = "count"
      /\ Goes(s, [x EXCEPT !.pc = IF Cardinality(covered) > Cardinality(x.seen)
                                  THEN "failed" ELSE "done",
                           !.covered = covered])
      /\ UNCHANGED <<contract, scenarios, store, reqs, links, autoflush, changes>>

\* The handler answers.
Answer(s) ==
  /\ sessions[s].pc \in {"done", "failed"}
  /\ sessions[s].pc = "done" => sessions[s].goal = {}
  /\ Goes(s, Free)
  /\ UNCHANGED <<contract, scenarios, store, reqs, links, autoflush, changes>>

-----------------------------------------------------------------------------
(* Handlers that refresh.                                                  *)

Changing(s) == sessions[s].pc = "idle" /\ changes < ChangeBound /\ changes' = changes + 1

\* POST refresh and GET.
RequestRefresh(s) ==
  /\ sessions[s].pc = "idle"
  /\ Goes(s, Begun({}))
  /\ UNCHANGED <<contract, scenarios, store, reqs, links, autoflush, changes>>

IngestContract(s, criteria) ==
  /\ Changing(s)
  /\ criteria # contract /\ contract' = criteria
  /\ Moves(s, Begun({}))
  /\ UNCHANGED <<scenarios, store, reqs, links, autoflush>>

\* A registration is an event of its own, holding the scenarios of the description.
Register(s, texts) ==
  /\ Changing(s)
  /\ scenarios' = scenarios \o [i \in DOMAIN texts |-> [event |-> EventIds[changes'], text |-> texts[i]]]
  /\ Moves(s, Begun({}))
  /\ UNCHANGED <<contract, store, reqs, links, autoflush>>

\* Building a plan and recording a repository operation end with a refresh.
Refreshing == Plans \cup {e \in Events : "repository" \in e.kinds}

RecordWork(s, r) ==
  /\ Changing(s)
  /\ r \notin store /\ store' = store \cup {r}
  /\ Moves(s, Begun({}))
  /\ UNCHANGED <<contract, scenarios, reqs, links, autoflush>>

\* The other records are stored by handlers that do not refresh.
StoreRecord(s, r) ==
  /\ Changing(s)
  /\ r \notin store /\ store' = store \cup {r}
  /\ Moves(s, Free)
  /\ UNCHANGED <<contract, scenarios, reqs, links, autoflush>>

\* An evidence pack is built between two refreshes.
BuildPack(s, p) ==
  /\ Changing(s) /\ p \notin store
  /\ Goes(s, Begun({p}))
  /\ UNCHANGED <<contract, scenarios, store, reqs, links, autoflush>>

StorePack(s) ==
  /\ sessions[s].pc = "done" /\ sessions[s].goal # {}
  /\ store' = store \cup sessions[s].goal
  /\ Moves(s, Begun({}))
  /\ UNCHANGED <<contract, scenarios, reqs, links, autoflush, changes>>

-----------------------------------------------------------------------------
(* Links from outside.                                                     *)

\* A link is refused with secret material or a run of another task.
SubmitRead(s, l) ==
  /\ Changing(s)
  /\ l.run # "other" /\ l.secret = "no"
  /\ l.req \in DOMAIN reqs
  /\ Goes(s, [Free EXCEPT !.pc = "link", !.link = {l},
                          !.found = IF Sourced(l, "external") \in links THEN "external"
                                    ELSE IF Sourced(l, "derived") \in links THEN "derived"
                                    ELSE "none"])
  /\ UNCHANGED <<contract, scenarios, store, reqs, links, autoflush>>

\* A derived link becomes external; the update of a row that is gone, and the
\* insertion of one that is there or whose requirement is gone, fail.
Submitted(l, found) ==
  IF found = "derived" /\ Key(l) \in {Key(k) : k \in links}
  THEN (links \ {Sourced(l, "derived")}) \cup {Sourced(l, "external")}
  ELSE IF found = "none" /\ Key(l) \notin {Key(k) : k \in links} /\ l.req \in DOMAIN reqs
  THEN links \cup {Sourced(l, "external")}
  ELSE links

SubmitCommit(s) ==
  LET x == sessions[s]
  IN  /\ x.pc = "link"
      /\ \E l \in x.link : links' = Submitted(l, x.found)
      /\ IF links' = links THEN Goes(s, Free) ELSE Moves(s, Free)
      /\ UNCHANGED <<contract, scenarios, store, reqs, autoflush, changes>>

TraceNext ==
  \E s \in Sessions :
    \/ RefreshRead(s) \/ RefreshWrite(s) \/ ListRequirements(s) \/ CountCoverage(s)
    \/ Answer(s) \/ RequestRefresh(s)
    \/ \E c \in Contracts : IngestContract(s, c)
    \/ \E d \in Descriptions : Register(s, d)
    \/ \E r \in Refreshing : RecordWork(s, r)
    \/ \E r \in Records \ (Refreshing \cup Packs) : StoreRecord(s, r)
    \/ \E p \in Packs : BuildPack(s, p)
    \/ StorePack(s)
    \/ \E l \in Submissions : SubmitRead(s, l)
    \/ SubmitCommit(s)

TraceSpec == TraceInit /\ [][TraceNext]_traceVars

-----------------------------------------------------------------------------
(* Properties.                                                             *)

\* In a session that flushes before its queries, as the tests' do, a refresh
\* that no other commit overlaps always commits: the positions of reordered,
\* repeated, added and deleted requirements never collide.
FlushedRefreshCommits ==
  \A s \in Sessions :
    (sessions[s].pc = "failed" /\ sessions[s].alone = "yes") => autoflush = "off"

\* README: "Refresh rebuilds derived requirement-link/v1 records from durable
\* application and execution plans, ..., repository audit events, ..."
RefreshRebuilds ==
  \A s \in Sessions : sessions[s].pc = "failed" => sessions[s].alone = "no"

\* External links are retained across refreshes, overlapping ones too: a step
\* takes one away only with its requirement.
ExternalLinksKept ==
  [][\A l \in External : l \in links' \/ l.req \notin DOMAIN reqs']_traceVars

\* A pack concerns every requirement, a plan those that its steps match, an
\* event or artifact those it names.
Concerns(t, r) ==
  \/ r \in Packs
  \/ r \in Plans /\ \E p \in r.steps : Matches(t, p.texts)
  \/ r \in Events \cup Artifacts /\ t \in r.names

\* The report of a refresh that nothing overlapped is about the current
\* criteria and scenarios: one that a record concerns or someone linked is
\* covered, and one that is only registered, with no work recorded, is not.
\* A link from outside may call itself a source; it is then no coverage either.
AloneReportIsTrue ==
  \A s \in Sessions :
    (sessions[s].pc = "done" /\ sessions[s].alone = "yes") =>
      /\ sessions[s].seen = Range(Candidates)
      /\ sessions[s].covered \subseteq sessions[s].seen
      /\ {l.req : l \in External \cap Material} \subseteq sessions[s].covered
      /\ store = {} => sessions[s].covered = {l.req : l \in External \cap Material}
      /\ \A t \in sessions[s].seen, r \in store : Concerns(t, r) => t \in sessions[s].covered

\* Once a plan step is linked to a requirement, work in the repository that
\* names none implements only requirements with a planned step; overlapping
\* refreshes do not mix the links of two readings.
WorkFollowsThePlan ==
  \A l, k \in links :
    (l.type = "execution_plan_step" /\ Derived(l) /\ Derived(k)
       /\ k.type = "context_event" /\ k.rel = "implemented_by"
       /\ \E e \in Events : e.id = k.target /\ e.names = {} /\ e.contract = {})
      => \E m \in links : m.req = k.req /\ m.type = "execution_plan_step"

\* Refreshes and reports agree with the contract and the records of the task,
\* alone or overlapping, where their session flushes as the tests' sessions do.
TraceIsTrue ==
  TraceTypeOK /\ FlushedRefreshCommits /\ AloneReportIsTrue /\ WorkFollowsThePlan
=============================================================================
