---------------------------- MODULE TenantAccess ----------------------------
(***************************************************************************)
(* Who may do what: organizations, members, service credentials, and the   *)
(* requests of the HTTP API.  A request is authenticated, then authorized  *)
(* (each with a commit of its own) and only then performed, so that        *)
(* memberships and credentials may change between any two of the three.    *)
(* The tables name, for every handler, the check it makes and what it does *)
(* to the data of a tenant; properties speak of all of them at once.       *)
(***************************************************************************)
EXTENDS Naturals, FiniteSets, Functions

CONSTANTS Orgs, Users, Projects, Credentials, Tasks, Slots, None,
          Modes,         \* production, development
          Founded,       \* the organizations there are at the start
          Settled,       \* the projects there are at the start
          GrantedRoles,  \* the roles handed out in this instance
          EditBound      \* administrative changes

VARIABLES mode, settings, organizations, members, projects, credentials,
          tasks, requests, edits

accVars == <<mode, settings, organizations, members, projects, credentials,
             tasks, requests, edits>>

ReadPermissions == {"runs.read", "tasks.read", "evidence.read",
                    "approvals.read", "resilience.read"}
AllPermissions == ReadPermissions \cup
   {"runs.write", "runs.execute", "tasks.write", "evidence.build",
    "approvals.decide", "executors.manage", "executors.use", "secrets.read",
    "secrets.manage", "audit.export", "data.manage", "resilience.manage",
    "operations.manage"}

RolePermissions ==
   [viewer |-> ReadPermissions,
    developer |-> ReadPermissions \cup {"runs.write", "runs.execute",
                     "tasks.write", "evidence.build", "executors.use"},
    admin |-> AllPermissions, owner |-> AllPermissions]

RoleRank == [viewer |-> 0, developer |-> 1, admin |-> 2, owner |-> 3]

Member == [role : DOMAIN RoleRank]
Project == Orgs \cup {None}
Credential == [org : Orgs, scope : Projects \cup {None},
               role : DOMAIN RoleRank, status : {"live", "revoked", "expired"}]
\* A task that predates tenancy has empty columns; its project is then the
\* one its contract and the runs of the task name, when they name just one.
TaskRow == [org : Orgs \cup {None}, project : Projects \cup {None},
            contract : Projects \cup {None}, runs : SUBSET (Projects \cup {None})]

-----------------------------------------------------------------------------
(* What a handler asks for and what it does.  The check is of a permission *)
(* or of a role in the tenant of the target; "derives" recomputes rows     *)
(* that are a function of others.                                          *)

Needs(target, check, what, effect) ==
   [target |-> target, check |-> check, what |-> what, effect |-> effect,
    gate |-> "open", op |-> "operate"]
Reads(target, permission) == Needs(target, "permission", permission, "reads")
Derives(target, permission) == Needs(target, "permission", permission, "derives")
Writes(target, permission) == Needs(target, "permission", permission, "writes")
Admin(target, permission, op) == [Writes(target, permission) EXCEPT !.op = op]
Legacy(need) == [need EXCEPT !.gate = "legacy"]
Direct(effect) == [Needs("none", "none", "none", effect) EXCEPT !.gate = "direct"]

RunRoutes ==
   [create_run |-> Admin("project", "runs.write", "create_run"),
    get_run |-> Reads("run", "runs.read"),
    list_run_artifacts |-> Reads("run", "runs.read"),
    capture_run_diff |-> Reads("run", "runs.read"),
    get_run_verification |-> Reads("run", "runs.read")]
SnapshotRoutes ==
   [get_run_context |-> Reads("run", "runs.read"),
    list_steps |-> Reads("run", "runs.read"),
    list_snapshots |-> Reads("run", "runs.read"),
    create_snapshot |-> Writes("run", "runs.write"),
    get_snapshot |-> Reads("run", "runs.read"),
    restore_snapshot |-> Writes("run", "runs.write"),
    replay_snapshot |-> Writes("run", "runs.execute"),
    replay_comparison |-> Reads("run", "runs.read")]
AgentStepRoutes ==
   [create_external_agent_step |-> Writes("run", "runs.execute"),
    submit_external_agent_result |-> Writes("run", "runs.execute"),
    get_recovery_state |-> Reads("run", "runs.read"),
    recover_failed_step |-> Writes("run", "runs.execute"),
    get_event_log |-> Reads("run", "runs.read"),
    list_events |-> Reads("run", "runs.read")]
ExecutionRoutes ==
   [execute_run |-> Writes("run", "runs.execute"),
    cancel_run |-> Writes("run", "runs.execute"),
    resume_run |-> Writes("run", "runs.execute"),
    retry_run |-> Writes("run", "runs.execute"),
    retry_step |-> Writes("run", "runs.execute")]
EvidenceRoutes ==
   [build_evidence |-> Writes("run", "evidence.build"),
    ingest_evidence_artifact |-> Writes("run", "evidence.build"),
    list_evidence |-> Reads("run", "evidence.read"),
    get_evidence_manifest |-> Reads("run", "evidence.read"),
    verify_evidence |-> Reads("run", "evidence.read"),
    verify_evidence_chain |-> Reads("run", "evidence.read")]
SupplyChainRoutes ==
   [ingest_record |-> Writes("run", "evidence.build"),
    list_records |-> Reads("run", "evidence.read"),
    create_provenance |-> Writes("run", "evidence.build"),
    create_image |-> Writes("run", "evidence.build"),
    create_release |-> Writes("run", "evidence.build"),
    create_attestation |-> Writes("run", "evidence.build"),
    verify_attestation |-> Reads("run", "evidence.read"),
    verify_attestation_chain |-> Reads("run", "evidence.read"),
    completeness |-> Derives("run", "evidence.read")]
OrganizationRoutes ==
   [create_organization |-> [Needs("organization", "none", "none", "writes")
                               EXCEPT !.op = "create_organization"],
    create_project |-> Admin("organization", "data.manage", "create_project"),
    upsert_membership |-> Admin("organization", "data.manage", "add_member"),
    list_projects |-> Reads("organization", "tasks.read")]
CredentialRoutes ==
   [create_service_credential |-> Admin("scope", "data.manage", "create_credential"),
    list_service_credentials |-> Reads("organization", "data.manage"),
    revoke_service_credential |-> Admin("organization", "data.manage", "revoke_credential"),
    query_audit_events |-> Reads("scope", "audit.export"),
    backfill_tenant_context |-> Admin("organization", "data.manage", "backfill")]
PolicyRoutes ==
   [create_policy |-> Writes("scope", "data.manage"),
    list_policies |-> Reads("scope", "data.manage"),
    activate_policy |-> Writes("scope", "data.manage"),
    get_policy |-> Reads("scope", "data.manage"),
    retire_policy |-> Writes("scope", "data.manage"),
    backfill_metadata |-> Writes("organization", "data.manage")]
GovernanceRoutes ==
   [create_request |-> Writes("scope", "data.manage"),
    list_requests |-> Reads("organization", "data.manage"),
    get_request |-> Reads("scope", "data.manage"),
    approve_request |-> Writes("scope", "data.manage"),
    inventory_request |-> Writes("scope", "data.manage"),
    process_request |-> Writes("scope", "data.manage"),
    create_legal_hold |-> Writes("scope", "data.manage"),
    release_legal_hold |-> Writes("scope", "data.manage"),
    get_governance_health |-> Reads("organization", "data.manage")]
AuditRoutes ==
   [create_audit_export |-> Writes("scope", "audit.export"),
    list_audit_exports |-> Reads("organization", "audit.export"),
    audit_export_manifest |-> Reads("scope", "audit.export"),
    download_audit_export |-> Reads("scope", "audit.export"),
    verify_audit_export |-> Reads("scope", "audit.export"),
    create_siem_sink |-> Writes("scope", "data.manage"),
    list_siem_sinks |-> Reads("organization", "data.manage"),
    update_siem_sink |-> Writes("scope", "data.manage")]
DeliveryRoutes ==
   [drain_siem_sink |-> Writes("scope", "data.manage"),
    list_siem_deliveries |-> Reads("scope", "data.manage"),
    retry_siem_delivery |-> Writes("scope", "data.manage")]
SecretRoutes ==
   [configure_secret_provider |-> Writes("scope", "secrets.manage"),
    list_secret_providers |-> Reads("scope", "secrets.read"),
    secret_provider_health |-> Derives("scope", "secrets.read"),
    list_credential_leases |-> Reads("scope", "secrets.read"),
    revoke_credential_lease |-> Writes("scope", "secrets.manage")]
ExecutorRoutes ==
   [issue_enrollment_token |-> Writes("scope", "executors.manage"),
    list_executors |-> Reads("scope", "executors.manage"),
    executor_fleet_health |-> Reads("scope", "executors.manage"),
    revoke_executor |-> Writes("scope", "executors.manage")]
BackupRoutes ==
   [create_backup |-> Writes("organization", "resilience.manage"),
    list_backups |-> Reads("organization", "resilience.read"),
    execute_backup |-> Writes("organization", "resilience.manage"),
    verify_restore |-> Writes("organization", "resilience.manage"),
    ensure_slo_defaults |-> Writes("organization", "resilience.manage"),
    upsert_slo_contract |-> Writes("organization", "resilience.manage"),
    list_slo_contracts |-> Reads("organization", "resilience.read"),
    evaluate_slos |-> Derives("organization", "resilience.read")]
OperationRoutes ==
   [operational_health |-> Derives("organization", "resilience.read"),
    recover_execution_jobs |-> Writes("organization", "operations.manage"),
    list_execution_jobs |-> Reads("organization", "operations.manage"),
    requeue_dead_letter |-> Writes("organization", "operations.manage")]
CognitiveWrites ==
   [record_event |-> Writes("project", "tasks.write"),
    add_relation |-> Writes("project", "tasks.write"),
    ingest_commit |-> Writes("project", "tasks.write"),
    analyze_git_commit |-> Writes("project", "tasks.write"),
    enqueue_git_commit |-> Writes("project", "tasks.write"),
    handoff |-> Writes("project", "tasks.write"),
    create_cognitive_snapshot |-> Writes("project", "tasks.write")]
CognitiveReads ==
   [get_cognitive_snapshot |-> Reads("project", "tasks.read"),
    delivery_passport |-> Reads("project", "tasks.read"),
    state_at_commit |-> Reads("project", "tasks.read"),
    reconstruct_context |-> Reads("project", "tasks.read"),
    explain_file |-> Reads("project", "tasks.read"),
    impact_analysis |-> Reads("project", "tasks.read")]
ContextRoutes ==
   [build_application_context |-> Writes("task", "tasks.write"),
    get_application_context |-> Reads("task", "tasks.read"),
    get_impact_risk |-> Reads("task", "tasks.read"),
    build_context_package |-> Writes("task", "tasks.write"),
    get_latest_context_package |-> Reads("task", "tasks.read")]
PlanRoutes ==
   [build_execution_plan |-> Writes("task", "tasks.write"),
    get_execution_plan |-> Reads("task", "tasks.read"),
    get_execution_plan_policy |-> Reads("task", "tasks.read"),
    get_execution_plan_security_review |-> Reads("task", "tasks.read"),
    get_execution_plan_secret_requirements |-> Reads("task", "tasks.read")]
TraceabilityRoutes ==
   [list_requirements |-> Derives("task", "tasks.read"),
    refresh_requirements |-> Writes("task", "tasks.write"),
    get_traceability |-> Derives("task", "tasks.read"),
    refresh_traceability |-> Writes("task", "tasks.write"),
    submit_traceability_link |-> Writes("task", "tasks.write")]
AnalyticsRoutes ==
   [get_run_analytics |-> Needs("run", "role", "viewer", "derives"),
    get_run_lifecycle_metrics |-> Needs("run", "role", "viewer", "reads"),
    get_task_analytics |-> Needs("task", "role", "viewer", "reads"),
    get_project_analytics |-> Needs("project", "role", "viewer", "derives"),
    get_organization_analytics |-> Needs("organization", "role", "viewer", "derives")]
ApprovalRoutes ==
   [list_run_approvals |-> Reads("run", "approvals.read"),
    decide_approval |-> Writes("run", "approvals.decide")]
JiraRoutes ==
   [configure_connector |-> Writes("project", "tasks.write"),
    orchestrate_jira_task |-> Writes("task", "tasks.write"),
    finalize_jira_task |-> Writes("task", "tasks.write"),
    jira_delivery |-> Reads("task", "tasks.read")]
IntakeRoutes ==
   [list_clarifications |-> Reads("task", "tasks.read"),
    answer_clarification |-> Writes("task", "tasks.write"),
    get_task_progress |-> Reads("task", "tasks.read"),
    rank_task |-> Reads("task", "tasks.read")]
RepositoryRoutes ==
   [create_worktree |-> Legacy(Writes("task", "tasks.write")),
    apply_patch |-> Legacy(Writes("task", "tasks.write")),
    run_tests |-> Legacy(Writes("task", "runs.execute")),
    diff_repository |-> Legacy(Writes("task", "tasks.read"))]
TaskRoutes ==
   [get_task |-> Legacy(Needs("task", "none", "none", "reads")),
    run_task |-> Legacy(Needs("task", "none", "none", "writes")),
    list_task_events |-> Legacy(Reads("task", "tasks.read"))]
GithubRoutes ==
   [create_issue |-> Direct("writes"), push_branch |-> Direct("writes"),
    open_pull_request |-> Direct("writes"), review_comments |-> Direct("reads")]

Routes ==
   UNION {Range(RunRoutes), Range(SnapshotRoutes), Range(AgentStepRoutes),
      Range(ExecutionRoutes), Range(EvidenceRoutes), Range(SupplyChainRoutes),
      Range(OrganizationRoutes), Range(CredentialRoutes), Range(PolicyRoutes),
      Range(GovernanceRoutes), Range(AuditRoutes), Range(DeliveryRoutes),
      Range(SecretRoutes), Range(ExecutorRoutes), Range(BackupRoutes),
      Range(OperationRoutes), Range(CognitiveWrites), Range(CognitiveReads),
      Range(ContextRoutes), Range(PlanRoutes), Range(TraceabilityRoutes),
      Range(AnalyticsRoutes), Range(ApprovalRoutes), Range(JiraRoutes),
      Range(IntakeRoutes), Range(RepositoryRoutes), Range(TaskRoutes),
      Range(GithubRoutes)}

-----------------------------------------------------------------------------
(* The tenants a target belongs to: all of them must agree.                *)

ProjectTenant(p) == {<<o, p>> : o \in {projects[p]} \ {None}}

TaskContext(t) ==
   IF tasks[t].org # None
   THEN {<<tasks[t].org, tasks[t].project>>}
   ELSE LET named == (tasks[t].runs \cup {tasks[t].contract}) \ {None}
        IN  IF Cardinality(named) = 1
            THEN UNION {ProjectTenant(p) : p \in named} ELSE {}

RunContext(t, p) ==
   IF p # None /\ projects[p] # None THEN ProjectTenant(p) ELSE TaskContext(t)

AnalyticsTenants(n, x) ==
   IF n.target = "run" THEN IF x[2] = None THEN {} ELSE ProjectTenant(x[2])
   ELSE UNION {ProjectTenant(p) : p \in tasks[x].runs \ {None}}

Tenants(n, x) ==
   IF n.target = "organization" THEN {<<x, None>>}
   ELSE IF n.target = "project" THEN ProjectTenant(x)
   ELSE IF n.target = "scope" THEN {x}
   ELSE IF n.check = "role" THEN AnalyticsTenants(n, x)
   ELSE IF n.target = "task" THEN TaskContext(x)
   ELSE RunContext(x[1], x[2])

KnownTasks == {t \in Tasks : tasks[t] # None}
KnownOrgs == {o \in Orgs : organizations[o] = "present"}

Targets(n) ==
   IF n.op = "create_organization" THEN Orgs \ KnownOrgs
   ELSE IF n.target = "organization" THEN KnownOrgs
   ELSE IF n.target = "project" THEN {p \in Projects : projects[p] # None}
   ELSE IF n.target = "scope"
   THEN {x \in KnownOrgs \X (Projects \cup {None}) : x[2] # None => projects[x[2]] = x[1]}
   ELSE IF n.target = "task" THEN KnownTasks
   ELSE IF n.target = "run"
   THEN {x \in KnownTasks \X (Projects \cup {None}) : x[2] \in tasks[x[1]].runs}
   ELSE {None}

-----------------------------------------------------------------------------
(* Principals.                                                             *)

LivePrincipal(c, o) ==
   /\ credentials[c] # None
   /\ credentials[c].org = o
   /\ credentials[c].status = "live"

\* The test of the organization alone.
AnyPrincipal(c, o) == credentials[c] # None /\ credentials[c].org = o

Principal(c, o) == LivePrincipal(c, o)

Role(a, o) == IF a \in Users THEN members[o][a].role ELSE credentials[a].role

IsPrincipal(a, o) == IF a \in Users THEN members[o][a] # None ELSE Principal(a, o)

\* The scope of a credential is the project, or any project.
ScopeMatches(a, x) ==
   a \in Credentials => credentials[a].scope \in {None, x[2]}

InScope(a, x) == ScopeMatches(a, x)

Permits(a, n, x) ==
   /\ IsPrincipal(a, x[1])
   /\ IF n.check = "role"
      THEN RoleRank[Role(a, x[1])] >= RoleRank[n.what]
      ELSE InScope(a, x) /\ n.what \in RolePermissions[Role(a, x[1])]

Holds(a, n, x) ==
   \/ n.check = "none"
   \/ LET ts == Tenants(n, x)
      IN  IF ts = {} THEN mode = "development"
          ELSE \A t \in ts : Permits(a, n, t)

-----------------------------------------------------------------------------
(* The life of a request.                                                  *)

Request == [stage : {"authenticated", "authorized"},
            actor : Users \cup Credentials, need : Routes,
            target : Orgs \cup Projects \cup Tasks \cup {None}
                       \cup ((Orgs \cup Tasks) \X (Projects \cup {None}))]

\* Users and credentials are told apart, and None from every row.
ASSUME AccAssumption ==
   /\ IsFiniteSet(Projects) /\ EditBound \in Nat
   /\ Modes \subseteq {"production", "development"}
   /\ Founded \subseteq Orgs /\ Settled \subseteq Projects
   /\ GrantedRoles \subseteq DOMAIN RoleRank
   /\ Users \cap Credentials = {}
   /\ None \notin Orgs /\ None \notin Projects /\ None \notin Member
   /\ None \notin Credential /\ None \notin TaskRow /\ None \notin Request

AccTypeOK ==
   /\ mode \in {"production", "development"}
   /\ settings \subseteq {"legacy", "direct", "configured"}
   /\ organizations \in [Orgs -> {"absent", "present"}]
   /\ members \in [Orgs -> [Users -> Member \cup {None}]]
   /\ projects \in [Projects -> Project]
   /\ credentials \in [Credentials -> Credential \cup {None}]
   /\ tasks \in [Tasks -> TaskRow \cup {None}]
   /\ \A s \in Slots : requests[s] = None \/ requests[s] \in Request
   /\ edits \in 0 .. EditBound

\* A production process with an unsafe or incomplete configuration does not
\* start.
SafeStart == mode = "production" => settings = {"configured"}
ValidConfiguration == SafeStart

GateOpen(n) == n.gate = "open" \/ mode = "development" \/ n.gate \in settings

\* The rows of before tenancy: a task with one run.
LegacyRows == {[org |-> None, project |-> None, contract |-> c, runs |-> rs] :
                 c \in Projects \cup {None}, rs \in {{p} : p \in Projects \cup {None}}}

AccInit ==
   /\ mode \in Modes
   /\ settings \in SUBSET {"legacy", "direct", "configured"}
   /\ ValidConfiguration
   /\ mode = "development" => settings = {}   \* not looked at
   /\ organizations = [o \in Orgs |-> IF o \in Founded THEN "present" ELSE "absent"]
   /\ \E founder \in Users :
         members = [o \in Orgs |-> [u \in Users |->
            IF o \in Founded /\ u = founder THEN [role |-> "owner"] ELSE None]]
   /\ \E home \in [Settled -> Founded] :
         projects = [p \in Projects |-> IF p \in Settled THEN home[p] ELSE None]
   /\ credentials = [c \in Credentials |-> None]
   /\ \E first \in Tasks, row \in LegacyRows \cup {None} :
         tasks = [t \in Tasks |-> IF t = first THEN row ELSE None]
   /\ requests = [s \in Slots |-> None]
   /\ edits = 0

\* A bearer token of a service is looked up; a user's is the issuer's affair.
Authenticates(a) ==
   a \in Credentials => (credentials[a] # None /\ credentials[a].status = "live")

Begin(s) ==
   /\ requests[s] = None
   /\ \E a \in Users \cup Credentials, n \in Routes :
        /\ Authenticates(a) /\ GateOpen(n)
        /\ \E x \in Targets(n) :
             requests' = [requests EXCEPT ![s] = [stage |-> "authenticated",
                            actor |-> a, need |-> n, target |-> x]]
   /\ UNCHANGED <<mode, settings, organizations, members, projects,
                  credentials, tasks, edits>>

\* require_permission or require_role: the decision is in the audit trail
\* when the caller learns of it.
Authorize(s) ==
   /\ requests[s] # None
   /\ requests[s].stage = "authenticated"
   /\ LET q == requests[s]
      IN  requests' = [requests EXCEPT ![s] =
             IF Holds(q.actor, q.need, q.target)
             THEN [q EXCEPT !.stage = "authorized"] ELSE None]
   /\ UNCHANGED <<mode, settings, organizations, members, projects,
                  credentials, tasks, edits>>

\* What the administrative operations do, for actor a on target x.

CreateOrganization(a, o) ==
   /\ organizations[o] = "absent" /\ a \in Users
   /\ organizations' = [organizations EXCEPT ![o] = "present"]
   /\ members' = [members EXCEPT ![o][a] = [role |-> "owner"]]
   /\ UNCHANGED <<projects, credentials, tasks>>

CreateProject(o) ==
   /\ \E p \in Projects :
        projects[p] = None /\ projects' = [projects EXCEPT ![p] = o]
   /\ UNCHANGED <<organizations, members, credentials, tasks>>

AddMember(o) ==
   /\ \E u \in Users, r \in GrantedRoles :
        members' = [members EXCEPT ![o][u] = [role |-> r]]
   /\ UNCHANGED <<organizations, projects, credentials, tasks>>

CreateCredential(x) ==
   /\ \E c \in Credentials, r \in GrantedRoles :
        /\ credentials[c] = None
        /\ credentials' = [credentials EXCEPT ![c] =
              [org |-> x[1], scope |-> x[2], role |-> r, status |-> "live"]]
   /\ UNCHANGED <<organizations, members, projects, tasks>>

RevokeCredential(o) ==
   /\ \E c \in Credentials :
        /\ credentials[c] # None
        /\ credentials[c].org = o
        /\ credentials' = [credentials EXCEPT ![c].status = "revoked"]
   /\ UNCHANGED <<organizations, members, projects, tasks>>

CreateRun(p) ==
   /\ \E t \in Tasks :
        /\ tasks[t] = None
        /\ tasks' = [tasks EXCEPT ![t] =
             [org |-> projects[p], project |-> p, contract |-> None, runs |-> {p}]]
   /\ UNCHANGED <<organizations, members, projects, credentials>>

\* Empty columns are filled from the context, the others are left alone.
Attributed(row, context) ==
   [row EXCEPT !.org = IF @ = None THEN context[1] ELSE @,
               !.project = IF @ = None THEN context[2] ELSE @]

Attribute(row, context) == Attributed(row, context)

Backfilled(t, o) ==
   IF tasks[t] = None \/ \A x \in TaskContext(t) : x[1] # o THEN tasks[t]
   ELSE LET x == CHOOSE y \in TaskContext(t) : TRUE
            row == Attribute(tasks[t], x)
        IN  [row EXCEPT !.runs = {IF p = None THEN row.project ELSE p : p \in @}]

Backfill(o) ==
   /\ tasks' = [t \in Tasks |-> Backfilled(t, o)]
   /\ UNCHANGED <<organizations, members, projects, credentials>>

Effect(op, a, x) ==
   \/ op = "create_organization" /\ CreateOrganization(a, x)
   \/ op = "create_project" /\ CreateProject(x)
   \/ op = "add_member" /\ AddMember(x)
   \/ op = "create_credential" /\ CreateCredential(x)
   \/ op = "revoke_credential" /\ RevokeCredential(x)
   \/ op = "create_run" /\ CreateRun(x)
   \/ op = "backfill" /\ Backfill(x)

Perform(s) ==
   /\ requests[s] # None
   /\ requests[s].stage = "authorized"
   /\ edits < EditBound
   /\ Effect(requests[s].need.op, requests[s].actor, requests[s].target)
   /\ requests' = [requests EXCEPT ![s] = None]
   /\ edits' = edits + 1
   /\ UNCHANGED <<mode, settings>>

\* The operation reads, works on rows that decide nothing here, or raises an
\* error of its own.
Finish(s) ==
   /\ requests[s] # None
   /\ requests[s].stage = "authorized"
   /\ requests' = [requests EXCEPT ![s] = None]
   /\ UNCHANGED <<mode, settings, organizations, members, projects,
                  credentials, tasks, edits>>

\* A request of somebody else runs from its start to its end.
Meanwhile ==
   /\ edits < EditBound
   /\ \E a \in Users \cup Credentials, n \in Routes :
        /\ n.op # "operate"
        /\ Authenticates(a)
        /\ \E x \in Targets(n) : Holds(a, n, x) /\ Effect(n.op, a, x)
   /\ edits' = edits + 1
   /\ UNCHANGED <<mode, settings, requests>>

\* The time of a credential runs out.
Expire(c) ==
   /\ credentials[c] # None /\ credentials[c].status = "live"
   /\ edits < EditBound
   /\ credentials' = [credentials EXCEPT ![c].status = "expired"]
   /\ edits' = edits + 1
   /\ UNCHANGED <<mode, settings, organizations, members, projects, tasks, requests>>

AccNext ==
   \/ \E s \in Slots : Begin(s) \/ Authorize(s) \/ Perform(s) \/ Finish(s)
   \/ Meanwhile
   \/ \E c \in Credentials : Expire(c)

AccSpec == AccInit /\ [][AccNext]_accVars

-----------------------------------------------------------------------------
(* Properties.                                                             *)

\* Request s passes its authorization in this step.
Authorizes(s) ==
   /\ requests[s] # None /\ requests'[s] # None
   /\ requests[s].stage = "authenticated"
   /\ requests'[s].stage = "authorized"

\* Request s is carried out, or refused by the operation, in this step.
Performs(s) ==
   /\ requests[s] # None /\ requests'[s] = None
   /\ requests[s].stage = "authorized"

(* In production a viewer only observes: no handler of the API that changes *)
(* the data of a tenant lets a role below developer through.               *)
ViewersOnlyObserve ==
   [][\A s \in Slots :
        Authorizes(s) /\ mode = "production" =>
          LET q == requests[s]
          IN  q.need.effect = "writes" /\ q.need.check # "none" =>
                \A x \in Tenants(q.need, q.target) :
                   RoleRank[Role(q.actor, x[1])] >= RoleRank["developer"]]_accVars

(* A service credential that was revoked or has expired while its request  *)
(* was under way gets nothing authorized any more.                         *)
RevokedStaysOut ==
   [][\A s \in Slots :
        Authorizes(s) /\ mode = "production" /\ requests[s].need.check # "none"
             /\ requests[s].actor \in Credentials =>
          credentials[requests[s].actor].status = "live"]_accVars

(* What a project's credential does under a permission concerns that       *)
(* project, as the rows say at the moment it is done and not only when it  *)
(* was authorized.                                                         *)
ScopeHolds ==
   [][\A s \in Slots :
        Performs(s) /\ mode = "production" =>
          LET q == requests[s]
          IN  (q.actor \in Credentials /\ q.need.check = "permission")
                => (credentials[q.actor].scope # None =>
                  \A x \in Tenants(q.need, q.target) :
                     x[2] = credentials[q.actor].scope)]_accVars

(* The tenant columns of a task, once filled, are never changed: neither   *)
(* by a second backfill nor by the backfill of another organization.       *)
AttributionIsFinal ==
   [][\A t \in Tasks :
        tasks[t] # None =>
          /\ tasks[t].org # None => tasks'[t].org = tasks[t].org
          /\ tasks[t].project # None => tasks'[t].project = tasks[t].project]_accVars

(* A production process serves no request of the legacy and direct action  *)
(* interfaces, whatever its environment says.                              *)
LegacyClosed ==
   \A s \in Slots :
      mode = "production" /\ requests[s] # None => requests[s].need.gate = "open"

(* A request is served within the rights its caller has when it is served: *)
(* though roles, credentials and tenant columns change while it is under   *)
(* way.                                                                    *)
AccessHolds ==
   /\ [](AccTypeOK /\ LegacyClosed)
   /\ ViewersOnlyObserve /\ RevokedStaysOut /\ ScopeHolds /\ AttributionIsFinal
=============================================================================
