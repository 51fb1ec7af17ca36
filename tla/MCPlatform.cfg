\* One request under way while others change memberships, credentials and
\* tenant columns; two executors and two handlers over one job; a client and
\* the workers of the commit queue over one commit; two builds, two ingesters
\* and three attestations of one run; two processes over one backup; two
\* sessions over two changes of one task.
CONSTANTS
  Modes = {"production"}
  Orgs = {o1, o2}
  Users = {u1}
  Projects = {p1, p2}
  Credentials = {c1}
  Tasks = {t1}
  Slots = {s1}
  None = None
  Founded = {o1}
  Settled = {p1}
  GrantedRoles = {"viewer", "admin"}
  EditBound = 2
  Executors = {e1, e2}
  NoOne = NoOne
  Handlers = {h1, h2}
  Keyed = {e1, e2}
  Providers = {"vault"}
  Production = "yes"
  NullsFirst = "yes"
  JobTtl = 2
  Ttls = {2}
  AbsoluteTtl = 2
  StsMinimum = 3
  Horizon = 1
  GrantBound = 2
  LeaseBound = 2
  ConfigBound = 1
  Workers = {h1, h2}
  Clients = {u}
  Commits = {k1}
  NoCommit = NoCommit
  MaxAttempts = 2
  EventBound = 3
  MoreEvents = 4
  CogCrashBound = 1
  Builders = {h1, h2}
  Attesters = {a1, a2, a3}
  Ingesters = {h1, h2}
  Mandatory = {"sbom", "provenance"}
  Signing = "yes"
  BuildBound = 2
  AttestBound = 3
  FlawBound = 1
  Backups = {d1}
  Paths = {f1}
  BackupWorkers = {h1, h2}
  Nothing = Nothing
  DumpBound = 2
  BackupCrashBound = 1
  t1 = t1
  t2 = t2
  phrase = phrase
  Texts = {t1, t2}
  Near <- MCNear
  Contracts <- MCContracts
  Descriptions <- MCDescriptions
  EventIds <- MCEventIds
  Plans <- MCPlans
  Events <- MCEvents
  RunSteps <- MCRunSteps
  RuntimeEvents <- MCRuntimeEvents
  Artifacts <- MCArtifacts
  Packs <- MCPacks
  Submissions <- MCSubmissions
  Sessions = {h1, h2}
  ChangeBound = 2
SPECIFICATION PlatformSpec
SYMMETRY PlatformSymmetry
CHECK_DEADLOCK FALSE
INVARIANTS GrantsAreBound HistoryIsComplete  BackupsAreClean
  TraceIsTrue
PROPERTIES  GrantsOnlyEnd EvidenceVerifies ExternalLinksKept
