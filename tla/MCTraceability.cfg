\* A plan is built and refreshed in a session of the deployed factory.
CONSTANTS
  t1 = t1
  t2 = t2
  phrase = phrase
  Texts = {t1, t2}
  Near <- MCNear
  Contracts <- MCContracts
  Descriptions <- MCDescriptions
  EventIds <- MCEventIds
  Plans <- MCPlans
  Events <- MCEvents
  RunSteps <- MCRunSteps
  RuntimeEvents <- MCRuntimeEvents
  Artifacts <- MCArtifacts
  Packs <- MCPacks
  Submissions <- MCSubmissions
  Sessions = {s1}
  ChangeBound = 2
SPECIFICATION TraceSpec
INVARIANT RefreshRebuilds
CHECK_DEADLOCK FALSE
