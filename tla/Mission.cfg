CONSTANTS
  None = None
  wms = wms
  i1 = i1
  i2 = i2
  SourceSystems = {wms}
  Ids = {i1, i2}
  Commands <- MCCommands
  Submissions = {s1, s2}
  Requests <- MCRequests
  Streams = {t1}
  Seed = 9
  InitialFrames = 2
  MaxFrames = 2
  MaxEvents = 5
  MaxSteps = 3
SPECIFICATION Spec
CHECK_DEADLOCK FALSE
INVARIANTS TypeOK PolicyEnforced TimelineContiguous CountersAgree StreamsCurrent DuplicateFollows
PROPERTIES RequestsAnswered
