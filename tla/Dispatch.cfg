CONSTANTS
  None = None
  wms = wms
  wcs = wcs
  i1 = i1
  i2 = i2
  SourceSystems = {wms, wcs}
  Ids = {i1, i2}
  Submissions = {s1, s2, s3}
  MaxRetries = 1
  Commands <- MCCommands
SPECIFICATION Spec
CHECK_DEADLOCK FALSE
INVARIANTS TypeOK DuplicateHonest DeadLettersAccounted RetriesUsedUp
PROPERTIES EverySubmitReturns ImplementsLedger
