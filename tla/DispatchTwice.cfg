CONSTANTS
  None = None
  wms = wms
  wcs = wcs
  i1 = i1
  i2 = i2
  SourceSystems = {wms, wcs}
  Ids = {i1, i2}
  Submissions = {s1, s2}
  MaxRetries = 1
  Commands <- OneCommand
SPECIFICATION Spec
CHECK_DEADLOCK FALSE
INVARIANT DispatchedOnce
