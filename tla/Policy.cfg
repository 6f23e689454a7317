CONSTANTS
  k1 = k1  k2 = k2  n1 = n1
  e1 = e1  e2 = e2
  None = None
  Evaluations = {e1, e2}
  Asks = {k1, k2}
  Requests <- MCRequests
  Documents <- MCDocuments
  DefaultPolicies <- MCDefaults
  MaxPolicies = 2
  Configs <- MCConfigs
  CacheTtl = 1
  ReplayKeys = {n1}
  ReplayProtection = FALSE
  NonceTtl = 3
  MaxTimestampSkew = 1
  MaxEntries = 1
  Timeout = 1
  MaxTime = 1
SPECIFICATION Spec
CHECK_DEADLOCK FALSE
INVARIANTS TypeOK DecisionSound DenialsRecorded
PROPERTIES CacheJustified
