CONSTANTS
  a1 = a1  a2 = a2  a3 = a3
  n1 = n1  n2 = n2
  None = None
  Authorizations = {a1, a2, a3}
  ReplayKeys = {n1, n2}
  Inputs <- MCInputs
  ReplayProtection = TRUE
  NonceTtl = 3
  MaxTimestampSkew = 1
  MaxEntries = 1
  Timeout = 1
  MaxTime = 4
SPECIFICATION Spec
CHECK_DEADLOCK FALSE
INVARIANTS TypeOK NoReplay
PROPERTIES AuthorizeReturns
