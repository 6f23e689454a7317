CONSTANTS
  None = None
  Evaluations = {e1, e2, e3}
  First = e1
  Submits = {s1, s2}
  Forms <- MCForms
SPECIFICATION Spec
CHECK_DEADLOCK FALSE
INVARIANTS TypeOK PostedAllowed
PROPERTIES ReadinessComes
