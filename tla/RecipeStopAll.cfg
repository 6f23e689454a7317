CONSTANTS
  None = None
  ann = ann
  bob = bob
  Recipes = {r1}
  Executions = {e1, e2}
  Callers = {c1}
  People = {ann, bob}
  StepIds <- MCStepIds
  Steps <- MCSteps
  NewRecipes <- OneStep
  Updates <- NoUpdates
  Requests <- CheckedRequests
SPECIFICATION StopSpec
CHECK_DEADLOCK FALSE
INVARIANT StopStopsAll
