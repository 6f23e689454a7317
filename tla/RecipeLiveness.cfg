CONSTANTS
  None = None
  ann = ann
  bob = bob
  Recipes = {r1}
  Executions = {e1, e2}
  Callers = {c1}
  People = {ann, bob}
  StepIds <- MCStepIds
  Steps <- MCSteps
  NewRecipes <- TwoSteps
  Updates <- NoUpdates
  Requests <- SomeRequests
SPECIFICATION Spec
CHECK_DEADLOCK FALSE

PROPERTIES ImplementsLifecycle CallsReturn
