CONSTANTS
  None = None
  ann = ann
  bob = bob
  Recipes = {r1}
  Executions = {e1, e2}
  Callers = {c1, c2}
  People = {ann, bob}
  StepIds <- MCStepIds
  Steps <- MCSteps
  NewRecipes <- MCRecipes
  Updates <- SomeUpdates
  Requests <- MCRequests
SPECIFICATION Spec
CHECK_DEADLOCK FALSE
SYMMETRY Symmetry
INVARIANTS TypeOK RegistryAccurate CompletionHonest RollbackExact StopEffective
PROPERTIES CancelStopsSteps SettledIsFinal
