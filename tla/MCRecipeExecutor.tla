--------------------------- MODULE MCRecipeExecutor ---------------------------
(* Instances of RecipeExecutor small enough for TLC. *)
EXTENDS RecipeExecutor, TLC

\* The first step cannot be undone or skipped, the second and the fourth can be
\* undone, the third may be skipped and can be undone.  The fifth has the id of
\* the second.
s1 == [id |-> "a", order |-> 1, skipOnFailure |-> FALSE, rollbackCommand |-> FALSE]
s2 == [id |-> "b", order |-> 2, skipOnFailure |-> FALSE, rollbackCommand |-> TRUE]
s3 == [id |-> "c", order |-> 3, skipOnFailure |-> TRUE, rollbackCommand |-> TRUE]
s4 == [id |-> "d", order |-> 4, skipOnFailure |-> FALSE, rollbackCommand |-> TRUE]
s5 == [id |-> "b", order |-> 5, skipOnFailure |-> FALSE, rollbackCommand |-> TRUE]

MCStepIds == {"a", "b", "c", "d"}
MCSteps == {s1, s2, s3, s4, s5}

Plain(steps) ==
  [requiresApproval |-> FALSE, requiresDualApproval |-> FALSE, steps |-> steps]

Guarded(steps) ==
  [requiresApproval |-> TRUE, requiresDualApproval |-> TRUE, steps |-> steps]

Ask(approver, second, checks, rollback, dry) ==
  [approvedBy |-> approver, secondApprover |-> second, safetyChecks |-> checks,
   rollbackOnFailure |-> rollback, dryRun |-> dry]

CONSTANTS ann, bob

\* A recipe with two steps to undo and one between them that may be skipped; one
\* with two steps of the same id; a short one that wants two approvals.
MCRecipes == {Plain(<<s2, s3, s4>>), Plain(<<s2, s5>>), Guarded(<<s2>>)}

\* With and without rollback, a delayed safety check, approvals and a dry run.
MCRequests ==
  {Ask(None, None, FALSE, TRUE, FALSE), Ask(None, None, TRUE, FALSE, FALSE),
   Ask(ann, None, TRUE, FALSE, FALSE), Ask(ann, bob, FALSE, TRUE, FALSE),
   Ask(ann, bob, FALSE, FALSE, TRUE)}

\* For the interplay of calls one step is enough.
OneStep == {Plain(<<s1>>)}
TwoSteps == {Plain(<<s2, s4>>)}

SomeRequests == {Ask(None, None, TRUE, TRUE, FALSE), Ask(None, None, FALSE, FALSE, FALSE)}

\* An update may ask for approval, replace the steps or empty them, which is
\* refused.
SomeUpdates == {[requiresApproval |-> TRUE], [steps |-> <<s2>>], [steps |-> << >>]}
NoUpdates == {}

\* Requests that have the safety check made.
CheckedRequests == {Ask(None, None, TRUE, TRUE, FALSE)}

Symmetry == Permutations(Executions) \union Permutations(Callers)

==============================================================================
