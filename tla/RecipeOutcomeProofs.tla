-------------------------- MODULE RecipeOutcomeProofs --------------------------
(***************************************************************************)
(* What the record of an execution says of the work that was done: the     *)
(* steps it ran and the ones it undid, for any recipes, executions and     *)
(* callers.                                                                *)
(***************************************************************************)
EXTENDS RecipeExecutorProofs, FiniteSetTheorems

\* The i-th result is that of the i-th step of a run with locals f.
Traced(f, x) ==
  \A i \in DOMAIN x.stepResults :
    i \in DOMAIN f.recipe.steps /\ x.stepResults[i].stepId = f.recipe.steps[i].id

\* Each step that ran has succeeded or may be skipped.
Permitted(f, x) ==
  \A i \in DOMAIN x.stepResults :
    x.stepResults[i].status = "completed" \/ f.recipe.steps[i].skipOnFailure

\* RollbackPlaces of such a run.
Places(f, x) ==
  {i \in DOMAIN f.recipe.steps :
     LET s == f.recipe.steps[i] IN s.id \in CompletedIds(x) /\ s.rollbackCommand}

Above(i, places) == {k \in places : k > i}

\* Step i is the j-th to be undone.
IsUndone(f, x, i, j) ==
  /\ Cardinality(Above(i, Places(f, x))) = j - 1
  /\ x.rollbackSteps[j] = f.recipe.steps[i].id

\* The undone steps are the last places, latest first.
Undone(f, x) ==
  \A j \in DOMAIN x.rollbackSteps : \E i \in Places(f, x) : IsUndone(f, x, i, j)

AllUndone(f, x) == Len(x.rollbackSteps) = Cardinality(Places(f, x))

Unstarted == {"idle", "recipeFetched", "safetyChecked", "refused"}

\* What the record x of a run with locals f tells when the run is at at.
Account(f, at, x) ==
  /\ at \in Unstarted => x.stepResults = << >>
  /\ at \in Unstarted \union StepPc => x.rollbackSteps = << >>
  /\ x.status \in {"completed", "failed"} => at = "done"
  /\ x.status = "cancelled" => x.error = "cancelled"
  /\ Traced(f, x) /\ Undone(f, x)
  /\ at \in StepPc => Permitted(f, x)
  /\ x.status = "completed" /\ x.error = None /\ ~f.request.dryRun =>
       Permitted(f, x) /\ Len(x.stepResults) = Len(f.recipe.steps)
  /\ at = "rolledBack" \/ (x.status = "failed" /\ f.request.rollbackOnFailure) =>
       AllUndone(f, x)

Accounts == \A e \in Executions : Account(frame[e], pc[e], executions[e])

\* Only definitions that passed validation are stored or run.
RecipesValid ==
  /\ \A r \in Recipes : recipes[r] # None => IsValid(recipes[r])
  /\ \A e \in Executions : pc[e] # "idle" => IsValid(frame[e].recipe)

\* The inductive invariant.
OutcomeInv == Inv /\ RecipesValid /\ Accounts

(***************************************************************************)
(* Records.                                                                *)
(***************************************************************************)

\* What a record tells depends on the results and the undone steps alone.
LEMMA SameWork ==
  ASSUME NEW f, NEW x, NEW y, y.stepResults = x.stepResults, y.rollbackSteps = x.rollbackSteps
  PROVE  /\ Traced(f, x) => Traced(f, y)
         /\ Undone(f, x) => Undone(f, y)
         /\ Permitted(f, x) => Permitted(f, y)
         /\ AllUndone(f, x) => AllUndone(f, y)
<1>1. Places(f, y) = Places(f, x)
  BY DEF Places, CompletedIds
<1>2. QED
  BY <1>1 DEF Traced, Undone, IsUndone, Permitted, AllUndone

\* Recording the result of step i, the next one, keeps results and steps in step.
LEMMA ResultRecorded ==
  ASSUME NEW f, NEW x \in Execution, NEW y,
         NEW i \in DOMAIN f.recipe.steps, i = Len(x.stepResults) + 1,
         NEW r \in StepResult, r.stepId = f.recipe.steps[i].id,
         y.stepResults = Append(x.stepResults, r), y.rollbackSteps = << >>,
         Traced(f, x), Permitted(f, x)
  PROVE  /\ Traced(f, y) /\ Undone(f, y)
         /\ r.status = "completed" \/ f.recipe.steps[i].skipOnFailure => Permitted(f, y)
         /\ Len(y.stepResults) = i
<1>1. PICK n : n = Len(x.stepResults)
  OBVIOUS
<1>2. /\ n \in Nat /\ i = n + 1 /\ DOMAIN x.stepResults = 1..n
      /\ DOMAIN y.stepResults = 1..(n + 1) /\ Len(y.stepResults) = n + 1
      /\ \A k \in 1..n : y.stepResults[k] = x.stepResults[k]
      /\ y.stepResults[n + 1] = r
  BY <1>1 DEF Execution
<1>3. \A k \in 1..(n + 1) : k \in 1..n \/ k = n + 1
  BY <1>2
<1>4. Traced(f, y)
  BY <1>2, <1>3 DEF Traced
<1>5. r.status = "completed" \/ f.recipe.steps[i].skipOnFailure => Permitted(f, y)
  BY <1>2, <1>3 DEF Permitted
<1>6. DOMAIN y.rollbackSteps = {}
  OBVIOUS
<1>7. QED
  BY <1>2, <1>4, <1>5, <1>6 DEF Undone

\* Recording the rollback of the next place keeps them in order.
LEMMA UndoRecorded ==
  ASSUME NEW f, NEW x \in Execution, NEW y,
         NEW i \in Places(f, x), f.recipe.steps[i].id \in StepIds,
         Cardinality(Above(i, Places(f, x))) = Len(x.rollbackSteps),
         y.stepResults = x.stepResults,
         y.rollbackSteps = Append(x.rollbackSteps, f.recipe.steps[i].id),
         Undone(f, x)
  PROVE  Undone(f, y)
<1>1. PICK n : n = Len(x.rollbackSteps)
  OBVIOUS
<1>2. PICK id : id = f.recipe.steps[i].id
  OBVIOUS
<1>3. /\ n \in Nat /\ DOMAIN x.rollbackSteps = 1..n
      /\ DOMAIN y.rollbackSteps = 1..(n + 1)
      /\ \A j \in 1..n : y.rollbackSteps[j] = x.rollbackSteps[j]
      /\ y.rollbackSteps[n + 1] = id
  BY <1>1, <1>2 DEF Execution
<1>4. Places(f, y) = Places(f, x)
  BY DEF Places, CompletedIds
<1>5. IsUndone(f, y, i, n + 1)
  <2>1. n = (n + 1) - 1
    BY <1>3
  <2>2. QED
    BY <1>1, <1>2, <1>3, <1>4, <2>1 DEF IsUndone
<1>6. \A j \in 1..n : \E k \in Places(f, x) : IsUndone(f, y, k, j)
  BY <1>3, <1>4 DEF Undone, IsUndone
<1>7. \A j \in 1..(n + 1) : j \in 1..n \/ j = n + 1
  BY <1>3
<1>8. QED
  BY <1>3, <1>4, <1>5, <1>6, <1>7 DEF Undone

(***************************************************************************)
(* A step of an execution.                                                 *)
(***************************************************************************)

\* A step that leaves results and undone steps alone, and goes to at with
\* record y, tells the truth if its status does.
LEMMA WorkKept ==
  ASSUME NEW f, NEW from, NEW at, NEW x, NEW y, Account(f, from, x),
         y.stepResults = x.stepResults, y.rollbackSteps = x.rollbackSteps,
         y.status \in {"completed", "failed"} => at = "done",
         y.status = "cancelled" => y.error = "cancelled",
         at \in Unstarted => from \in Unstarted,
         at \in StepPc => from \in Unstarted \union StepPc,
         y.status = "completed" /\ y.error = None /\ ~f.request.dryRun =>
           x.status = "completed" /\ x.error = None,
         at = "rolledBack" \/ (y.status = "failed" /\ f.request.rollbackOnFailure) =>
           AllUndone(f, x)
  PROVE  Account(f, at, y)
<1>1. /\ Traced(f, y) /\ Undone(f, y)
      /\ Permitted(f, x) => Permitted(f, y)
      /\ AllUndone(f, x) => AllUndone(f, y)
  BY SameWork DEF Account
<1>2. from \in Unstarted => Permitted(f, y)
  <2>1. from \in Unstarted => DOMAIN y.stepResults = {}
    BY DEF Account
  <2>2. QED
    BY <2>1 DEF Permitted
<1>3. at \in StepPc => Permitted(f, y)
  BY <1>1, <1>2 DEF Account
<1>4. at \in Unstarted => y.stepResults = << >>
  BY DEF Account
<1>5. at \in Unstarted \union StepPc => y.rollbackSteps = << >>
  BY DEF Account
<1>6. /\ y.status = "completed" /\ y.error = None /\ ~f.request.dryRun =>
           Permitted(f, y) /\ Len(y.stepResults) = Len(f.recipe.steps)
      /\ at = "rolledBack" \/ (y.status = "failed" /\ f.request.rollbackOnFailure) =>
           AllUndone(f, y)
  BY <1>1 DEF Account
<1>7. QED
  BY <1>1, <1>3, <1>4, <1>5, <1>6 DEF Account

\* Where the event loop puts an execution.
LEMMA PlacedAt ==
  ASSUME Inv, NEW e \in Executions, NEW at, Tick(e, at) \/ Park(e, at)
  PROVE  pc'[e] = at
<1>1. e \in Processes
  BY DEF Processes
<1>2. QED
  BY <1>1 DEF Inv, TypeOK, Tick, Park

\* What Put stores.
LEMMA PutStores ==
  ASSUME Inv, NEW e \in Executions, NEW x, Put(e, x)
  PROVE  executions'[e] = x
BY DEF Inv, TypeOK, Put

\* Setting the status leaves the work alone.
LEMMA StatusWork ==
  ASSUME NEW x \in Execution, NEW st
  PROVE  LET y == [x EXCEPT !.status = st]
         IN /\ y.status = st /\ y.error = x.error
            /\ y.stepResults = x.stepResults /\ y.rollbackSteps = x.rollbackSteps
BY DEF Execution

\* Marking a record as failed leaves the work alone.
LEMMA FailedWork ==
  ASSUME NEW x \in Execution
  PROVE  /\ Failed(x).stepResults = x.stepResults /\ Failed(x).rollbackSteps = x.rollbackSteps
         /\ Failed(x).status = "failed"
BY DEF Execution, Failed

\* So does marking it as rolling back.
LEMMA RollingBackWork ==
  ASSUME NEW x \in Execution
  PROVE  /\ RollingBack(x).stepResults = x.stepResults
         /\ RollingBack(x).rollbackSteps = x.rollbackSteps
BY DEF Execution, RollingBack

\* Starting a run.
LEMMA LaunchTold ==
  ASSUME OutcomeInv, NEW e \in Executions, Launch(e),
         pc[e] \in {"recipeFetched", "safetyChecked"}
  PROVE  Account(frame[e], pc'[e], executions'[e])
<1> DEFINE x == executions[e]
           f == frame[e]
           y(st) == [x EXCEPT !.status = st]
<1>1. x \in Execution /\ Account(f, pc[e], x)
  BY DEF OutcomeInv, Inv, TypeOK, Accounts
<1>2. \A st : /\ y(st).status = st /\ y(st).error = x.error
              /\ y(st).stepResults = x.stepResults /\ y(st).rollbackSteps = x.rollbackSteps
  BY <1>1, StatusWork
<1>3. CASE f.request.dryRun /\ Put(e, y("completed")) /\ Park(e, "done")
  <2>1. executions'[e] = y("completed") /\ pc'[e] = "done"
    BY <1>3, PlacedAt, PutStores DEF OutcomeInv
  <2>2. /\ y("completed").status = "completed"
        /\ y("completed").stepResults = x.stepResults /\ y("completed").rollbackSteps = x.rollbackSteps
    BY <1>2
  <2>3. ASSUME NEW z, z.status = "completed",
               z.stepResults = x.stepResults, z.rollbackSteps = x.rollbackSteps
        PROVE  Account(f, "done", z)
    <3>1. pc[e] \in Unstarted
      BY DEF Unstarted
    <3>2. "done" \notin Unstarted \union UndoPc
      BY DEF Unstarted, UndoPc
    <3>3. QED
      BY <1>1, <1>3, <2>3, <3>1, <3>2, WorkKept
  <2>4. Account(f, "done", y("completed"))
    BY <2>2, <2>3
  <2>5. QED
    BY <2>1, <2>4
<1>4. CASE Put(e, y("executing")) /\ Park(e, "step")
  <2>1. executions'[e] = y("executing") /\ pc'[e] = "step"
    BY <1>4, PlacedAt, PutStores DEF OutcomeInv
  <2>2. /\ y("executing").status = "executing"
        /\ y("executing").stepResults = x.stepResults /\ y("executing").rollbackSteps = x.rollbackSteps
    BY <1>2
  <2>3. ASSUME NEW z, z.status = "executing",
               z.stepResults = x.stepResults, z.rollbackSteps = x.rollbackSteps
        PROVE  Account(f, "step", z)
    <3>1. pc[e] \in Unstarted
      BY DEF Unstarted
    <3>2. "step" \notin Unstarted \union UndoPc
      BY DEF Unstarted, UndoPc
    <3>3. QED
      BY <1>1, <2>3, <3>1, <3>2, WorkKept
  <2>4. Account(f, "step", y("executing"))
    BY <2>2, <2>3
  <2>5. QED
    BY <2>1, <2>4
<1>5. QED
  BY <1>3, <1>4 DEF Launch

\* The record of a run after step i, the one it was at.
LEMMA ResultTold ==
  ASSUME OutcomeInv, NEW e \in Executions, pc[e] \in StepPc,
         NEW i \in DOMAIN frame[e].recipe.steps, IsCurrent(i, e),
         NEW result \in {"completed", "failed"}
  PROVE  LET x == executions[e]
             y == WithResult(e, i, result)
             f == frame[e]
         IN /\ y \in Execution /\ y.status = x.status /\ y.error = x.error
            /\ y.status = "cancelled" => y.error = "cancelled"
            /\ y.status \notin {"completed", "failed"}
            /\ y.rollbackSteps = << >>
            /\ Traced(f, y) /\ Undone(f, y)
            /\ result = "completed" \/ f.recipe.steps[i].skipOnFailure => Permitted(f, y)
<1> DEFINE x == executions[e]
           y == WithResult(e, i, result)
           f == frame[e]
           r == [stepId |-> f.recipe.steps[i].id, status |-> result]
<1>1. TypeOK /\ x \in Execution /\ Account(f, pc[e], x) /\ pc[e] # "idle"
  BY DEF OutcomeInv, Inv, TypeOK, Accounts, StepPc
<1>2. r \in StepResult /\ r.stepId = f.recipe.steps[i].id /\ r.status = result
  BY <1>1, StepsOfRun DEF StepResult
<1>3. y \in Execution /\ y.status = x.status /\ y.error = x.error
  BY <1>1, ResultRecord
<1>4. y.stepResults = Append(x.stepResults, r) /\ y.rollbackSteps = x.rollbackSteps
  BY <1>1 DEF WithResult, Execution
<1>5. /\ x.rollbackSteps = << >> /\ Traced(f, x) /\ Permitted(f, x)
      /\ x.status = "cancelled" => x.error = "cancelled"
      /\ x.status \notin {"completed", "failed"}
  BY <1>1 DEF Account, StepPc
<1>6. /\ Traced(f, y) /\ Undone(f, y)
      /\ result = "completed" \/ f.recipe.steps[i].skipOnFailure => Permitted(f, y)
  <2>1. ASSUME NEW z, z.stepResults = Append(x.stepResults, r), z.rollbackSteps = << >>
        PROVE  /\ Traced(f, z) /\ Undone(f, z)
               /\ r.status = "completed" \/ f.recipe.steps[i].skipOnFailure => Permitted(f, z)
    <3>1. i = Len(x.stepResults) + 1
      BY DEF IsCurrent
    <3>2. QED
      BY <1>1, <1>2, <1>5, <2>1, <3>1, ResultRecorded
  <2>2. QED
    BY <1>2, <1>4, <1>5, <2>1
<1>7. QED
  BY <1>3, <1>4, <1>5, <1>6

\* Back at the head of the loop over the steps.
LEMMA IterationTold ==
  ASSUME OutcomeInv, NEW e \in Executions, pc[e] \in StepPc,
         NEW i \in DOMAIN frame[e].recipe.steps, IsCurrent(i, e),
         NEW result \in {"completed", "failed"},
         result = "completed" \/ frame[e].recipe.steps[i].skipOnFailure,
         NextIteration(e, WithResult(e, i, result))
  PROVE  Account(frame[e], pc'[e], executions'[e])
<1> DEFINE x == WithResult(e, i, result)
           f == frame[e]
           y == [x EXCEPT !.status = "completed"]
<1>1. /\ x \in Execution
      /\ x.status = "cancelled" => x.error = "cancelled"
      /\ x.status \notin {"completed", "failed"}
      /\ x.rollbackSteps = << >>
      /\ Traced(f, x) /\ Undone(f, x) /\ Permitted(f, x)
  BY ResultTold
<1>2. CASE LoopEnds(e, x) /\ Settle(e, y)
  <2>1. /\ y.status = "completed" /\ y.error = x.error
        /\ y.stepResults = x.stepResults /\ y.rollbackSteps = x.rollbackSteps
    BY <1>1, StatusWork
  <2>2. executions'[e] = y /\ pc'[e] = "done"
    BY <1>2, PlacedAt, PutStores DEF OutcomeInv, Settle
  <2>3. Traced(f, y) /\ Undone(f, y) /\ Permitted(f, y)
    BY <1>1, <2>1, SameWork
  <2>4. y.error = None => Len(y.stepResults) = Len(f.recipe.steps)
    BY <1>1, <1>2, <2>1, InputTypes DEF LoopEnds, AllRun
  <2>5. Account(f, "done", y)
    BY <1>1, <2>1, <2>3, <2>4 DEF Account, Unstarted, StepPc
  <2>6. QED
    BY <2>2, <2>5
<1>3. CASE Put(e, x) /\ Park(e, "step")
  <2>1. executions'[e] = x /\ pc'[e] = "step"
    BY <1>3, PlacedAt, PutStores DEF OutcomeInv
  <2>2. Account(f, "step", x)
    BY <1>1 DEF Account, Unstarted, StepPc
  <2>3. QED
    BY <2>1, <2>2
<1>4. QED
  BY <1>2, <1>3 DEF NextIteration

\* The head of the loop that undoes steps, from a record x whose results are
\* those of a run that failed.
LEMMA UndoTold ==
  ASSUME OutcomeInv, NEW e \in Executions, pc[e] \in StepPc \union UndoPc,
         NEW x \in Execution, x.status \notin {"completed", "failed", "cancelled"},
         Traced(frame[e], x), Undone(frame[e], x),
         UndoLoop(e, x)
  PROVE  Account(frame[e], pc'[e], executions'[e])
<1> DEFINE f == frame[e]
           y == [x EXCEPT !.status = "rolled_back"]
           z(i) == [x EXCEPT !.rollbackSteps = Append(@, f.recipe.steps[i].id)]
<1>1. TypeOK /\ pc[e] # "idle"
  BY DEF OutcomeInv, Inv, StepPc, UndoPc
<1>2. RollbackPlaces(e, x) = Places(f, x)
  BY DEF RollbackPlaces, Places
<1>3. CASE /\ Len(x.rollbackSteps) = Cardinality(RollbackPlaces(e, x))
           /\ Put(e, y) /\ Tick(e, "rolledBack")
  <2>1. /\ y.status = "rolled_back"
        /\ y.stepResults = x.stepResults /\ y.rollbackSteps = x.rollbackSteps
    BY StatusWork
  <2>2. executions'[e] = y /\ pc'[e] = "rolledBack"
    BY <1>3, PlacedAt, PutStores DEF OutcomeInv
  <2>3. AllUndone(f, x)
    BY <1>2, <1>3 DEF AllUndone
  <2>4. Traced(f, y) /\ Undone(f, y) /\ AllUndone(f, y)
    BY <2>1, <2>3, SameWork
  <2>5. Account(f, "rolledBack", y)
    BY <2>1, <2>4 DEF Account, Unstarted, StepPc
  <2>6. QED
    BY <2>2, <2>5
<1>4. ASSUME NEW i \in RollbackPlaces(e, x),
             UndoneNext(i, RollbackPlaces(e, x), Len(x.rollbackSteps)),
             Put(e, z(i)), Park(e, "undo")
      PROVE  Account(f, pc'[e], executions'[e])
  <2>1. f.recipe.steps[i].id \in StepIds
    BY <1>1, StepsOfRun DEF RollbackPlaces
  <2>2. z(i) \in Execution /\ z(i).status = x.status
    BY <2>1, UndoneRecord
  <2>3. /\ z(i).stepResults = x.stepResults
        /\ z(i).rollbackSteps = Append(x.rollbackSteps, f.recipe.steps[i].id)
    BY DEF Execution
  <2>4. Cardinality(Above(i, Places(f, x))) = Len(x.rollbackSteps)
    BY <1>2, <1>4 DEF UndoneNext, Above
  <2>5. Undone(f, z(i))
    BY <1>2, <2>1, <2>3, <2>4, UndoRecorded
  <2>6. Traced(f, z(i))
    BY <2>3 DEF Traced
  <2>7. executions'[e] = z(i) /\ pc'[e] = "undo"
    BY <1>4, PlacedAt, PutStores DEF OutcomeInv
  <2>8. Account(f, "undo", z(i))
    BY <2>2, <2>5, <2>6 DEF Account, Unstarted, StepPc
  <2>9. QED
    BY <2>7, <2>8
<1>5. QED
  BY <1>3, <1>4 DEF UndoLoop

\* Every step of an execution leaves it a record that tells the truth.
LEMMA ExecutionTold ==
  ASSUME OutcomeInv, NEW e \in Executions, ExecutionJob(e) \/ Timer(e)
  PROVE  Account(frame[e], pc'[e], executions'[e])
<1> DEFINE x == executions[e]
           f == frame[e]
<1>1. x \in Execution /\ Account(f, pc[e], x) /\ e \in Processes
  BY DEF OutcomeInv, Inv, TypeOK, Accounts, Processes
<1>2. CASE RecipeFetched(e)
  <2> DEFINE y == [x EXCEPT !.status = "pending"]
  <2>1. pc[e] = "recipeFetched"
    BY <1>2 DEF RecipeFetched, Resume
  <2>2. /\ y.status = "pending"
        /\ y.stepResults = x.stepResults /\ y.rollbackSteps = x.rollbackSteps
    BY <1>1, StatusWork
  <2>3. ASSUME NEW at \in {"refused", "safetyChecked"}, Put(e, y), Park(e, at) \/ Tick(e, at)
        PROVE  Account(f, pc'[e], executions'[e])
    <3>1. executions'[e] = y /\ pc'[e] = at
      BY <2>3, PlacedAt, PutStores DEF OutcomeInv
    <3>2. ASSUME NEW z, z.status = "pending",
                 z.stepResults = x.stepResults, z.rollbackSteps = x.rollbackSteps
          PROVE  Account(f, at, z)
      <4>1. at \in Unstarted /\ at \notin StepPc \union UndoPc \union {"done"}
        BY DEF Unstarted, StepPc, UndoPc
      <4>2. pc[e] \in Unstarted
        BY <2>1 DEF Unstarted
      <4>3. QED
        BY <1>1, <2>3, <3>2, <4>1, <4>2, WorkKept DEF UndoPc
    <3>3. QED
      BY <2>2, <3>1, <3>2
  <2>4. CASE Launch(e)
    BY <2>1, <2>4, LaunchTold
  <2>5. QED
    BY <1>2, <2>3, <2>4 DEF RecipeFetched
<1>3. CASE SafetyChecked(e)
  BY <1>3, LaunchTold DEF SafetyChecked, Resume
<1>4. CASE StepAdopted(e) \/ Timer(e)
  <2>1. /\ executions'[e] = x
        /\ \/ pc[e] \in StepPc /\ pc'[e] \in StepPc
           \/ pc[e] = "undo" /\ pc'[e] = "undoFired"
    BY <1>1, <1>4 DEF StepAdopted, Timer, StepTimer, UndoTimer, Resume, Fire, Tick, StepPc,
         OutcomeInv, Inv, TypeOK
  <2>2. QED
    BY <1>1, <2>1 DEF Account, StepPc, UndoPc, Unstarted
<1>5. CASE StepSucceeded(e)
  <2>1. PICK i \in DOMAIN f.recipe.steps :
          IsCurrent(i, e) /\ NextIteration(e, WithResult(e, i, "completed"))
    BY <1>5 DEF StepSucceeded
  <2>2. pc[e] \in StepPc
    BY <1>5 DEF StepSucceeded, Resume, StepPc
  <2>3. QED
    BY <2>1, <2>2, IterationTold
<1>6. CASE StepFailed(e)
  <2>1. PICK i \in DOMAIN f.recipe.steps :
          LET x1 == WithResult(e, i, "failed") IN
          /\ IsCurrent(i, e)
          /\ \/ f.recipe.steps[i].skipOnFailure /\ NextIteration(e, x1)
             \/ UndoLoop(e, RollingBack(x1))
             \/ ~f.request.rollbackOnFailure /\ Settle(e, Failed(x1))
    BY <1>6 DEF StepFailed
  <2> DEFINE x1 == WithResult(e, i, "failed")
  <2>2. pc[e] \in StepPc
    BY <1>6 DEF StepFailed, Resume, StepPc
  <2>3. /\ x1 \in Execution /\ x1.rollbackSteps = << >>
        /\ Traced(f, x1) /\ Undone(f, x1)
    BY <2>1, <2>2, ResultTold
  <2>4. CASE f.recipe.steps[i].skipOnFailure /\ NextIteration(e, x1)
    BY <2>1, <2>2, <2>4, IterationTold
  <2>5. CASE UndoLoop(e, RollingBack(x1))
    <3>1. /\ RollingBack(x1) \in Execution /\ RollingBack(x1).status = "rolling_back"
          /\ RollingBack(x1).stepResults = x1.stepResults
          /\ RollingBack(x1).rollbackSteps = x1.rollbackSteps
      BY <2>3, RollingBackRecord, RollingBackWork
    <3>2. Traced(f, RollingBack(x1)) /\ Undone(f, RollingBack(x1))
      BY <2>3, <3>1, SameWork
    <3>3. QED
      BY <2>2, <2>5, <3>1, <3>2, UndoTold
  <2>6. CASE ~f.request.rollbackOnFailure /\ Settle(e, Failed(x1))
    <3>1. /\ Failed(x1).status = "failed"
          /\ Failed(x1).stepResults = x1.stepResults
          /\ Failed(x1).rollbackSteps = x1.rollbackSteps
      BY <2>3, FailedWork
    <3>2. Traced(f, Failed(x1)) /\ Undone(f, Failed(x1))
      BY <2>3, <3>1, SameWork
    <3>3. executions'[e] = Failed(x1) /\ pc'[e] = "done"
      BY <2>6, PlacedAt, PutStores DEF OutcomeInv, Settle
    <3>4. Account(f, "done", Failed(x1))
      BY <2>3, <2>6, <3>1, <3>2 DEF Account, Unstarted, StepPc
    <3>5. QED
      BY <3>3, <3>4
  <2>7. QED
    BY <2>1, <2>4, <2>5, <2>6
<1>7. CASE UndoFired(e)
  <2>1. pc[e] = "undoFired" /\ UndoLoop(e, x) /\ "undoFired" \in UndoPc
    BY <1>7 DEF UndoFired, Resume, UndoPc
  <2>2. x.status = "rolling_back"
    BY <2>1 DEF OutcomeInv, Inv, StatusFollowsPc
  <2>3. Traced(f, x) /\ Undone(f, x)
    BY <1>1 DEF Account
  <2>4. QED
    BY <1>1, <2>1, <2>2, <2>3, UndoTold
<1>8. CASE RolledBack(e)
  <2>1. pc[e] = "rolledBack" /\ Settle(e, Failed(x))
    BY <1>8 DEF RolledBack, Resume
  <2>2. /\ Failed(x).status = "failed"
        /\ Failed(x).stepResults = x.stepResults /\ Failed(x).rollbackSteps = x.rollbackSteps
    BY <1>1, FailedWork
  <2>3. executions'[e] = Failed(x) /\ pc'[e] = "done"
    BY <2>1, PlacedAt, PutStores DEF OutcomeInv, Settle
  <2>4. AllUndone(f, Failed(x)) /\ Traced(f, Failed(x)) /\ Undone(f, Failed(x))
    BY <1>1, <2>1, <2>2, SameWork DEF Account
  <2>5. Account(f, "done", Failed(x))
    BY <2>2, <2>4 DEF Account, Unstarted, StepPc
  <2>6. QED
    BY <2>3, <2>5
<1>9. QED
  BY <1>2, <1>3, <1>4, <1>5, <1>6, <1>7, <1>8 DEF ExecutionJob

\* And leaves the other executions alone.
LEMMA ExecutionKeepsOutcome ==
  ASSUME OutcomeInv, NEW e \in Executions, ExecutionJob(e) \/ Timer(e)
  PROVE  RecipesValid' /\ Accounts'
<1>1. UNCHANGED <<recipes, frame>>
  BY ExecutionStepShape DEF OutcomeInv, Inv
<1>2. /\ \A d \in Executions \ {e} : executions'[d] = executions[d] /\ pc'[d] = pc[d]
      /\ pc[e] # "idle"
  <2>1. \A d \in Executions \ {e} : executions'[d] = executions[d] /\ pc'[d] = pc[d]
    <3>1. PICK at \in ExecutionPc, x \in Execution :
            \A d \in Executions : /\ executions'[d] = IF d = e THEN x ELSE executions[d]
                                  /\ pc'[d] = IF d = e THEN at ELSE pc[d]
      BY ExecutionEffect DEF OutcomeInv, Inv
    <3>2. QED
      BY <3>1
  <2>2. pc[e] # "idle"
    BY DEF ExecutionJob, Timer, RecipeFetched, SafetyChecked, StepAdopted, StepSucceeded,
           StepFailed, UndoFired, RolledBack, StepTimer, UndoTimer, Resume, Fire
  <2>3. QED
    BY <2>1, <2>2
<1>3. RecipesValid'
  BY <1>1, <1>2 DEF OutcomeInv, RecipesValid
<1>4. Accounts'
  BY <1>1, <1>2, ExecutionTold DEF OutcomeInv, Accounts
<1>5. QED
  BY <1>3, <1>4

(***************************************************************************)
(* A step of any other call.                                               *)
(***************************************************************************)

\* A cancellation touches the status and the error of a run in flight or at
\* rest, and what its record tells stays true.
LEMMA CancelTold ==
  ASSUME NEW f, NEW at \in StepPc \union {"done", "refused"}, NEW x \in Execution,
         Account(f, at, x)
  PROVE  Account(f, at, [x EXCEPT !.status = "cancelled", !.error = "cancelled"])
<1> DEFINE y == [x EXCEPT !.status = "cancelled", !.error = "cancelled"]
<1>1. /\ y.status = "cancelled" /\ y.error = "cancelled"
      /\ y.stepResults = x.stepResults /\ y.rollbackSteps = x.rollbackSteps
  BY DEF Execution
<1>2. Traced(f, y) /\ Undone(f, y) /\ (Permitted(f, x) => Permitted(f, y))
  BY <1>1, SameWork DEF Account
<1>3. at \notin UndoPc
  BY DEF StepPc, UndoPc
<1>4. QED
  BY <1>1, <1>2, <1>3 DEF Account, UndoPc

\* A caller's job stores a definition only after validating it.
LEMMA CallerKeepsOutcome ==
  ASSUME OutcomeInv, NEW c \in Callers, CallerJob(c)
  PROVE  RecipesValid' /\ Accounts'
<1>1. /\ \A d \in Executions : pc'[d] = pc[d] /\ frame'[d] = frame[d]
      /\ Cancels(c)
  <2>1. c \notin Executions /\ Executions \subseteq Processes
    BY ProcessesAreDistinct DEF Processes
  <2>2. \A d \in Executions : frame'[d] = frame[d]
    BY <2>1, CallerStepShape DEF OutcomeInv, Inv, TypeOK
  <2>3. QED
    BY <2>2, CallerEffect DEF OutcomeInv
<1>2. \A r \in Recipes : recipes'[r] # None => recipes'[r] = recipes[r] \/ IsValid(recipes'[r])
  <2>1. CASE UpdateValidated(c)
    BY <2>1 DEF UpdateValidated, OutcomeInv, Inv, TypeOK
  <2>2. CASE DeleteFetched(c)
    BY <2>2 DEF DeleteFetched, OutcomeInv, Inv, TypeOK
  <2>3. CASE UNCHANGED recipes
    BY <2>3
  <2>4. QED
    BY <2>1, <2>2, <2>3 DEF CallerJob, UpdateFetched, CancelFetched, StopFetched, StopAudited,
         StopResumed
<1>3. RecipesValid'
  BY <1>1, <1>2 DEF OutcomeInv, RecipesValid
<1>4. CASE UNCHANGED executions
  <2>1. ASSUME NEW d \in Executions PROVE Account(frame'[d], pc'[d], executions'[d])
    BY <1>1, <1>4 DEF OutcomeInv, Accounts
  <2>2. QED
    BY <1>3, <2>1 DEF Accounts
<1>5. CASE /\ pc[c] \in {"cancelFetched", "stopFetched"}
           /\ CanCancel(frame[c].executionId) /\ CancelEffect(frame[c].executionId)
  <2> DEFINE e == frame[c].executionId
             y == [executions[e] EXCEPT !.status = "cancelled", !.error = "cancelled"]
  <2>1. jobs # << >> /\ Head(jobs) = c
    BY DEF CallerJob, UpdateFetched, UpdateValidated, DeleteFetched, CancelFetched,
           StopFetched, StopAudited, StopResumed, Resume
  <2>2. e \in Executions /\ pc[e] \in StepPc \union {"done", "refused"}
    BY <1>5, <2>1, CancelEffectOnMaps DEF OutcomeInv
  <2>3. executions'[e] = y /\ \A d \in Executions \ {e} : executions'[d] = executions[d]
    BY <1>5, <2>2 DEF CancelEffect, Put, OutcomeInv, Inv, TypeOK
  <2>4. executions[e] \in Execution /\ Account(frame[e], pc[e], executions[e])
    BY <2>2 DEF OutcomeInv, Inv, TypeOK, Accounts
  <2>5. Account(frame[e], pc[e], y)
    BY <2>2, <2>4, CancelTold
  <2>6. ASSUME NEW d \in Executions PROVE Account(frame'[d], pc'[d], executions'[d])
    <3>1. CASE d = e
      BY <1>1, <2>2, <2>3, <2>5, <3>1
    <3>2. CASE d # e
      BY <1>1, <2>3, <3>2 DEF OutcomeInv, Accounts
    <3>3. QED
      BY <3>1, <3>2
  <2>7. QED
    BY <1>3, <2>6 DEF Accounts
<1>6. QED
  BY <1>1, <1>4, <1>5 DEF Cancels

\* A client's call runs nothing yet.
LEMMA CallKeepsOutcome ==
  ASSUME OutcomeInv, ClientCall
  PROVE  RecipesValid' /\ Accounts'
<1>1. Executions \subseteq Processes /\ Callers \subseteq Processes
      /\ \A c \in Callers : c \notin Executions
  BY ProcessesAreDistinct DEF Processes
<1>2. executions' = executions
  BY DEF ClientCall, CreateRecipe, ExecuteRecipe, UpdateRecipe, DeleteRecipe, CancelExecution,
         EmergencyStop
<1>3. ASSUME NEW r \in Recipes, NEW d \in NewRecipes, CreateRecipe(r, d)
      PROVE  RecipesValid' /\ Accounts'
  <2>1. \A b \in Recipes : recipes'[b] # None => recipes'[b] = recipes[b] \/ IsValid(recipes'[b])
    BY <1>3 DEF CreateRecipe, OutcomeInv, Inv, TypeOK
  <2>2. UNCHANGED <<pc, frame>>
    BY <1>3 DEF CreateRecipe
  <2>3. QED
    BY <1>2, <2>1, <2>2 DEF OutcomeInv, RecipesValid, Accounts
<1>4. ASSUME NEW e \in Executions, NEW r \in Recipes, NEW q \in Requests, ExecuteRecipe(e, r, q)
      PROVE  RecipesValid' /\ Accounts'
  <2>1. /\ \A d \in Executions \ {e} : pc'[d] = pc[d] /\ frame'[d] = frame[d]
        /\ pc[e] = "idle" /\ pc'[e] = "recipeFetched"
        /\ frame'[e].recipe = recipes[r] /\ recipes[r] # None /\ recipes' = recipes
    BY <1>1, <1>4 DEF ExecuteRecipe, Call, OutcomeInv, Inv, TypeOK
  <2>2. RecipesValid'
    BY <2>1 DEF OutcomeInv, RecipesValid
  <2>3. Account(frame[e], "idle", executions[e]) /\ executions[e].status = "none"
    BY <2>1 DEF OutcomeInv, Inv, Fresh, Accounts
  <2>4. executions[e].stepResults = << >> /\ executions[e].rollbackSteps = << >>
    BY <2>3 DEF Account, Unstarted
  <2>5. \A f : Traced(f, executions[e]) /\ Undone(f, executions[e])
    BY <2>4 DEF Traced, Undone
  <2>6. \A f : Account(f, "recipeFetched", executions[e])
    BY <2>3, <2>4, <2>5 DEF Account, Unstarted, StepPc, UndoPc
  <2>7. QED
    BY <1>2, <2>1, <2>2, <2>6 DEF OutcomeInv, Accounts
<1>5. ASSUME NEW c \in Callers, recipes' = recipes,
             \A d \in Executions : pc'[d] = pc[d] /\ frame'[d] = frame[d]
      PROVE  RecipesValid' /\ Accounts'
  BY <1>2, <1>5 DEF OutcomeInv, RecipesValid, Accounts
<1>6. ASSUME NEW c \in Callers,
             \/ \E r \in Recipes, u \in Updates : UpdateRecipe(c, r, u)
             \/ \E r \in Recipes : DeleteRecipe(c, r)
             \/ \E e \in Executions : CancelExecution(c, e)
             \/ EmergencyStop(c)
      PROVE  RecipesValid' /\ Accounts'
  <2>1. /\ recipes' = recipes
        /\ \/ \E f : frame' = [frame EXCEPT ![c] = f]
           \/ frame' = frame
        /\ \E at : pc' = [pc EXCEPT ![c] = at]
    BY <1>6 DEF UpdateRecipe, DeleteRecipe, CancelExecution, EmergencyStop, Call
  <2>2. \A d \in Executions : pc'[d] = pc[d] /\ frame'[d] = frame[d]
    BY <1>1, <2>1 DEF OutcomeInv, Inv, TypeOK
  <2>3. QED
    BY <1>5, <2>1, <2>2
<1>7. QED
  BY <1>3, <1>4, <1>6 DEF ClientCall

(***************************************************************************)
(* The theorems.                                                           *)
(***************************************************************************)

\* Nothing has been stored or run at the start.
LEMMA InitOutcome == Init => OutcomeInv
<1> SUFFICES ASSUME Init PROVE OutcomeInv
  OBVIOUS
<1>1. Inv
  BY InitInv
<1>2. /\ \A r \in Recipes : recipes[r] = None
      /\ \A e \in Executions : pc[e] = "idle" /\ executions[e] = NoExecution
  BY DEF Init, Processes
<1>3. \A f : Traced(f, NoExecution) /\ Undone(f, NoExecution)
  BY DEF Traced, Undone, NoExecution
<1>4. \A f : Account(f, "idle", NoExecution)
  BY <1>3 DEF Account, NoExecution, Unstarted, StepPc, UndoPc
<1>5. QED
  BY <1>1, <1>2, <1>4 DEF OutcomeInv, RecipesValid, Accounts

\* Every step keeps the inductive invariant.
LEMMA OutcomeStep == OutcomeInv /\ [Next]_vars => OutcomeInv'
<1> SUFFICES ASSUME OutcomeInv, [Next]_vars PROVE OutcomeInv'
  OBVIOUS
<1>1. Inv'
  BY InvStep DEF OutcomeInv
<1>2. CASE UNCHANGED vars
  BY <1>1, <1>2 DEF vars, OutcomeInv, RecipesValid, Accounts
<1>3. CASE ClientCall
  BY <1>1, <1>3, CallKeepsOutcome DEF OutcomeInv
<1>4. CASE Job
  BY <1>1, <1>4, ExecutionKeepsOutcome, CallerKeepsOutcome DEF Job, OutcomeInv
<1>5. CASE \E e \in Executions : Timer(e)
  BY <1>1, <1>5, ExecutionKeepsOutcome DEF OutcomeInv
<1>6. QED
  BY <1>2, <1>3, <1>4, <1>5 DEF Next

\* The invariant holds in every behaviour.
THEOREM OutcomeInvariance == Spec => []OutcomeInv
BY InitOutcome, OutcomeStep, PTL DEF Spec

\* A run that is recorded as completed, without a cancellation, has run every
\* step and failed at none that matters.
THEOREM CompletionKept == Spec => []CompletionHonest
<1>1. OutcomeInv => CompletionHonest
  <2> SUFFICES ASSUME OutcomeInv, NEW e \in Executions,
                      executions[e].status = "completed", executions[e].error = None,
                      ~frame[e].request.dryRun
               PROVE  LET x == executions[e]
                          steps == frame[e].recipe.steps
                      IN /\ Len(x.stepResults) = Len(steps)
                         /\ \A i \in DOMAIN steps :
                              /\ x.stepResults[i].stepId = steps[i].id
                              /\ x.stepResults[i].status = "completed" \/ steps[i].skipOnFailure
    BY DEF CompletionHonest
  <2> DEFINE x == executions[e]
             steps == frame[e].recipe.steps
  <2>1. /\ Account(frame[e], pc[e], x) /\ x \in Execution /\ TypeOK
        /\ pc[e] # "idle"
    BY DEF OutcomeInv, Inv, TypeOK, Accounts, Account
  <2>2. Permitted(frame[e], x) /\ Traced(frame[e], x) /\ Len(x.stepResults) = Len(steps)
    BY <2>1 DEF Account
  <2>3. DOMAIN steps = 1..Len(steps) /\ DOMAIN x.stepResults = 1..Len(x.stepResults)
    BY <2>1, StepsOfRun DEF Execution
  <2>4. QED
    BY <2>2, <2>3 DEF Permitted, Traced
<1>2. QED
  BY <1>1, OutcomeInvariance, PTL

\* The higher of two places has fewer places above it.
LEMMA HigherHasFewer ==
  ASSUME NEW P \in SUBSET Nat, IsFiniteSet(P), NEW i \in P, NEW k \in P, i < k
  PROVE  Cardinality(Above(k, P)) < Cardinality(Above(i, P))
<1>1. /\ Above(k, P) \subseteq Above(i, P) \ {k}
      /\ k \in Above(i, P) /\ Above(i, P) \subseteq P
  <2>1. i \in Nat /\ k \in Nat /\ k > i
    OBVIOUS
  <2>2. ASSUME NEW m \in P, m > k PROVE m > i /\ m # k
    <3>1. m \in Nat
      OBVIOUS
    <3>2. QED
      BY <2>1, <2>2, <3>1
  <2>3. QED
    BY <2>1, <2>2 DEF Above
<1>2. IsFiniteSet(Above(i, P)) /\ Cardinality(Above(i, P)) \in Nat
  BY <1>1, FS_Subset, FS_CardinalityType
<1>3. /\ IsFiniteSet(Above(i, P) \ {k})
      /\ Cardinality(Above(i, P) \ {k}) = Cardinality(Above(i, P)) - 1
  BY <1>1, <1>2, FS_RemoveElement
<1>4. Cardinality(Above(k, P)) <= Cardinality(Above(i, P) \ {k})
      /\ Cardinality(Above(k, P)) \in Nat
  BY <1>1, <1>3, FS_Subset, FS_CardinalityType
<1>5. QED
  BY <1>2, <1>3, <1>4

\* Every place has fewer places above it than there are.
LEMMA FewerAbove ==
  ASSUME NEW P \in SUBSET Nat, IsFiniteSet(P), NEW i \in P
  PROVE  Cardinality(Above(i, P)) \in Nat /\ Cardinality(Above(i, P)) < Cardinality(P)
<1>1. Above(i, P) \subseteq P \ {i}
  BY DEF Above
<1>2. Cardinality(P) \in Nat /\ IsFiniteSet(P \ {i}) /\ Cardinality(P \ {i}) = Cardinality(P) - 1
  BY FS_RemoveElement, FS_CardinalityType
<1>3. Cardinality(Above(i, P)) <= Cardinality(P \ {i}) /\ Cardinality(Above(i, P)) \in Nat
  BY <1>1, <1>2, FS_Subset, FS_CardinalityType
<1>4. QED
  BY <1>2, <1>3

\* What the undone steps of a record are, from what is known of the record.
LEMMA UndoneExactly ==
  ASSUME NEW f, NEW x \in Execution, NEW n \in Nat, DOMAIN f.recipe.steps = 1..n,
         Traced(f, x), Undone(f, x)
  PROVE  \E g \in [DOMAIN x.rollbackSteps -> DOMAIN f.recipe.steps] :
           /\ UndoneAt(x, f.recipe.steps, g)
           /\ AllUndone(f, x) => NothingLeft(x, f.recipe.steps, g)
<1>1. PICK P : P = Places(f, x)
  OBVIOUS
<1>2. PICK steps : steps = f.recipe.steps
  OBVIOUS
<1>3. PICK m : m = Len(x.rollbackSteps)
  OBVIOUS
<1>4. m \in Nat /\ DOMAIN x.rollbackSteps = 1..m
  BY <1>3 DEF Execution
<1>5. /\ P \in SUBSET Nat /\ P \subseteq DOMAIN steps /\ DOMAIN steps = 1..n
      /\ \A i \in P : steps[i].rollbackCommand /\ steps[i].id \in CompletedIds(x)
  BY <1>1, <1>2 DEF Places
<1>6. IsFiniteSet(P)
  <2>1. IsFiniteSet(1..n)
    BY FS_Interval
  <2>2. QED
    BY <1>5, <2>1, FS_Subset
<1> DEFINE g == [j \in 1..m |-> CHOOSE i \in P : IsUndone(f, x, i, j)]
<1>7. \A j \in 1..m : g[j] \in P /\ IsUndone(f, x, g[j], j)
  BY <1>1, <1>4 DEF Undone
<1>8. \A j \in 1..m : /\ Cardinality(Above(g[j], P)) = j - 1
                      /\ x.rollbackSteps[j] = steps[g[j]].id
  BY <1>1, <1>2, <1>7 DEF IsUndone
<1>9. g \in [1..m -> DOMAIN steps]
  BY <1>5, <1>7
<1> HIDE DEF g
<1>10. ASSUME NEW j \in 1..m
       PROVE  \E k \in DOMAIN x.stepResults :
                StepCompleted(x, k) /\ x.stepResults[k].stepId = steps[g[j]].id
  BY <1>5, <1>7 DEF CompletedIds, StepCompleted
<1>11. ASSUME NEW j \in 1..m, DistinctIds(steps) PROVE StepCompleted(x, g[j])
  <2>1. PICK k \in DOMAIN x.stepResults :
          StepCompleted(x, k) /\ x.stepResults[k].stepId = steps[g[j]].id
    BY <1>10
  <2>2. k \in DOMAIN steps /\ steps[k].id = steps[g[j]].id
    BY <1>2, <2>1 DEF Traced
  <2>3. g[j] \in DOMAIN steps
    BY <1>5, <1>7
  <2>4. k = g[j]
    BY <1>11, <2>2, <2>3 DEF DistinctIds
  <2>5. QED
    BY <2>1, <2>4
<1>12. ASSUME NEW j \in 1..m, NEW k \in 1..m, j < k PROVE g[k] < g[j]
  <2>1. g[j] \in P /\ g[k] \in P /\ g[j] \in Nat /\ g[k] \in Nat
    BY <1>5, <1>7
  <2>2. Cardinality(Above(g[j], P)) = j - 1 /\ Cardinality(Above(g[k], P)) = k - 1
    BY <1>8
  <2>3. g[j] # g[k]
    <3>1. j - 1 # k - 1
      BY <1>4, <1>12
    <3>2. QED
      BY <2>2, <3>1
  <2>4. ~(g[j] < g[k])
    <3>1. g[j] < g[k] => k - 1 < j - 1
      BY <1>5, <1>6, <2>1, <2>2, HigherHasFewer
    <3>2. QED
      BY <1>4, <1>12, <3>1
  <2>5. QED
    BY <2>1, <2>3, <2>4
<1>13. UndoneAt(x, steps, g)
  <2>1. DOMAIN g = 1..m
    BY <1>9
  <2>2. \A j \in 1..m : /\ x.rollbackSteps[j] = steps[g[j]].id
                        /\ steps[g[j]].rollbackCommand
    BY <1>5, <1>7, <1>8
  <2>3. \A j \in 1..m : /\ \E k \in DOMAIN x.stepResults :
                             StepCompleted(x, k) /\ x.stepResults[k].stepId = steps[g[j]].id
                        /\ DistinctIds(steps) => StepCompleted(x, g[j])
    BY <1>10, <1>11
  <2>4. \A j, k \in 1..m : j < k => g[k] < g[j]
    BY <1>12
  <2>5. QED
    BY <2>1, <2>2, <2>3, <2>4 DEF UndoneAt
<1>14. ASSUME AllUndone(f, x), NEW i \in DOMAIN steps,
              StepCompleted(x, i), steps[i].rollbackCommand
       PROVE  \E j \in 1..m : g[j] = i
  <2>1. i \in P
    BY <1>1, <1>2, <1>14 DEF Places, CompletedIds, StepCompleted, Traced
  <2>2. PICK a : a = Cardinality(Above(i, P))
    OBVIOUS
  <2>3. a \in Nat /\ a < m
    BY <1>1, <1>3, <1>5, <1>6, <1>14, <2>1, <2>2, FewerAbove DEF AllUndone
  <2>4. a + 1 \in 1..m /\ (a + 1) - 1 = a
    BY <1>4, <2>3
  <2>5. PICK k : k = g[a + 1]
    OBVIOUS
  <2>6. k \in P /\ Cardinality(Above(k, P)) = a
    BY <1>7, <1>8, <2>4, <2>5
  <2>7. ~(i < k) /\ ~(k < i)
    <3>1. i < k => a < a
      BY <1>5, <1>6, <2>1, <2>2, <2>6, HigherHasFewer
    <3>2. k < i => a < a
      BY <1>5, <1>6, <2>1, <2>2, <2>6, HigherHasFewer
    <3>3. QED
      BY <2>3, <3>1, <3>2
  <2>8. i = k
    <3>1. i \in Nat /\ k \in Nat
      BY <1>5, <2>1, <2>6
    <3>2. QED
      BY <2>7, <3>1
  <2>9. QED
    BY <2>4, <2>5, <2>8
<1>15. AllUndone(f, x) => NothingLeft(x, steps, g)
  <2>1. DOMAIN g = 1..m
    BY <1>9
  <2>2. QED
    BY <1>14, <2>1 DEF NothingLeft
<1>16. QED
  BY <1>2, <1>4, <1>9, <1>13, <1>15

\* Undone steps stand at places of the recipe, latest first and no place twice;
\* each has a rollback command and the id of a completed step, and is that step
\* where ids are distinct.  A failed run that asked for rollback has undone
\* every completed step that can be undone.
THEOREM RollbackKept == Spec => []RollbackExact
<1>1. OutcomeInv => RollbackExact
  <2> SUFFICES ASSUME OutcomeInv, NEW e \in Executions, pc[e] # "idle"
               PROVE  LET x == executions[e]
                          steps == frame[e].recipe.steps
                      IN \E g \in [DOMAIN x.rollbackSteps -> DOMAIN steps] :
                           /\ UndoneAt(x, steps, g)
                           /\ x.status = "failed" /\ frame[e].request.rollbackOnFailure =>
                                NothingLeft(x, steps, g)
    BY DEF RollbackExact
  <2> DEFINE x == executions[e]
             f == frame[e]
  <2>1. /\ x \in Execution /\ Traced(f, x) /\ Undone(f, x)
        /\ x.status = "failed" /\ f.request.rollbackOnFailure => AllUndone(f, x)
    BY DEF OutcomeInv, Inv, TypeOK, Accounts, Account
  <2>2. PICK n \in Nat : DOMAIN f.recipe.steps = 1..n
    BY StepsOfRun DEF OutcomeInv, Inv
  <2>3. QED
    BY <2>1, <2>2, UndoneExactly
<1>2. QED
  BY <1>1, OutcomeInvariance, PTL

(***************************************************************************)
(* What is on record stays there.                                          *)
(***************************************************************************)

\* Record y has all that record x has of steps run and of steps undone.
Grown(x, y) ==
  /\ IsPrefix(x.stepResults, y.stepResults)
  /\ IsPrefix(x.rollbackSteps, y.rollbackSteps)

\* An execution that has ended says how.
EndedSaysHow ==
  \A e \in Executions : pc[e] = "done" => executions[e].status \in {"completed", "failed"}

\* A sequence is a prefix of itself and of what is appended to it.
LEMMA AppendedTo ==
  ASSUME NEW S, NEW q \in Seq(S), NEW p \in S
  PROVE  IsPrefix(q, q) /\ IsPrefix(q, Append(q, p))
<1>1. PICK r : r = Append(q, p)
  OBVIOUS
<1>2. /\ Len(q) \in Nat /\ r \in Seq(S) /\ Len(r) = Len(q) + 1
      /\ \A i \in 1..Len(q) : r[i] = q[i]
  BY <1>1
<1>3. SubSeq(r, 1, Len(q)) = SubSeq(q, 1, Len(q))
  BY <1>2
<1>4. QED
  BY <1>1, <1>2, <1>3 DEF IsPrefix

\* A record that keeps both sequences has grown, if by nothing.
LEMMA SameGrown ==
  ASSUME NEW x \in Execution, NEW y,
         y.stepResults = x.stepResults, y.rollbackSteps = x.rollbackSteps
  PROVE  Grown(x, y)
<1>1. x.stepResults \in Seq(StepResult) /\ x.rollbackSteps \in Seq(StepIds)
  BY DEF Execution
<1>2. QED
  BY <1>1 DEF Grown, IsPrefix

\* Recording the result of a step.
LEMMA ResultGrown ==
  ASSUME TypeOK, NEW e \in Executions, pc[e] # "idle",
         NEW i \in DOMAIN frame[e].recipe.steps,
         NEW result \in {"completed", "failed"}
  PROVE  LET y == WithResult(e, i, result)
         IN /\ y \in Execution
            /\ IsPrefix(executions[e].stepResults, y.stepResults)
            /\ y.rollbackSteps = executions[e].rollbackSteps
<1> DEFINE r == [stepId |-> frame[e].recipe.steps[i].id, status |-> result]
<1>1. /\ executions[e] \in Execution
      /\ executions[e].stepResults \in Seq(StepResult) /\ r \in StepResult
  BY StepsOfRun DEF TypeOK, Execution, StepResult
<1>2. IsPrefix(executions[e].stepResults, Append(executions[e].stepResults, r))
  BY <1>1, AppendedTo
<1>3. /\ WithResult(e, i, result).stepResults = Append(executions[e].stepResults, r)
      /\ WithResult(e, i, result).rollbackSteps = executions[e].rollbackSteps
  BY <1>1 DEF WithResult, Execution
<1>4. QED
  BY <1>2, <1>3, ResultRecord

\* The head of the step loop and the catch clause leave the work alone.
LEMMA IterationGrown ==
  ASSUME Inv, NEW e \in Executions, NEW x \in Execution,
         Grown(executions[e], x), NextIteration(e, x) \/ Settle(e, Failed(x))
  PROVE  Grown(executions[e], executions'[e])
<1>1. PICK y : /\ Put(e, y)
               /\ y.stepResults = x.stepResults /\ y.rollbackSteps = x.rollbackSteps
  <2>1. \A st : LET y == [x EXCEPT !.status = st]
                IN y.stepResults = x.stepResults /\ y.rollbackSteps = x.rollbackSteps
    BY StatusWork
  <2>2. CASE Settle(e, Failed(x))
    BY <2>2, FailedWork DEF Settle
  <2>3. CASE NextIteration(e, x)
    BY <2>1, <2>3 DEF NextIteration, Settle
  <2>4. QED
    BY <2>2, <2>3
<1>2. executions'[e] = y
  BY <1>1, PutStores
<1>3. QED
  BY <1>1, <1>2 DEF Grown

\* The head of the rollback loop undoes a step or is through.
LEMMA UndoGrown ==
  ASSUME Inv, NEW e \in Executions, pc[e] # "idle", NEW x \in Execution,
         Grown(executions[e], x), x.rollbackSteps = executions[e].rollbackSteps,
         UndoLoop(e, x)
  PROVE  Grown(executions[e], executions'[e])
<1>1. x.rollbackSteps \in Seq(StepIds)
  BY DEF Execution
<1>2. CASE Put(e, [x EXCEPT !.status = "rolled_back"])
  <2>1. executions'[e] = [x EXCEPT !.status = "rolled_back"]
    BY <1>2, PutStores
  <2>2. /\ executions'[e].stepResults = x.stepResults
        /\ executions'[e].rollbackSteps = x.rollbackSteps
    BY <2>1, StatusWork
  <2>3. QED
    BY <2>2 DEF Grown
<1>3. ASSUME NEW i \in RollbackPlaces(e, x),
             Put(e, [x EXCEPT !.rollbackSteps = Append(@, frame[e].recipe.steps[i].id)])
      PROVE  Grown(executions[e], executions'[e])
  <2>1. PICK id \in StepIds : id = frame[e].recipe.steps[i].id
    BY StepsOfRun DEF RollbackPlaces, Inv
  <2>2. executions'[e] = [x EXCEPT !.rollbackSteps = Append(x.rollbackSteps, id)]
    BY <1>3, <2>1, PutStores
  <2>3. /\ executions'[e].stepResults = x.stepResults
        /\ executions'[e].rollbackSteps = Append(x.rollbackSteps, id)
    BY <2>2 DEF Execution
  <2>4. IsPrefix(x.rollbackSteps, Append(x.rollbackSteps, id))
    BY <1>1, <2>1, AppendedTo
  <2>5. QED
    BY <2>3, <2>4 DEF Grown
<1>4. QED
  BY <1>2, <1>3 DEF UndoLoop

\* A step of an execution takes nothing back.
LEMMA ExecutionGrown ==
  ASSUME Inv, NEW e \in Executions, ExecutionJob(e) \/ Timer(e)
  PROVE  Grown(executions[e], executions'[e])
<1> DEFINE x == executions[e]
<1>1. x \in Execution /\ TypeOK
  BY DEF Inv, TypeOK
<1>2. ASSUME NEW st, Put(e, [x EXCEPT !.status = st])
      PROVE  Grown(x, executions'[e])
  <2>1. executions'[e] = [x EXCEPT !.status = st]
    BY <1>2, PutStores
  <2>2. executions'[e].stepResults = x.stepResults /\ executions'[e].rollbackSteps = x.rollbackSteps
    BY <1>1, <2>1, StatusWork
  <2>3. QED
    BY <1>1, <2>2, SameGrown
<1>3. CASE RecipeFetched(e) \/ SafetyChecked(e)
  BY <1>2, <1>3 DEF RecipeFetched, SafetyChecked, Launch
<1>4. CASE StepAdopted(e) \/ Timer(e)
  <2>1. executions'[e] = x
    BY <1>4 DEF StepAdopted, Timer, StepTimer, UndoTimer
  <2>2. QED
    BY <1>1, <2>1, SameGrown
<1>5. ASSUME NEW i \in DOMAIN frame[e].recipe.steps, NEW result \in {"completed", "failed"},
             pc[e] \in StepPc
      PROVE  /\ WithResult(e, i, result) \in Execution
             /\ Grown(x, WithResult(e, i, result))
             /\ WithResult(e, i, result).rollbackSteps = x.rollbackSteps
  <2>1. pc[e] # "idle"
    BY <1>5 DEF StepPc
  <2>2. x.rollbackSteps \in Seq(StepIds)
    BY <1>1 DEF Execution
  <2>3. IsPrefix(x.rollbackSteps, x.rollbackSteps)
    BY <2>2 DEF IsPrefix
  <2>4. QED
    BY <1>1, <2>1, <2>3, ResultGrown DEF Grown
<1>6. CASE StepSucceeded(e)
  <2>1. PICK i \in DOMAIN frame[e].recipe.steps :
          NextIteration(e, WithResult(e, i, "completed"))
    BY <1>6 DEF StepSucceeded
  <2>2. pc[e] \in StepPc
    BY <1>6 DEF StepSucceeded, Resume, StepPc
  <2>3. QED
    BY <1>5, <2>1, <2>2, IterationGrown
<1>7. CASE StepFailed(e)
  <2>1. PICK i \in DOMAIN frame[e].recipe.steps :
          LET y == WithResult(e, i, "failed") IN
          \/ NextIteration(e, y) \/ Settle(e, Failed(y))
          \/ UndoLoop(e, RollingBack(y))
    BY <1>7 DEF StepFailed
  <2>2. pc[e] \in StepPc /\ pc[e] # "idle"
    BY <1>7 DEF StepFailed, Resume, StepPc
  <2>3. PICK y : y = WithResult(e, i, "failed")
    OBVIOUS
  <2>4. y \in Execution /\ Grown(x, y) /\ y.rollbackSteps = x.rollbackSteps
    BY <1>5, <2>2, <2>3
  <2>5. CASE UndoLoop(e, RollingBack(y))
    <3>1. /\ RollingBack(y) \in Execution
          /\ RollingBack(y).stepResults = y.stepResults
          /\ RollingBack(y).rollbackSteps = y.rollbackSteps
      BY <2>4, RollingBackRecord, RollingBackWork
    <3>2. Grown(x, RollingBack(y))
      BY <2>4, <3>1 DEF Grown
    <3>3. QED
      BY <2>2, <2>4, <2>5, <3>1, <3>2, UndoGrown
  <2>6. QED
    BY <2>1, <2>3, <2>4, <2>5, IterationGrown
<1>8. CASE UndoFired(e)
  <2>1. pc[e] # "idle" /\ UndoLoop(e, x)
    BY <1>8 DEF UndoFired, Resume
  <2>2. QED
    BY <1>1, <2>1, SameGrown, UndoGrown
<1>9. CASE RolledBack(e)
  <2>1. Settle(e, Failed(x))
    BY <1>9 DEF RolledBack
  <2>2. QED
    BY <1>1, <2>1, SameGrown, IterationGrown
<1>10. QED
  BY <1>3, <1>4, <1>6, <1>7, <1>8, <1>9 DEF ExecutionJob

\* A cancellation takes nothing back either, and never reaches an execution
\* that has ended.
LEMMA CallerGrown ==
  ASSUME Inv, EndedSaysHow, NEW c \in Callers, CallerJob(c), NEW e \in Executions
  PROVE  /\ Grown(executions[e], executions'[e])
         /\ pc[e] = "done" => executions'[e] = executions[e]
<1>1. executions[e] \in Execution
  BY DEF Inv, TypeOK
<1>2. CASE executions'[e] = executions[e]
  BY <1>1, <1>2, SameGrown
<1>3. CASE /\ pc[c] \in {"cancelFetched", "stopFetched"}
           /\ CanCancel(frame[c].executionId) /\ CancelEffect(frame[c].executionId)
  <2>1. PICK d \in Executions : d = frame[c].executionId /\ CanCancel(d) /\ CancelEffect(d)
    BY <1>3 DEF Inv, TypeOK, FramesMatch, StopPc, StopFrames
  <2>2. executions' = [executions EXCEPT ![d] =
           [executions[d] EXCEPT !.status = "cancelled", !.error = "cancelled"]]
    BY <2>1 DEF CancelEffect, Put
  <2>3. CASE d # e
    BY <1>2, <2>2, <2>3 DEF Inv, TypeOK
  <2>4. CASE d = e
    <3>1. executions'[e] = [executions[e] EXCEPT !.status = "cancelled", !.error = "cancelled"]
      BY <2>2, <2>4 DEF Inv, TypeOK
    <3>2. /\ executions'[e].stepResults = executions[e].stepResults
          /\ executions'[e].rollbackSteps = executions[e].rollbackSteps
      BY <1>1, <3>1 DEF Execution
    <3>3. pc[e] # "done"
      BY <2>1, <2>4 DEF CanCancel, Cancellable, EndedSaysHow
    <3>4. QED
      BY <1>1, <3>2, <3>3, SameGrown
  <2>5. QED
    BY <2>3, <2>4
<1>4. QED
  BY <1>2, <1>3, CallerEffect DEF Cancels

\* A call changes no record, and moves no execution that has ended.
LEMMA CallGrown ==
  ASSUME Inv, ClientCall, NEW e \in Executions
  PROVE  executions' = executions /\ (pc[e] = "done" => pc'[e] = "done")
         /\ (pc'[e] = "done" => pc[e] = "done")
<1>1. executions' = executions
  BY DEF ClientCall, CreateRecipe, ExecuteRecipe, UpdateRecipe, DeleteRecipe,
         CancelExecution, EmergencyStop
<1>2. \/ UNCHANGED pc
      \/ \E p \in Processes, at \in {"recipeFetched", "updateFetched", "deleteFetched",
                                     "cancelFetched", "stopFetched", "stopReturned"} :
           pc[p] = "idle" /\ pc' = [pc EXCEPT ![p] = at]
  BY DEF ClientCall, CreateRecipe, ExecuteRecipe, UpdateRecipe, DeleteRecipe,
         CancelExecution, EmergencyStop, Call, Processes
<1>3. e \in Processes /\ pc \in [Processes -> ExecutionPc \union CallerPc]
  BY DEF Inv, TypeOK, Processes
<1>4. QED
  BY <1>1, <1>2, <1>3

\* What one step does to an execution that has ended, and to any record.
LEMMA StepGrown ==
  ASSUME Inv, EndedSaysHow, [Next]_vars, NEW e \in Executions
  PROVE  /\ Grown(executions[e], executions'[e])
         /\ pc[e] = "done" => executions'[e] = executions[e] /\ pc'[e] = "done"
         /\ pc'[e] = "done" => executions'[e].status \in {"completed", "failed"}
<1>1. executions[e] \in Execution
  BY DEF Inv, TypeOK
<1>2. CASE UNCHANGED vars
  BY <1>1, <1>2, SameGrown DEF vars, EndedSaysHow
<1>3. CASE ClientCall
  BY <1>1, <1>3, CallGrown, SameGrown DEF EndedSaysHow
<1>4. ASSUME NEW c \in Callers, CallerJob(c)
      PROVE  /\ Grown(executions[e], executions'[e])
             /\ pc[e] = "done" => executions'[e] = executions[e] /\ pc'[e] = "done"
             /\ pc'[e] = "done" => executions'[e].status \in {"completed", "failed"}
  <2>1. pc'[e] = pc[e]
    BY <1>4, CallerEffect
  <2>2. QED
    BY <1>4, <2>1, CallerGrown DEF EndedSaysHow
<1>5. ASSUME NEW d \in Executions, ExecutionJob(d) \/ Timer(d)
      PROVE  /\ Grown(executions[e], executions'[e])
             /\ pc[e] = "done" => executions'[e] = executions[e] /\ pc'[e] = "done"
             /\ pc'[e] = "done" => executions'[e].status \in {"completed", "failed"}
  <2>1. PICK at \in ExecutionPc \ {"idle"}, x \in Execution :
          /\ StepKind(d, at, x)
          /\ \A b \in Executions : /\ executions'[b] = IF b = d THEN x ELSE executions[b]
                                   /\ pc'[b] = IF b = d THEN at ELSE pc[b]
    BY <1>5, ExecutionEffect DEF Inv
  <2>2. CASE d # e
    BY <1>1, <2>1, <2>2, SameGrown DEF EndedSaysHow
  <2>3. CASE d = e
    <3>1. /\ pc[e] # "done"
          /\ at = "done" => x.status \in {"completed", "failed"}
      BY <2>1, <2>3 DEF StepKind, Admitted, DryRun, Launched, Carried, Reversed, Settled, StepPc
    <3>2. QED
      BY <1>5, <2>1, <2>3, <3>1, ExecutionGrown
  <2>4. QED
    BY <2>2, <2>3
<1>6. QED
  BY <1>2, <1>3, <1>4, <1>5 DEF Next, Job

\* The record of an execution that has ended is final, whatever is called
\* afterwards; until then results and undone steps are only ever added to it.
THEOREM SettledStand == Spec => SettledIsFinal
<1>1. Init => EndedSaysHow
  BY DEF Init, EndedSaysHow, Processes
<1>2. Inv /\ EndedSaysHow /\ [Next]_vars =>
        /\ EndedSaysHow'
        /\ [\A e \in Executions :
              /\ pc[e] = "done" => executions'[e] = executions[e] /\ pc'[e] = "done"
              /\ IsPrefix(executions[e].stepResults, executions'[e].stepResults)
              /\ IsPrefix(executions[e].rollbackSteps, executions'[e].rollbackSteps)]_vars
  BY StepGrown DEF EndedSaysHow, Grown
<1>3. Spec => []EndedSaysHow
  BY <1>1, <1>2, Invariance, PTL DEF Spec
<1>4. QED
  BY <1>2, <1>3, Invariance, PTL DEF Spec, SettledIsFinal

==============================================================================
