------------------------- MODULE RecipeExecutorProofs -------------------------
(***************************************************************************)
(* Theorems about RecipeExecutor, for any recipes, executions, callers and *)
(* requests.                                                               *)
(***************************************************************************)
EXTENDS RecipeExecutor, TLAPS

(***************************************************************************)
(* Type correctness.                                                       *)
(***************************************************************************)

\* The control part of a state, which every action changes in one of the
\* five ways of the event loop.
Control ==
  /\ pc \in [Processes -> ExecutionPc \union CallerPc]
  /\ \A e \in Executions : pc[e] \in ExecutionPc
  /\ \A c \in Callers : pc[c] \in CallerPc
  /\ jobs \in Seq(Processes)

\* Process p is moved to at by the event loop.
Moves(p, at) ==
  \/ Call(p, at)
  \/ jobs # << >> /\ Head(jobs) = p /\ (Tick(p, at) \/ Park(p, at))
  \/ \E from \in {"step", "undo"} : Fire(p, from, at)

\* The event loop keeps jobs a queue of activations.
LEMMA MovesQueue ==
  ASSUME NEW p \in Processes, NEW at, jobs \in Seq(Processes), Moves(p, at)
  PROVE  jobs' \in Seq(Processes)
<1>1. CASE Call(p, at)
  BY <1>1 DEF Call
<1>2. CASE jobs # << >> /\ Head(jobs) = p /\ Tick(p, at)
  <2>1. Tail(jobs) \in Seq(Processes)
    BY <1>2
  <2>2. QED
    BY <1>2, <2>1 DEF Tick
<1>3. CASE jobs # << >> /\ Head(jobs) = p /\ Park(p, at)
  BY <1>3 DEF Park
<1>4. CASE \E from \in {"step", "undo"} : Fire(p, from, at)
  BY <1>4 DEF Fire
<1>5. QED
  BY <1>1, <1>2, <1>3, <1>4 DEF Moves

\* The event loop moves one activation, the one that ran.
LEMMA MovesPc ==
  ASSUME NEW p \in Processes, NEW at, Moves(p, at)
  PROVE  pc' = [pc EXCEPT ![p] = at]
BY DEF Moves, Call, Tick, Park, Fire

\* Moving an execution to a place executions may be at keeps Control.
LEMMA ExecutionMoves ==
  ASSUME Control, NEW e \in Executions, NEW at \in ExecutionPc, Moves(e, at)
  PROVE  Control' /\ pc' = [pc EXCEPT ![e] = at]
<1>1. e \in Processes /\ e \notin Callers
  BY ProcessesAreDistinct DEF Processes
<1>2. pc' = [pc EXCEPT ![e] = at]
  BY <1>1, MovesPc
<1>3. jobs' \in Seq(Processes)
  BY <1>1, MovesQueue DEF Control
<1>4. QED
  BY <1>1, <1>2, <1>3 DEF Control, Processes

\* The same for callers.
LEMMA CallerMoves ==
  ASSUME Control, NEW c \in Callers, NEW at \in CallerPc, Moves(c, at)
  PROVE  Control' /\ pc' = [pc EXCEPT ![c] = at]
<1>1. c \in Processes /\ c \notin Executions
  BY ProcessesAreDistinct DEF Processes
<1>2. pc' = [pc EXCEPT ![c] = at]
  BY <1>1, MovesPc
<1>3. jobs' \in Seq(Processes)
  BY <1>1, MovesQueue DEF Control
<1>4. QED
  BY <1>1, <1>2, <1>3 DEF Control, Processes

(***************************************************************************)
(* What one step does to the execution it belongs to.                      *)
(***************************************************************************)

\* Assigning execution.status changes no other field.
LEMMA StatusSet ==
  ASSUME NEW x \in Execution, NEW st \in Status
  PROVE  LET y == [x EXCEPT !.status = st]
         IN y \in Execution /\ y.status = st /\ y.error = x.error
BY DEF Execution

\* The catch clause of startExecution leaves a failed record.
LEMMA FailedRecord ==
  ASSUME NEW x \in Execution
  PROVE  Failed(x) \in Execution /\ Failed(x).status = "failed" /\ Failed(x).error = "failed"
BY DEF Execution, Failed, Status

\* executeRollback marks the record and leaves its error alone.
LEMMA RollingBackRecord ==
  ASSUME NEW x \in Execution
  PROVE  /\ RollingBack(x) \in Execution
         /\ RollingBack(x).status = "rolling_back"
         /\ RollingBack(x).error = x.error
BY DEF Execution, RollingBack, Status

\* Recording a rollback step keeps the status and the error.
LEMMA UndoneRecord ==
  ASSUME NEW x \in Execution, NEW id \in StepIds
  PROVE  LET y == [x EXCEPT !.rollbackSteps = Append(@, id)]
         IN y \in Execution /\ y.status = x.status /\ y.error = x.error
<1>1. Append(x.rollbackSteps, id) \in Seq(StepIds)
  BY DEF Execution
<1>2. QED
  BY <1>1 DEF Execution

\* The steps an execution holds are steps of a definition.
LEMMA StepsOfRun ==
  ASSUME TypeOK, NEW e \in Executions, pc[e] # "idle"
  PROVE  LET steps == frame[e].recipe.steps
         IN /\ Len(steps) \in Nat /\ DOMAIN steps = 1..Len(steps)
            /\ \A i \in DOMAIN steps : steps[i] \in StepShape /\ steps[i].id \in StepIds
<1>1. frame[e].recipe \in Definition
  BY DEF TypeOK, FramesMatch, RunFrame
<1>2. PICK steps : steps = frame[e].recipe.steps
  OBVIOUS
<1>3. steps \in Seq(Steps)
  BY <1>1, <1>2 DEF Definition
<1>4. \A i \in DOMAIN steps : steps[i] \in Steps
  BY <1>3
<1>5. \A i \in DOMAIN steps : steps[i] \in StepShape /\ steps[i].id \in StepIds
  BY <1>4, InputTypes DEF StepShape
<1>6. QED
  BY <1>2, <1>3, <1>5

\* Recording a step result keeps the status and the error.
LEMMA ResultRecord ==
  ASSUME TypeOK, NEW e \in Executions, pc[e] # "idle",
         NEW i \in DOMAIN frame[e].recipe.steps,
         NEW result \in {"completed", "failed"}
  PROVE  LET y == WithResult(e, i, result)
         IN /\ y \in Execution
            /\ y.status = executions[e].status
            /\ y.error = executions[e].error
<1> DEFINE x == executions[e]
           r == [stepId |-> frame[e].recipe.steps[i].id, status |-> result]
<1>1. x \in Execution
  BY DEF TypeOK
<1>2. r \in StepResult
  BY StepsOfRun DEF StepResult
<1>3. Append(x.stepResults, r) \in Seq(StepResult)
  BY <1>1, <1>2 DEF Execution
<1>4. QED
  BY <1>1, <1>3 DEF Execution, WithResult

\* The kinds of step of an execution e that goes to place at with record x.
Admitted(e, at, x) ==
  /\ pc[e] = "recipeFetched"
  /\ at \in {"refused", "safetyChecked"}
  /\ x.status = "pending" /\ x.error = executions[e].error
  /\ activeExecutions' = activeExecutions
  /\ at = "safetyChecked" => Tick(e, at)

DryRun(e, at, x) ==
  /\ pc[e] \in {"recipeFetched", "safetyChecked"} /\ at = "done"
  /\ x.status = "completed" /\ x.error = executions[e].error
  /\ activeExecutions' = activeExecutions

Launched(e, at, x) ==
  /\ pc[e] \in {"recipeFetched", "safetyChecked"} /\ at = "step"
  /\ x.status = "executing" /\ x.error = executions[e].error
  /\ activeExecutions' = activeExecutions \union {e}

\* Still in the loop over the steps, or in the loop that undoes them.
Carried(e, at, x) ==
  /\ \/ pc[e] \in StepPc /\ at \in StepPc
     \/ pc[e] \in {"undo", "undoFired"} /\ at \in {"undo", "undoFired"}
  /\ at = "step" => executions[e].status # "cancelled"
  /\ x.status = executions[e].status /\ x.error = executions[e].error
  /\ activeExecutions' = activeExecutions

Reversed(e, at, x) ==
  /\ \/ pc[e] \in StepPc /\ at = "undo" /\ x.status = "rolling_back"
     \/ pc[e] \in StepPc \union {"undoFired"} /\ at = "rolledBack" /\ x.status = "rolled_back"
  /\ x.error = executions[e].error
  /\ activeExecutions' = activeExecutions

Settled(e, at, x) ==
  /\ at = "done"
  /\ \/ pc[e] \in StepPc /\ x.status = "completed" /\ x.error = executions[e].error
     \/ pc[e] \in StepPc \union {"rolledBack"} /\ x.status = "failed" /\ x.error = "failed"
  /\ activeExecutions' = activeExecutions \ {e}

StepKind(e, at, x) ==
  \/ Admitted(e, at, x) \/ DryRun(e, at, x) \/ Launched(e, at, x)
  \/ Carried(e, at, x) \/ Reversed(e, at, x) \/ Settled(e, at, x)

SomeStep(e) ==
  \E at \in ExecutionPc \ {"idle"}, x \in Execution :
    Moves(e, at) /\ Put(e, x) /\ StepKind(e, at, x)

\* Starting an execution is a dry run or a launch.
LEMMA LaunchShape ==
  ASSUME TypeOK, NEW e \in Executions, jobs # << >>, Head(jobs) = e,
         pc[e] \in {"recipeFetched", "safetyChecked"}, Launch(e)
  PROVE  SomeStep(e)
<1> DEFINE x(st) == [executions[e] EXCEPT !.status = st]
<1>1. \A st \in {"completed", "executing"} :
        x(st) \in Execution /\ x(st).status = st /\ x(st).error = executions[e].error
  <2>1. executions[e] \in Execution
    BY DEF TypeOK
  <2>2. {"completed", "executing"} \subseteq Status
    BY DEF Status
  <2>3. QED
    BY <2>1, <2>2, StatusSet
<1>2. CASE frame[e].request.dryRun /\ Put(e, x("completed")) /\ Park(e, "done")
             /\ UNCHANGED activeExecutions
  <2>1. DryRun(e, "done", x("completed"))
    BY <1>1, <1>2 DEF DryRun
  <2>2. Moves(e, "done") /\ "done" \in ExecutionPc \ {"idle"}
    BY <1>2 DEF Moves, ExecutionPc
  <2>3. QED
    BY <1>1, <1>2, <2>1, <2>2 DEF StepKind, SomeStep
<1>3. CASE Put(e, x("executing")) /\ Park(e, "step")
             /\ activeExecutions' = activeExecutions \union {e}
  <2>1. Launched(e, "step", x("executing"))
    BY <1>1, <1>3 DEF Launched
  <2>2. Moves(e, "step") /\ "step" \in ExecutionPc \ {"idle"}
    BY <1>3 DEF Moves, ExecutionPc, RunningPc, StepPc
  <2>3. QED
    BY <1>1, <1>3, <2>1, <2>2 DEF StepKind, SomeStep
<1>4. QED
  BY <1>2, <1>3 DEF Launch

\* The head of the step loop carries the run on or settles it.
LEMMA NextIterationShape ==
  ASSUME TypeOK, NEW e \in Executions, jobs # << >>, Head(jobs) = e, pc[e] \in StepPc,
         NEW x \in Execution,
         x.status = executions[e].status, x.error = executions[e].error,
         NextIteration(e, x)
  PROVE  SomeStep(e)
<1> DEFINE y == [x EXCEPT !.status = "completed"]
<1>1. CASE Settle(e, y)
  <2>1. y \in Execution /\ y.status = "completed" /\ y.error = x.error
    BY StatusSet DEF Status
  <2>2. Settled(e, "done", y) /\ Moves(e, "done") /\ "done" \in ExecutionPc \ {"idle"}
    BY <1>1, <2>1 DEF Settle, Settled, Moves, ExecutionPc
  <2>3. QED
    BY <1>1, <2>1, <2>2 DEF Settle, StepKind, SomeStep
<1>2. CASE /\ ~LoopEnds(e, x)
           /\ Put(e, x) /\ Park(e, "step") /\ UNCHANGED activeExecutions
  <2>1. Carried(e, "step", x) /\ Moves(e, "step") /\ "step" \in ExecutionPc \ {"idle"}
    BY <1>2 DEF Carried, LoopEnds, Moves, ExecutionPc, RunningPc, StepPc
  <2>2. QED
    BY <1>2, <2>1 DEF StepKind, SomeStep
<1>3. QED
  BY <1>1, <1>2 DEF NextIteration

\* The head of the rollback loop carries the run on or reverses it.
LEMMA UndoLoopShape ==
  ASSUME TypeOK, NEW e \in Executions, jobs # << >>, Head(jobs) = e,
         NEW x \in Execution, x.error = executions[e].error,
         \/ pc[e] \in StepPc /\ x.status = "rolling_back"
         \/ pc[e] = "undoFired" /\ x.status = executions[e].status,
         UndoLoop(e, x)
  PROVE  SomeStep(e)
<1> DEFINE y == [x EXCEPT !.status = "rolled_back"]
           z(i) == [x EXCEPT !.rollbackSteps = Append(@, frame[e].recipe.steps[i].id)]
<1>1. CASE Put(e, y) /\ Tick(e, "rolledBack")
  <2>1. y \in Execution /\ y.status = "rolled_back" /\ y.error = x.error
    BY StatusSet DEF Status
  <2>2. Reversed(e, "rolledBack", y)
    BY <2>1 DEF Reversed, UndoLoop
  <2>3. Moves(e, "rolledBack") /\ "rolledBack" \in ExecutionPc \ {"idle"}
    BY <1>1 DEF Moves, ExecutionPc, RunningPc, UndoPc
  <2>4. QED
    BY <1>1, <2>1, <2>2, <2>3 DEF StepKind, SomeStep
<1>2. ASSUME NEW i \in RollbackPlaces(e, x), Put(e, z(i)), Park(e, "undo")
      PROVE  SomeStep(e)
  <2>1. frame[e].recipe.steps[i].id \in StepIds
    BY StepsOfRun DEF RollbackPlaces, StepPc
  <2>2. z(i) \in Execution /\ z(i).status = x.status /\ z(i).error = x.error
    BY <2>1, UndoneRecord
  <2>3. Reversed(e, "undo", z(i)) \/ Carried(e, "undo", z(i))
    BY <2>2 DEF Reversed, Carried, UndoLoop
  <2>4. Moves(e, "undo") /\ "undo" \in ExecutionPc \ {"idle"}
    BY <1>2 DEF Moves, ExecutionPc, RunningPc, UndoPc
  <2>5. QED
    BY <1>2, <2>2, <2>3, <2>4 DEF StepKind, SomeStep
<1>3. QED
  BY <1>1, <1>2 DEF UndoLoop

\* Every step of an execution is of one of these kinds.
LEMMA ExecutionStepShape ==
  ASSUME TypeOK, NEW e \in Executions, ExecutionJob(e) \/ Timer(e)
  PROVE  SomeStep(e) /\ UNCHANGED <<recipes, issued, frame>>
<1>0. UNCHANGED <<recipes, issued, frame>>
  BY DEF ExecutionJob, Timer, RecipeFetched, SafetyChecked, StepAdopted, StepSucceeded,
         StepFailed, UndoFired, RolledBack, StepTimer, UndoTimer
<1>a. executions[e] \in Execution /\ executions = [executions EXCEPT ![e] = executions[e]]
  BY DEF TypeOK
<1>1. CASE RecipeFetched(e)
  <2> DEFINE x == [executions[e] EXCEPT !.status = "pending"]
  <2>1. x \in Execution /\ x.status = "pending" /\ x.error = executions[e].error
    BY <1>a, StatusSet DEF Status
  <2>2. jobs # << >> /\ Head(jobs) = e /\ pc[e] = "recipeFetched"
    BY <1>1 DEF RecipeFetched, Resume
  <2>3. ASSUME NEW at \in {"refused", "safetyChecked"},
               Put(e, x), Moves(e, at), UNCHANGED activeExecutions,
               at = "safetyChecked" => Tick(e, at)
        PROVE  SomeStep(e)
    BY <2>1, <2>2, <2>3 DEF Admitted, StepKind, SomeStep, ExecutionPc
  <2>4. CASE Put(e, x) /\ Park(e, "refused") /\ UNCHANGED activeExecutions
    BY <1>0, <2>2, <2>3, <2>4 DEF Moves
  <2>5. CASE Put(e, x) /\ Tick(e, "safetyChecked") /\ UNCHANGED activeExecutions
    BY <1>0, <2>2, <2>3, <2>5 DEF Moves
  <2>6. CASE Launch(e)
    BY <1>0, <2>2, <2>6, LaunchShape
  <2>7. QED
    BY <1>1, <2>4, <2>5, <2>6 DEF RecipeFetched
<1>2. CASE SafetyChecked(e)
  BY <1>0, <1>2, LaunchShape DEF SafetyChecked, Resume
<1>3. ASSUME NEW at \in (StepPc \ {"step"}) \union {"undoFired"}, Moves(e, at),
             UNCHANGED <<executions, activeExecutions>>,
             \/ pc[e] \in StepPc /\ at \in StepPc
             \/ pc[e] = "undo" /\ at = "undoFired"
      PROVE  SomeStep(e)
  <2>1. Carried(e, at, executions[e]) /\ Put(e, executions[e])
    BY <1>a, <1>3 DEF Carried, Put
  <2>2. at \in ExecutionPc \ {"idle"}
    BY DEF ExecutionPc, RunningPc, StepPc, UndoPc
  <2>3. QED
    BY <1>a, <1>3, <2>1, <2>2 DEF StepKind, SomeStep
<1>4. CASE StepAdopted(e)
  <2>1. PICK at \in StepPc \ {"step"} :
          /\ Resume(e, "stepResolving") \/ Resume(e, "stepRejecting")
          /\ Tick(e, at)
    BY <1>4 DEF StepAdopted, StepPc
  <2>2. Moves(e, at) /\ pc[e] \in StepPc
    BY <2>1 DEF Moves, Resume, StepPc
  <2>3. QED
    BY <1>0, <1>3, <1>4, <2>2 DEF StepAdopted
<1>5. CASE Timer(e)
  <2>1. \/ \E at \in StepPc \ {"step"} : Fire(e, "step", at)
        \/ Fire(e, "undo", "undoFired")
    BY <1>5 DEF Timer, StepTimer, UndoTimer, StepPc
  <2>2. UNCHANGED <<executions, activeExecutions>>
    BY <1>5 DEF Timer, StepTimer, UndoTimer
  <2>3. "step" \in StepPc
    BY DEF ExecutionPc, RunningPc, StepPc, UndoPc
  <2>4. QED
    BY <1>0, <1>3, <2>1, <2>2, <2>3 DEF Moves, Fire
<1>6. CASE StepSucceeded(e)
  <2>1. PICK i \in DOMAIN frame[e].recipe.steps :
          NextIteration(e, WithResult(e, i, "completed"))
    BY <1>6 DEF StepSucceeded
  <2>2. jobs # << >> /\ Head(jobs) = e /\ pc[e] \in StepPc /\ pc[e] # "idle"
    BY <1>6 DEF StepSucceeded, Resume, StepPc
  <2>3. QED
    BY <1>0, <2>1, <2>2, ResultRecord, NextIterationShape
<1>7. CASE StepFailed(e)
  <2>1. PICK i \in DOMAIN frame[e].recipe.steps :
          LET x == WithResult(e, i, "failed") IN
          \/ NextIteration(e, x)
          \/ UndoLoop(e, RollingBack(x))
          \/ Settle(e, Failed(x))
    BY <1>7 DEF StepFailed
  <2> DEFINE x == WithResult(e, i, "failed")
  <2>2. jobs # << >> /\ Head(jobs) = e /\ pc[e] \in StepPc /\ pc[e] # "idle"
    BY <1>7 DEF StepFailed, Resume, StepPc
  <2>4. /\ x \in Execution /\ x.status = executions[e].status
        /\ x.error = executions[e].error
    BY <2>2, ResultRecord
  <2>5. CASE NextIteration(e, x)
    BY <1>0, <2>2, <2>4, <2>5, NextIterationShape
  <2>6. CASE UndoLoop(e, RollingBack(x))
    <3>1. /\ RollingBack(x) \in Execution /\ RollingBack(x).status = "rolling_back"
          /\ RollingBack(x).error = executions[e].error
      BY <2>4, RollingBackRecord
    <3>2. QED
      BY <1>0, <2>2, <2>6, <3>1, UndoLoopShape
  <2>7. CASE Settle(e, Failed(x))
    <3>1. Failed(x) \in Execution /\ Failed(x).status = "failed" /\ Failed(x).error = "failed"
      BY <2>4, FailedRecord
    <3>2. Settled(e, "done", Failed(x)) /\ Moves(e, "done") /\ "done" \in ExecutionPc \ {"idle"}
      BY <2>2, <2>7, <3>1 DEF Settle, Settled, Moves, ExecutionPc
    <3>3. QED
      BY <1>0, <2>7, <3>1, <3>2 DEF Settle, StepKind, SomeStep
  <2>8. QED
    BY <2>1, <2>5, <2>6, <2>7
<1>8. CASE UndoFired(e)
  BY <1>0, <1>8, <1>a, UndoLoopShape DEF UndoFired, Resume
<1>9. CASE RolledBack(e)
  <2> DEFINE x == executions[e]
  <2>1. Failed(x) \in Execution /\ Failed(x).status = "failed" /\ Failed(x).error = "failed"
    BY <1>a, FailedRecord
  <2>2. Settled(e, "done", Failed(x)) /\ Moves(e, "done") /\ "done" \in ExecutionPc \ {"idle"}
    BY <1>9, <2>1 DEF RolledBack, Resume, Settle, Settled, Moves, ExecutionPc
  <2>3. QED
    BY <1>0, <1>9, <2>1, <2>2 DEF RolledBack, Settle, StepKind, SomeStep
<1>10. QED
  BY <1>1, <1>2, <1>4, <1>5, <1>6, <1>7, <1>8, <1>9 DEF ExecutionJob

(***************************************************************************)
(* What one step of any other call does.                                   *)
(***************************************************************************)

\* Cancelling an execution keeps the two maps well typed.
LEMMA CancelShape ==
  ASSUME TypeOK, NEW e \in Executions, CancelEffect(e)
  PROVE  /\ executions' \in [Executions -> Execution]
         /\ activeExecutions' \subseteq Executions
<1>1. executions[e] \in Execution /\ executions \in [Executions -> Execution]
  BY DEF TypeOK
<1>2. [executions[e] EXCEPT !.status = "cancelled", !.error = "cancelled"] \in Execution
  BY <1>1 DEF Execution, Status
<1>3. QED
  BY <1>1, <1>2 DEF CancelEffect, Put, TypeOK

\* A caller's job moves the caller, may store a recipe or cancel the execution
\* its frame names, and gives the caller a frame of the right shape.
LEMMA CallerStepShape ==
  ASSUME TypeOK, NEW c \in Callers, CallerJob(c)
  PROVE  /\ pc[c] # "idle"
         /\ \E at \in CallerPc \ {"idle"} :
              /\ Moves(c, at)
              /\ pc[c] = "updateFetched" <=> at = "updateValidated"
              /\ at \notin {"updateFetched", "deleteFetched", "cancelFetched"}
              /\ at \in StopPc \union {"stopReturned"} <=> pc[c] \in StopPc
              /\ at \in StopPc => frame'[c] \in StopFrames
         /\ frame' = frame \/ (\E f \in StopFrames : frame' = [frame EXCEPT ![c] = f])
         /\ recipes' \in [Recipes -> Definition \union {None}]
         /\ issued' = issued
         /\ executions' \in [Executions -> Execution]
         /\ activeExecutions' \subseteq Executions
<1> DEFINE Goal == /\ pc[c] # "idle"
                   /\ \E at \in CallerPc \ {"idle"} :
                        /\ Moves(c, at)
                        /\ pc[c] = "updateFetched" <=> at = "updateValidated"
                        /\ at \notin {"updateFetched", "deleteFetched", "cancelFetched"}
                        /\ at \in StopPc \union {"stopReturned"} <=> pc[c] \in StopPc
                        /\ at \in StopPc => frame'[c] \in StopFrames
<1>a. /\ recipes \in [Recipes -> Definition \union {None}]
      /\ executions \in [Executions -> Execution]
      /\ activeExecutions \subseteq Executions
      /\ c \in Processes
      /\ frame \in [Processes -> Frame \union {None}]
  BY DEF TypeOK, Processes
<1>b. ASSUME NEW from \in CallerPc, NEW at \in CallerPc \ {"idle"},
             Resume(c, from), Tick(c, at) \/ Park(c, at),
             from # "idle",
             from = "updateFetched" <=> at = "updateValidated",
             at \notin {"updateFetched", "deleteFetched", "cancelFetched"},
             at \in StopPc \union {"stopReturned"} <=> from \in StopPc,
             at \in StopPc => frame'[c] \in StopFrames
      PROVE  Goal
  BY <1>b DEF Moves, Resume
<1>c. pc[c] \in StopPc => frame[c] \in StopFrames
  BY DEF TypeOK, FramesMatch
<1> USE DEF CallerPc, StopPc
<1>1. CASE UpdateFetched(c)
  BY <1>1, <1>a, <1>b DEF UpdateFetched
<1>2. CASE UpdateValidated(c)
  <2>1. frame[c] \in UpdateFrame
    BY <1>2 DEF UpdateValidated, Resume, TypeOK, FramesMatch
  <2>2. recipes' \in [Recipes -> Definition \union {None}]
    BY <1>2, <1>a, <2>1 DEF UpdateValidated, UpdateFrame
  <2>3. QED
    BY <1>2, <1>a, <1>b, <2>2 DEF UpdateValidated
<1>3. CASE DeleteFetched(c)
  <2>1. recipes' \in [Recipes -> Definition \union {None}]
    BY <1>3, <1>a DEF DeleteFetched
  <2>2. QED
    BY <1>3, <1>a, <1>b, <2>1 DEF DeleteFetched
<1>4. CASE CancelFetched(c)
  <2>1. frame[c].executionId \in Executions
    BY <1>4 DEF CancelFetched, Resume, TypeOK, FramesMatch
  <2>2. executions' \in [Executions -> Execution] /\ activeExecutions' \subseteq Executions
    BY <1>4, <1>a, <2>1, CancelShape DEF CancelFetched
  <2>3. QED
    BY <1>4, <1>a, <1>b, <2>2 DEF CancelFetched
<1>5. CASE StopFetched(c)
  <2>0. pc[c] = "stopFetched"
    BY <1>5 DEF StopFetched, Resume
  <2>1. frame[c] \in StopFrames /\ frame[c].executionId \in Executions
    BY <1>c, <2>0 DEF StopFrames
  <2>2. executions' \in [Executions -> Execution] /\ activeExecutions' \subseteq Executions
    BY <1>5, <1>a, <2>1, CancelShape DEF StopFetched
  <2>3. Resume(c, "stopFetched") /\ (Tick(c, "stopAudited") \/ Tick(c, "stopResumed"))
        /\ UNCHANGED <<recipes, issued, frame>>
    BY <1>5 DEF StopFetched
  <2>4. QED
    BY <1>a, <1>b, <2>1, <2>2, <2>3
<1>6. CASE StopAudited(c)
  <2>1. frame[c] \in StopFrames
    BY <1>6, <1>c DEF StopAudited, Resume
  <2>2. QED
    BY <1>6, <1>a, <1>b, <2>1 DEF StopAudited
<1>7. CASE StopResumed(c)
  <2>1. frame[c] \in StopFrames
    BY <1>7, <1>c DEF StopResumed, Resume
  <2>2. CASE Park(c, "stopReturned") /\ UNCHANGED frame
    BY <1>7, <1>a, <1>b, <2>2 DEF StopResumed
  <2>3. CASE \E e \in frame[c].todo :
               /\ frame' = [frame EXCEPT ![c] = StopFrame(e, @.snapshot, @.todo \ {e})]
               /\ Tick(c, "stopFetched")
    <3>1. PICK e \in frame[c].todo :
            /\ frame' = [frame EXCEPT ![c] =
                           StopFrame(e, frame[c].snapshot, frame[c].todo \ {e})]
            /\ Tick(c, "stopFetched")
      BY <2>3
    <3>2. StopFrame(e, frame[c].snapshot, frame[c].todo \ {e}) \in StopFrames
      BY <2>1 DEF StopFrames, StopFrame
    <3>3. frame'[c] \in StopFrames
      BY <1>a, <3>1, <3>2
    <3>4. Goal
      BY <1>7, <1>b, <3>1, <3>3 DEF StopResumed
    <3>5. \E f \in StopFrames : frame' = [frame EXCEPT ![c] = f]
      BY <3>1, <3>2
    <3>6. UNCHANGED <<recipes, issued, executions, activeExecutions>>
      BY <1>7 DEF StopResumed
    <3>7. QED
      BY <1>a, <3>4, <3>5, <3>6
  <2>4. QED
    BY <1>7, <2>2, <2>3 DEF StopResumed
<1>8. QED
  BY <1>1, <1>2, <1>3, <1>4, <1>5, <1>6, <1>7 DEF CallerJob

(***************************************************************************)
(* The type invariant.                                                     *)
(***************************************************************************)

\* TypeOK, with the control part and the frames apart.
LEMMA TypeParts ==
  TypeOK <=> /\ recipes \in [Recipes -> Definition \union {None}]
             /\ issued \subseteq Recipes
             /\ executions \in [Executions -> Execution]
             /\ activeExecutions \subseteq Executions
             /\ frame \in [Processes -> Frame \union {None}]
             /\ Control
             /\ FramesMatch
BY DEF TypeOK, Control

\* The service starts well typed, with nothing stored and nothing queued.
LEMMA InitTypeOK == Init => TypeOK
<1> SUFFICES ASSUME Init PROVE TypeOK
  OBVIOUS
<1>1. NoExecution \in Execution
  BY DEF NoExecution, Execution, Status
<1>2. jobs \in Seq(Processes)
  BY DEF Init
<1>3. pc \in [Processes -> ExecutionPc \union CallerPc]
  BY DEF Init, ExecutionPc
<1>4. /\ \A e \in Executions : pc[e] = "idle" /\ pc[e] \in ExecutionPc
      /\ \A c \in Callers : pc[c] = "idle" /\ pc[c] \in CallerPc
  BY DEF Init, Processes, ExecutionPc, CallerPc
<1>5. FramesMatch
  BY <1>4 DEF FramesMatch, StopPc
<1>6. QED
  BY <1>1, <1>2, <1>3, <1>4, <1>5 DEF Init, TypeOK

\* A job or a timer of an execution keeps the state well typed.
LEMMA ExecutionKeepsType ==
  ASSUME TypeOK, NEW e \in Executions, ExecutionJob(e) \/ Timer(e)
  PROVE  TypeOK'
<1>1. PICK at \in ExecutionPc \ {"idle"}, x \in Execution :
        Moves(e, at) /\ Put(e, x) /\ StepKind(e, at, x)
  BY ExecutionStepShape DEF SomeStep
<1>2. UNCHANGED <<recipes, issued, frame>>
  BY ExecutionStepShape
<1>3. Control' /\ pc' = [pc EXCEPT ![e] = at]
  BY <1>1, ExecutionMoves, TypeParts
<1>4. executions' \in [Executions -> Execution] /\ activeExecutions' \subseteq Executions
  BY <1>1 DEF Put, TypeOK, StepKind, Admitted, DryRun, Launched, Carried, Reversed, Settled
<1>5. pc[e] # "idle"
  BY <1>1 DEF StepKind, Admitted, DryRun, Launched, Carried, Reversed, Settled, StepPc
<1>6. \A d \in Executions : pc'[d] # "idle" => pc[d] # "idle"
  BY <1>3, <1>5 DEF TypeOK, Processes
<1>7. \A c \in Callers : pc'[c] = pc[c]
  BY <1>3, ProcessesAreDistinct DEF TypeOK, Processes
<1>8. FramesMatch'
  BY <1>2, <1>6, <1>7, TypeParts DEF FramesMatch
<1>9. QED
  BY <1>2, <1>3, <1>4, <1>8 DEF TypeOK, Control

\* A frame of process p changed to f, p moved to at: FramesMatch is kept if f
\* fits p at that place.
LEMMA FramesKept ==
  ASSUME TypeOK, NEW p \in Processes, NEW at, NEW f,
         pc' = [pc EXCEPT ![p] = at], frame' = [frame EXCEPT ![p] = f],
         p \in Executions => f \in RunFrame,
         p \in Callers =>
           /\ at \in {"updateFetched", "updateValidated"} => f \in UpdateFrame
           /\ at = "deleteFetched" => f \in [recipeId : Recipes]
           /\ at = "cancelFetched" => f \in [executionId : Executions]
           /\ at \in StopPc => f \in StopFrames
  PROVE  FramesMatch'
<1>1. \A q \in Processes : /\ frame'[q] = IF q = p THEN f ELSE frame[q]
                           /\ pc'[q] = IF q = p THEN at ELSE pc[q]
  BY DEF TypeOK
<1>2. \A e \in Executions : pc'[e] # "idle" => frame'[e] \in RunFrame
  BY <1>1, ProcessesAreDistinct DEF TypeOK, FramesMatch, Processes
<1>3. \A c \in Callers :
       /\ pc'[c] \in {"updateFetched", "updateValidated"} => frame'[c] \in UpdateFrame
       /\ pc'[c] = "deleteFetched" => frame'[c] \in [recipeId : Recipes]
       /\ pc'[c] = "cancelFetched" => frame'[c] \in [executionId : Executions]
       /\ pc'[c] \in StopPc => frame'[c] \in StopFrames
  BY <1>1 DEF TypeOK, FramesMatch, Processes
<1>4. QED
  BY <1>2, <1>3 DEF FramesMatch

\* So does a job of any other call.
LEMMA CallerKeepsType ==
  ASSUME TypeOK, NEW c \in Callers, CallerJob(c)
  PROVE  TypeOK'
<1>1. PICK at \in CallerPc \ {"idle"} :
        /\ Moves(c, at)
        /\ pc[c] = "updateFetched" <=> at = "updateValidated"
        /\ at \notin {"updateFetched", "deleteFetched", "cancelFetched"}
        /\ at \in StopPc \union {"stopReturned"} <=> pc[c] \in StopPc
        /\ at \in StopPc => frame'[c] \in StopFrames
  BY CallerStepShape
<1>2. Control' /\ pc' = [pc EXCEPT ![c] = at]
  BY <1>1, CallerMoves, TypeParts
<1>3. c \in Processes /\ c \notin Executions
  BY ProcessesAreDistinct DEF Processes
<1>4. frame \in [Processes -> Frame \union {None}]
  BY DEF TypeOK
<1>5. frame' = [frame EXCEPT ![c] = frame'[c]]
  BY <1>3, <1>4, CallerStepShape
<1>6. frame' \in [Processes -> Frame \union {None}]
  BY <1>3, <1>4, CallerStepShape DEF Frame
<1>7. at = "updateValidated" => frame'[c] \in UpdateFrame
  <2>1. ASSUME at = "updateValidated" PROVE pc[c] = "updateFetched" /\ at \notin StopPc
    BY <1>1, <2>1 DEF StopPc
  <2>2. ASSUME at = "updateValidated" PROVE frame[c] \in UpdateFrame /\ frame' = frame
    BY <2>1, <2>2 DEF TypeOK, FramesMatch, CallerJob, Resume, UpdateFetched, UpdateValidated,
          DeleteFetched, CancelFetched, StopFetched, StopAudited, StopResumed
  <2>3. QED
    BY <2>2
<1>8. FramesMatch'
  BY <1>1, <1>2, <1>3, <1>5, <1>7, FramesKept DEF StopPc
<1>9. QED
  <2>1. /\ recipes' \in [Recipes -> Definition \union {None}]
        /\ issued' \subseteq Recipes
        /\ executions' \in [Executions -> Execution]
        /\ activeExecutions' \subseteq Executions
    BY CallerStepShape DEF TypeOK
  <2>2. QED
    BY <1>2, <1>6, <1>8, <2>1 DEF TypeOK, Control

\* So does a client that makes a call.
LEMMA CallKeepsType ==
  ASSUME TypeOK, ClientCall
  PROVE  TypeOK'
<1> USE TypeParts
<1>1. ASSUME NEW r \in Recipes, NEW d \in NewRecipes, CreateRecipe(r, d)
      PROVE  TypeOK'
  <2>1. d \in Definition
    BY InputTypes
  <2>2. FramesMatch'
    BY <1>1 DEF CreateRecipe, FramesMatch
  <2>3. QED
    BY <1>1, <2>1, <2>2 DEF CreateRecipe, TypeOK
<1>2. ASSUME NEW e \in Executions, NEW r \in Recipes, NEW q \in Requests,
             ExecuteRecipe(e, r, q)
      PROVE  TypeOK'
  <2> DEFINE f == [recipeId |-> r, recipe |-> recipes[r], request |-> q]
  <2>1. f \in RunFrame
    BY <1>2, InputTypes DEF ExecuteRecipe, TypeOK, RunFrame
  <2>2. Moves(e, "recipeFetched") /\ "recipeFetched" \in ExecutionPc
    BY <1>2 DEF ExecuteRecipe, Moves, ExecutionPc
  <2>3. Control' /\ pc' = [pc EXCEPT ![e] = "recipeFetched"]
    BY <2>2, ExecutionMoves
  <2>4. frame' = [frame EXCEPT ![e] = f] /\ e \in Processes /\ e \notin Callers
    BY <1>2, ProcessesAreDistinct DEF ExecuteRecipe, Processes
  <2>5. FramesMatch'
    BY <2>1, <2>3, <2>4, FramesKept
  <2>6. frame' \in [Processes -> Frame \union {None}]
    BY <2>1, <2>4 DEF Frame
  <2>7. QED
    BY <1>2, <2>3, <2>5, <2>6 DEF ExecuteRecipe, TypeOK, Control
<1>3. ASSUME NEW c \in Callers, NEW at \in CallerPc, NEW f \in Frame,
             Call(c, at), frame' = [frame EXCEPT ![c] = f],
             UNCHANGED <<recipes, issued, executions, activeExecutions>>,
             /\ at \in {"updateFetched", "updateValidated"} => f \in UpdateFrame
             /\ at = "deleteFetched" => f \in [recipeId : Recipes]
             /\ at = "cancelFetched" => f \in [executionId : Executions]
             /\ at \in StopPc => f \in StopFrames
      PROVE  TypeOK'
  <2>1. Moves(c, at) /\ c \in Processes /\ c \notin Executions
    BY <1>3, ProcessesAreDistinct DEF Moves, Processes
  <2>2. Control' /\ pc' = [pc EXCEPT ![c] = at]
    BY <2>1, CallerMoves
  <2>3. FramesMatch'
    BY <1>3, <2>1, <2>2, FramesKept
  <2>4. frame' \in [Processes -> Frame \union {None}]
    BY <1>3, <2>1
  <2>5. QED
    BY <1>3, <2>2, <2>3, <2>4 DEF TypeOK, Control
<1>4. ASSUME NEW c \in Callers, NEW r \in Recipes, NEW u \in Updates, UpdateRecipe(c, r, u)
      PROVE  TypeOK'
  <2> DEFINE f == [recipeId |-> r, recipe |-> Merge(recipes[r], u)]
  <2>1. recipes[r] \in Definition
    BY <1>4 DEF UpdateRecipe, TypeOK
  <2>2. Merge(recipes[r], u) \in Definition
    BY <2>1, InputTypes DEF Merge, Field, Definition
  <2>3. f \in UpdateFrame /\ f \in Frame
    BY <2>2 DEF UpdateFrame, Frame
  <2>4. QED
    BY <1>3, <1>4, <2>3 DEF UpdateRecipe, CallerPc, StopPc
<1>5. ASSUME NEW c \in Callers, NEW r \in Recipes, DeleteRecipe(c, r)
      PROVE  TypeOK'
  <2> DEFINE f == [recipeId |-> r]
  <2>1. f \in [recipeId : Recipes] /\ f \in Frame
    BY DEF Frame
  <2>2. QED
    BY <1>3, <1>5, <2>1 DEF DeleteRecipe, CallerPc, StopPc
<1>6. ASSUME NEW c \in Callers, NEW e \in Executions, CancelExecution(c, e)
      PROVE  TypeOK'
  <2> DEFINE f == [executionId |-> e]
  <2>1. f \in [executionId : Executions] /\ f \in Frame
    BY DEF Frame
  <2>2. QED
    BY <1>3, <1>6, <2>1 DEF CancelExecution, CallerPc, StopPc
<1>7. ASSUME NEW c \in Callers, EmergencyStop(c)
      PROVE  TypeOK'
  <2>1. CASE pc[c] = "idle" /\ pc' = [pc EXCEPT ![c] = "stopReturned"] /\ UNCHANGED <<frame, jobs>>
    <3>1. c \in Processes /\ c \notin Executions /\ "stopReturned" \in CallerPc
      BY ProcessesAreDistinct DEF Processes, CallerPc
    <3>2. Control'
      BY <2>1, <3>1 DEF Control, Processes
    <3>3. FramesMatch'
      BY <2>1, <3>1 DEF FramesMatch, TypeOK, Processes, StopPc
    <3>4. QED
      BY <1>7, <2>1, <3>2, <3>3 DEF EmergencyStop, TypeOK, Control
  <2>2. ASSUME NEW e \in activeExecutions,
               frame' = [frame EXCEPT ![c] = StopFrame(e, activeExecutions, activeExecutions \ {e})],
               Call(c, "stopFetched")
        PROVE  TypeOK'
    <3> DEFINE f == StopFrame(e, activeExecutions, activeExecutions \ {e})
    <3>1. f \in StopFrames /\ f \in Frame
      BY DEF StopFrame, StopFrames, TypeOK, Frame
    <3>2. QED
      BY <1>3, <1>7, <2>2, <3>1 DEF EmergencyStop, CallerPc, StopPc
  <2>3. QED
    BY <1>7, <2>1, <2>2 DEF EmergencyStop, StopSnapshot
<1>8. QED
  BY <1>1, <1>2, <1>4, <1>5, <1>6, <1>7 DEF ClientCall

\* The type invariant is inductive by itself.
LEMMA TypeOKStep == TypeOK /\ [Next]_vars => TypeOK'
<1> SUFFICES ASSUME TypeOK, [Next]_vars PROVE TypeOK'
  OBVIOUS
<1>1. CASE UNCHANGED vars
  BY <1>1 DEF vars, TypeOK, FramesMatch
<1>2. CASE ClientCall
  BY <1>2, CallKeepsType
<1>3. CASE Job
  BY <1>3, ExecutionKeepsType, CallerKeepsType DEF Job
<1>4. CASE \E e \in Executions : Timer(e)
  BY <1>4, ExecutionKeepsType
<1>5. QED
  BY <1>1, <1>2, <1>3, <1>4 DEF Next

\* The state is well typed in every behaviour of the service, whatever the
\* recipes, updates and requests its clients pass.
THEOREM TypeCorrect == Spec => []TypeOK
BY InitTypeOK, TypeOKStep, PTL DEF Spec

(***************************************************************************)
(* The safety invariants about the queue, the registry and emergencyStop,  *)
(* and the status lifecycle.                                               *)
(***************************************************************************)

Queued == 1..Len(jobs)

\* An execution has no record until its recipe has been fetched.
Fresh ==
  \A e \in Executions :
    pc[e] \in {"idle", "recipeFetched"} =>
      executions[e].status = "none" /\ executions[e].error = None

\* One whose safety check is pending is in the queue and has a clean record.
LaunchQueued ==
  \A e \in Executions :
    pc[e] = "safetyChecked" =>
      /\ executions[e].status = "pending" /\ executions[e].error = None
      /\ \E i \in Queued : jobs[i] = e

\* The status says where a run in flight is.
StatusFollowsPc ==
  \A e \in Executions :
    /\ pc[e] \in StepPc => executions[e].status \in {"executing", "cancelled"}
    /\ pc[e] \in {"undo", "undoFired"} => executions[e].status = "rolling_back"
    /\ pc[e] = "rolledBack" => executions[e].status = "rolled_back"

\* Only activations that have been called are in the queue.
QueuedWereCalled == \A i \in Queued : pc[jobs[i]] # "idle"

\* cancelExecution is suspended only with a record it has found.
CancelFound ==
  \A c \in Callers :
    pc[c] = "cancelFetched" => executions[frame[c].executionId].status # "none"

\* The start of an execution is queued ahead of every cancellation of it.
LaunchFirst ==
  \A e \in Executions, c \in Callers, j \in Queued :
    (/\ pc[e] = "safetyChecked" /\ pc[c] = "cancelFetched"
     /\ jobs[j] = c /\ frame[c].executionId = e) =>
      \E i \in Queued : i < j /\ jobs[i] = e

Stopping(c) == pc[c] \in StopPc \/ (pc[c] = "stopReturned" /\ frame[c] # None)

\* emergencyStop works on executions that had started, and those it is done
\* with are not executing.
StopProgress ==
  \A c \in Callers :
    /\ pc[c] = "idle" => frame[c] = None
    /\ Stopping(c) =>
         /\ frame[c] \in StopFrames
         /\ frame[c].executionId \in frame[c].snapshot
         /\ frame[c].todo \subseteq frame[c].snapshot
         /\ \A e \in frame[c].snapshot : pc[e] \in RunningPc \union {"done"}
    /\ pc[c] = "stopFetched" =>
         \A e \in frame[c].snapshot \ (frame[c].todo \union {frame[c].executionId}) :
           executions[e].status # "executing"

\* The inductive invariant.
Inv ==
  /\ TypeOK
  /\ Fresh /\ LaunchQueued /\ StatusFollowsPc
  /\ QueuedWereCalled /\ CancelFound /\ LaunchFirst
  /\ RegistryAccurate
  /\ StopProgress /\ StopEffective

(***************************************************************************)
(* The queue is first in, first out.                                       *)
(***************************************************************************)

\* When p runs or is called, what others have queued stays queued, and in
\* the same order: whatever was ahead of an entry still is.
LEMMA QueueKeepsOrder ==
  ASSUME jobs \in Seq(Processes), NEW p \in Processes, NEW at, Moves(p, at)
  PROVE  /\ \A i \in Queued : jobs[i] # p => \E k \in Queued' : jobs'[k] = jobs[i]
         /\ \A j \in Queued' :
              \/ jobs'[j] = p
              \/ \E k \in Queued :
                   /\ jobs[k] = jobs'[j]
                   /\ \A i \in Queued :
                        i < k /\ jobs[i] # p =>
                          \E m \in Queued' : m < j /\ jobs'[m] = jobs[i]
<1>1. CASE jobs' = Append(jobs, p)
  <2>1. /\ Queued' = 1..(Len(jobs) + 1)
        /\ \A i \in Queued : jobs'[i] = jobs[i] /\ i \in Queued'
        /\ jobs'[Len(jobs) + 1] = p
    BY <1>1 DEF Queued
  <2>2. \A j \in Queued' : j \in Queued \/ j = Len(jobs) + 1
    BY <2>1 DEF Queued
  <2>3. QED
    BY <2>1, <2>2
<1>2. CASE /\ jobs # << >> /\ Head(jobs) = p
           /\ jobs' = Tail(jobs) \/ jobs' = Append(Tail(jobs), p)
  <2> DEFINE n == Len(jobs)
  <2>1. n \in Nat /\ n > 0 /\ jobs[1] = p /\ Tail(jobs) \in Seq(Processes) /\ Len(Tail(jobs)) = n - 1
    BY <1>2
  <2>2. \A i \in 1..(n - 1) : Tail(jobs)[i] = jobs[i + 1]
    BY <1>2
  <2>3. /\ \A i \in 1..(n - 1) : i \in Queued' /\ jobs'[i] = jobs[i + 1]
        /\ \A j \in Queued' : j \in 1..(n - 1) \/ jobs'[j] = p
    <3>1. CASE jobs' = Tail(jobs)
      BY <2>1, <2>2, <3>1 DEF Queued
    <3>2. CASE jobs' = Append(Tail(jobs), p)
      <4>1. Len(jobs') = n /\ jobs'[n] = p /\ \A i \in 1..(n - 1) : jobs'[i] = Tail(jobs)[i]
        BY <2>1, <3>2
      <4>2. QED
        BY <2>1, <2>2, <4>1 DEF Queued
    <3>3. QED
      BY <1>2, <3>1, <3>2
  <2>4. \A i \in Queued : jobs[i] # p => i - 1 \in 1..(n - 1) /\ (i - 1) + 1 = i
    BY <2>1 DEF Queued
  <2>5. \A i \in Queued : jobs[i] # p => i - 1 \in Queued' /\ jobs'[i - 1] = jobs[i]
    BY <2>3, <2>4
  <2>6. ASSUME NEW j \in Queued', jobs'[j] # p
        PROVE  \E k \in Queued :
                 /\ jobs[k] = jobs'[j]
                 /\ \A i \in Queued : i < k /\ jobs[i] # p =>
                      \E m \in Queued' : m < j /\ jobs'[m] = jobs[i]
    <3>1. j \in 1..(n - 1) /\ j + 1 \in Queued /\ jobs[j + 1] = jobs'[j]
      BY <2>1, <2>3, <2>6 DEF Queued
    <3>2. \A i \in Queued : i < j + 1 => i - 1 < j
      BY <2>1, <3>1 DEF Queued
    <3>3. QED
      BY <2>5, <3>1, <3>2
  <2>7. QED
    BY <2>5, <2>6
<1>3. CASE jobs = << >> /\ jobs' = <<p>>
  <2>1. Queued = {}
    BY <1>3 DEF Queued
  <2>2. Queued' = {1} /\ jobs'[1] = p
    BY <1>3 DEF Queued
  <2>3. QED
    BY <2>1, <2>2
<1>4. QED
  BY <1>1, <1>2, <1>3 DEF Moves, Call, Tick, Park, Fire

(***************************************************************************)
(* A step of an execution keeps the invariant.                             *)
(***************************************************************************)

\* The step seen from the maps: place, record and queue of e alone change.
LEMMA ExecutionEffect ==
  ASSUME TypeOK, NEW e \in Executions, ExecutionJob(e) \/ Timer(e)
  PROVE  /\ frame' = frame
         /\ \E at \in ExecutionPc \ {"idle"}, x \in Execution :
              /\ StepKind(e, at, x) /\ Moves(e, at)
              /\ \A d \in Executions : /\ executions'[d] = IF d = e THEN x ELSE executions[d]
                                       /\ pc'[d] = IF d = e THEN at ELSE pc[d]
              /\ \A c \in Callers : pc'[c] = pc[c]
<1>1. PICK at \in ExecutionPc \ {"idle"}, x \in Execution :
        Moves(e, at) /\ Put(e, x) /\ StepKind(e, at, x)
  BY ExecutionStepShape DEF SomeStep
<1>2. frame' = frame
  BY ExecutionStepShape
<1>3. pc' = [pc EXCEPT ![e] = at]
  BY <1>1, ExecutionMoves, TypeParts
<1>4. \A d \in Executions : pc'[d] = IF d = e THEN at ELSE pc[d]
  BY <1>3 DEF TypeOK, Processes
<1>5. \A c \in Callers : pc'[c] = pc[c]
  BY <1>3, ProcessesAreDistinct DEF TypeOK, Processes
<1>6. \A d \in Executions : executions'[d] = IF d = e THEN x ELSE executions[d]
  BY <1>1 DEF Put, TypeOK
<1>7. QED
  BY <1>1, <1>2, <1>4, <1>5, <1>6

\* The conjuncts of Inv that say how far each execution has come.
LEMMA ExecutionKeepsRecords ==
  ASSUME Inv, NEW e \in Executions, ExecutionJob(e) \/ Timer(e)
  PROVE  Fresh' /\ StatusFollowsPc' /\ RegistryAccurate'
<1>1. PICK at \in ExecutionPc \ {"idle"}, x \in Execution :
        /\ StepKind(e, at, x) /\ Moves(e, at)
        /\ \A d \in Executions : /\ executions'[d] = IF d = e THEN x ELSE executions[d]
                                 /\ pc'[d] = IF d = e THEN at ELSE pc[d]
        /\ \A c \in Callers : pc'[c] = pc[c]
  BY ExecutionEffect DEF Inv
<1>2. at \notin {"idle", "recipeFetched"}
  BY <1>1 DEF StepKind, Admitted, DryRun, Launched, Carried, Reversed, Settled, StepPc
<1>3. Fresh'
  BY <1>1, <1>2 DEF Inv, Fresh
<1>4. StatusFollowsPc'
  BY <1>1 DEF Inv, StatusFollowsPc, StepKind, Admitted, DryRun, Launched, Carried, Reversed,
              Settled, StepPc
<1>5. pc[e] \in {"recipeFetched", "safetyChecked"} => executions[e].error = None
  BY DEF Inv, Fresh, LaunchQueued
<1>6. /\ activeExecutions' \ {e} = activeExecutions \ {e}
      /\ e \in activeExecutions' <=> at \in RunningPc /\ x.error # "cancelled"
  BY <1>1, <1>5, InputTypes DEF Inv, TypeOK, RegistryAccurate, StepKind, Admitted, DryRun, Launched,
       Carried, Reversed, Settled, RunningPc, StepPc, UndoPc
<1>7. RegistryAccurate'
  BY <1>1, <1>6 DEF Inv, RegistryAccurate
<1>8. QED
  BY <1>3, <1>4, <1>7

\* The conjuncts of Inv about the queue.
LEMMA ExecutionKeepsQueue ==
  ASSUME Inv, NEW e \in Executions, ExecutionJob(e) \/ Timer(e)
  PROVE  LaunchQueued' /\ QueuedWereCalled' /\ CancelFound' /\ LaunchFirst'
<1>1. PICK at \in ExecutionPc \ {"idle"}, x \in Execution :
        /\ StepKind(e, at, x) /\ Moves(e, at)
        /\ \A d \in Executions : /\ executions'[d] = IF d = e THEN x ELSE executions[d]
                                 /\ pc'[d] = IF d = e THEN at ELSE pc[d]
        /\ \A c \in Callers : pc'[c] = pc[c]
  BY ExecutionEffect DEF Inv
<1>2. frame' = frame
  BY ExecutionEffect DEF Inv
<1>3. e \in Processes /\ e \notin Callers /\ jobs \in Seq(Processes)
  BY ProcessesAreDistinct DEF Processes, Inv, TypeOK
<1>4. /\ \A i \in Queued : jobs[i] # e => \E k \in Queued' : jobs'[k] = jobs[i]
      /\ \A j \in Queued' :
           \/ jobs'[j] = e
           \/ \E k \in Queued :
                /\ jobs[k] = jobs'[j]
                /\ \A i \in Queued :
                     i < k /\ jobs[i] # e =>
                       \E m \in Queued' : m < j /\ jobs'[m] = jobs[i]
  BY <1>1, <1>3, QueueKeepsOrder
<1>5. at = "safetyChecked" =>
        /\ pc[e] = "recipeFetched" /\ Tick(e, at)
        /\ x.status = "pending" /\ x.error = executions[e].error
  BY <1>1 DEF StepKind, Admitted, DryRun, Launched, Carried, Reversed, Settled, StepPc
<1>6. LaunchQueued'
  <2>1. ASSUME NEW d \in Executions, pc'[d] = "safetyChecked"
        PROVE  /\ executions'[d].status = "pending" /\ executions'[d].error = None
               /\ \E i \in Queued' : jobs'[i] = d
    <3>1. CASE d # e
      BY <1>1, <1>4, <2>1, <3>1 DEF Inv, LaunchQueued
    <3>2. CASE d = e
      <4>1. jobs' = Append(Tail(jobs), e) /\ jobs # << >>
        BY <1>1, <1>5, <2>1, <3>2 DEF Tick, Moves, Call, Park, Fire, ExecutionPc
      <4>2. Len(jobs') \in Queued' /\ jobs'[Len(jobs')] = e
        <5>1. Tail(jobs) \in Seq(Processes)
          BY <1>3, <4>1
        <5>2. QED
          BY <1>3, <4>1, <5>1 DEF Queued
      <4>3. QED
        BY <1>1, <1>5, <2>1, <3>2, <4>2 DEF Inv, Fresh
    <3>3. QED
      BY <3>1, <3>2
  <2>2. QED
    BY <2>1 DEF LaunchQueued
<1>7. QueuedWereCalled'
  <2>1. \A j \in Queued' : jobs'[j] \in Processes
    <3>1. jobs' \in Seq(Processes)
      BY <1>1, <1>3, MovesQueue
    <3>2. QED
      BY <3>1 DEF Queued
  <2>2. \A p \in Processes : pc[p] # "idle" \/ p = e => pc'[p] # "idle"
    BY <1>1 DEF Processes
  <2>3. QED
    BY <1>4, <2>1, <2>2 DEF Inv, QueuedWereCalled
<1>8. CancelFound'
  <2>1. x.status # "none"
    BY <1>1 DEF Inv, StatusFollowsPc, StepKind, Admitted, DryRun, Launched, Carried, Reversed,
                Settled, StepPc
  <2>2. \A c \in Callers : pc[c] = "cancelFetched" => frame[c].executionId \in Executions
    BY DEF Inv, TypeOK, FramesMatch
  <2>3. QED
    BY <1>1, <1>2, <2>1, <2>2 DEF Inv, CancelFound
<1>9. LaunchFirst'
  <2>1. ASSUME NEW d \in Executions, NEW c \in Callers, NEW j \in Queued',
               pc'[d] = "safetyChecked", pc'[c] = "cancelFetched",
               jobs'[j] = c, frame'[c].executionId = d
        PROVE  \E i \in Queued' : i < j /\ jobs'[i] = d
    <3>1. pc[c] = "cancelFetched" /\ frame[c].executionId = d
      BY <1>1, <1>2, <2>1
    <3>2. d # e
      BY <1>1, <1>5, <2>1, <3>1 DEF Inv, CancelFound, Fresh
    <3>3. pc[d] = "safetyChecked"
      BY <1>1, <2>1, <3>2
    <3>4. PICK k \in Queued :
            /\ jobs[k] = jobs'[j]
            /\ \A i \in Queued : i < k /\ jobs[i] # e =>
                 \E m \in Queued' : m < j /\ jobs'[m] = jobs[i]
      BY <1>3, <1>4, <2>1
    <3>5. PICK i \in Queued : i < k /\ jobs[i] = d
      BY <2>1, <3>1, <3>3, <3>4 DEF Inv, LaunchFirst
    <3>6. QED
      BY <3>2, <3>4, <3>5
  <2>2. QED
    BY <2>1 DEF LaunchFirst
<1>10. QED
  BY <1>6, <1>7, <1>8, <1>9

\* The conjuncts of Inv about emergencyStop: an execution that has started
\* does not start again.
LEMMA ExecutionKeepsStops ==
  ASSUME Inv, NEW e \in Executions, ExecutionJob(e) \/ Timer(e)
  PROVE  StopProgress' /\ StopEffective'
<1>1. PICK at \in ExecutionPc \ {"idle"}, x \in Execution :
        /\ StepKind(e, at, x) /\ Moves(e, at)
        /\ \A d \in Executions : /\ executions'[d] = IF d = e THEN x ELSE executions[d]
                                 /\ pc'[d] = IF d = e THEN at ELSE pc[d]
        /\ \A c \in Callers : pc'[c] = pc[c]
  BY ExecutionEffect DEF Inv
<1>2. frame' = frame
  BY ExecutionEffect DEF Inv
<1>3. pc[e] \in RunningPc \union {"done"} =>
        /\ at \in RunningPc \union {"done"}
        /\ executions[e].status # "executing" => x.status # "executing"
  BY <1>1 DEF StepKind, Admitted, DryRun, Launched, Carried, Reversed, Settled,
              RunningPc, StepPc, UndoPc
<1>4. \A d \in Executions :
        pc[d] \in RunningPc \union {"done"} =>
          /\ pc'[d] \in RunningPc \union {"done"}
          /\ executions[d].status # "executing" => executions'[d].status # "executing"
  BY <1>1, <1>3
<1>5. \A c \in Callers : Stopping(c) => \A d \in frame[c].snapshot :
        d \in Executions /\ pc[d] \in RunningPc \union {"done"}
  BY DEF Inv, StopProgress, StopFrames
<1>6. \A c \in Callers : Stopping(c)' <=> Stopping(c)
  BY <1>1, <1>2 DEF Stopping
<1>7. StopProgress'
  BY <1>1, <1>2, <1>4, <1>5, <1>6 DEF Inv, StopProgress, Stopping, StopPc
<1>8. StopEffective'
  BY <1>1, <1>2, <1>4, <1>5 DEF Inv, StopEffective, Stopping, StopPc
<1>9. QED
  BY <1>7, <1>8

\* The strengthened invariant survives every step of an execution or its timers.
LEMMA ExecutionKeepsInv ==
  ASSUME Inv, NEW e \in Executions, ExecutionJob(e) \/ Timer(e)
  PROVE  Inv'
BY ExecutionKeepsType, ExecutionKeepsRecords, ExecutionKeepsQueue, ExecutionKeepsStops DEF Inv

(***************************************************************************)
(* A step of any other call keeps the invariant.                           *)
(***************************************************************************)

\* What a caller's job may do to the executions: nothing, or cancel the one it
\* has come to.
Cancels(c) ==
  \/ UNCHANGED <<executions, activeExecutions>>
  \/ /\ pc[c] \in {"cancelFetched", "stopFetched"}
     /\ CanCancel(frame[c].executionId)
     /\ CancelEffect(frame[c].executionId)

\* Seen from the maps: only c moves, and at most one record changes.
LEMMA CallerEffect ==
  ASSUME Inv, NEW c \in Callers, CallerJob(c)
  PROVE  /\ Cancels(c)
         /\ \E at \in CallerPc \ {"idle", "cancelFetched"} :
              /\ Moves(c, at)
              /\ at \in StopPc \union {"stopReturned"} <=> pc[c] \in StopPc
              /\ pc[c] # "idle"
              /\ pc' = [pc EXCEPT ![c] = at]
         /\ \A d \in Executions : pc'[d] = pc[d]
         /\ \A b \in Callers \ {c} : pc'[b] = pc[b] /\ frame'[b] = frame[b]
<1>1. Cancels(c)
  BY DEF CallerJob, UpdateFetched, UpdateValidated, DeleteFetched, CancelFetched,
         StopFetched, StopAudited, StopResumed, Resume, Cancels
<1>2. PICK at \in CallerPc \ {"idle", "cancelFetched"} :
        /\ Moves(c, at)
        /\ at \in StopPc \union {"stopReturned"} <=> pc[c] \in StopPc
        /\ pc[c] # "idle"
  BY CallerStepShape DEF Inv
<1>3. pc' = [pc EXCEPT ![c] = at]
  BY <1>2, CallerMoves, TypeParts DEF Inv
<1>4. \A p \in Processes : p # c => pc'[p] = pc[p] /\ frame'[p] = frame[p]
  BY <1>3, CallerStepShape DEF Inv, TypeOK
<1>5. c \notin Executions /\ Executions \subseteq Processes /\ Callers \subseteq Processes
  BY ProcessesAreDistinct DEF Processes
<1>6. QED
  BY <1>1, <1>2, <1>3, <1>4, <1>5

\* The cancellation a caller makes, seen from the maps.  It finds a run in
\* flight or a record at rest, never one about to start.
LEMMA CancelEffectOnMaps ==
  ASSUME Inv, NEW c \in Callers, NEW p \in {"cancelFetched", "stopFetched"}, pc[c] = p,
         jobs # << >>, Head(jobs) = c,
         CanCancel(frame[c].executionId), CancelEffect(frame[c].executionId)
  PROVE  \E e \in Executions :
           /\ e = frame[c].executionId
           /\ executions[e].status \in {"pending", "executing"}
           /\ pc[e] \in StepPc \union {"done", "refused"}
           /\ executions'[e].status = "cancelled" /\ executions'[e].error = "cancelled"
           /\ \A d \in Executions \ {e} : executions'[d] = executions[d]
           /\ activeExecutions' = activeExecutions \ {e}
<1> DEFINE e == frame[c].executionId
<1>1. e \in Executions
  BY DEF Inv, TypeOK, FramesMatch, StopPc, StopFrames
<1>2. executions[e].status \in {"pending", "executing"}
  BY <1>1 DEF Inv, TypeOK, Execution, Status, CanCancel, Cancellable
<1>3. pc[e] # "safetyChecked"
  <2>1. CASE p = "cancelFetched"
    <3>1. 1 \in Queued /\ jobs[1] = c
      BY DEF Inv, TypeOK, Queued
    <3>2. ASSUME NEW i \in Queued PROVE ~(i < 1)
      BY DEF Queued
    <3>3. QED
      BY <1>1, <2>1, <3>1, <3>2 DEF Inv, LaunchFirst
  <2>2. CASE p = "stopFetched"
    BY <2>2 DEF Inv, StopProgress, Stopping, StopPc, RunningPc, StepPc, UndoPc
  <2>3. QED
    BY <2>1, <2>2
<1>4. pc[e] \in StepPc \union {"done", "refused"}
  BY <1>1, <1>2, <1>3 DEF Inv, TypeOK, Fresh, StatusFollowsPc, ExecutionPc, RunningPc, UndoPc
<1>5. /\ executions'[e].status = "cancelled" /\ executions'[e].error = "cancelled"
      /\ \A d \in Executions \ {e} : executions'[d] = executions[d]
  <2>1. executions[e] \in Execution
    BY <1>1 DEF Inv, TypeOK
  <2>2. LET y == [executions[e] EXCEPT !.status = "cancelled", !.error = "cancelled"]
        IN y.status = "cancelled" /\ y.error = "cancelled"
    BY <2>1 DEF Execution
  <2>3. QED
    BY <1>1, <2>2 DEF Inv, TypeOK, CancelEffect, Put
<1>6. QED
  BY <1>1, <1>2, <1>4, <1>5 DEF CancelEffect

\* So a caller's job cancels a set of executions, empty or one, none of which
\* is about to start.
LEMMA CallerCancels ==
  ASSUME Inv, NEW c \in Callers, CallerJob(c)
  PROVE  \E S \in SUBSET Executions :
           /\ \A d \in S : /\ pc[d] \in StepPc \union {"done", "refused"}
                           /\ executions'[d].status = "cancelled"
                           /\ executions'[d].error = "cancelled"
           /\ \A d \in Executions \ S : executions'[d] = executions[d]
           /\ activeExecutions' = activeExecutions \ S
<1>1. CASE UNCHANGED <<executions, activeExecutions>>
  <2>1. {} \in SUBSET Executions /\ activeExecutions' = activeExecutions \ {}
    BY <1>1
  <2>2. QED
    BY <1>1, <2>1
<1>2. CASE /\ pc[c] \in {"cancelFetched", "stopFetched"}
           /\ CanCancel(frame[c].executionId) /\ CancelEffect(frame[c].executionId)
  <2>1. jobs # << >> /\ Head(jobs) = c
    BY DEF CallerJob, UpdateFetched, UpdateValidated, DeleteFetched, CancelFetched,
           StopFetched, StopAudited, StopResumed, Resume
  <2>2. PICK e \in Executions :
          /\ pc[e] \in StepPc \union {"done", "refused"}
          /\ executions'[e].status = "cancelled" /\ executions'[e].error = "cancelled"
          /\ \A d \in Executions \ {e} : executions'[d] = executions[d]
          /\ activeExecutions' = activeExecutions \ {e}
    BY <1>2, <2>1, CancelEffectOnMaps
  <2>3. {e} \in SUBSET Executions
    OBVIOUS
  <2>4. QED
    BY <2>2, <2>3
<1>3. QED
  BY <1>1, <1>2, CallerEffect DEF Cancels

\* A caller's job disturbs records and registry only by cancelling, both at once.
LEMMA CallerKeepsRecords ==
  ASSUME Inv, NEW c \in Callers, CallerJob(c)
  PROVE  Fresh' /\ StatusFollowsPc' /\ RegistryAccurate' /\ CancelFound'
<1>1. PICK S \in SUBSET Executions :
        /\ \A d \in S : /\ pc[d] \in StepPc \union {"done", "refused"}
                        /\ executions'[d].status = "cancelled"
                        /\ executions'[d].error = "cancelled"
        /\ \A d \in Executions \ S : executions'[d] = executions[d]
        /\ activeExecutions' = activeExecutions \ S
  BY CallerCancels
<1>2. \A d \in Executions : pc'[d] = pc[d]
  BY CallerEffect
<1>3. Fresh'
  BY <1>1, <1>2 DEF Inv, Fresh, StepPc
<1>4. StatusFollowsPc'
  BY <1>1, <1>2 DEF Inv, StatusFollowsPc, StepPc
<1>5. RegistryAccurate'
  BY <1>1, <1>2 DEF Inv, RegistryAccurate
<1>6. CancelFound'
  <2>1. ASSUME NEW b \in Callers, pc'[b] = "cancelFetched"
        PROVE  executions'[frame'[b].executionId].status # "none"
    <3>1. b # c
      BY <2>1, CallerEffect DEF Inv, TypeOK, Processes
    <3>2. pc[b] = "cancelFetched" /\ frame'[b] = frame[b]
      BY <2>1, <3>1, CallerEffect
    <3>3. frame[b].executionId \in Executions
      BY <3>2 DEF Inv, TypeOK, FramesMatch
    <3>4. QED
      BY <1>1, <3>2, <3>3 DEF Inv, CancelFound
  <2>2. QED
    BY <2>1 DEF CancelFound
<1>7. QED
  BY <1>3, <1>4, <1>5, <1>6

\* A caller's job keeps launches queued ahead of the cancellations called later.
LEMMA CallerKeepsQueue ==
  ASSUME Inv, NEW c \in Callers, CallerJob(c)
  PROVE  LaunchQueued' /\ QueuedWereCalled' /\ LaunchFirst'
<1>1. PICK at \in CallerPc \ {"idle", "cancelFetched"} :
        Moves(c, at) /\ pc[c] # "idle" /\ pc' = [pc EXCEPT ![c] = at]
  BY CallerEffect
<1>2. c \in Processes /\ c \notin Executions /\ jobs \in Seq(Processes)
  BY ProcessesAreDistinct DEF Processes, Inv, TypeOK
<1>3. /\ \A i \in Queued : jobs[i] # c => \E k \in Queued' : jobs'[k] = jobs[i]
      /\ \A j \in Queued' :
           \/ jobs'[j] = c
           \/ \E k \in Queued :
                /\ jobs[k] = jobs'[j]
                /\ \A i \in Queued :
                     i < k /\ jobs[i] # c =>
                       \E m \in Queued' : m < j /\ jobs'[m] = jobs[i]
  BY <1>1, <1>2, QueueKeepsOrder
<1>4. \A d \in Executions : pc'[d] = pc[d]
  BY CallerEffect
<1>5. LaunchQueued'
  <2>1. ASSUME NEW d \in Executions, pc[d] = "safetyChecked"
        PROVE  executions'[d] = executions[d]
    BY <2>1, CallerCancels DEF StepPc
  <2>2. QED
    BY <1>2, <1>3, <1>4, <2>1 DEF Inv, LaunchQueued
<1>6. QueuedWereCalled'
  <2>1. \A j \in Queued' : jobs'[j] \in Processes
    <3>1. jobs' \in Seq(Processes)
      BY <1>1, <1>2, MovesQueue
    <3>2. QED
      BY <3>1 DEF Queued
  <2>2. \A p \in Processes : pc[p] # "idle" => pc'[p] # "idle"
    BY <1>1 DEF Inv, TypeOK
  <2>3. QED
    BY <1>1, <1>3, <2>1, <2>2 DEF Inv, QueuedWereCalled
<1>7. LaunchFirst'
  <2>1. ASSUME NEW d \in Executions, NEW b \in Callers, NEW j \in Queued',
               pc'[d] = "safetyChecked", pc'[b] = "cancelFetched",
               jobs'[j] = b, frame'[b].executionId = d
        PROVE  \E i \in Queued' : i < j /\ jobs'[i] = d
    <3>1. b # c
      BY <1>1, <2>1 DEF Inv, TypeOK, Processes
    <3>2. pc[b] = "cancelFetched" /\ frame[b].executionId = d /\ pc[d] = "safetyChecked"
      BY <1>4, <2>1, <3>1, CallerEffect
    <3>3. PICK k \in Queued :
            /\ jobs[k] = jobs'[j]
            /\ \A i \in Queued : i < k /\ jobs[i] # c =>
                 \E m \in Queued' : m < j /\ jobs'[m] = jobs[i]
      BY <1>3, <2>1, <3>1
    <3>4. PICK i \in Queued : i < k /\ jobs[i] = d
      BY <2>1, <3>2, <3>3 DEF Inv, LaunchFirst
    <3>5. QED
      BY <1>2, <3>3, <3>4
  <2>2. QED
    BY <2>1 DEF LaunchFirst
<1>8. QED
  BY <1>5, <1>6, <1>7

\* emergencyStop keeps account of what it has dealt with, whatever the caller
\* that moves.
LEMMA CallerKeepsStops ==
  ASSUME Inv, NEW c \in Callers, CallerJob(c)
  PROVE  StopProgress' /\ StopEffective'
<1>1. PICK S \in SUBSET Executions :
        /\ \A d \in S : executions'[d].status = "cancelled"
        /\ \A d \in Executions \ S : executions'[d] = executions[d]
  BY CallerCancels
<1>2. \A d \in Executions : /\ pc'[d] = pc[d]
                            /\ executions[d].status # "executing" => executions'[d].status # "executing"
  BY <1>1, CallerEffect
<1>3. \A b \in Callers \ {c} : pc'[b] = pc[b] /\ frame'[b] = frame[b]
  BY CallerEffect
<1>4. PICK at \in CallerPc \ {"idle", "cancelFetched"} :
        /\ at \in StopPc \union {"stopReturned"} <=> pc[c] \in StopPc
        /\ pc'[c] = at
  <2>1. c \in Processes
    BY DEF Processes
  <2>2. QED
    BY <2>1, CallerEffect DEF Inv, TypeOK
\* What has to hold of a caller b; StopProgress and StopEffective for b.
<1> DEFINE
      Held(b, loc, f, x, p) ==
        /\ f \in StopFrames /\ f.executionId \in f.snapshot /\ f.todo \subseteq f.snapshot
        /\ \A e \in f.snapshot : p[e] \in RunningPc \union {"done"}
        /\ loc = "stopFetched" =>
             \A e \in f.snapshot \ (f.todo \union {f.executionId}) : x[e].status # "executing"
        /\ loc # "stopFetched" =>
             \A e \in f.snapshot \ f.todo : x[e].status # "executing"
<1>5. \A b \in Callers : Stopping(b) => Held(b, pc[b], frame[b], executions, pc)
  BY NoneIsNoFrame DEF Frame, Inv, StopProgress, StopEffective, Stopping, StopPc
<1>6. ASSUME NEW b \in Callers \ {c}, Stopping(b)'
      PROVE  Held(b, pc'[b], frame'[b], executions', pc')
  <2>1. pc'[b] = pc[b] /\ frame'[b] = frame[b] /\ Stopping(b)
    BY <1>3, <1>6 DEF Stopping
  <2>2. Held(b, pc[b], frame[b], executions, pc)
    BY <1>5, <2>1
  <2>3. frame[b].snapshot \subseteq Executions
    BY <2>2 DEF StopFrames
  <2>4. QED
    BY <1>2, <2>1, <2>2, <2>3
<1>7. ASSUME Stopping(c)'
      PROVE  Held(c, pc'[c], frame'[c], executions', pc')
  <2>1. pc[c] \in StopPc
    BY <1>4, <1>7 DEF Stopping
  <2>2. Held(c, pc[c], frame[c], executions, pc)
    BY <1>5, <2>1 DEF Stopping
  <2>3. StopFetched(c) \/ StopAudited(c) \/ StopResumed(c)
    BY <2>1 DEF CallerJob, UpdateFetched, UpdateValidated, DeleteFetched, CancelFetched, Resume,
           StopPc
  <2>4. c \in Processes /\ frame \in [Processes -> Frame \union {None}]
    BY DEF Inv, TypeOK, Processes
  <2>5. CASE StopFetched(c)
    <3> DEFINE e == frame[c].executionId
    <3>1. pc[c] = "stopFetched" /\ frame' = frame /\ pc'[c] # "stopFetched" /\ e \in Executions
      BY <2>2, <2>4, <2>5 DEF StopFetched, Resume, Tick, Inv, TypeOK, StopFrames
    <3>2. executions'[e].status # "executing"
      <4>1. CASE CanCancel(e) /\ CancelEffect(e)
        BY <3>1, <4>1 DEF CancelEffect, Put, Inv, TypeOK, Execution
      <4>2. CASE ~CanCancel(e) /\ UNCHANGED executions
        BY <4>2 DEF CanCancel, Cancellable
      <4>3. QED
        BY <2>5, <4>1, <4>2 DEF StopFetched
    <3>3. QED
      BY <1>2, <2>2, <3>1, <3>2 DEF StopFrames
  <2>6. CASE StopAudited(c)
    <3>1. pc[c] # "stopFetched" /\ pc'[c] # "stopFetched" /\ frame' = frame
      BY <2>4, <2>6 DEF StopAudited, Resume, Tick, Inv, TypeOK
    <3>2. QED
      BY <1>2, <2>2, <3>1 DEF StopFrames
  <2>7. CASE StopResumed(c)
    <3>1. pc[c] = "stopResumed"
      BY <2>7 DEF StopResumed, Resume
    <3>2. CASE Park(c, "stopReturned") /\ UNCHANGED frame
      <4>1. pc'[c] = "stopReturned"
        BY <2>4, <3>2 DEF Park, Inv, TypeOK
      <4>2. QED
        BY <1>2, <2>2, <3>1, <3>2, <4>1 DEF StopFrames
    <3>3. ASSUME NEW e \in frame[c].todo,
                 frame' = [frame EXCEPT ![c] = StopFrame(e, frame[c].snapshot, frame[c].todo \ {e})],
                 Tick(c, "stopFetched")
          PROVE  Held(c, pc'[c], frame'[c], executions', pc')
      <4>1. pc'[c] = "stopFetched"
        BY <2>4, <3>3 DEF Tick, Inv, TypeOK
      <4>2. /\ frame'[c].executionId = e /\ frame'[c].snapshot = frame[c].snapshot
            /\ frame'[c].todo = frame[c].todo \ {e}
            /\ frame'[c] = StopFrame(e, frame[c].snapshot, frame[c].todo \ {e})
        BY <2>4, <3>3 DEF StopFrame
      <4>3. frame'[c] \in StopFrames
        BY <2>2, <3>3, <4>2 DEF StopFrame, StopFrames
      <4>4. QED
        BY <1>2, <2>2, <3>1, <3>3, <4>1, <4>2, <4>3 DEF StopFrames
    <3>4. QED
      BY <2>7, <3>2, <3>3 DEF StopResumed
  <2>8. QED
    BY <2>3, <2>5, <2>6, <2>7
<1>8. \A b \in Callers : pc'[b] = "idle" => frame'[b] = None
  BY <1>3, <1>4 DEF Inv, StopProgress
<1>9. StopProgress'
  BY <1>6, <1>7, <1>8 DEF StopProgress, Stopping, StopPc
<1>10. StopEffective'
  BY <1>6, <1>7 DEF StopEffective, Stopping, StopPc
<1>11. QED
  BY <1>9, <1>10

\* A job of a caller keeps the invariant.
LEMMA CallerKeepsInv ==
  ASSUME Inv, NEW c \in Callers, CallerJob(c)
  PROVE  Inv'
BY CallerKeepsType, CallerKeepsRecords, CallerKeepsQueue, CallerKeepsStops DEF Inv

(***************************************************************************)
(* A client's call keeps the invariant.                                    *)
(***************************************************************************)

\* An activation that joins the queue leaves the queue's order alone.
LEMMA CallKeepsQueue ==
  ASSUME Inv, NEW p \in Processes, NEW at, at # "idle", at # "safetyChecked", Call(p, at),
         executions' = executions, \A q \in Processes \ {p} : frame'[q] = frame[q],
         p \in Callers /\ at = "cancelFetched" =>
           executions[frame'[p].executionId].status # "none"
  PROVE  LaunchQueued' /\ QueuedWereCalled' /\ LaunchFirst' /\ CancelFound'
<1>1. /\ Queued' = 1..(Len(jobs) + 1)
      /\ \A i \in Queued : jobs'[i] = jobs[i] /\ i \in Queued' /\ jobs[i] \in Processes
      /\ jobs'[Len(jobs) + 1] = p
      /\ \A j \in Queued' : j \in Queued \/ j = Len(jobs) + 1
      /\ \A i \in Queued : i < Len(jobs) + 1
  BY DEF Inv, TypeOK, Call, Queued
<1>2. \A q \in Processes : pc'[q] = IF q = p THEN at ELSE pc[q]
  BY DEF Inv, TypeOK, Call
<1>3. pc[p] = "idle"
  BY DEF Call
<1>4. Executions \subseteq Processes /\ Callers \subseteq Processes
  BY DEF Processes
<1>5. LaunchQueued'
  <2>1. \A d \in Executions : pc'[d] = "safetyChecked" => pc[d] = "safetyChecked"
    BY <1>2, <1>4
  <2>2. QED
    BY <1>1, <2>1 DEF Inv, LaunchQueued
<1>6. QueuedWereCalled'
  BY <1>1, <1>2 DEF Inv, QueuedWereCalled
<1>7. CancelFound'
  BY <1>2, <1>4 DEF Inv, CancelFound
<1>8. LaunchFirst'
  <2>1. ASSUME NEW d \in Executions, NEW b \in Callers, NEW j \in Queued',
               pc'[d] = "safetyChecked", pc'[b] = "cancelFetched",
               jobs'[j] = b, frame'[b].executionId = d
        PROVE  \E i \in Queued' : i < j /\ jobs'[i] = d
    <3>1. pc[d] = "safetyChecked"
      BY <1>2, <1>4, <2>1
    <3>2. CASE j = Len(jobs) + 1
      BY <1>1, <3>1, <3>2 DEF Inv, LaunchQueued
    <3>3. CASE j \in Queued
      <4>1. b # p
        BY <1>1, <1>3, <2>1, <3>3 DEF Inv, QueuedWereCalled
      <4>2. pc[b] = "cancelFetched" /\ frame[b].executionId = d /\ jobs[j] = b
        BY <1>1, <1>2, <1>4, <2>1, <3>3, <4>1
      <4>3. PICK i \in Queued : i < j /\ jobs[i] = d
        BY <3>1, <3>3, <4>2 DEF Inv, LaunchFirst
      <4>4. QED
        BY <1>1, <4>3
    <3>4. QED
      BY <1>1, <3>2, <3>3
  <2>2. QED
    BY <2>1 DEF LaunchFirst
<1>9. QED
  BY <1>5, <1>6, <1>7, <1>8

\* The call of executeRecipe.
LEMMA ExecuteKeepsInv ==
  ASSUME Inv, NEW e \in Executions, NEW r \in Recipes, NEW q \in Requests,
         ExecuteRecipe(e, r, q), TypeOK'
  PROVE  Inv'
<1>1. Call(e, "recipeFetched") /\ e \in Processes /\ e \notin Callers
  BY ProcessesAreDistinct DEF ExecuteRecipe, Processes
<1>2. UNCHANGED <<executions, activeExecutions>>
  BY DEF ExecuteRecipe
<1>3. \A p \in Processes \ {e} : frame'[p] = frame[p] /\ pc'[p] = pc[p]
  BY <1>1 DEF ExecuteRecipe, Call, Inv, TypeOK
<1>4. pc[e] = "idle" /\ pc'[e] = "recipeFetched"
  BY <1>1 DEF Call, Inv, TypeOK
<1>5. LaunchQueued' /\ QueuedWereCalled' /\ LaunchFirst' /\ CancelFound'
  BY <1>1, <1>2, <1>3, CallKeepsQueue
<1>6. Fresh' /\ StatusFollowsPc' /\ RegistryAccurate'
  BY <1>2, <1>3, <1>4 DEF Inv, Processes, Fresh, StatusFollowsPc, RegistryAccurate,
                           RunningPc, StepPc, UndoPc
<1>7. \A c \in Callers : frame'[c] = frame[c] /\ pc'[c] = pc[c]
  BY <1>1, <1>3 DEF Processes
<1>8. StopEffective'
  BY <1>2, <1>7 DEF Inv, StopEffective
<1>9. \A d \in Executions : pc[d] \in RunningPc \union {"done"} => pc'[d] = pc[d]
  BY <1>3, <1>4 DEF Processes, RunningPc, StepPc, UndoPc
<1>10. StopProgress'
  <2>1. \A c \in Callers : Stopping(c) =>
          \A d \in frame[c].snapshot : pc'[d] \in RunningPc \union {"done"}
    BY <1>9 DEF Inv, StopProgress, StopFrames
  <2>2. \A c \in Callers : Stopping(c)' <=> Stopping(c)
    BY <1>7 DEF Stopping
  <2>3. QED
    BY <1>2, <1>7, <2>1, <2>2 DEF Inv, StopProgress
<1>11. QED
  BY <1>5, <1>6, <1>8, <1>10 DEF Inv

\* The call of any other method, with the locals f it starts from.
LEMMA CalledKeepsInv ==
  ASSUME Inv, TypeOK', NEW c \in Callers, NEW f,
         NEW at \in {"updateFetched", "deleteFetched", "cancelFetched", "stopFetched"},
         Call(c, at), frame' = [frame EXCEPT ![c] = f],
         UNCHANGED <<executions, activeExecutions>>,
         at = "cancelFetched" => executions[f.executionId].status # "none",
         at = "stopFetched" => \E e \in activeExecutions :
           f = StopFrame(e, activeExecutions, activeExecutions \ {e})
  PROVE  Inv'
<1>1. c \in Processes /\ c \notin Executions
  BY ProcessesAreDistinct DEF Processes
<1>2. /\ \A p \in Processes \ {c} : frame'[p] = frame[p] /\ pc'[p] = pc[p]
      /\ pc'[c] = at /\ frame'[c] = f
  BY <1>1 DEF Call, Inv, TypeOK
<1>3. \A d \in Executions : pc'[d] = pc[d]
  BY <1>1, <1>2 DEF Processes
<1>4. LaunchQueued' /\ QueuedWereCalled' /\ LaunchFirst' /\ CancelFound'
  BY <1>1, <1>2, CallKeepsQueue
<1>5. Fresh' /\ StatusFollowsPc' /\ RegistryAccurate'
  BY <1>3 DEF Inv, Fresh, StatusFollowsPc, RegistryAccurate
<1>6. \A b \in Callers \ {c} : frame'[b] = frame[b] /\ pc'[b] = pc[b]
  BY <1>2 DEF Processes
<1>7. StopEffective'
  BY <1>2, <1>6 DEF Inv, StopEffective
<1>8. at = "stopFetched" =>
        /\ f \in StopFrames /\ f.executionId \in f.snapshot /\ f.todo \subseteq f.snapshot
        /\ f.snapshot = activeExecutions
        /\ f.snapshot \ (f.todo \union {f.executionId}) = {}
  BY DEF StopFrame, StopFrames, Inv, TypeOK
<1>9. \A d \in activeExecutions : pc[d] \in RunningPc
  BY DEF Inv, RegistryAccurate, TypeOK
<1>10. StopProgress'
  <2>1. \A b \in Callers \ {c} : Stopping(b)' <=> Stopping(b)
    BY <1>6 DEF Stopping
  <2>2. \A b \in Callers \ {c} : Stopping(b) =>
          \A d \in frame[b].snapshot : pc'[d] \in RunningPc \union {"done"}
    BY <1>3 DEF Inv, StopProgress, StopFrames
  <2>3. Stopping(c)' => at = "stopFetched"
    BY <1>2 DEF Stopping, StopPc
  <2>4. at = "stopFetched" => \A d \in f.snapshot : pc'[d] \in RunningPc \union {"done"}
    BY <1>3, <1>8, <1>9 DEF Inv, TypeOK
  <2>5. ASSUME NEW b \in Callers
        PROVE  /\ pc'[b] = "idle" => frame'[b] = None
               /\ Stopping(b)' =>
                    /\ frame'[b] \in StopFrames
                    /\ frame'[b].executionId \in frame'[b].snapshot
                    /\ frame'[b].todo \subseteq frame'[b].snapshot
                    /\ \A d \in frame'[b].snapshot : pc'[d] \in RunningPc \union {"done"}
               /\ pc'[b] = "stopFetched" =>
                    \A d \in frame'[b].snapshot \ (frame'[b].todo \union {frame'[b].executionId}) :
                      executions'[d].status # "executing"
    <3>1. CASE b = c
      BY <1>2, <1>8, <2>3, <2>4, <3>1
    <3>2. CASE b # c
      BY <1>6, <2>1, <2>2, <3>2 DEF Inv, StopProgress
    <3>3. QED
      BY <3>1, <3>2
  <2>6. QED
    BY <2>5 DEF StopProgress
<1>11. QED
  BY <1>4, <1>5, <1>7, <1>10 DEF Inv

\* Any call of a client.
LEMMA ClientCallKeepsInv ==
  ASSUME Inv, ClientCall
  PROVE  Inv'
<1>0. TypeOK'
  BY CallKeepsType DEF Inv
<1>1. ASSUME UNCHANGED <<executions, activeExecutions, pc, frame, jobs>> PROVE Inv'
  BY <1>0, <1>1 DEF Inv, Fresh, LaunchQueued, StatusFollowsPc, QueuedWereCalled, CancelFound,
       LaunchFirst, RegistryAccurate, StopProgress, StopEffective, Stopping, Queued
<1>2. ASSUME NEW r \in Recipes, NEW d \in NewRecipes, CreateRecipe(r, d) PROVE Inv'
  BY <1>1, <1>2 DEF CreateRecipe
<1>3. ASSUME NEW e \in Executions, NEW r \in Recipes, NEW q \in Requests, ExecuteRecipe(e, r, q)
      PROVE  Inv'
  BY <1>0, <1>3, ExecuteKeepsInv
<1>4. ASSUME NEW c \in Callers, NEW r \in Recipes, NEW u \in Updates, UpdateRecipe(c, r, u)
      PROVE  Inv'
  BY <1>0, <1>4, CalledKeepsInv DEF UpdateRecipe
<1>5. ASSUME NEW c \in Callers, NEW r \in Recipes, DeleteRecipe(c, r) PROVE Inv'
  BY <1>0, <1>5, CalledKeepsInv DEF DeleteRecipe
<1>6. ASSUME NEW c \in Callers, NEW e \in Executions, CancelExecution(c, e) PROVE Inv'
  BY <1>0, <1>6, CalledKeepsInv DEF CancelExecution
<1>7. ASSUME NEW c \in Callers, EmergencyStop(c) PROVE Inv'
  <2>1. ASSUME NEW e \in activeExecutions,
               frame' = [frame EXCEPT ![c] = StopFrame(e, activeExecutions, activeExecutions \ {e})],
               Call(c, "stopFetched")
        PROVE  Inv'
    BY <1>0, <1>7, <2>1, CalledKeepsInv DEF EmergencyStop
  <2>2. CASE /\ pc[c] = "idle" /\ pc' = [pc EXCEPT ![c] = "stopReturned"]
             /\ UNCHANGED <<frame, jobs>>
    <3>1. UNCHANGED <<executions, activeExecutions>>
      BY <1>7 DEF EmergencyStop
    <3>2. /\ \A p \in Processes : pc'[p] = IF p = c THEN "stopReturned" ELSE pc[p]
          /\ c \in Processes /\ c \notin Executions /\ frame[c] = None
      BY <2>2, ProcessesAreDistinct DEF Processes, Inv, TypeOK, StopProgress
    <3>3. \A d \in Executions : pc'[d] = pc[d]
      BY <3>2 DEF Processes
    <3>4. \A b \in Callers : b # c => pc'[b] = pc[b]
      BY <3>2 DEF Processes
    <3>5. Fresh' /\ StatusFollowsPc' /\ RegistryAccurate'
      BY <3>1, <3>3 DEF Inv, Fresh, StatusFollowsPc, RegistryAccurate
    <3>6. LaunchQueued'
      BY <2>2, <3>1, <3>3 DEF Inv, LaunchQueued, Queued
    <3>7. QueuedWereCalled'
      BY <2>2, <3>2 DEF Inv, TypeOK, QueuedWereCalled, Queued
    <3>8. CancelFound' /\ LaunchFirst'
      BY <2>2, <3>1, <3>2, <3>3, <3>4 DEF Inv, CancelFound, LaunchFirst, Queued
    <3>9. \A b \in Callers : b # c => (Stopping(b)' <=> Stopping(b))
      BY <2>2, <3>4 DEF Stopping
    <3>10. ~Stopping(c)' /\ pc'[c] = "stopReturned"
      BY <2>2, <3>2 DEF Stopping, StopPc
    <3>11. \A b \in Callers : Stopping(b) =>
             \A d \in frame[b].snapshot : pc'[d] = pc[d]
      BY <3>3 DEF Inv, StopProgress, StopFrames
    <3>12. StopProgress'
      BY <2>2, <3>1, <3>4, <3>9, <3>10, <3>11 DEF Inv, StopProgress
    <3>13. StopEffective'
      BY <2>2, <3>1, <3>2, <3>4 DEF Inv, StopEffective
    <3>14. QED
      BY <1>0, <3>5, <3>6, <3>7, <3>8, <3>12, <3>13 DEF Inv
  <2>3. QED
    BY <1>7, <2>1, <2>2 DEF EmergencyStop, StopSnapshot
<1>8. QED
  BY <1>2, <1>3, <1>4, <1>5, <1>6, <1>7 DEF ClientCall

(***************************************************************************)
(* The theorems.                                                           *)
(***************************************************************************)

\* The service starts with no record, nothing queued and nothing to stop.
LEMMA InitInv == Init => Inv
<1> SUFFICES ASSUME Init PROVE Inv
  OBVIOUS
<1>1. TypeOK
  BY InitTypeOK
<1>2. /\ \A p \in Processes : pc[p] = "idle" /\ frame[p] = None
      /\ \A e \in Executions : executions[e] = NoExecution
      /\ activeExecutions = {} /\ jobs = << >>
  BY DEF Init
<1>3. Executions \subseteq Processes /\ Callers \subseteq Processes /\ Queued = {}
  BY <1>2 DEF Processes, Queued
<1>4. Fresh /\ LaunchQueued /\ StatusFollowsPc
  BY <1>2, <1>3 DEF Fresh, LaunchQueued, StatusFollowsPc, NoExecution, StepPc
<1>5. QueuedWereCalled /\ CancelFound /\ LaunchFirst
  BY <1>2, <1>3 DEF QueuedWereCalled, CancelFound, LaunchFirst
<1>6. RegistryAccurate /\ StopProgress /\ StopEffective
  BY <1>2, <1>3 DEF RegistryAccurate, StopProgress, StopEffective, Stopping,
       StopPc, RunningPc, StepPc, UndoPc
<1>7. QED
  BY <1>1, <1>4, <1>5, <1>6 DEF Inv

\* Every step keeps the inductive invariant.
LEMMA InvStep == Inv /\ [Next]_vars => Inv'
<1> SUFFICES ASSUME Inv, [Next]_vars PROVE Inv'
  OBVIOUS
<1>1. CASE UNCHANGED vars
  <2>1. TypeOK'
    BY TypeOKStep DEF Inv
  <2>2. QED
    BY <1>1, <2>1 DEF vars, Inv, Fresh, LaunchQueued, StatusFollowsPc, QueuedWereCalled,
         CancelFound, LaunchFirst, RegistryAccurate, StopProgress, StopEffective, Stopping, Queued
<1>2. CASE ClientCall
  BY <1>2, ClientCallKeepsInv
<1>3. CASE Job
  BY <1>3, ExecutionKeepsInv, CallerKeepsInv DEF Job
<1>4. CASE \E e \in Executions : Timer(e)
  BY <1>4, ExecutionKeepsInv
<1>5. QED
  BY <1>1, <1>2, <1>3, <1>4 DEF Next

\* The invariant holds in every behaviour.
THEOREM Invariance == Spec => []Inv
BY InitInv, InvStep, PTL DEF Spec

\* An execution whose safety check ends is still pending: no cancellation,
\* however many are made, overtakes startExecution in the microtask queue.
THEOREM StartedOnlyPending == Spec => []PendingUntilLaunched
<1>1. Inv => PendingUntilLaunched
  BY DEF Inv, LaunchQueued, PendingUntilLaunched
<1>2. QED
  BY <1>1, Invariance, PTL

\* activeExecutions names exactly the runs in flight that are not cancelled.
THEOREM RegistryCorrect == Spec => []RegistryAccurate
<1>1. Inv => RegistryAccurate
  BY DEF Inv
<1>2. QED
  BY <1>1, Invariance, PTL

\* emergencyStop leaves nothing of what it has dealt with executing, then or
\* later.
THEOREM StopCorrect == Spec => []StopEffective
<1>1. Inv => StopEffective
  BY DEF Inv
<1>2. QED
  BY <1>1, Invariance, PTL

\* Only an execution that is not cancelled goes to its next step.
LEMMA StepsNotCancelled ==
  ASSUME Inv, [Next]_vars, NEW e \in Executions,
         executions[e].status = "cancelled", pc[e] # "step"
  PROVE  pc'[e] # "step"
<1>1. CASE UNCHANGED vars
  BY <1>1 DEF vars
<1>2. CASE ClientCall
  <2>1. \A p \in Processes : \A at : Call(p, at) /\ p # e => pc'[e] = pc[e]
    BY DEF Call, Inv, TypeOK, Processes
  <2>2. \A at : Call(e, at) => pc[e] = "idle"
    BY DEF Call
  <2>3. pc[e] # "idle"
    BY DEF Inv, Fresh
  <2>4. \A c \in Callers : c # e /\ c \in Processes
    BY ProcessesAreDistinct DEF Processes
  <2>5. Executions \subseteq Processes
    BY DEF Processes
  <2>6. ASSUME NEW c \in Callers, EmergencyStop(c) PROVE pc'[e] = pc[e]
    <3>1. CASE pc' = [pc EXCEPT ![c] = "stopReturned"]
      BY <2>4, <2>5, <3>1 DEF Inv, TypeOK
    <3>2. QED
      BY <2>1, <2>4, <2>6, <3>1 DEF EmergencyStop
  <2>7. QED
    BY <1>2, <2>1, <2>2, <2>3, <2>4, <2>5, <2>6 DEF ClientCall, CreateRecipe, ExecuteRecipe,
         UpdateRecipe, DeleteRecipe, CancelExecution
<1>3. ASSUME NEW c \in Callers, CallerJob(c) PROVE pc'[e] = pc[e]
  BY <1>3, CallerEffect
<1>4. ASSUME NEW d \in Executions, ExecutionJob(d) \/ Timer(d) PROVE pc'[e] # "step"
  <2>1. PICK at \in ExecutionPc \ {"idle"}, x \in Execution :
          /\ StepKind(d, at, x)
          /\ \A b \in Executions : pc'[b] = IF b = d THEN at ELSE pc[b]
    BY <1>4, ExecutionEffect DEF Inv
  <2>2. d = e => at # "step"
    BY <2>1 DEF StepKind, Admitted, DryRun, Launched, Carried, Reversed, Settled,
         Inv, Fresh, LaunchQueued
  <2>3. QED
    BY <2>1, <2>2
<1>5. QED
  BY <1>1, <1>2, <1>3, <1>4 DEF Next, Job

\* A cancelled execution begins no further step.
THEOREM CancelTakesEffect == Spec => CancelStopsSteps
<1>1. Inv /\ [Next]_vars =>
        [\A e \in Executions :
           executions[e].status = "cancelled" /\ pc[e] # "step" => pc'[e] # "step"]_vars
  BY StepsNotCancelled
<1>2. QED
  BY <1>1, Invariance, PTL DEF Spec, CancelStopsSteps

(***************************************************************************)
(* The lifecycle.                                                          *)
(***************************************************************************)

\* The refinement mapping of Lifecycle.
Mapped == [e \in Executions |-> executions[e].status]

\* A step that gives one execution a status is the lifecycle's move.
LEMMA MoveMaps ==
  ASSUME TypeOK, NEW e \in Executions, NEW from, NEW to, executions[e].status \in from,
         executions'[e].status \in to,
         \A d \in Executions \ {e} : executions'[d].status = executions[d].status
  PROVE  Lifecycle!Move(e, from, to)
<1>1. Mapped' = [Mapped EXCEPT ![e] = executions'[e].status]
  BY DEF Mapped
<1>2. QED
  BY <1>1 DEF Mapped, Lifecycle!Move

\* A step of a run is a step of its lifecycle, or changes no status.
LEMMA ExecutionMaps ==
  ASSUME Inv, NEW e \in Executions, ExecutionJob(e) \/ Timer(e)
  PROVE  Lifecycle!Next \/ Mapped' = Mapped
<1>1. PICK at \in ExecutionPc \ {"idle"}, x \in Execution :
        /\ StepKind(e, at, x)
        /\ \A d \in Executions : executions'[d] = IF d = e THEN x ELSE executions[d]
  BY ExecutionEffect DEF Inv
<1> DEFINE st == executions[e].status
<1>2. ASSUME NEW from, NEW to, st \in from, x.status \in to
      PROVE  Lifecycle!Move(e, from, to)
  BY <1>1, <1>2, MoveMaps DEF Inv
<1>3. /\ pc[e] = "recipeFetched" => st = "none"
      /\ pc[e] = "safetyChecked" => st = "pending"
      /\ pc[e] \in StepPc => st \in {"executing", "cancelled"}
      /\ pc[e] = "undoFired" => st = "rolling_back"
      /\ pc[e] = "rolledBack" => st = "rolled_back"
  BY DEF Inv, Fresh, LaunchQueued, StatusFollowsPc
<1>4. CASE Admitted(e, at, x) \/ DryRun(e, at, x) \/ Launched(e, at, x)
  <2>1. \/ st = "none" /\ x.status \in {"pending", "executing", "completed"}
        \/ st = "pending" /\ x.status \in {"executing", "completed"}
    BY <1>3, <1>4 DEF Admitted, DryRun, Launched
  <2>2. Lifecycle!Admit(e) \/ Lifecycle!Start(e)
    BY <1>2, <2>1 DEF Lifecycle!Admit, Lifecycle!Start
  <2>3. QED
    BY <2>2 DEF Lifecycle!Next
<1>5. CASE Carried(e, at, x)
  BY <1>1, <1>5 DEF Carried, Mapped
<1>6. CASE Reversed(e, at, x)
  <2>1. \/ st \in {"executing", "cancelled"} /\ x.status \in {"rolling_back", "rolled_back"}
        \/ st = "rolling_back" /\ x.status = "rolled_back"
    BY <1>3, <1>6 DEF Reversed
  <2>2. Lifecycle!RollBack(e) \/ Lifecycle!UndoDone(e)
    BY <1>2, <2>1 DEF Lifecycle!RollBack, Lifecycle!UndoDone
  <2>3. QED
    BY <2>2 DEF Lifecycle!Next, Lifecycle!Progress
<1>7. CASE Settled(e, at, x)
  <2>1. \/ st \in {"executing", "cancelled"} /\ x.status \in {"completed", "failed"}
        \/ st = "rolled_back" /\ x.status = "failed"
    BY <1>3, <1>7 DEF Settled
  <2>2. Lifecycle!Settle(e)
    BY <1>2, <2>1 DEF Lifecycle!Settle
  <2>3. QED
    BY <2>2 DEF Lifecycle!Next, Lifecycle!Progress
<1>8. QED
  BY <1>1, <1>4, <1>5, <1>6, <1>7 DEF StepKind

\* A caller changes a status only by cancelling what may be cancelled.
LEMMA CallerMaps ==
  ASSUME Inv, NEW c \in Callers, CallerJob(c)
  PROVE  Lifecycle!Next \/ Mapped' = Mapped
<1>1. CASE UNCHANGED <<executions, activeExecutions>>
  BY <1>1 DEF Mapped
<1>2. CASE /\ pc[c] \in {"cancelFetched", "stopFetched"}
           /\ CanCancel(frame[c].executionId) /\ CancelEffect(frame[c].executionId)
  <2>1. jobs # << >> /\ Head(jobs) = c
    BY DEF CallerJob, UpdateFetched, UpdateValidated, DeleteFetched, CancelFetched,
           StopFetched, StopAudited, StopResumed, Resume
  <2>2. PICK e \in Executions :
          /\ executions[e].status \in {"pending", "executing"}
          /\ executions'[e].status = "cancelled"
          /\ \A d \in Executions \ {e} : executions'[d] = executions[d]
    BY <1>2, <2>1, CancelEffectOnMaps
  <2>3. Lifecycle!Cancel(e)
    BY <2>2, MoveMaps DEF Inv, Lifecycle!Cancel
  <2>4. QED
    BY <2>3 DEF Lifecycle!Next
<1>3. QED
  BY <1>1, <1>2, CallerEffect DEF Cancels

\* The statuses of the executions move as RecipeLifecycle allows: what the
\* lifecycle promises of safety, the service keeps.
THEOREM LifecycleKept == Spec => Lifecycle!Safety
<1>1. Init => Lifecycle!Init
  BY DEF Init, NoExecution, Lifecycle!Init
<1>2. Inv /\ [Next]_vars => [Lifecycle!Next]_Mapped
  <2> SUFFICES ASSUME Inv, [Next]_vars PROVE Lifecycle!Next \/ Mapped' = Mapped
    OBVIOUS
  <2>1. CASE UNCHANGED vars
    BY <2>1 DEF vars, Mapped
  <2>2. CASE ClientCall
    BY <2>2 DEF ClientCall, CreateRecipe, ExecuteRecipe, UpdateRecipe, DeleteRecipe,
         CancelExecution, EmergencyStop, Mapped
  <2>3. CASE Job
    BY <2>3, ExecutionMaps, CallerMaps DEF Job
  <2>4. CASE \E e \in Executions : Timer(e)
    BY <2>4, ExecutionMaps
  <2>5. QED
    BY <2>1, <2>2, <2>3, <2>4 DEF Next
<1>3. QED
  BY <1>1, <1>2, Invariance, PTL DEF Spec, Lifecycle!Safety, Mapped

(***************************************************************************)
(* Nobody is forgotten.                                                    *)
(***************************************************************************)

\* Where an activation waits for a call, for a timer, or for nothing more.
Parked == {"idle", "step", "undo", "done", "refused", "returned", "stopReturned"}

Has(q, p) == \E i \in DOMAIN q : q[i] = p

OnlyOnce(q) == \A i, j \in DOMAIN q : q[i] = q[j] => i = j

\* NobodyForgotten, in these terms.
LEMMA ForgottenParts ==
  NobodyForgotten <=> /\ \A p \in Processes : Has(jobs, p) <=> pc[p] \notin Parked
                      /\ OnlyOnce(jobs)
BY DEF NobodyForgotten, Parked, Has, OnlyOnce

\* Whom a queue holds once p has joined it.
LEMMA Joined ==
  ASSUME NEW S, NEW q \in Seq(S), NEW p \in S
  PROVE  /\ \A x : Has(Append(q, p), x) <=> Has(q, x) \/ x = p
         /\ OnlyOnce(q) /\ ~Has(q, p) => OnlyOnce(Append(q, p))
<1> DEFINE n == Len(q)
<1>1. /\ n \in Nat /\ DOMAIN q = 1..n /\ DOMAIN Append(q, p) = 1..(n + 1)
      /\ \A i \in 1..n : Append(q, p)[i] = q[i]
      /\ Append(q, p)[n + 1] = p
  OBVIOUS
<1>2. \A i \in 1..(n + 1) : i \in 1..n \/ i = n + 1
  BY <1>1
<1>3. (\A i \in 1..n : i \in 1..(n + 1)) /\ n + 1 \in 1..(n + 1)
  BY <1>1
<1>4. PICK r : r = Append(q, p)
  OBVIOUS
<1>5. \A x : Has(r, x) <=> Has(q, x) \/ x = p
  BY <1>1, <1>2, <1>3, <1>4 DEF Has
<1>6. OnlyOnce(q) /\ ~Has(q, p) => OnlyOnce(r)
  BY <1>1, <1>2, <1>4 DEF Has, OnlyOnce
<1>7. QED
  BY <1>4, <1>5, <1>6

\* Whom it holds once its head has left.
LEMMA HeadLeft ==
  ASSUME NEW S, NEW q \in Seq(S), q # << >>, OnlyOnce(q)
  PROVE  /\ \A x : Has(Tail(q), x) <=> Has(q, x) /\ x # Head(q)
         /\ OnlyOnce(Tail(q))
<1>1. PICK n : n = Len(q)
  OBVIOUS
<1>2. PICK r : r = Tail(q)
  OBVIOUS
<1>3. /\ n \in Nat /\ n > 0 /\ DOMAIN q = 1..n /\ DOMAIN r = 1..(n - 1)
      /\ \A i \in 1..(n - 1) : r[i] = q[i + 1]
      /\ Head(q) = q[1]
  BY <1>1, <1>2
<1>4. \A i \in 1..(n - 1) : i + 1 \in 1..n /\ i + 1 # 1
  BY <1>3
<1>5. \A i \in 1..n : i # 1 => i - 1 \in 1..(n - 1) /\ (i - 1) + 1 = i
  BY <1>3
<1>6. 1 \in 1..n
  BY <1>3
<1>7. ASSUME NEW x PROVE Has(r, x) <=> Has(q, x) /\ x # Head(q)
  <2>1. ASSUME Has(r, x) PROVE Has(q, x) /\ x # q[1]
    <3>1. PICK i \in 1..(n - 1) : r[i] = x
      BY <1>3, <2>1 DEF Has
    <3>2. q[i + 1] = x /\ i + 1 \in 1..n /\ i + 1 # 1
      BY <1>3, <1>4, <3>1
    <3>3. QED
      BY <1>3, <1>6, <3>2 DEF Has, OnlyOnce
  <2>2. ASSUME Has(q, x), x # q[1] PROVE Has(r, x)
    <3>1. PICK i \in 1..n : q[i] = x /\ i # 1
      BY <1>3, <2>2 DEF Has
    <3>2. i - 1 \in 1..(n - 1) /\ r[i - 1] = x
      BY <1>3, <1>5, <3>1
    <3>3. QED
      BY <1>3, <3>2 DEF Has
  <2>3. QED
    BY <1>3, <2>1, <2>2
<1>8. OnlyOnce(r)
  <2>1. ASSUME NEW i \in 1..(n - 1), NEW j \in 1..(n - 1), r[i] = r[j]
        PROVE  i = j
    <3>1. q[i + 1] = q[j + 1] /\ i + 1 \in 1..n /\ j + 1 \in 1..n
      BY <1>3, <1>4, <2>1
    <3>2. i + 1 = j + 1
      BY <1>3, <3>1 DEF OnlyOnce
    <3>3. QED
      BY <3>2
  <2>2. QED
    BY <1>3, <2>1 DEF OnlyOnce
<1>9. QED
  BY <1>2, <1>7, <1>8

\* One turn of the event loop: whoever goes on to wait for a microtask joins
\* the queue, and whoever has run leaves it.
Turn(p, at) ==
  \/ Call(p, at) /\ at \notin Parked
  \/ /\ jobs # << >> /\ Head(jobs) = p
     /\ \/ Tick(p, at) /\ at \notin Parked
        \/ Park(p, at) /\ at \in Parked
  \/ \E from \in {"step", "undo"} : Fire(p, from, at) /\ at \notin Parked

\* A turn keeps the queue exact.
LEMMA TurnForgetsNobody ==
  ASSUME TypeOK, NobodyForgotten, NEW p \in Processes, NEW at, Turn(p, at)
  PROVE  NobodyForgotten'
<1>1. jobs \in Seq(Processes) /\ OnlyOnce(jobs)
      /\ \A r \in Processes : Has(jobs, r) <=> pc[r] \notin Parked
  BY ForgottenParts DEF TypeOK
<1>2. \A r \in Processes : pc'[r] = IF r = p THEN at ELSE pc[r]
  BY DEF Turn, Call, Tick, Park, Fire, TypeOK
<1>3. PICK q : q = jobs'
  OBVIOUS
<1>4. OnlyOnce(q) /\ \A r \in Processes : Has(q, r) <=>
                       IF r = p THEN at \notin Parked ELSE Has(jobs, r)
  <2>1. CASE Call(p, at) /\ at \notin Parked
    <3>1. q = Append(jobs, p) /\ ~Has(jobs, p)
      BY <1>1, <1>3, <2>1 DEF Call, Parked
    <3>2. OnlyOnce(q) /\ \A x : Has(q, x) <=> Has(jobs, x) \/ x = p
      BY <1>1, <3>1, Joined
    <3>3. QED
      BY <2>1, <3>2
  <2>2. CASE jobs # << >> /\ Head(jobs) = p
    <3>0. Tail(jobs) \in Seq(Processes)
      BY <1>1, <2>2
    <3>1. PICK t : t = Tail(jobs) /\ t \in Seq(Processes)
      BY <3>0
    <3>2. OnlyOnce(t) /\ \A x : Has(t, x) <=> Has(jobs, x) /\ x # p
      BY <1>1, <2>2, <3>1, HeadLeft
    <3>3. CASE q = t /\ at \in Parked
      BY <3>2, <3>3
    <3>4. CASE q = Append(t, p) /\ at \notin Parked
      <4>1. OnlyOnce(Append(t, p)) /\ \A x : Has(Append(t, p), x) <=> Has(t, x) \/ x = p
        BY <3>1, <3>2, Joined
      <4>2. QED
        BY <3>2, <3>4, <4>1
    <3>5. CASE Call(p, at) \/ \E from \in {"step", "undo"} : Fire(p, from, at)
      <4>1. Has(jobs, p)
        <5>1. 1 \in DOMAIN jobs /\ jobs[1] = p
          BY <1>1, <2>2
        <5>2. QED
          BY <5>1 DEF Has
      <4>2. QED
        BY <1>1, <3>5, <4>1 DEF Call, Fire, Parked
    <3>6. QED
      BY <1>3, <3>1, <3>3, <3>4, <3>5 DEF Turn, Tick, Park
  <2>3. CASE jobs = << >> /\ q = <<p>> /\ at \notin Parked
    <3>1. \A x : ~Has(jobs, x)
      BY <2>3 DEF Has
    <3>2. DOMAIN q = {1} /\ q[1] = p
      BY <2>3
    <3>3. QED
      BY <2>3, <3>1, <3>2 DEF Has, OnlyOnce
  <2>4. QED
    BY <1>3, <2>1, <2>2, <2>3 DEF Turn, Fire
<1>5. \A r \in Processes : Has(q, r) <=> pc'[r] \notin Parked
  BY <1>1, <1>2, <1>4
<1>6. OnlyOnce(jobs') /\ \A r \in Processes : Has(jobs', r) <=> pc'[r] \notin Parked
  BY <1>3, <1>4, <1>5
<1>7. QED
  BY <1>6 DEF NobodyForgotten, Parked, Has, OnlyOnce

\* A job or a timer of an execution is a turn of the loop.
LEMMA ExecutionTurns ==
  ASSUME NEW e \in Executions, ExecutionJob(e) \/ Timer(e)
  PROVE  \E at : Turn(e, at)
<1>1. ASSUME jobs # << >>, Head(jobs) = e,
             \/ \E at \in {"safetyChecked", "stepResolved", "stepRejected", "rolledBack"} : Tick(e, at)
             \/ \E at \in {"refused", "done", "step", "undo"} : Park(e, at)
      PROVE  \E at : Turn(e, at)
  BY <1>1 DEF Turn, Parked
<1>2. CASE RecipeFetched(e)
  BY <1>1, <1>2 DEF RecipeFetched, Resume, Launch
<1>3. CASE SafetyChecked(e)
  BY <1>1, <1>3 DEF SafetyChecked, Resume, Launch
<1>4. CASE StepAdopted(e)
  BY <1>1, <1>4 DEF StepAdopted, Resume
<1>5. ASSUME NEW x, UndoLoop(e, x)
      PROVE  Park(e, "undo") \/ Tick(e, "rolledBack")
  BY <1>5 DEF UndoLoop
<1>6. ASSUME NEW x, NextIteration(e, x) \/ Settle(e, x)
      PROVE  Park(e, "step") \/ Park(e, "done")
  BY <1>6 DEF NextIteration, Settle
<1>7. CASE StepSucceeded(e)
  BY <1>1, <1>6, <1>7 DEF StepSucceeded, Resume
<1>8. CASE StepFailed(e)
  <2>1. PICK x : NextIteration(e, x) \/ UndoLoop(e, RollingBack(x)) \/ Settle(e, Failed(x))
    BY <1>8 DEF StepFailed
  <2>2. QED
    BY <1>1, <1>5, <1>6, <1>8, <2>1 DEF StepFailed, Resume
<1>9. CASE UndoFired(e)
  BY <1>1, <1>5, <1>9 DEF UndoFired, Resume
<1>10. CASE RolledBack(e)
  BY <1>1, <1>6, <1>10 DEF RolledBack, Resume
<1>11. CASE Timer(e)
  <2>1. \E at \in {"stepResolving", "stepRejecting", "undoFired"}, from \in {"step", "undo"} :
          Fire(e, from, at)
    BY <1>11 DEF Timer, StepTimer, UndoTimer
  <2>2. QED
    BY <2>1 DEF Turn, Parked
<1>12. QED
  BY <1>2, <1>3, <1>4, <1>7, <1>8, <1>9, <1>10, <1>11 DEF ExecutionJob

\* So is every job of another call.
LEMMA CallerTurns ==
  ASSUME NEW c \in Callers, CallerJob(c)
  PROVE  \E at : Turn(c, at)
<1>1. /\ jobs # << >> /\ Head(jobs) = c
      /\ \/ \E at \in {"updateValidated", "stopAudited", "stopResumed", "stopFetched"} : Tick(c, at)
         \/ \E at \in {"returned", "stopReturned"} : Park(c, at)
  BY DEF CallerJob, Resume, UpdateFetched, UpdateValidated, DeleteFetched,
         CancelFetched, StopFetched, StopAudited, StopResumed
<1>2. QED
  BY <1>1 DEF Turn, Parked

\* A call queues its caller, unless it is an emergencyStop that found nothing
\* to stop, which returns at once.
LEMMA ClientTurns ==
  ASSUME ClientCall
  PROVE  \/ \E p \in Processes : \E at : Turn(p, at)
         \/ UNCHANGED <<pc, jobs>>
         \/ \E c \in Callers : /\ pc[c] = "idle"
                               /\ pc' = [pc EXCEPT ![c] = "stopReturned"]
                               /\ jobs' = jobs
<1> USE DEF Turn, Parked, Processes
<1>1. CASE \E r \in Recipes, d \in NewRecipes : CreateRecipe(r, d)
  BY <1>1 DEF CreateRecipe
<1>2. CASE \E e \in Executions, r \in Recipes, q \in Requests : ExecuteRecipe(e, r, q)
  BY <1>2 DEF ExecuteRecipe
<1>3. ASSUME NEW c \in Callers,
             \/ \E r \in Recipes, u \in Updates : UpdateRecipe(c, r, u)
             \/ \E r \in Recipes : DeleteRecipe(c, r)
             \/ \E e \in Executions : CancelExecution(c, e)
      PROVE  \E at : Turn(c, at)
  BY <1>3 DEF UpdateRecipe, DeleteRecipe, CancelExecution
<1>4. ASSUME NEW c \in Callers, EmergencyStop(c)
      PROVE  \/ \E at : Turn(c, at)
             \/ /\ pc[c] = "idle" /\ pc' = [pc EXCEPT ![c] = "stopReturned"]
                /\ jobs' = jobs
  <2>1. CASE Call(c, "stopFetched")
    BY <2>1
  <2>2. CASE pc[c] = "idle" /\ pc' = [pc EXCEPT ![c] = "stopReturned"] /\ UNCHANGED <<frame, jobs>>
    BY <2>2
  <2>3. QED
    BY <1>4, <2>1, <2>2 DEF EmergencyStop
<1>5. QED
  BY <1>1, <1>2, <1>3, <1>4 DEF ClientCall

\* No step of the service forgets anybody.
LEMMA ForgetsNobody == TypeOK /\ NobodyForgotten /\ [Next]_vars => NobodyForgotten'
<1> SUFFICES ASSUME TypeOK, NobodyForgotten, [Next]_vars
             PROVE  NobodyForgotten'
  OBVIOUS
<1>1. CASE \E p \in Processes : \E at : Turn(p, at)
  BY <1>1, TurnForgetsNobody
<1>2. CASE UNCHANGED <<pc, jobs>>
  BY <1>2 DEF NobodyForgotten
<1>3. ASSUME NEW c \in Callers, pc[c] = "idle", jobs' = jobs,
             pc' = [pc EXCEPT ![c] = "stopReturned"]
      PROVE  NobodyForgotten'
  <2>1. \A p \in Processes : pc'[p] \in Parked <=> pc[p] \in Parked
    BY <1>3 DEF TypeOK, Parked
  <2>2. QED
    BY <1>3, <2>1 DEF NobodyForgotten, Parked
<1>4. Executions \subseteq Processes /\ Callers \subseteq Processes
  BY DEF Processes
<1>5. QED
  BY <1>1, <1>2, <1>3, <1>4, ExecutionTurns, CallerTurns, ClientTurns DEF Next, Job, vars

\* However calls, jobs and timers interleave, an activation that has not ended
\* is in the queue exactly once or has a timer running: none is lost, none is
\* resumed twice.
THEOREM NobodyLost == Spec => []NobodyForgotten
<1>1. Init => NobodyForgotten
  BY DEF Init, NobodyForgotten
<1>2. TypeOK /\ NobodyForgotten /\ [Next]_vars => TypeOK' /\ NobodyForgotten'
  BY TypeOKStep, ForgetsNobody
<1>3. QED
  BY <1>1, <1>2, InitTypeOK, PTL DEF Spec

==============================================================================
