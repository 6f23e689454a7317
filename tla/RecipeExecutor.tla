---------------------------- MODULE RecipeExecutor ----------------------------
(***************************************************************************)
(* RecipeExecutorService of services/recipe-executor.  The service is one  *)
(* JavaScript object: its methods interleave only where they await.  A     *)
(* process is one method activation, an execution id for executeRecipe and *)
(* the startExecution it launches, a caller for every other call.          *)
(*                                                                         *)
(* jobs is the engine's microtask queue.  Awaiting a settled promise       *)
(* queues the activation at the tail, the head runs to its next await, and *)
(* a timer fires only when the queue has drained.  Clients may call at any *)
(* moment between two jobs.  pc[p] names the await p is suspended at.      *)
(***************************************************************************)
EXTENDS Naturals, Sequences, FiniteSets, SequencesExt

CONSTANTS
  Recipes,      \* ids generateId may give a recipe
  Executions,   \* ids generateId may give an execution
  Callers,      \* activations of update, delete, cancel and emergencyStop
  StepIds,      \* ids a recipe may give its steps
  Steps,        \* recipe steps a definition may contain
  NewRecipes,   \* definitions passed to createRecipe
  Updates,      \* partial definitions passed to updateRecipe
  Requests,     \* requests passed to executeRecipe
  People,       \* names an approver may have
  None          \* absent map entry, undefined field

Status == {"none", "pending", "executing", "completed", "failed", "cancelled",
           "rolling_back", "rolled_back"}

\* Results and rollback know a step by its id, which nothing makes distinct.
StepShape == [id : StepIds, order : Nat, skipOnFailure : BOOLEAN, rollbackCommand : BOOLEAN]

Definition == [requiresApproval : BOOLEAN, requiresDualApproval : BOOLEAN,
               steps : Seq(Steps)]

Request == [approvedBy : People \union {None}, secondApprover : People \union {None},
            safetyChecks : BOOLEAN, rollbackOnFailure : BOOLEAN, dryRun : BOOLEAN]

StepResult == [stepId : StepIds, status : {"completed", "failed"}]

Execution == [status : Status, error : {None, "cancelled", "failed"},
              stepResults : Seq(StepResult),
              rollbackExecuted : BOOLEAN, rollbackSteps : Seq(StepIds)]

NoExecution == [status |-> "none", error |-> None, stepResults |-> << >>,
                rollbackExecuted |-> FALSE, rollbackSteps |-> << >>]

Field(u, d, f) == IF f \in DOMAIN u THEN u[f] ELSE d[f]

\* {...existingRecipe, ...updates}
Merge(d, u) == [requiresApproval |-> Field(u, d, "requiresApproval"),
                requiresDualApproval |-> Field(u, d, "requiresDualApproval"),
                steps |-> Field(u, d, "steps")]

ASSUME ProcessesAreDistinct == Executions \intersect Callers = {}

ASSUME InputTypes ==
  /\ None \notin Definition /\ None \notin People
  /\ None \notin {"cancelled", "failed"}
  /\ Steps \subseteq StepShape
  /\ NewRecipes \subseteq Definition
  /\ \A u \in Updates :
       /\ "requiresApproval" \in DOMAIN u => u["requiresApproval"] \in BOOLEAN
       /\ "requiresDualApproval" \in DOMAIN u => u["requiresDualApproval"] \in BOOLEAN
       /\ "steps" \in DOMAIN u => u["steps"] \in Seq(Steps)
  /\ Requests \subseteq Request

InOrder(steps) == \A i, j \in DOMAIN steps : i < j => steps[i].order <= steps[j].order

\* Steps are listed in the order startExecution sorts them into before it runs
\* the first; nothing that reads them earlier depends on their places.
ASSUME StepsListedInOrder ==
  /\ \A d \in NewRecipes : InOrder(d.steps)
  /\ \A u \in Updates : "steps" \in DOMAIN u => InOrder(u["steps"])

VARIABLES
  recipes,           \* this.recipes
  issued,            \* recipe ids handed out, none of them ever again
  executions,        \* this.executions; records are never removed
  activeExecutions,  \* keys of this.activeExecutions
  pc,                \* where each activation is suspended
  frame,             \* the locals it holds across the await
  jobs               \* microtask queue

vars == <<recipes, issued, executions, activeExecutions, pc, frame, jobs>>

Processes == Executions \union Callers

Init ==
  /\ recipes = [r \in Recipes |-> None]
  /\ issued = {}
  /\ executions = [e \in Executions |-> NoExecution]
  /\ activeExecutions = {}
  /\ pc = [p \in Processes |-> "idle"]
  /\ frame = [p \in Processes |-> None]
  /\ jobs = << >>

(***************************************************************************)
(* The event loop.                                                         *)
(***************************************************************************)

\* A client calls a method, which runs to its first await.
Call(p, at) ==
  /\ pc[p] = "idle"
  /\ pc' = [pc EXCEPT ![p] = at]
  /\ jobs' = Append(jobs, p)

\* The job at the head of the queue resumes p.
Resume(p, at) == jobs # << >> /\ Head(jobs) = p /\ pc[p] = at

\* p awaits a promise that is already settled: one tick.
Tick(p, at) ==
  /\ pc' = [pc EXCEPT ![p] = at]
  /\ jobs' = Append(Tail(jobs), p)

\* p awaits a timer, or has returned.
Park(p, at) ==
  /\ pc' = [pc EXCEPT ![p] = at]
  /\ jobs' = Tail(jobs)

\* The timer p waits for fires; microtasks come first.
Fire(p, from, to) ==
  /\ jobs = << >>
  /\ pc[p] = from
  /\ pc' = [pc EXCEPT ![p] = to]
  /\ jobs' = <<p>>

(***************************************************************************)
(* Recipes.                                                                *)
(***************************************************************************)

\* validateRecipe's errors; its warnings reject nothing.
IsValid(d) ==
  /\ d.steps # << >>
  /\ \A i, j \in DOMAIN d.steps : d.steps[i].order = d.steps[j].order => i = j

\* The id is known to no one before the record is stored, so the await of
\* validateRecipe cannot be seen.  An invalid definition changes nothing.
CreateRecipe(r, d) ==
  /\ r \notin issued
  /\ IsValid(d)
  /\ issued' = issued \union {r}
  /\ recipes' = [recipes EXCEPT ![r] = d]
  /\ UNCHANGED <<executions, activeExecutions, pc, frame, jobs>>

\* The record is read at the call and written two ticks later.
UpdateRecipe(c, r, u) ==
  /\ recipes[r] # None
  /\ frame' = [frame EXCEPT ![c] = [recipeId |-> r, recipe |-> Merge(recipes[r], u)]]
  /\ Call(c, "updateFetched")
  /\ UNCHANGED <<recipes, issued, executions, activeExecutions>>

UpdateFetched(c) ==
  /\ Resume(c, "updateFetched")
  /\ Tick(c, "updateValidated")
  /\ UNCHANGED <<recipes, issued, executions, activeExecutions, frame>>

UpdateValidated(c) ==
  /\ Resume(c, "updateValidated")
  /\ \/ /\ IsValid(frame[c].recipe)
        /\ recipes' = [recipes EXCEPT ![frame[c].recipeId] = frame[c].recipe]
     \/ /\ ~IsValid(frame[c].recipe)
        /\ UNCHANGED recipes
  /\ Park(c, "returned")
  /\ UNCHANGED <<issued, executions, activeExecutions, frame>>

BlocksDeletion == {"executing", "pending", "approved"}

DeleteRecipe(c, r) ==
  /\ recipes[r] # None
  /\ frame' = [frame EXCEPT ![c] = [recipeId |-> r]]
  /\ Call(c, "deleteFetched")
  /\ UNCHANGED <<recipes, issued, executions, activeExecutions>>

ExecutionsOf(r) ==
  {e \in Executions : executions[e].status # "none" /\ frame[e].recipeId = r}

DeleteFetched(c) ==
  LET r == frame[c].recipeId IN
  /\ Resume(c, "deleteFetched")
  /\ \/ /\ \E e \in ExecutionsOf(r) : executions[e].status \in BlocksDeletion
        /\ UNCHANGED recipes
     \/ /\ \A e \in ExecutionsOf(r) : executions[e].status \notin BlocksDeletion
        /\ recipes' = [recipes EXCEPT ![r] = None]
  /\ Park(c, "returned")
  /\ UNCHANGED <<issued, executions, activeExecutions, frame>>

(***************************************************************************)
(* Running a recipe.                                                       *)
(***************************************************************************)

\* The place of the step startExecution is at: they run in the order listed.
IsCurrent(i, e) == i = Len(executions[e].stepResults) + 1

WithResult(e, i, result) ==
  [executions[e] EXCEPT !.stepResults =
     Append(@, [stepId |-> frame[e].recipe.steps[i].id, status |-> result])]

Put(e, x) == executions' = [executions EXCEPT ![e] = x]

\* Leaving startExecution: its finally clause drops the active entry.
Settle(e, x) ==
  /\ Put(e, x)
  /\ activeExecutions' = activeExecutions \ {e}
  /\ Park(e, "done")

\* Every step of the recipe has a result.
AllRun(e, x) == Len(x.stepResults) = Len(frame[e].recipe.steps)

\* Faults: the last step is dropped; cancellation goes unnoticed.
FaultLastStepDropped(e, x) ==
  x.status = "cancelled" \/ Len(x.stepResults) + 1 >= Len(frame[e].recipe.steps)
FaultCancelUnnoticed(e, x) == AllRun(e, x)

\* The for loop breaks when it sees the execution cancelled.
LoopEnds(e, x) == x.status = "cancelled" \/ AllRun(e, x)

\* Back at the head of the loop: next step, or completed, which is what a
\* cancelled execution becomes too.
NextIteration(e, x) ==
  \/ /\ LoopEnds(e, x)
     /\ Settle(e, [x EXCEPT !.status = "completed"])
  \/ /\ ~LoopEnds(e, x)
     /\ Put(e, x)
     /\ Park(e, "step")
     /\ UNCHANGED activeExecutions

\* Fault: a status outside the enumeration.
FaultBadStatus(x) == [x EXCEPT !.status = "error", !.error = "failed"]

Failed(x) == [x EXCEPT !.status = "failed", !.error = "failed"]

\* Two approvers are asked for by name; that they differ is not checked.
Approved(d, q) ==
  /\ d.requiresApproval => q.approvedBy # None
  /\ d.requiresDualApproval => q.approvedBy # None /\ q.secondApprover # None

\* A dry run completes at once.  Otherwise startExecution overwrites the
\* status, whatever it is, and runs to the timer of the first step.
Launch(e) ==
  \/ /\ frame[e].request.dryRun
     /\ Put(e, [executions[e] EXCEPT !.status = "completed"])
     /\ Park(e, "done")
     /\ UNCHANGED activeExecutions
  \/ /\ ~frame[e].request.dryRun
     /\ Put(e, [executions[e] EXCEPT !.status = "executing"])
     /\ activeExecutions' = activeExecutions \union {e}
     /\ Park(e, "step")

ExecuteRecipe(e, r, q) ==
  /\ recipes[r] # None
  /\ frame' = [frame EXCEPT ![e] = [recipeId |-> r, recipe |-> recipes[r], request |-> q]]
  /\ Call(e, "recipeFetched")
  /\ UNCHANGED <<recipes, issued, executions, activeExecutions>>

\* The record is stored before the approvals are looked at: a refused
\* execution stays pending.
RecipeFetched(e) ==
  LET q == frame[e].request IN
  /\ Resume(e, "recipeFetched")
  /\ \/ /\ ~Approved(frame[e].recipe, q)
        /\ Put(e, [executions[e] EXCEPT !.status = "pending"])
        /\ Park(e, "refused")
        /\ UNCHANGED activeExecutions
     \/ /\ Approved(frame[e].recipe, q)
        /\ q.safetyChecks
        /\ Put(e, [executions[e] EXCEPT !.status = "pending"])
        /\ Tick(e, "safetyChecked")
        /\ UNCHANGED activeExecutions
     \/ /\ Approved(frame[e].recipe, q)
        /\ ~q.safetyChecks
        /\ Launch(e)
  /\ UNCHANGED <<recipes, issued, frame>>

\* performSafetyChecks tests constants that never report a violation.
SafetyChecked(e) ==
  /\ Resume(e, "safetyChecked")
  /\ Launch(e)
  /\ UNCHANGED <<recipes, issued, frame>>

\* executeStep is an async function that returns a promise of its own, so
\* its outcome takes two ticks to reach startExecution.
StepTimer(e) ==
  /\ Fire(e, "step", "stepResolving") \/ Fire(e, "step", "stepRejecting")
  /\ UNCHANGED <<recipes, issued, executions, activeExecutions, frame>>

\* Fault: the rejection of a step is not passed on.
FaultRejectionLost(e) ==
  /\ Resume(e, "stepResolving") /\ Tick(e, "stepResolved")
  /\ UNCHANGED <<recipes, issued, executions, activeExecutions, frame>>

StepAdopted(e) ==
  /\ \/ Resume(e, "stepResolving") /\ Tick(e, "stepResolved")
     \/ Resume(e, "stepRejecting") /\ Tick(e, "stepRejected")
  /\ UNCHANGED <<recipes, issued, executions, activeExecutions, frame>>

StepSucceeded(e) ==
  /\ Resume(e, "stepResolved")
  /\ \E i \in DOMAIN frame[e].recipe.steps :
       IsCurrent(i, e) /\ NextIteration(e, WithResult(e, i, "completed"))
  /\ UNCHANGED <<recipes, issued, frame>>

CompletedIds(x) ==
  {x.stepResults[k].stepId : k \in {k \in DOMAIN x.stepResults :
                                      x.stepResults[k].status = "completed"}}

\* Fault: steps that may be skipped are not rolled back.
FaultSkippableKept(e, x) ==
  {i \in DOMAIN frame[e].recipe.steps :
     LET s == frame[e].recipe.steps[i]
     IN s.id \in CompletedIds(x) /\ s.rollbackCommand /\ ~s.skipOnFailure}

\* The places executeRollback comes to: steps with a rollback command and the
\* id of a completed step, which need not be that very step.
RollbackPlaces(e, x) ==
  {i \in DOMAIN frame[e].recipe.steps :
     LET s == frame[e].recipe.steps[i] IN s.id \in CompletedIds(x) /\ s.rollbackCommand}

\* Fault: rollback in execution order.
FaultUndoForward(i, places, done) ==
  i \in places /\ Cardinality({k \in places : k < i}) = done

\* The latest step is undone first: done places above i are behind us.
UndoneNext(i, places, done) ==
  i \in places /\ Cardinality({k \in places : k > i}) = done

\* The list of places is drawn up once; results no longer change.
UndoLoop(e, x) ==
  LET places == RollbackPlaces(e, x)
      done == Len(x.rollbackSteps)
  IN
  /\ \/ /\ done = Cardinality(places)
        /\ Put(e, [x EXCEPT !.status = "rolled_back"])
        /\ Tick(e, "rolledBack")
     \/ \E i \in places :
          /\ UndoneNext(i, places, done)
          /\ Put(e, [x EXCEPT !.rollbackSteps = Append(@, frame[e].recipe.steps[i].id)])
          /\ Park(e, "undo")
  /\ UNCHANGED activeExecutions

RollingBack(x) == [x EXCEPT !.status = "rolling_back", !.rollbackExecuted = TRUE]

StepFailed(e) ==
  /\ Resume(e, "stepRejected")
  /\ \E i \in DOMAIN frame[e].recipe.steps :
       LET x == WithResult(e, i, "failed")
           skip == frame[e].recipe.steps[i].skipOnFailure
       IN
       /\ IsCurrent(i, e)
       /\ \/ /\ skip
             /\ NextIteration(e, x)
          \/ /\ ~skip
             /\ frame[e].request.rollbackOnFailure
             /\ UndoLoop(e, RollingBack(x))
          \/ /\ ~skip
             /\ ~frame[e].request.rollbackOnFailure
             /\ Settle(e, Failed(x))
  /\ UNCHANGED <<recipes, issued, frame>>

UndoTimer(e) ==
  /\ Fire(e, "undo", "undoFired")
  /\ UNCHANGED <<recipes, issued, executions, activeExecutions, frame>>

UndoFired(e) ==
  /\ Resume(e, "undoFired")
  /\ UndoLoop(e, executions[e])
  /\ UNCHANGED <<recipes, issued, frame>>

\* executeRollback returns and the step's error is thrown on.
RolledBack(e) ==
  /\ Resume(e, "rolledBack")
  /\ Settle(e, Failed(executions[e]))
  /\ UNCHANGED <<recipes, issued, frame>>

(***************************************************************************)
(* Cancellation and emergency stop.                                        *)
(***************************************************************************)

\* Faults: a running execution, one rolling back, or one that has completed, is
\* treated wrongly.
FaultRunningKept == {"pending", "paused"}
FaultRollbackCut == {"pending", "executing", "paused", "rolling_back"}
FaultCompletedCut == {"pending", "executing", "paused", "completed"}

Cancellable == {"pending", "executing", "paused"}

CanCancel(e) == executions[e].status \in Cancellable

\* Fault: the active entry is left behind.
FaultStaleEntry(e) ==
  /\ Put(e, [executions[e] EXCEPT !.status = "cancelled", !.error = "cancelled"])
  /\ UNCHANGED activeExecutions

CancelEffect(e) ==
  /\ Put(e, [executions[e] EXCEPT !.status = "cancelled", !.error = "cancelled"])
  /\ activeExecutions' = activeExecutions \ {e}

\* Fault: the record is looked up only after the await.
FaultLateLookup(c, e) ==
  /\ frame' = [frame EXCEPT ![c] = [executionId |-> e]]
  /\ Call(c, "cancelFetched")
  /\ UNCHANGED <<recipes, issued, executions, activeExecutions>>

CancelExecution(c, e) ==
  /\ executions[e].status # "none"
  /\ frame' = [frame EXCEPT ![c] = [executionId |-> e]]
  /\ Call(c, "cancelFetched")
  /\ UNCHANGED <<recipes, issued, executions, activeExecutions>>

CancelFetched(c) ==
  LET e == frame[c].executionId IN
  /\ Resume(c, "cancelFetched")
  /\ \/ CanCancel(e) /\ CancelEffect(e)
     \/ ~CanCancel(e) /\ UNCHANGED <<executions, activeExecutions>>
  /\ Park(c, "returned")
  /\ UNCHANGED <<recipes, issued, frame>>

\* emergencyStop cancels, one after the other, the executions that were
\* active when it was called.  todo are those it has not come to.
StopFrame(e, snapshot, todo) == [executionId |-> e, snapshot |-> snapshot, todo |-> todo]

StopSnapshot == activeExecutions

EmergencyStop(c) ==
  /\ \/ /\ StopSnapshot = {}
        /\ pc[c] = "idle"
        /\ pc' = [pc EXCEPT ![c] = "stopReturned"]
        /\ UNCHANGED <<frame, jobs>>
     \/ \E e \in StopSnapshot :
          /\ frame' = [frame EXCEPT ![c] = StopFrame(e, StopSnapshot, StopSnapshot \ {e})]
          /\ Call(c, "stopFetched")
  /\ UNCHANGED <<recipes, issued, executions, activeExecutions>>

\* A refused cancellation rejects at once; an accepted one still awaits its
\* audit event.
StopFetched(c) ==
  LET e == frame[c].executionId IN
  /\ Resume(c, "stopFetched")
  /\ \/ CanCancel(e) /\ CancelEffect(e) /\ Tick(c, "stopAudited")
     \/ ~CanCancel(e) /\ Tick(c, "stopResumed") /\ UNCHANGED <<executions, activeExecutions>>
  /\ UNCHANGED <<recipes, issued, frame>>

StopAudited(c) ==
  /\ Resume(c, "stopAudited")
  /\ Tick(c, "stopResumed")
  /\ UNCHANGED <<recipes, issued, executions, activeExecutions, frame>>

StopResumed(c) ==
  /\ Resume(c, "stopResumed")
  /\ \/ /\ frame[c].todo = {}
        /\ Park(c, "stopReturned")
        /\ UNCHANGED frame
     \/ \E e \in frame[c].todo :
          /\ frame' = [frame EXCEPT ![c] = StopFrame(e, @.snapshot, @.todo \ {e})]
          /\ Tick(c, "stopFetched")
  /\ UNCHANGED <<recipes, issued, executions, activeExecutions>>

------------------------------------------------------------------------------

ClientCall ==
  \/ \E r \in Recipes, d \in NewRecipes : CreateRecipe(r, d)
  \/ \E e \in Executions, r \in Recipes, q \in Requests : ExecuteRecipe(e, r, q)
  \/ \E c \in Callers :
       \/ \E r \in Recipes, u \in Updates : UpdateRecipe(c, r, u)
       \/ \E r \in Recipes : DeleteRecipe(c, r)
       \/ \E e \in Executions : CancelExecution(c, e)
       \/ EmergencyStop(c)

ExecutionJob(e) ==
  \/ RecipeFetched(e) \/ SafetyChecked(e) \/ StepAdopted(e) \/ StepSucceeded(e)
  \/ StepFailed(e) \/ UndoFired(e) \/ RolledBack(e)

CallerJob(c) ==
  \/ UpdateFetched(c) \/ UpdateValidated(c) \/ DeleteFetched(c) \/ CancelFetched(c)
  \/ StopFetched(c) \/ StopAudited(c) \/ StopResumed(c)

Job == (\E e \in Executions : ExecutionJob(e)) \/ (\E c \in Callers : CallerJob(c))

Timer(e) == StepTimer(e) \/ UndoTimer(e)

Next == ClientCall \/ Job \/ \E e \in Executions : Timer(e)

\* The engine runs queued jobs and fires the timers it was given.  Nothing
\* obliges a client to call.
Spec ==
  /\ Init
  /\ [][Next]_vars
  /\ WF_vars(Job)
  /\ \A e \in Executions : WF_vars(Timer(e))

------------------------------------------------------------------------------

StepPc == {"step", "stepResolving", "stepRejecting", "stepResolved", "stepRejected"}
UndoPc == {"undo", "undoFired", "rolledBack"}
RunningPc == StepPc \union UndoPc
ExecutionPc == {"idle", "recipeFetched", "safetyChecked", "done", "refused"} \union RunningPc
StopPc == {"stopFetched", "stopAudited", "stopResumed"}
CallerPc == {"idle", "updateFetched", "updateValidated", "deleteFetched", "cancelFetched",
             "returned", "stopReturned"} \union StopPc

RunFrame == [recipeId : Recipes, recipe : Definition, request : Request]
UpdateFrame == [recipeId : Recipes, recipe : Definition]
StopFrames == [executionId : Executions, snapshot : SUBSET Executions,
               todo : SUBSET Executions]

Frame == RunFrame \union UpdateFrame \union [recipeId : Recipes]
           \union [executionId : Executions] \union StopFrames

ASSUME NoneIsNoFrame == None \notin Frame

\* What each activation holds while it is suspended.
FramesMatch ==
  /\ \A e \in Executions : pc[e] # "idle" => frame[e] \in RunFrame
  /\ \A c \in Callers :
       /\ pc[c] \in {"updateFetched", "updateValidated"} => frame[c] \in UpdateFrame
       /\ pc[c] = "deleteFetched" => frame[c] \in [recipeId : Recipes]
       /\ pc[c] = "cancelFetched" => frame[c] \in [executionId : Executions]
       /\ pc[c] \in StopPc => frame[c] \in StopFrames

\* The state is well typed, the locals of every suspended activation included.
TypeOK ==
  /\ recipes \in [Recipes -> Definition \union {None}]
  /\ issued \subseteq Recipes
  /\ executions \in [Executions -> Execution]
  /\ activeExecutions \subseteq Executions
  /\ pc \in [Processes -> ExecutionPc \union CallerPc]
  /\ frame \in [Processes -> Frame \union {None}]
  /\ \A e \in Executions : pc[e] \in ExecutionPc
  /\ \A c \in Callers : pc[c] \in CallerPc
  /\ jobs \in Seq(Processes)
  /\ FramesMatch

\* A safety check ends on a pending execution: no cancellation can slip into
\* the tick between storing the record and starting it, because it would have
\* to overtake the start in the microtask queue.  So startExecution, which
\* overwrites the status unconditionally, never revives a cancelled execution.
PendingUntilLaunched ==
  \A e \in Executions : pc[e] = "safetyChecked" => executions[e].status = "pending"

\* activeExecutions, all that emergencyStop looks at, holds exactly the
\* executions in flight that nobody has cancelled.
RegistryAccurate ==
  \A e \in Executions :
    e \in activeExecutions <=> pc[e] \in RunningPc /\ executions[e].error # "cancelled"

\* A completed record without an error means the work was done: there is one
\* result for every step of the recipe, in its place, and the steps that failed
\* may be skipped.
CompletionHonest ==
  \A e \in Executions :
    LET x == executions[e]
        steps == frame[e].recipe.steps
    IN
    (x.status = "completed" /\ x.error = None /\ ~frame[e].request.dryRun) =>
      /\ Len(x.stepResults) = Len(steps)
      /\ \A i \in DOMAIN steps :
           /\ x.stepResults[i].stepId = steps[i].id
           /\ x.stepResults[i].status = "completed" \/ steps[i].skipOnFailure

\* The step at place i of the recipe ran and completed.
StepCompleted(x, i) ==
  i \in DOMAIN x.stepResults /\ x.stepResults[i].status = "completed"

DistinctIds(steps) == \A i, j \in DOMAIN steps : steps[i].id = steps[j].id => i = j

\* The undone steps of record x stand at places g of the recipe, latest first,
\* no place twice.  Each has a rollback command and the id of a completed step.
\* Where ids are distinct it is that step; where they are not, a step that
\* failed or never ran is undone along with one of its id that completed.
UndoneAt(x, steps, g) ==
  /\ \A j \in DOMAIN g :
       /\ x.rollbackSteps[j] = steps[g[j]].id
       /\ steps[g[j]].rollbackCommand
       /\ \E k \in DOMAIN x.stepResults :
            StepCompleted(x, k) /\ x.stepResults[k].stepId = steps[g[j]].id
       /\ DistinctIds(steps) => StepCompleted(x, g[j])
  /\ \A j, k \in DOMAIN g : j < k => g[k] < g[j]

\* Every completed step with a rollback command is among them.
NothingLeft(x, steps, g) ==
  \A i \in DOMAIN steps :
    StepCompleted(x, i) /\ steps[i].rollbackCommand => \E j \in DOMAIN g : g[j] = i

\* Rollback undoes steps as said above; and when an execution that asked for it
\* has failed, each completed step that can be undone has been, however the
\* failure, a cancellation and other executions interleaved.
RollbackExact ==
  \A e \in Executions :
    pc[e] # "idle" =>
      LET x == executions[e]
          steps == frame[e].recipe.steps
      IN \E g \in [DOMAIN x.rollbackSteps -> DOMAIN steps] :
           /\ UndoneAt(x, steps, g)
           /\ x.status = "failed" /\ frame[e].request.rollbackOnFailure =>
                NothingLeft(x, steps, g)

\* What emergencyStop has dealt with stays stopped: of the executions it found
\* active, those it has come to are executing no more.
StopEffective ==
  \A c \in Callers :
    pc[c] \in {"stopAudited", "stopResumed", "stopReturned"} /\ frame[c] # None =>
      \A e \in frame[c].snapshot \ frame[c].todo : executions[e].status # "executing"

\* Once its record says cancelled, an execution begins no further step; the
\* one in flight is the last.
CancelStopsSteps ==
  [][\A e \in Executions :
       executions[e].status = "cancelled" /\ pc[e] # "step" => pc'[e] # "step"]_vars

\* Nobody is forgotten: whoever waits for a microtask is in the queue, once, and
\* whoever does not wait for one is not.  So an activation that has not ended
\* always has a job or a timer that goes on with it.
NobodyForgotten ==
  /\ \A p \in Processes :
       (\E i \in DOMAIN jobs : jobs[i] = p) <=>
         pc[p] \notin {"idle", "step", "undo", "done", "refused", "returned", "stopReturned"}
  /\ \A i, j \in DOMAIN jobs : jobs[i] = jobs[j] => i = j

\* What an execution has come to is final: no call, however late, rewrites the
\* record of one that has settled, or takes back a step that is on record.
SettledIsFinal ==
  [][\A e \in Executions :
       /\ pc[e] = "done" => executions'[e] = executions[e] /\ pc'[e] = "done"
       /\ IsPrefix(executions[e].stepResults, executions'[e].stepResults)
       /\ IsPrefix(executions[e].rollbackSteps, executions'[e].rollbackSteps)]_vars

\* The statuses move as RecipeLifecycle says, and an execution in flight
\* settles or is cancelled.
Lifecycle == INSTANCE RecipeLifecycle WITH status <- [e \in Executions |-> executions[e].status]
ImplementsLifecycle == Lifecycle!Spec

\* Every call returns and every execution launched runs to its end.
CallsReturn ==
  \A p \in Processes :
    pc[p] # "idle" ~> pc[p] \in {"done", "refused", "returned", "stopReturned"}

------------------------------------------------------------------------------
(***************************************************************************)
(* What comments and tests say of the service and the code does not do.    *)
(***************************************************************************)

\* recipe-executor.service.test.ts:362 and :403: a cancelled execution is
\* CANCELLED.  It becomes completed (or failed) when its step in flight ends.
CancelIsFinal ==
  [][\A e \in Executions :
       executions[e].status = "cancelled" => executions'[e].status = "cancelled"]_vars

==============================================================================
