--------------------------- MODULE RecipeLifecycle ---------------------------
(***************************************************************************)
(* What the recipe executor promises about the status of each execution,   *)
(* with no queue, no timer and no caller in sight.  RecipeExecutor         *)
(* implements it under status <- [e |-> executions[e].status].             *)
(***************************************************************************)

CONSTANT Executions     \* ids an execution record may be given

VARIABLE status         \* status[e], "none" before the record exists

InFlight == {"executing", "rolling_back", "rolled_back"}

Init == status = [e \in Executions |-> "none"]

Move(e, from, to) ==
  /\ status[e] \in from
  /\ \E s \in to : status' = [status EXCEPT ![e] = s]

\* A record is created pending; with no safety check to wait for it starts,
\* or completes as a dry run, in the same step.
Admit(e) == Move(e, {"none"}, {"pending", "executing", "completed"})

\* Only a pending execution is ever started: a cancelled one never is.
Start(e) == Move(e, {"pending"}, {"executing", "completed"})

\* Cancellation is refused once rollback has begun or the run has settled.
Cancel(e) == Move(e, {"pending", "executing"}, {"cancelled"})

\* A failed step rolls back.  The step that was in flight when the execution
\* was cancelled may be the one that fails.
RollBack(e) == Move(e, {"executing", "cancelled"}, {"rolling_back", "rolled_back"})

UndoDone(e) == Move(e, {"rolling_back"}, {"rolled_back"})

\* A run that is cancelled while a step is in flight still settles, as
\* completed or as failed; rolled_back always gives way to failed.
Settle(e) ==
  \/ Move(e, {"executing", "cancelled"}, {"completed", "failed"})
  \/ Move(e, {"rolled_back"}, {"failed"})

Progress(e) == RollBack(e) \/ UndoDone(e) \/ Settle(e)

Next == \E e \in Executions : Admit(e) \/ Start(e) \/ Cancel(e) \/ Progress(e)

Safety == Init /\ [][Next]_status

\* An execution in flight does not stay there for ever: it settles, or it is
\* cancelled.
Spec ==
  /\ Safety
  /\ \A e \in Executions : WF_status(status[e] \in InFlight /\ (Progress(e) \/ Cancel(e)))

==============================================================================
