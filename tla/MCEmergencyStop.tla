--------------------------- MODULE MCEmergencyStop ---------------------------
(* RecipeExecutor with a note of what emergencyStop had in front of it. *)
EXTENDS MCRecipeExecutor

VARIABLE pendingAtStop  \* per caller, the executions pending at its emergencyStop

AllPending == {e \in Executions : executions[e].status = "pending"}

CallsStop(c) == pc[c] = "idle" /\ pc'[c] \in {"stopFetched", "stopReturned"}

StopInit == Init /\ pendingAtStop = [c \in Callers |-> {}]

StopNext ==
  /\ Next
  /\ pendingAtStop' =
       [c \in Callers |-> IF CallsStop(c) THEN AllPending ELSE pendingAtStop[c]]

StopSpec == StopInit /\ [][StopNext]_<<vars, pendingAtStop>>

\* recipe-executor.service.ts:330: emergency stop all executions.  One that was
\* pending at the call, its safety check under way, runs when the call has
\* returned: emergencyStop looks only at activeExecutions.
StopStopsAll ==
  \A c \in Callers :
    pc[c] = "stopReturned" =>
      \A e \in pendingAtStop[c] : executions[e].status # "executing"

==============================================================================
