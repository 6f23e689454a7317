---------------------------- MODULE OperatorShell ----------------------------
(***************************************************************************)
(* The dispatch form of the Mission Control shell, a React page.  Each     *)
(* change of a control field asks the server for the policy of the form as *)
(* it is then; a submission asks once more, for the form it captured, and  *)
(* posts the command when the answer allows it.  Answers come in any order.*)
(*                                                                         *)
(* A state is the page between two events, rendered and with its effects   *)
(* run: the effect of a changed field starts in the step that changes it.  *)
(***************************************************************************)
EXTENDS ControlPolicy

CONSTANTS
  Forms,         \* contents of the control fields
  Evaluations,   \* policy requests of changed fields, the first on mounting
  First,         \* that first one
  Submits        \* submissions of the form

Form == [commandType : CommandType, actorRole : Roles, confirmationAccepted : BOOLEAN,
         approvedByRole : {None, "supervisor", "admin"}]

EmptyForm == [commandType |-> "allocate_pick", actorRole |-> "operator",
              confirmationAccepted |-> FALSE, approvedByRole |-> None]

ASSUME FormTypes == EmptyForm \in Forms /\ Forms \subseteq Form /\ None \notin Form

ASSUME FirstEvaluation == First \in Evaluations

\* How a policy request ends: with the server's decision, with an error
\* response, or with an exception.
Answers == {"decision", "error", "exception"}

VARIABLES
  loading,         \* no snapshot has arrived
  dispatchForm,
  policyOutcome,   \* its status
  policyPending,
  evaluations,     \* form each request of a changed field asks about
  submits          \* form each submission captured, and its stage

vars == <<loading, dispatchForm, policyOutcome, policyPending, evaluations, submits>>

Stage == {"evaluating", "posted", "refused"}

Asked == [form : Form, answered : BOOLEAN]

Submit == [form : Form, stage : Stage]

ASSUME NoneIsNothing == None \notin Asked \union Submit

ControlOf(f) == [actorRole |-> f.actorRole, confirmationAccepted |-> f.confirmationAccepted,
                 approvedByRole |-> f.approvedByRole]

\* GET /api/control-policy; neither an error nor an exception allows anything.
StatusOf(f, a) == IF a = "decision" THEN Decision(f.commandType, ControlOf(f)) ELSE "denied"

Init ==
  /\ loading = TRUE
  /\ dispatchForm = EmptyForm
  /\ policyOutcome = "n/a"
  /\ policyPending = TRUE
  /\ evaluations = [e \in Evaluations |->
                      IF e = First THEN [form |-> EmptyForm, answered |-> FALSE] ELSE None]
  /\ submits = [s \in Submits |-> None]

CanSubmit ==
  /\ ~loading /\ ~policyPending
  /\ policyOutcome = "allowed"
  /\ dispatchForm.confirmationAccepted

------------------------------------------------------------------------------

Loaded ==
  /\ loading
  /\ loading' = FALSE
  /\ UNCHANGED <<dispatchForm, policyOutcome, policyPending, evaluations, submits>>

\* onControlFieldChange, and the effect that depends on the four fields.
Change(f, e) ==
  /\ \E field \in DOMAIN f : /\ f[field] # dispatchForm[field]
                             /\ f = [dispatchForm EXCEPT ![field] = f[field]]
  /\ evaluations[e] = None
  /\ dispatchForm' = f
  /\ evaluations' = [evaluations EXCEPT ![e] = [form |-> f, answered |-> FALSE]]
  /\ policyPending' = TRUE
  /\ UNCHANGED <<loading, policyOutcome, submits>>

\* Fault: only an answer ends the wait, an exception does not.
FaultLeftPending(e, a) ==
  /\ evaluations[e] # None /\ ~evaluations[e].answered
  /\ evaluations' = [evaluations EXCEPT ![e].answered = TRUE]
  /\ policyOutcome' = StatusOf(evaluations[e].form, a)
  /\ policyPending' = (policyPending /\ a = "exception")
  /\ UNCHANGED <<loading, dispatchForm, submits>>

\* evaluateControlPolicy for a changed field.
Evaluated(e, a) ==
  /\ evaluations[e] # None /\ ~evaluations[e].answered
  /\ evaluations' = [evaluations EXCEPT ![e].answered = TRUE]
  /\ policyOutcome' = StatusOf(evaluations[e].form, a)
  /\ policyPending' = FALSE
  /\ UNCHANGED <<loading, dispatchForm, submits>>

\* submitDispatch until it has asked.
SubmitDispatch(s) ==
  /\ CanSubmit
  /\ submits[s] = None
  /\ submits' = [submits EXCEPT ![s] = [form |-> dispatchForm, stage |-> "evaluating"]]
  /\ UNCHANGED <<loading, dispatchForm, policyOutcome, policyPending, evaluations>>

\* Faults: the form is read again when the answer comes; null is put on display.
FaultFormReread(s, a) ==
  /\ submits[s] # None /\ submits[s].stage = "evaluating"
  /\ LET status == StatusOf(submits[s].form, a)
     IN /\ policyOutcome' = status
        /\ submits' = [submits EXCEPT ![s] =
             [form |-> dispatchForm, stage |-> IF status = "allowed" THEN "posted" ELSE "refused"]]
  /\ UNCHANGED <<loading, dispatchForm, policyPending, evaluations>>

FaultNullShown(s, a) ==
  /\ submits[s] # None /\ submits[s].stage = "evaluating"
  /\ LET status == StatusOf(submits[s].form, a)
     IN /\ policyOutcome' = IF a = "exception" THEN None ELSE status
        /\ submits' = [submits EXCEPT ![s].stage = IF status = "allowed" THEN "posted" ELSE "refused"]
  /\ UNCHANGED <<loading, dispatchForm, policyPending, evaluations>>

\* submitDispatch goes on with the answer; on an exception nothing is shown.
SubmitEvaluated(s, a) ==
  /\ submits[s] # None /\ submits[s].stage = "evaluating"
  /\ LET status == StatusOf(submits[s].form, a)
     IN /\ policyOutcome' = IF a = "exception" THEN policyOutcome ELSE status
        /\ submits' = [submits EXCEPT ![s].stage = IF status = "allowed" THEN "posted" ELSE "refused"]
  /\ UNCHANGED <<loading, dispatchForm, policyPending, evaluations>>

Next ==
  \/ Loaded
  \/ \E f \in Forms, e \in Evaluations : Change(f, e)
  \/ \E e \in Evaluations, a \in Answers : Evaluated(e, a)
  \/ \E s \in Submits : SubmitDispatch(s) \/ \E a \in Answers : SubmitEvaluated(s, a)

\* The browser settles every fetch, if only by giving up.
Spec ==
  /\ Init
  /\ [][Next]_vars
  /\ \A e \in Evaluations : WF_vars(\E a \in Answers : Evaluated(e, a))
  /\ \A s \in Submits : WF_vars(\E a \in Answers : SubmitEvaluated(s, a))

------------------------------------------------------------------------------

\* Types.
TypeOK ==
  /\ loading \in BOOLEAN /\ policyPending \in BOOLEAN
  /\ dispatchForm \in Forms
  /\ policyOutcome \in PolicyStatus \union {"n/a"}
  /\ evaluations \in [Evaluations -> Asked \union {None}]
  /\ submits \in [Submits -> Submit \union {None}]

\* What is posted was confirmed and allowed as it is posted: whatever was
\* changed on the page meanwhile, the server will not refuse it.
PostedAllowed ==
  \A s \in Submits :
    submits[s] # None /\ submits[s].stage = "posted" =>
      Decision(submits[s].form.commandType, ControlOf(submits[s].form)) = "allowed"

\* While "evaluating" is on display an answer is still to come that ends it:
\* none of those that came too early has used it up.
WaitIsAnswered ==
  policyPending => \E e \in Evaluations : evaluations[e] # None /\ ~evaluations[e].answered

\* "Evaluating" does not stay on display, and every submission is decided.
ReadinessComes ==
  /\ policyPending ~> ~policyPending
  /\ \A s \in Submits : submits[s] # None ~> submits[s] # None /\ submits[s].stage # "evaluating"

------------------------------------------------------------------------------

\* server.ts:519: dispatch remains disabled until confirmation and policy
\* approval are satisfied.  Answers that arrive out of order, or for an older
\* form, enable it.
DisabledUntilApproved ==
  CanSubmit => Decision(dispatchForm.commandType, ControlOf(dispatchForm)) = "allowed"

==============================================================================
