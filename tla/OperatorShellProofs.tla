--------------------------- MODULE OperatorShellProofs ---------------------------
(***************************************************************************)
(* Proofs about the dispatch form of the operator shell, for any number of *)
(* policy requests and submissions in flight.                              *)
(***************************************************************************)
EXTENDS OperatorShell, TLAPS

\* Every form has a policy, and what is asked about it is answered with one.
LEMMA StatusType ==
  ASSUME NEW f \in Form, NEW a \in Answers
  PROVE  StatusOf(f, a) \in PolicyStatus
  BY DEF StatusOf, Decision, PolicyStatus

\* Requests and submissions in flight carry a form of the page.
LEMMA InFlight ==
  ASSUME TypeOK
  PROVE  /\ \A e \in Evaluations : evaluations[e] # None => evaluations[e] \in Asked
         /\ \A s \in Submits : submits[s] # None => submits[s] \in Submit
  BY DEF TypeOK

LEMMA Initial == Init => TypeOK /\ PostedAllowed
  <1>. SUFFICES ASSUME Init
                PROVE  TypeOK /\ PostedAllowed
    OBVIOUS
  <1>1. evaluations \in [Evaluations -> Asked \union {None}]
    <2>1. [form |-> EmptyForm, answered |-> FALSE] \in Asked
      BY FormTypes DEF Asked
    <2>. QED
      BY <2>1 DEF Init
  <1>2. TypeOK
    BY <1>1, FormTypes DEF Init, TypeOK
  <1>. QED
    BY <1>2 DEF Init, PostedAllowed

LEMMA ChangeStep ==
  ASSUME TypeOK, PostedAllowed, NEW f \in Forms, NEW e \in Evaluations, Change(f, e)
  PROVE  TypeOK' /\ PostedAllowed'
  <1>1. [form |-> f, answered |-> FALSE] \in Asked
    BY FormTypes DEF Asked
  <1>2. evaluations' \in [Evaluations -> Asked \union {None}]
    BY <1>1 DEF TypeOK, Change
  <1>3. TypeOK'
    BY <1>2 DEF TypeOK, Change
  <1>4. PostedAllowed'
    BY DEF PostedAllowed, Change
  <1>. QED
    BY <1>3, <1>4

LEMMA EvaluatedStep ==
  ASSUME TypeOK, PostedAllowed, NEW e \in Evaluations, NEW a \in Answers, Evaluated(e, a)
  PROVE  TypeOK' /\ PostedAllowed'
  <1>1. evaluations[e] \in Asked /\ evaluations[e].form \in Form
    BY InFlight DEF Evaluated, Asked
  <1>2. policyOutcome' \in PolicyStatus
    BY <1>1, StatusType DEF Evaluated
  <1>3. [evaluations[e] EXCEPT !.answered = TRUE] \in Asked
    BY <1>1 DEF Asked
  <1>4. evaluations' \in [Evaluations -> Asked \union {None}]
    BY <1>3 DEF TypeOK, Evaluated
  <1>5. TypeOK'
    BY <1>2, <1>4 DEF TypeOK, Evaluated
  <1>6. PostedAllowed'
    BY DEF PostedAllowed, Evaluated
  <1>. QED
    BY <1>5, <1>6

LEMMA SubmitStep ==
  ASSUME TypeOK, PostedAllowed, NEW s \in Submits, SubmitDispatch(s)
  PROVE  TypeOK' /\ PostedAllowed'
  <1>1. [form |-> dispatchForm, stage |-> "evaluating"] \in Submit
    BY FormTypes DEF TypeOK, Submit, Stage
  <1>2. submits' \in [Submits -> Submit \union {None}]
    BY <1>1 DEF TypeOK, SubmitDispatch
  <1>3. TypeOK'
    BY <1>2 DEF TypeOK, SubmitDispatch
  <1>4. \A t \in Submits : t # s => submits'[t] = submits[t]
    BY DEF TypeOK, SubmitDispatch
  <1>5. submits'[s].stage # "posted"
    BY DEF TypeOK, SubmitDispatch
  <1>6. PostedAllowed'
    BY <1>4, <1>5 DEF PostedAllowed
  <1>. QED
    BY <1>3, <1>6

\* The answer is for the form that was captured, and decides what becomes of it.
LEMMA SubmitEvaluatedStep ==
  ASSUME TypeOK, PostedAllowed, NEW s \in Submits, NEW a \in Answers, SubmitEvaluated(s, a)
  PROVE  TypeOK' /\ PostedAllowed'
  <1>. DEFINE status == StatusOf(submits[s].form, a)
              stage == IF status = "allowed" THEN "posted" ELSE "refused"
  <1>1. submits[s] \in Submit /\ submits[s].form \in Form
    BY InFlight DEF SubmitEvaluated, Submit
  <1>2. policyOutcome' \in PolicyStatus \union {"n/a"}
    BY <1>1, StatusType DEF TypeOK, SubmitEvaluated
  <1>3. /\ submits' = [submits EXCEPT ![s] = [submits[s] EXCEPT !.stage = stage]]
        /\ [submits[s] EXCEPT !.stage = stage] \in Submit
    BY <1>1 DEF TypeOK, SubmitEvaluated, Submit, Stage
  <1>4. submits' \in [Submits -> Submit \union {None}]
    BY <1>3 DEF TypeOK
  <1>5. TypeOK'
    BY <1>2, <1>4 DEF TypeOK, SubmitEvaluated
  <1>6. \A t \in Submits : t # s => submits'[t] = submits[t]
    BY <1>3 DEF TypeOK
  <1>7. submits'[s].form = submits[s].form /\ submits'[s].stage = stage
    BY <1>1, <1>3 DEF TypeOK, Submit
  <1>8. stage = "posted" => Decision(submits[s].form.commandType, ControlOf(submits[s].form)) = "allowed"
    BY DEF StatusOf
  <1>9. PostedAllowed'
    <2>. HIDE DEF stage
    <2>. QED
      BY <1>6, <1>7, <1>8 DEF PostedAllowed
  <1>. QED
    BY <1>5, <1>9

LEMMA Step == TypeOK /\ PostedAllowed /\ [Next]_vars => TypeOK' /\ PostedAllowed'
  <1>. SUFFICES ASSUME TypeOK, PostedAllowed, [Next]_vars
                PROVE  TypeOK' /\ PostedAllowed'
    OBVIOUS
  <1>1. CASE Loaded
    BY <1>1 DEF Loaded, TypeOK, PostedAllowed
  <1>2. CASE UNCHANGED vars
    BY <1>2 DEF vars, TypeOK, PostedAllowed
  <1>. QED
    BY <1>1, <1>2, ChangeStep, EvaluatedStep, SubmitStep, SubmitEvaluatedStep DEF Next

\* Types of the page: its fields, what it has asked, what it has submitted.
THEOREM ShellTyped == Spec => []TypeOK
  BY Initial, Step, PTL DEF Spec

\* However many requests are in flight and in whatever order they are answered,
\* what is posted was allowed as it is posted.
THEOREM PostsAllowed == Spec => []PostedAllowed
  BY Initial, Step, PTL DEF Spec

(***************************************************************************)
(* Waiting.                                                                *)
(***************************************************************************)

\* A request of a changed field that is still to be answered.
Awaited(e) == evaluations[e] # None /\ ~evaluations[e].answered

\* The request the page makes on mounting is to be answered.
LEMMA WaitInit == Init => WaitIsAnswered
  <1>. SUFFICES ASSUME Init
                PROVE  Awaited(First)
    BY FirstEvaluation DEF WaitIsAnswered, Awaited
  <1>1. evaluations[First] = [form |-> EmptyForm, answered |-> FALSE]
    BY FirstEvaluation DEF Init
  <1>2. evaluations[First] \in Asked
    BY <1>1, FormTypes DEF Asked
  <1>3. evaluations[First] # None
    BY <1>2, NoneIsNothing
  <1>4. evaluations[First].answered = FALSE
    BY <1>1
  <1>. QED
    BY <1>3, <1>4 DEF Awaited

\* A changed field puts "evaluating" on display and asks; any answer, to that
\* or to an older question, takes it off.
LEMMA WaitStep == TypeOK /\ WaitIsAnswered /\ [Next]_vars => WaitIsAnswered'
  <1>. SUFFICES ASSUME TypeOK, WaitIsAnswered, [Next]_vars
                PROVE  WaitIsAnswered'
    OBVIOUS
  <1>1. ASSUME NEW f \in Forms, NEW e \in Evaluations, Change(f, e)
        PROVE  WaitIsAnswered'
    <2>1. evaluations'[e] = [form |-> f, answered |-> FALSE]
      BY <1>1 DEF Change, TypeOK
    <2>2. evaluations'[e] \in Asked
      BY <2>1, FormTypes DEF Asked
    <2>3. evaluations'[e] # None
      BY <2>2, NoneIsNothing
    <2>4. evaluations'[e].answered = FALSE
      BY <2>1
    <2>. QED
      BY <2>3, <2>4 DEF WaitIsAnswered
  <1>2. ASSUME NEW e \in Evaluations, NEW a \in Answers, Evaluated(e, a)
        PROVE  WaitIsAnswered'
    BY <1>2 DEF Evaluated, WaitIsAnswered
  <1>3. CASE UNCHANGED <<policyPending, evaluations>>
    BY <1>3 DEF WaitIsAnswered
  <1>. QED
    BY <1>1, <1>2, <1>3 DEF Next, Loaded, SubmitDispatch, SubmitEvaluated, vars

\* Whatever is changed while answers are on their way, and in whatever order
\* they come, "evaluating" is never on display with nobody left to end it.
THEOREM WaitsEnd == Spec => []WaitIsAnswered
  <1>1. Init => TypeOK /\ PostedAllowed /\ WaitIsAnswered
    BY Initial, WaitInit
  <1>2. TypeOK /\ PostedAllowed /\ WaitIsAnswered /\ [Next]_vars
          => (TypeOK /\ PostedAllowed /\ WaitIsAnswered)'
    BY Step, WaitStep
  <1>. QED
    BY <1>1, <1>2, PTL DEF Spec

==============================================================================
