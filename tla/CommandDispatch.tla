--------------------------- MODULE CommandDispatch ---------------------------
(***************************************************************************)
(* WmsWcsDispatchService of packages/adapters.  submit looks the command's *)
(* idempotency key up, calls the executor until it gives a receipt or the  *)
(* retries are used up, and files the outcome under the key.  A submission *)
(* is one activation of submit; it is suspended only while it awaits the   *)
(* executor, and other submissions run then.                               *)
(***************************************************************************)
EXTENDS Naturals, Sequences, FiniteSets

CONSTANTS
  Submissions,    \* activations of submit
  SourceSystems,  \* 'wms', 'wcs'
  Ids,            \* command and correlation ids
  Commands,       \* commands that satisfy the contract
  MaxRetries,     \* options.maxRetries, once floored and made non-negative
  None            \* no correlation id, nothing on file, nothing yet

Command == [sourceSystem : SourceSystems, commandId : Ids, correlationId : Ids \union {None}]

ASSUME CommandTypes == Commands \subseteq Command /\ None \notin Ids

ASSUME RetryBound == MaxRetries \in Nat

VARIABLES
  submissions,       \* what each activation of submit has come to
  dispatchOutcomes,  \* this.dispatchOutcomes
  deadLetterQueue    \* this.deadLetterQueue

vars == <<submissions, dispatchOutcomes, deadLetterQueue>>

\* Fault: systems share their ids.
FaultSharedIds(c) ==
  <<CHOOSE x \in SourceSystems : TRUE,
    IF c.correlationId # None THEN c.correlationId ELSE c.commandId>>

\* `${sourceSystem}:${correlationId ?? commandId}`.  A source system has no
\* colon in its name, so that two keys are equal when both parts are.
IdempotencyKey(c) ==
  <<c.sourceSystem, IF c.correlationId # None THEN c.correlationId ELSE c.commandId>>

Keys == SourceSystems \X Ids

Classification == {"transient", "terminal"}

\* How the executor's promise settles.
Answers == {"receipt"} \union Classification

Outcome == [status : {"dispatched", "dead-letter"}, attempts : 1..(MaxRetries + 1),
            command : Commands]

Result == Outcome \union [status : {"duplicate"}, originalResult : Outcome]

Submission == [command : Commands, attempt : 1..(MaxRetries + 1),
               answer : Answers \union {None}, result : Result \union {None}]

DeadLetterEntry == [command : Commands, attempts : 1..(MaxRetries + 1),
                    classification : Classification]

ASSUME NoneIsNothing == None \notin Submission \union Result \union Answers

Init ==
  /\ submissions = [s \in Submissions |-> None]
  /\ dispatchOutcomes = [k \in Keys |-> None]
  /\ deadLetterQueue = << >>

Awaiting(s) == submissions[s] # None /\ submissions[s].result = None

Returned(s) == submissions[s] # None /\ submissions[s].result # None

------------------------------------------------------------------------------

\* A key with an outcome makes the submission a duplicate at once; otherwise
\* the executor is called.  A command that breaks the contract throws here and
\* changes nothing.
Submit(s, c) ==
  LET known == dispatchOutcomes[IdempotencyKey(c)]
      start(result) == [command |-> c, attempt |-> 1, answer |-> None, result |-> result]
  IN
  /\ submissions[s] = None
  /\ \/ /\ known # None
        /\ submissions' = [submissions EXCEPT ![s] =
             start([status |-> "duplicate", originalResult |-> known])]
     \/ /\ known = None
        /\ submissions' = [submissions EXCEPT ![s] = start(None)]
  /\ UNCHANGED <<dispatchOutcomes, deadLetterQueue>>

\* The executor answers, in its own time.
Settle(s, a) ==
  /\ Awaiting(s)
  /\ submissions[s].answer = None
  /\ submissions' = [submissions EXCEPT ![s].answer = a]
  /\ UNCHANGED <<dispatchOutcomes, deadLetterQueue>>

\* submit returns o, having filed it.
Conclude(s, o) ==
  /\ submissions' = [submissions EXCEPT ![s].result = o]
  /\ dispatchOutcomes' = [dispatchOutcomes EXCEPT ![IdempotencyKey(submissions[s].command)] = o]

OutcomeOf(s, status) ==
  [status |-> status, attempts |-> submissions[s].attempt, command |-> submissions[s].command]

Dispatched(s) ==
  /\ Awaiting(s)
  /\ submissions[s].answer = "receipt"
  /\ Conclude(s, OutcomeOf(s, "dispatched"))
  /\ UNCHANGED deadLetterQueue

\* Faults: one retry too many, one too few.
FaultOneTooMany(n) == n <= MaxRetries + 1
FaultOneTooFew(n) == n < MaxRetries

\* attempt counts from one: there are MaxRetries + 1 attempts.
CanRetry(n) == n <= MaxRetries

EntryOf(s) ==
  [command |-> submissions[s].command, attempts |-> submissions[s].attempt,
   classification |-> submissions[s].answer]

\* Fault: every failed attempt is dead-lettered.
FaultEachFailureQueued(s) ==
  /\ Awaiting(s)
  /\ submissions[s].answer = "transient" /\ CanRetry(submissions[s].attempt)
  /\ submissions' = [submissions EXCEPT ![s].attempt = @ + 1, ![s].answer = None]
  /\ deadLetterQueue' = Append(deadLetterQueue, EntryOf(s))
  /\ UNCHANGED dispatchOutcomes

Retry(s) ==
  /\ Awaiting(s)
  /\ submissions[s].answer = "transient" /\ CanRetry(submissions[s].attempt)
  /\ submissions' = [submissions EXCEPT ![s].attempt = @ + 1, ![s].answer = None]
  /\ UNCHANGED <<dispatchOutcomes, deadLetterQueue>>

\* Faults: the loop falls through when retries are used up; the outcome of a
\* dead letter is not filed.
FaultFallThrough(s) ==
  /\ Awaiting(s)
  /\ submissions[s].answer = "terminal"
  /\ deadLetterQueue' = Append(deadLetterQueue, EntryOf(s))
  /\ Conclude(s, OutcomeOf(s, "dead-letter"))

FaultNotFiled(s) ==
  /\ Awaiting(s)
  /\ \/ submissions[s].answer = "terminal"
     \/ submissions[s].answer = "transient" /\ ~CanRetry(submissions[s].attempt)
  /\ deadLetterQueue' = Append(deadLetterQueue, EntryOf(s))
  /\ submissions' = [submissions EXCEPT ![s].result = OutcomeOf(s, "dead-letter")]
  /\ UNCHANGED dispatchOutcomes

DeadLetter(s) ==
  /\ Awaiting(s)
  /\ \/ submissions[s].answer = "terminal"
     \/ submissions[s].answer = "transient" /\ ~CanRetry(submissions[s].attempt)
  /\ deadLetterQueue' = Append(deadLetterQueue, EntryOf(s))
  /\ Conclude(s, OutcomeOf(s, "dead-letter"))

\* submit resumes with the executor's answer.
Resume(s) == Dispatched(s) \/ Retry(s) \/ DeadLetter(s)

Next ==
  \E s \in Submissions :
    \/ \E c \in Commands : Submit(s, c)
    \/ \E a \in Answers : Settle(s, a)
    \/ Resume(s)

\* A settled promise resumes submit, and the executor settles each promise it
\* returns: submit sets it no deadline.
Spec ==
  /\ Init
  /\ [][Next]_vars
  /\ \A s \in Submissions : WF_vars(Resume(s)) /\ WF_vars(\E a \in Answers : Settle(s, a))

------------------------------------------------------------------------------

\* Types, the bound on attempts included.
TypeOK ==
  /\ submissions \in [Submissions -> Submission \union {None}]
  /\ dispatchOutcomes \in [Keys -> Outcome \union {None}]
  /\ deadLetterQueue \in Seq(DeadLetterEntry)

\* Two commands ask for the same thing: same system, same correlation id, the
\* command id standing in for an absent one.
SameRequest(c, d) ==
  /\ c.sourceSystem = d.sourceSystem
  /\ LET id(x) == IF x.correlationId = None THEN x.commandId ELSE x.correlationId
     IN id(c) = id(d)

\* What a duplicate is told happened did happen: a submission for the same
\* request returned exactly that result.
DuplicateHonest ==
  \A s \in Submissions :
    Returned(s) /\ submissions[s].result.status = "duplicate" =>
      \E t \in Submissions :
        /\ Returned(t)
        /\ submissions[t].result = submissions[s].result.originalResult
        /\ SameRequest(submissions[t].command, submissions[s].command)

\* The dead-letter queue accounts for the submissions that were given up, one
\* entry each, with the number of attempts they were told of.
DeadLettersAccounted ==
  \A c \in Commands, n \in 1..(MaxRetries + 1) :
    Cardinality({i \in DOMAIN deadLetterQueue :
                   deadLetterQueue[i].command = c /\ deadLetterQueue[i].attempts = n}) =
    Cardinality({s \in Submissions :
                   /\ Returned(s)
                   /\ submissions[s].result =
                        [status |-> "dead-letter", attempts |-> n, command |-> c]})

\* A transient failure is given up only when every attempt has been made.
RetriesUsedUp ==
  \A i \in DOMAIN deadLetterQueue :
    deadLetterQueue[i].classification = "transient" =>
      deadLetterQueue[i].attempts = MaxRetries + 1

\* Every submission returns.
EverySubmitReturns == \A s \in Submissions : submissions[s] # None ~> Returned(s)

\* Once some submission of a key has finished, the executor gets no more work
\* under that key, other than from submissions it was already working on.
Working(k) == {s \in Submissions : Awaiting(s) /\ IdempotencyKey(submissions[s].command) = k}

Ledger == INSTANCE DispatchLedger WITH
  working <- [k \in Keys |-> Working(k)],
  closed <- {k \in Keys : dispatchOutcomes[k] # None}

ImplementsLedger == Ledger!Spec

------------------------------------------------------------------------------

\* phase-6-mission-control-foundation-slice.md:38: dispatch duplicate
\* submissions are handled idempotently.  Two that overlap are both
\* dispatched.
DispatchedOnce ==
  \A s, t \in Submissions :
    (/\ Returned(s) /\ submissions[s].result.status = "dispatched"
     /\ Returned(t) /\ submissions[t].result.status = "dispatched"
     /\ SameRequest(submissions[s].command, submissions[t].command)) => s = t

==============================================================================
