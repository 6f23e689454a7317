------------------------ MODULE CommandDispatchProofs ------------------------
(***************************************************************************)
(* Theorems about CommandDispatch, for any number of submissions, commands *)
(* and retries.                                                            *)
(***************************************************************************)
EXTENDS CommandDispatch, FiniteSetTheorems, SequenceTheorems, TLAPS

\* A command's key is a key.
LEMMA KeyType == \A c \in Commands : IdempotencyKey(c) \in Keys
BY CommandTypes DEF IdempotencyKey, Keys, Command

\* Commands with the same key ask for the same thing.
LEMMA KeySeparates ==
  \A c, d \in Commands : IdempotencyKey(c) = IdempotencyKey(d) => SameRequest(c, d)
BY DEF IdempotencyKey, SameRequest

\* What submit files and returns is an outcome, never the absent value.
LEMMA OutcomeType ==
  ASSUME TypeOK, NEW s \in Submissions, submissions[s] # None,
         NEW st \in {"dispatched", "dead-letter"}
  PROVE  OutcomeOf(s, st) \in Outcome /\ OutcomeOf(s, st) # None
<1>1. submissions[s] \in Submission
  BY DEF TypeOK
<1>2. OutcomeOf(s, st) \in Outcome
  BY <1>1 DEF OutcomeOf, Outcome, Submission
<1>3. QED
  BY <1>2, NoneIsNothing DEF Result

(***************************************************************************)
(* What a step does to the submission it belongs to.                       *)
(***************************************************************************)

\* submit has filed outcome o and returned it.
Concludes(s, o) ==
  /\ Awaiting(s) /\ o \in Outcome
  /\ o.attempts = submissions[s].attempt /\ o.command = submissions[s].command
  /\ Conclude(s, o)

Goes(s, x) == submissions' = [submissions EXCEPT ![s] = x] /\ UNCHANGED dispatchOutcomes

\* Still waiting for the executor, on the same command.
Waits(s) ==
  \E x \in Submission :
    /\ Awaiting(s) /\ x.command = submissions[s].command /\ x.result = None
    /\ Goes(s, x)

Starts(s) ==
  \E x \in Submission :
    /\ submissions[s] = None
    /\ Goes(s, x)
    /\ \/ dispatchOutcomes[IdempotencyKey(x.command)] = None /\ x.result = None
       \/ /\ dispatchOutcomes[IdempotencyKey(x.command)] # None
          /\ x.result # None /\ x.result \in Result
          /\ x.result = [status |-> "duplicate",
                         originalResult |-> dispatchOutcomes[IdempotencyKey(x.command)]]

\* Every step starts a submission, keeps it waiting, or concludes it; only
\* giving up adds to the dead-letter queue.
LEMMA StepShape ==
  ASSUME TypeOK, NEW s \in Submissions,
         \/ \E c \in Commands : Submit(s, c)
         \/ \E a \in Answers : Settle(s, a)
         \/ Resume(s)
  PROVE  \/ (Starts(s) \/ Waits(s)) /\ UNCHANGED deadLetterQueue
         \/ \E o \in Outcome : Concludes(s, o) /\ o.status = "dispatched" /\ UNCHANGED deadLetterQueue
         \/ \E o \in Outcome :
              /\ Concludes(s, o) /\ o.status = "dead-letter"
              /\ EntryOf(s) \in DeadLetterEntry
              /\ EntryOf(s).classification = "transient" => ~CanRetry(EntryOf(s).attempts)
              /\ deadLetterQueue' = Append(deadLetterQueue, EntryOf(s))
<1>0. submissions[s] # None => submissions[s] \in Submission
  BY DEF TypeOK
<1>1. ASSUME NEW c \in Commands, Submit(s, c) PROVE Starts(s) /\ UNCHANGED deadLetterQueue
  <2> DEFINE known == dispatchOutcomes[IdempotencyKey(c)]
             dup == [status |-> "duplicate", originalResult |-> known]
             x(r) == [command |-> c, attempt |-> 1, answer |-> None, result |-> r]
  <2>1. known \in Outcome \union {None}
    BY KeyType DEF TypeOK
  <2>2. known # None => dup \in Result /\ dup # None
    BY <2>1, NoneIsNothing DEF Result
  <2>3. x(None) \in Submission /\ (known # None => x(dup) \in Submission)
    BY <2>2, RetryBound DEF Submission
  <2>4. CASE known # None /\ submissions' = [submissions EXCEPT ![s] = x(dup)]
    BY <1>1, <2>2, <2>3, <2>4 DEF Submit, Starts, Goes
  <2>5. CASE known = None /\ submissions' = [submissions EXCEPT ![s] = x(None)]
    BY <1>1, <2>3, <2>5 DEF Submit, Starts, Goes
  <2>6. QED
    BY <1>1, <2>4, <2>5 DEF Submit
<1>2. ASSUME NEW a \in Answers, Settle(s, a) PROVE Waits(s) /\ UNCHANGED deadLetterQueue
  <2> DEFINE x == [submissions[s] EXCEPT !.answer = a]
  <2>1. x \in Submission /\ x.command = submissions[s].command /\ x.result = None
    BY <1>0, <1>2 DEF Settle, Awaiting, Submission
  <2>2. QED
    BY <1>2, <2>1 DEF Settle, Waits, Goes
<1>3. ASSUME Retry(s) PROVE Waits(s) /\ UNCHANGED deadLetterQueue
  <2> DEFINE x == [submissions[s] EXCEPT !.attempt = @ + 1, !.answer = None]
  <2>1. submissions[s] \in Submission /\ submissions[s].attempt + 1 \in 1..(MaxRetries + 1)
    BY <1>0, <1>3, RetryBound DEF Retry, Awaiting, CanRetry, Submission
  <2>2. x \in Submission /\ x.command = submissions[s].command /\ x.result = None
    BY <1>3, <2>1 DEF Retry, Awaiting, Submission
  <2>3. submissions' = [submissions EXCEPT ![s] = x]
    BY <1>3 DEF Retry, TypeOK
  <2>4. QED
    BY <1>3, <2>2, <2>3 DEF Retry, Waits, Goes
<1>4. ASSUME NEW st \in {"dispatched", "dead-letter"}, Awaiting(s), Conclude(s, OutcomeOf(s, st))
      PROVE  /\ OutcomeOf(s, st) \in Outcome
             /\ Concludes(s, OutcomeOf(s, st)) /\ OutcomeOf(s, st).status = st
  BY <1>4, OutcomeType DEF Concludes, OutcomeOf, Awaiting
<1>5. ASSUME Dispatched(s)
      PROVE  \E o \in Outcome : Concludes(s, o) /\ o.status = "dispatched" /\ UNCHANGED deadLetterQueue
  BY <1>4, <1>5 DEF Dispatched
<1>6. ASSUME DeadLetter(s)
      PROVE  \E o \in Outcome :
              /\ Concludes(s, o) /\ o.status = "dead-letter"
              /\ EntryOf(s) \in DeadLetterEntry
              /\ EntryOf(s).classification = "transient" => ~CanRetry(EntryOf(s).attempts)
              /\ deadLetterQueue' = Append(deadLetterQueue, EntryOf(s))
  <2>1. submissions[s] \in Submission
    BY <1>0, <1>6 DEF DeadLetter, Awaiting
  <2>2. EntryOf(s) \in DeadLetterEntry
    BY <1>6, <2>1 DEF DeadLetter, EntryOf, DeadLetterEntry, Submission, Classification
  <2>3. EntryOf(s).classification = "transient" => ~CanRetry(EntryOf(s).attempts)
    BY <1>6 DEF DeadLetter, EntryOf
  <2>4. QED
    BY <1>4, <1>6, <2>2, <2>3 DEF DeadLetter
<1>7. QED
  BY <1>1, <1>2, <1>3, <1>5, <1>6 DEF Resume

\* The disjuncts of StepShape, named.
Moved == \E s \in Submissions : (Starts(s) \/ Waits(s)) /\ UNCHANGED deadLetterQueue

Delivered ==
  \E s \in Submissions, o \in Outcome :
    Concludes(s, o) /\ o.status = "dispatched" /\ UNCHANGED deadLetterQueue

GivenUp ==
  \E s \in Submissions, o \in Outcome :
    /\ Concludes(s, o) /\ o.status = "dead-letter"
    /\ EntryOf(s) \in DeadLetterEntry
    /\ EntryOf(s).classification = "transient" => ~CanRetry(EntryOf(s).attempts)
    /\ deadLetterQueue' = Append(deadLetterQueue, EntryOf(s))

\* A step of the service has one of the three shapes.
LEMMA StepCases == ASSUME TypeOK, Next PROVE Moved \/ Delivered \/ GivenUp
<1>1. PICK s \in Submissions :
        \/ \E c \in Commands : Submit(s, c)
        \/ \E a \in Answers : Settle(s, a)
        \/ Resume(s)
  BY DEF Next
<1>2. QED
  BY <1>1, StepShape DEF Moved, Delivered, GivenUp

\* Filing an outcome keeps the types of what is filed and of what is returned.
LEMMA ConcludesTypes ==
  ASSUME TypeOK, NEW s \in Submissions, NEW o \in Outcome, Concludes(s, o)
  PROVE  /\ submissions' \in [Submissions -> Submission \union {None}]
         /\ dispatchOutcomes' \in [Keys -> Outcome \union {None}]
<1>1. submissions[s] \in Submission
  BY DEF TypeOK, Concludes, Awaiting
<1>2. [submissions[s] EXCEPT !.result = o] \in Submission
  BY <1>1 DEF Submission, Result
<1>3. submissions' = [submissions EXCEPT ![s] = [submissions[s] EXCEPT !.result = o]]
  BY DEF Concludes, Conclude, TypeOK
<1>4. IdempotencyKey(submissions[s].command) \in Keys
  BY <1>1, KeyType DEF Submission
<1>5. QED
  BY <1>2, <1>3, <1>4 DEF TypeOK, Concludes, Conclude

\* A step keeps the types.
LEMMA TypeStep == ASSUME TypeOK, [Next]_vars PROVE TypeOK'
<1>1. CASE UNCHANGED vars
  BY <1>1 DEF vars, TypeOK
<1>2. CASE Moved
  BY <1>2 DEF Moved, Starts, Waits, Goes, TypeOK
<1>3. CASE Delivered
  <2>1. PICK s \in Submissions, o \in Outcome : Concludes(s, o) /\ UNCHANGED deadLetterQueue
    BY <1>3 DEF Delivered
  <2>2. QED
    BY <2>1, ConcludesTypes DEF TypeOK
<1>4. CASE GivenUp
  <2>1. PICK s \in Submissions, o \in Outcome :
          /\ Concludes(s, o) /\ EntryOf(s) \in DeadLetterEntry
          /\ deadLetterQueue' = Append(deadLetterQueue, EntryOf(s))
    BY <1>4 DEF GivenUp
  <2>2. deadLetterQueue' \in Seq(DeadLetterEntry)
    BY <2>1 DEF TypeOK
  <2>3. QED
    BY <2>1, <2>2, ConcludesTypes DEF TypeOK
<1>5. QED
  BY <1>1, <1>2, <1>3, <1>4, StepCases

\* The service, taking whatever steps it takes: what follows needs no fairness,
\* and holds of a service that is part of something else.
Steps == Init /\ [][Next]_vars

LEMMA TypesHold == Steps => []TypeOK
<1>1. Init => TypeOK
  BY DEF Init, TypeOK
<1>2. QED
  BY <1>1, TypeStep, PTL DEF Steps

\* The state stays well typed, attempts stay within MaxRetries + 1, and what is
\* on file is always the outcome of a real dispatch, never a duplicate's.
THEOREM DispatchTypes == Spec => []TypeOK
BY TypesHold, PTL DEF Spec, Steps

LEMMA RetriesHold == Steps => []RetriesUsedUp
<1>1. Init => RetriesUsedUp
  BY DEF Init, RetriesUsedUp
<1>2. TypeOK /\ RetriesUsedUp /\ [Next]_vars => RetriesUsedUp'
  <2> SUFFICES ASSUME TypeOK, RetriesUsedUp, [Next]_vars PROVE RetriesUsedUp'
    OBVIOUS
  <2>1. CASE UNCHANGED deadLetterQueue
    BY <2>1 DEF RetriesUsedUp
  <2>2. CASE GivenUp
    <3>1. PICK s \in Submissions :
            /\ EntryOf(s) \in DeadLetterEntry
            /\ EntryOf(s).classification = "transient" => ~CanRetry(EntryOf(s).attempts)
            /\ deadLetterQueue' = Append(deadLetterQueue, EntryOf(s))
      BY <2>2 DEF GivenUp
    <3>2. EntryOf(s).classification = "transient" => EntryOf(s).attempts = MaxRetries + 1
      BY <3>1, RetryBound DEF DeadLetterEntry, CanRetry
    <3>3. QED
      BY <3>1, <3>2 DEF RetriesUsedUp, TypeOK
  <2>3. QED
    BY <2>1, <2>2, StepCases DEF vars, Moved, Delivered
<1>3. QED
  BY <1>1, <1>2, TypesHold, PTL DEF Steps

\* Whatever MaxRetries is, a transient failure reaches the dead-letter queue
\* only when all MaxRetries + 1 attempts have been made.
THEOREM RetriesExhausted == Spec => []RetriesUsedUp
BY RetriesHold, PTL DEF Spec, Steps

(***************************************************************************)
(* Why a duplicate can be believed.  DuplicateHonest speaks of results;    *)
(* what keeps it true is that every outcome on file was returned to a      *)
(* submission with that key, and that nothing returned is ever revised.    *)
(***************************************************************************)

ReturnedUnder(t, k, o) ==
  Returned(t) /\ submissions[t].result = o /\ IdempotencyKey(submissions[t].command) = k

FiledHonestly ==
  \A k \in Keys : dispatchOutcomes[k] # None =>
    \E t \in Submissions : ReturnedUnder(t, k, dispatchOutcomes[k])

\* Only the submission that a step belongs to changes, and not if it returned.
LEMMA OthersKept ==
  ASSUME TypeOK, NEW s \in Submissions,
         Starts(s) \/ Waits(s) \/ \E o \in Outcome : Concludes(s, o)
  PROVE  /\ ~Returned(s)
         /\ \A t \in Submissions : t # s => submissions'[t] = submissions[t]
BY DEF Starts, Waits, Goes, Concludes, Conclude, Awaiting, Returned, TypeOK

\* So what was returned under a key stays returned under it.
LEMMA ReturnsKept ==
  ASSUME TypeOK, NEW s \in Submissions,
         Starts(s) \/ Waits(s) \/ \E o \in Outcome : Concludes(s, o),
         NEW t \in Submissions, NEW k, NEW o, ReturnedUnder(t, k, o)
  PROVE  /\ Returned(t)' /\ submissions'[t].result = o
         /\ IdempotencyKey(submissions'[t].command) = k
         /\ submissions'[t] = submissions[t]
BY OthersKept DEF ReturnedUnder, Returned

\* A submission that keeps waiting, or starts, leaves the file honest.
LEMMA MovesFiledHonestly ==
  ASSUME TypeOK, FiledHonestly, NEW s \in Submissions, Starts(s) \/ Waits(s)
  PROVE  FiledHonestly'
<1>1. SUFFICES ASSUME NEW k \in Keys, dispatchOutcomes'[k] # None
               PROVE  \E t \in Submissions : ReturnedUnder(t, k, dispatchOutcomes[k])'
  BY DEF FiledHonestly
<1>2. dispatchOutcomes' = dispatchOutcomes
  BY DEF Starts, Waits, Goes
<1>3. PICK t \in Submissions : ReturnedUnder(t, k, dispatchOutcomes[k])
  BY <1>1, <1>2 DEF FiledHonestly
<1>4. QED
  BY <1>2, <1>3, ReturnsKept DEF ReturnedUnder

\* A submission that concludes is the witness for what it files.
LEMMA ConcludesFiledHonestly ==
  ASSUME TypeOK, FiledHonestly, NEW s \in Submissions, NEW o \in Outcome, Concludes(s, o)
  PROVE  FiledHonestly'
<1> DEFINE key == IdempotencyKey(submissions[s].command)
<1>1. SUFFICES ASSUME NEW k \in Keys, dispatchOutcomes'[k] # None
               PROVE  \E t \in Submissions : ReturnedUnder(t, k, dispatchOutcomes[k])'
  BY DEF FiledHonestly
<1>2. submissions[s] \in Submission /\ o # None
  BY NoneIsNothing DEF TypeOK, Concludes, Awaiting, Result
<1>3. /\ submissions'[s] = [submissions[s] EXCEPT !.result = o]
      /\ dispatchOutcomes' = [dispatchOutcomes EXCEPT ![key] = o]
  BY DEF Concludes, Conclude, TypeOK
<1>4. [submissions[s] EXCEPT !.result = o] \in Submission
  BY <1>2 DEF Submission, Result
<1>5. CASE k = key
  <2>1. dispatchOutcomes'[k] = o
    BY <1>3, <1>5 DEF TypeOK
  <2>2. submissions'[s] # None
    BY <1>3, <1>4, NoneIsNothing
  <2>3. submissions'[s].result = o /\ submissions'[s].command = submissions[s].command
    BY <1>2, <1>3 DEF Submission
  <2>4. QED
    BY <1>2, <1>5, <2>1, <2>2, <2>3 DEF ReturnedUnder, Returned
<1>6. CASE k # key
  <2>1. dispatchOutcomes'[k] = dispatchOutcomes[k]
    BY <1>3, <1>6 DEF TypeOK
  <2>2. PICK t \in Submissions : ReturnedUnder(t, k, dispatchOutcomes[k])
    BY <1>1, <2>1 DEF FiledHonestly
  <2>3. QED
    BY <2>1, <2>2, ReturnsKept DEF ReturnedUnder
<1>7. QED
  BY <1>5, <1>6

\* A submission that has just been told it is a duplicate was told the truth.
LEMMA StartsHonestly ==
  ASSUME TypeOK, FiledHonestly, NEW s \in Submissions, Starts(s),
         Returned(s)', submissions'[s].result.status = "duplicate"
  PROVE  \E t \in Submissions :
           /\ Returned(t)'
           /\ submissions'[t].result = submissions'[s].result.originalResult
           /\ SameRequest(submissions'[t].command, submissions'[s].command)
<1>1. PICK x \in Submission :
        /\ Goes(s, x)
        /\ \/ x.result = None
           \/ /\ dispatchOutcomes[IdempotencyKey(x.command)] # None
              /\ x.result = [status |-> "duplicate",
                             originalResult |-> dispatchOutcomes[IdempotencyKey(x.command)]]
  BY DEF Starts
<1>2. submissions'[s] = x
  BY <1>1 DEF Goes, TypeOK
<1>3. /\ dispatchOutcomes[IdempotencyKey(x.command)] # None
      /\ x.result.originalResult = dispatchOutcomes[IdempotencyKey(x.command)]
  BY <1>1, <1>2 DEF Returned
<1>4. x.command \in Commands /\ IdempotencyKey(x.command) \in Keys
  BY KeyType DEF Submission
<1>5. PICK t \in Submissions :
        ReturnedUnder(t, IdempotencyKey(x.command), dispatchOutcomes[IdempotencyKey(x.command)])
  BY <1>3, <1>4 DEF FiledHonestly
<1>6. submissions[t].command \in Commands
  BY <1>5 DEF ReturnedUnder, Returned, TypeOK, Submission
<1>7. /\ Returned(t)' /\ submissions'[t] = submissions[t]
      /\ submissions'[t].result = dispatchOutcomes[IdempotencyKey(x.command)]
      /\ IdempotencyKey(submissions'[t].command) = IdempotencyKey(x.command)
  BY <1>5, ReturnsKept
<1>8. SameRequest(submissions'[t].command, x.command)
  BY <1>4, <1>6, <1>7, KeySeparates
<1>9. QED
  BY <1>2, <1>3, <1>7, <1>8

\* A step leaves every duplicate's claim true.
LEMMA HonestyKept ==
  ASSUME TypeOK, FiledHonestly, DuplicateHonest, NEW s \in Submissions,
         Starts(s) \/ Waits(s) \/ \E o \in Outcome : Concludes(s, o)
  PROVE  DuplicateHonest'
<1>1. SUFFICES ASSUME NEW u \in Submissions, Returned(u)',
                      submissions'[u].result.status = "duplicate"
               PROVE  \E t \in Submissions :
                        /\ Returned(t)'
                        /\ submissions'[t].result = submissions'[u].result.originalResult
                        /\ SameRequest(submissions'[t].command, submissions'[u].command)
  BY DEF DuplicateHonest
<1>2. CASE u # s
  <2>1. submissions'[u] = submissions[u] /\ Returned(u)
    BY <1>1, <1>2, OthersKept DEF Returned
  <2>2. PICK t \in Submissions :
          /\ Returned(t)
          /\ submissions[t].result = submissions[u].result.originalResult
          /\ SameRequest(submissions[t].command, submissions[u].command)
    BY <1>1, <2>1 DEF DuplicateHonest
  <2>3. ReturnedUnder(t, IdempotencyKey(submissions[t].command), submissions[t].result)
    BY <2>2 DEF ReturnedUnder
  <2>4. Returned(t)' /\ submissions'[t] = submissions[t]
    BY <2>3, ReturnsKept
  <2>5. QED
    BY <2>1, <2>2, <2>4
<1>3. CASE u = s /\ Starts(s)
  BY <1>1, <1>3, StartsHonestly
<1>4. CASE u = s /\ Waits(s)
  <2>1. PICK x \in Submission : x.result = None /\ submissions' = [submissions EXCEPT ![s] = x]
    BY <1>4 DEF Waits, Goes
  <2>2. submissions'[s] = x
    BY <2>1 DEF TypeOK
  <2>3. QED
    BY <1>1, <1>4, <2>1, <2>2 DEF Returned
<1>5. CASE u = s /\ \E o \in Outcome : Concludes(s, o)
  <2>1. PICK o \in Outcome : Concludes(s, o)
    BY <1>5
  <2>2. submissions[s] \in Submission
    BY <2>1 DEF TypeOK, Concludes, Awaiting
  <2>3. submissions'[s].result = o
    BY <2>1, <2>2 DEF Concludes, Conclude, TypeOK, Submission
  <2>4. QED
    BY <1>1, <1>5, <2>3 DEF Outcome
<1>6. QED
  BY <1>2, <1>3, <1>4, <1>5

\* A step keeps what is on file and what duplicates were told honest.
LEMMA HonestyStep ==
  ASSUME TypeOK, FiledHonestly, DuplicateHonest, [Next]_vars
  PROVE  FiledHonestly' /\ DuplicateHonest'
<1>1. CASE UNCHANGED vars
  BY <1>1 DEF vars, FiledHonestly, DuplicateHonest, ReturnedUnder, Returned
<1>2. CASE Moved
  BY <1>2, MovesFiledHonestly, HonestyKept DEF Moved
<1>3. CASE Delivered \/ GivenUp
  BY <1>3, ConcludesFiledHonestly, HonestyKept DEF Delivered, GivenUp
<1>4. QED
  BY <1>1, <1>2, <1>3, StepCases

LEMMA HonestyHolds == Steps => []DuplicateHonest
<1>1. Init => FiledHonestly /\ DuplicateHonest
  BY DEF Init, FiledHonestly, DuplicateHonest, Returned
<1>2. QED
  BY <1>1, HonestyStep, TypesHold, PTL DEF Steps

\* A duplicate is always answered with the result that a submission of the same
\* request, same system and same correlation, was really given, however many
\* submissions of it overlap.
THEOREM DuplicatesHonest == Spec => []DuplicateHonest
BY HonestyHolds, PTL DEF Spec, Steps

(***************************************************************************)
(* The ledger.                                                             *)
(***************************************************************************)

WorkingNow == [k \in Keys |-> Working(k)]

ClosedNow == {k \in Keys : dispatchOutcomes[k] # None}

\* A submission that starts begins work under an open key, or does none.
LEMMA StartsBegin ==
  ASSUME TypeOK, NEW s \in Submissions, Starts(s)
  PROVE  \/ \E k \in Keys : Ledger!Begin(s, k)
         \/ WorkingNow' = WorkingNow /\ ClosedNow' = ClosedNow
<1>1. PICK x \in Submission :
        /\ submissions[s] = None
        /\ Goes(s, x)
        /\ \/ dispatchOutcomes[IdempotencyKey(x.command)] = None /\ x.result = None
           \/ x.result # None
  BY DEF Starts
<1> DEFINE key == IdempotencyKey(x.command)
<1>2. submissions'[s] = x /\ x # None /\ key \in Keys
  BY <1>1, KeyType, NoneIsNothing DEF Goes, TypeOK, Submission
<1>3. \A t \in Submissions : t # s => submissions'[t] = submissions[t]
  BY OthersKept
<1>4. ClosedNow' = ClosedNow
  BY <1>1 DEF Goes, ClosedNow
<1>5. \A k \in Keys : s \notin Working(k)
  BY <1>1 DEF Working, Awaiting
<1>6. CASE x.result # None
  <2>1. \A k \in Keys : Working(k)' = Working(k)
    BY <1>2, <1>3, <1>5, <1>6 DEF Working, Awaiting
  <2>2. QED
    BY <1>4, <2>1 DEF WorkingNow
<1>7. CASE dispatchOutcomes[key] = None /\ x.result = None
  <2>1. Working(key)' = Working(key) \union {s}
    BY <1>2, <1>3, <1>5, <1>7 DEF Working, Awaiting
  <2>2. \A k \in Keys : k # key => Working(k)' = Working(k)
    BY <1>2, <1>3, <1>5, <1>7 DEF Working, Awaiting
  <2>3. WorkingNow' = [WorkingNow EXCEPT ![key] = @ \union {s}]
    BY <1>2, <2>1, <2>2 DEF WorkingNow
  <2>4. QED
    BY <1>2, <1>4, <1>5, <1>7, <2>3 DEF WorkingNow, ClosedNow, Ledger!Begin
<1>8. QED
  BY <1>1, <1>6, <1>7

\* A submission that keeps waiting keeps its place in the ledger.
LEMMA WaitsStutters ==
  ASSUME TypeOK, NEW s \in Submissions, Waits(s)
  PROVE  WorkingNow' = WorkingNow /\ ClosedNow' = ClosedNow
<1>1. PICK x \in Submission :
        Awaiting(s) /\ x.command = submissions[s].command /\ x.result = None /\ Goes(s, x)
  BY DEF Waits
<1>2. submissions'[s] = x /\ x # None
  BY <1>1, NoneIsNothing DEF Goes, TypeOK
<1>3. \A t \in Submissions : t # s => submissions'[t] = submissions[t]
  BY OthersKept
<1>4. \A k \in Keys : Working(k)' = Working(k)
  BY <1>1, <1>2, <1>3 DEF Working, Awaiting
<1>5. QED
  BY <1>1, <1>4 DEF Goes, WorkingNow, ClosedNow

\* A submission that concludes ends its work, which closes its key.
LEMMA ConcludesEnds ==
  ASSUME TypeOK, NEW s \in Submissions, NEW o \in Outcome, Concludes(s, o)
  PROVE  \E k \in Keys : Ledger!End(s, k)
<1>0. submissions[s] \in Submission /\ o # None
  BY NoneIsNothing DEF TypeOK, Concludes, Awaiting, Result
<1>1. PICK key \in Keys : key = IdempotencyKey(submissions[s].command)
  BY <1>0, KeyType DEF Submission
<1>2. submissions'[s].result = o /\ submissions'[s].command = submissions[s].command
  BY <1>0 DEF Concludes, Conclude, TypeOK, Submission
<1>3. \A t \in Submissions : t # s => submissions'[t] = submissions[t]
  BY OthersKept
<1>4. s \in Working(key) /\ \A k \in Keys : k # key => s \notin Working(k)
  BY <1>1 DEF Working, Concludes
<1>5. Working(key)' = Working(key) \ {s}
  BY <1>0, <1>1, <1>2, <1>3 DEF Working, Awaiting
<1>6. \A k \in Keys : k # key => Working(k)' = Working(k)
  BY <1>0, <1>1, <1>2, <1>3, <1>4 DEF Working, Awaiting
<1>7. WorkingNow' = [WorkingNow EXCEPT ![key] = @ \ {s}]
  BY <1>1, <1>5, <1>6 DEF WorkingNow
<1>8. dispatchOutcomes' = [dispatchOutcomes EXCEPT ![key] = o]
  BY <1>1 DEF Concludes, Conclude
<1>9. ClosedNow' = ClosedNow \union {key}
  BY <1>0, <1>1, <1>8 DEF ClosedNow, TypeOK
<1>10. QED
  BY <1>1, <1>4, <1>7, <1>9 DEF WorkingNow, ClosedNow, Ledger!End

\* Every step is one the ledger allows, or none it notices.
LEMMA LedgerStep ==
  ASSUME TypeOK, [Next]_vars
  PROVE  Ledger!Next \/ (WorkingNow' = WorkingNow /\ ClosedNow' = ClosedNow)
<1>1. CASE UNCHANGED vars
  BY <1>1 DEF vars, WorkingNow, ClosedNow, Working, Awaiting
<1>2. CASE Moved
  BY <1>2, StartsBegin, WaitsStutters DEF Moved, Ledger!Next
<1>3. CASE Delivered \/ GivenUp
  BY <1>3, ConcludesEnds DEF Delivered, GivenUp, Ledger!Next
<1>4. QED
  BY <1>1, <1>2, <1>3, StepCases

\* The service keeps the ledger: once one submission of a key has ended, no
\* new submission puts the executor to work under that key.
THEOREM LedgerKept == Spec => Ledger!Safety
<1>1. Init => Ledger!Init
  BY DEF Init, Ledger!Init, Working, Awaiting
<1>2. TypeOK /\ [Next]_vars => [Ledger!Next]_<<WorkingNow, ClosedNow>>
  BY LedgerStep
<1>3. QED
  BY <1>1, <1>2, DispatchTypes, PTL DEF Spec, Ledger!Safety, WorkingNow, ClosedNow

(***************************************************************************)
(* The dead-letter queue.                                                  *)
(***************************************************************************)

EntriesOf(c, n) ==
  {i \in DOMAIN deadLetterQueue : deadLetterQueue[i].command = c /\ deadLetterQueue[i].attempts = n}

GivenUpAs(c, n) ==
  {s \in Submissions : Returned(s) /\ submissions[s].result =
                                        [status |-> "dead-letter", attempts |-> n, command |-> c]}

Balanced(c, n) ==
  /\ IsFiniteSet(EntriesOf(c, n)) /\ IsFiniteSet(GivenUpAs(c, n))
  /\ Cardinality(EntriesOf(c, n)) = Cardinality(GivenUpAs(c, n))

AllBalanced == \A c \in Commands, n \in 1..(MaxRetries + 1) : Balanced(c, n)

\* A submission that did not give up leaves the queue as it was and joins no
\* count.
LEMMA OthersBalanced ==
  ASSUME TypeOK, AllBalanced, NEW s \in Submissions, UNCHANGED deadLetterQueue,
         Starts(s) \/ Waits(s) \/ \E o \in Outcome : Concludes(s, o) /\ o.status = "dispatched"
  PROVE  AllBalanced'
<1>1. ~Returned(s) /\ \A t \in Submissions : t # s => submissions'[t] = submissions[t]
  BY OthersKept
<1>2. Returned(s)' => submissions'[s].result.status # "dead-letter"
  <2>1. CASE Starts(s) \/ Waits(s)
    <3>1. PICK x \in Submission :
            Goes(s, x) /\ (x.result = None \/ x.result.status = "duplicate")
      <4>1. CASE Starts(s)
        <5>1. PICK x \in Submission : Goes(s, x) /\
                \/ x.result = None
                \/ x.result = [status |-> "duplicate",
                               originalResult |-> dispatchOutcomes[IdempotencyKey(x.command)]]
          BY <4>1 DEF Starts
        <5>2. x.result = None \/ x.result.status = "duplicate"
          BY <5>1
        <5> QED
          BY <5>1, <5>2
      <4>2. CASE Waits(s)
        BY <4>2 DEF Waits
      <4> QED
        BY <2>1, <4>1, <4>2
    <3>2. submissions'[s] = x
      BY <3>1 DEF Goes, TypeOK
    <3> QED
      BY <3>1, <3>2 DEF Returned
  <2>2. ASSUME NEW o \in Outcome, Concludes(s, o), o.status = "dispatched"
        PROVE  submissions'[s].result.status # "dead-letter"
    <3>1. submissions[s] \in Submission
      BY <2>2 DEF Concludes, Awaiting, TypeOK
    <3>2. submissions'[s].result = o
      BY <2>2, <3>1 DEF Concludes, Conclude, TypeOK, Submission
    <3> QED
      BY <2>2, <3>2
  <2> QED
    BY <2>1, <2>2
<1>3. \A c, n : GivenUpAs(c, n)' = GivenUpAs(c, n) /\ EntriesOf(c, n)' = EntriesOf(c, n)
  BY <1>1, <1>2 DEF GivenUpAs, EntriesOf, Returned
<1> QED
  BY <1>3 DEF AllBalanced, Balanced

\* One that gives up adds one entry to the queue and is one more of its kind.
LEMMA GivenUpBalanced ==
  ASSUME TypeOK, AllBalanced, NEW s \in Submissions, NEW o \in Outcome, Concludes(s, o),
         o.status = "dead-letter", deadLetterQueue' = Append(deadLetterQueue, EntryOf(s))
  PROVE  AllBalanced'
<1>1. ~Returned(s) /\ \A t \in Submissions : t # s => submissions'[t] = submissions[t]
  BY OthersKept
<1>2. submissions[s] \in Submission
  BY DEF Concludes, Awaiting, TypeOK
<1>3. Returned(s)' /\ submissions'[s].result = o
  <2>1. submissions' = [submissions EXCEPT ![s] = [submissions[s] EXCEPT !.result = o]]
    BY DEF Concludes, Conclude, TypeOK
  <2>2. [submissions[s] EXCEPT !.result = o] \in Submission
    BY <1>2 DEF Submission, Result
  <2> QED
    BY <1>2, <2>1, <2>2, NoneIsNothing DEF Returned, TypeOK, Submission, Result
<1>4. /\ EntryOf(s).command = o.command /\ EntryOf(s).attempts = o.attempts
      /\ o = [status |-> "dead-letter", attempts |-> o.attempts, command |-> o.command]
  BY DEF EntryOf, Concludes, Outcome
<1>5. PICK last \in Nat : last = Len(deadLetterQueue) + 1
  BY LenProperties DEF TypeOK
<1>6. /\ DOMAIN deadLetterQueue' = DOMAIN deadLetterQueue \union {last}
      /\ last \notin DOMAIN deadLetterQueue
      /\ deadLetterQueue'[last] = EntryOf(s)
      /\ \A i \in DOMAIN deadLetterQueue : deadLetterQueue'[i] = deadLetterQueue[i]
  <2>1. deadLetterQueue \in Seq(DeadLetterEntry)
    BY DEF TypeOK
  <2>2. /\ Len(deadLetterQueue) \in Nat /\ DOMAIN deadLetterQueue = 1..Len(deadLetterQueue)
        /\ DOMAIN deadLetterQueue' = 1..(Len(deadLetterQueue) + 1)
    BY <2>1
  <2>3. /\ deadLetterQueue'[last] = EntryOf(s)
        /\ \A i \in DOMAIN deadLetterQueue : deadLetterQueue'[i] = deadLetterQueue[i]
    BY <1>5, <2>1, <2>2
  <2> QED
    BY <1>5, <2>2, <2>3
<1>7. SUFFICES ASSUME NEW c \in Commands, NEW n \in 1..(MaxRetries + 1) PROVE Balanced(c, n)'
  BY DEF AllBalanced
<1>8. Balanced(c, n)
  BY DEF AllBalanced
<1>9. CASE c = o.command /\ n = o.attempts
  <2>1. EntriesOf(c, n)' = EntriesOf(c, n) \union {last} /\ last \notin EntriesOf(c, n)
    BY <1>4, <1>6, <1>9 DEF EntriesOf
  <2>2. GivenUpAs(c, n)' = GivenUpAs(c, n) \union {s} /\ s \notin GivenUpAs(c, n)
    BY <1>1, <1>3, <1>4, <1>9 DEF GivenUpAs, Returned
  <2>3. /\ IsFiniteSet(EntriesOf(c, n)')
        /\ Cardinality(EntriesOf(c, n)') = Cardinality(EntriesOf(c, n)) + 1
    BY <1>8, <2>1, FS_AddElement DEF Balanced
  <2>4. /\ IsFiniteSet(GivenUpAs(c, n)')
        /\ Cardinality(GivenUpAs(c, n)') = Cardinality(GivenUpAs(c, n)) + 1
    BY <1>8, <2>2, FS_AddElement DEF Balanced
  <2> QED
    BY <1>8, <2>3, <2>4 DEF Balanced
<1>10. CASE ~(c = o.command /\ n = o.attempts)
  <2>1. EntriesOf(c, n)' = EntriesOf(c, n)
    BY <1>4, <1>6, <1>10 DEF EntriesOf
  <2>2. o # [status |-> "dead-letter", attempts |-> n, command |-> c]
    BY <1>10
  <2>3. GivenUpAs(c, n)' = GivenUpAs(c, n)
    BY <1>1, <1>3, <2>2 DEF GivenUpAs, Returned
  <2> QED
    BY <1>8, <2>1, <2>3 DEF Balanced
<1> QED
  BY <1>9, <1>10

LEMMA DeadLettersHold == Steps => []DeadLettersAccounted
<1>1. Init => AllBalanced
  <2> SUFFICES ASSUME Init, NEW c \in Commands, NEW n \in 1..(MaxRetries + 1) PROVE Balanced(c, n)
    BY DEF AllBalanced
  <2>1. EntriesOf(c, n) = {} /\ GivenUpAs(c, n) = {}
    BY DEF Init, EntriesOf, GivenUpAs, Returned
  <2> QED
    BY <2>1, FS_EmptySet DEF Balanced
<1>2. TypeOK /\ AllBalanced /\ [Next]_vars => AllBalanced'
  <2> SUFFICES ASSUME TypeOK, AllBalanced, [Next]_vars PROVE AllBalanced'
    OBVIOUS
  <2>1. CASE UNCHANGED vars
    <3>1. \A c, n : GivenUpAs(c, n)' = GivenUpAs(c, n) /\ EntriesOf(c, n)' = EntriesOf(c, n)
      BY <2>1 DEF vars, GivenUpAs, EntriesOf, Returned
    <3> QED
      BY <3>1 DEF AllBalanced, Balanced
  <2>2. CASE Moved \/ Delivered
    BY <2>2, OthersBalanced DEF Moved, Delivered
  <2>3. CASE GivenUp
    BY <2>3, GivenUpBalanced DEF GivenUp
  <2> QED
    BY <2>1, <2>2, <2>3, StepCases
<1>3. AllBalanced => DeadLettersAccounted
  BY DEF AllBalanced, Balanced, EntriesOf, GivenUpAs, DeadLettersAccounted
<1> QED
  BY <1>1, <1>2, <1>3, TypesHold, PTL DEF Steps

\* The dead-letter queue holds one entry for each submission that was given up,
\* with the number of attempts that submission was told of, for any number of
\* submissions of whatever commands.
THEOREM DeadLettersKept == Spec => []DeadLettersAccounted
BY DeadLettersHold, PTL DEF Spec, Steps

==============================================================================
