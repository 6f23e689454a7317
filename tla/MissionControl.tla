---------------------------- MODULE MissionControl ----------------------------
(***************************************************************************)
(* Mission Control: the state of one line (simulated frames, an event      *)
(* timeline, dispatch counters), the dispatch service inside it, and the   *)
(* server that lets clients dispatch commands and streams snapshots.       *)
(*                                                                         *)
(* A request is one POST /api/dispatch.  What a settled promise sets off   *)
(* runs to its end, as microtasks, before the server takes up a request, a *)
(* tick or a connection: those wait for Drained.                           *)
(***************************************************************************)
EXTENDS ControlPolicy, Sequences, FiniteSets

CONSTANTS
  Submissions,    \* requests to /api/dispatch
  SourceSystems, Ids, Commands,   \* as in CommandDispatch
  Requests,       \* bodies clients post
  Streams,        \* connections to /api/stream
  Seed,           \* of the line simulator
  InitialFrames, MaxFrames, MaxEvents,   \* options of MissionControlState
  MaxSteps        \* bound: simulator steps taken

Request == [command : Commands, commandType : CommandType, control : Control \union {None}]

ASSUME RequestTypes == Requests \subseteq Request /\ None \notin Request \union Control \union Roles

ASSUME BufferSizes ==
  /\ InitialFrames \in Nat \ {0} /\ MaxFrames \in Nat \ {0} /\ MaxEvents \in Nat \ {0}
  /\ Seed \in Nat /\ MaxSteps \in Nat

VARIABLES
  submissions, dispatchOutcomes, deadLetterQueue,   \* the dispatch service
  requests,           \* body of each request
  stage,              \* how far the server has come with it
  feed,               \* simulator step, frames, events and nextEventId
  dispatchCounters,
  streams             \* last snapshot written to each subscriber

serviceVars == <<submissions, dispatchOutcomes, deadLetterQueue>>
vars == <<submissions, dispatchOutcomes, deadLetterQueue, requests, stage, feed,
          dispatchCounters, streams>>

Service == INSTANCE CommandDispatch WITH MaxRetries <- 2

ASSUME ServiceTypes ==
  /\ Commands \subseteq Service!Command /\ None \notin Ids
  /\ None \notin Service!Submission \union Service!Result \union Service!Answers

EventKind == {"telemetry", "alarm", "blocked", "dispatched", "dead-letter", "duplicate"}

Counter == {"dispatched", "dead-letter", "duplicate"}

\* Faults: too many are dropped at the bound; they are dropped too late.
FaultDropsEarly(s, max) == IF Len(s) >= max THEN SubSeq(s, 2, Len(s)) ELSE s
FaultDropsLate(s, max) == IF Len(s) > max + 1 THEN SubSeq(s, Len(s) - max + 1, Len(s)) ELSE s

\* splice(0, length - max): the newest max remain.
Bounded(s, max) == IF Len(s) > max THEN SubSeq(s, Len(s) - max + 1, Len(s)) ELSE s

\* key: the idempotency key an outcome is reported under.
RecordEvent(f, kind, key) ==
  [f EXCEPT !.events = Bounded(Append(@, [id |-> f.nextEventId, kind |-> kind, key |-> key]),
                               MaxEvents),
            !.nextEventId = @ + 1]

Jammed(step) == (Seed + step) % 12 = 0

\* The simulator's next frame, and what is recorded of it.
RecordFrame(f) ==
  LET step == f.step + 1
      told == RecordEvent([f EXCEPT !.step = step,
                                    !.frames = Bounded(Append(@, step), MaxFrames)],
                          "telemetry", None)
  IN IF Jammed(step) THEN RecordEvent(told, "alarm", None) ELSE told

NoFeed == [step |-> 0, frames |-> << >>, events |-> << >>, nextEventId |-> 1]

FeedAfter[n \in 0..InitialFrames] == IF n = 0 THEN NoFeed ELSE RecordFrame(FeedAfter[n - 1])

Init ==
  /\ Service!Init
  /\ requests = [s \in Submissions |-> None]
  /\ stage = [s \in Submissions |-> "idle"]
  /\ feed = FeedAfter[InitialFrames]
  /\ dispatchCounters = [c \in Counter |-> 0]
  /\ streams = [st \in Streams |-> None]

\* getRealtimePayload.
Snapshot == [dispatch |-> dispatchCounters, pendingDeadLetters |-> Len(deadLetterQueue),
             latestFrame |-> feed.frames[Len(feed.frames)], newestEvent |-> feed.nextEventId - 1]

Open == {st \in Streams : streams[st] # None}

\* To every subscriber, after the changes of the step.
PublishSnapshot == streams' = [st \in Streams |-> IF st \in Open THEN Snapshot' ELSE None]

KeyOf(s) == Service!IdempotencyKey(submissions[s].command)

\* dispatchCommand goes on when submit has returned.
Resolved(s) == stage[s] = "submitted" /\ Service!Returned(s)

\* Fault: the outcome is recorded in a later turn of the event loop.
FaultDeferred ==
  \A s \in Submissions :
    /\ Service!Awaiting(s) => submissions[s].answer = None
    /\ stage[s] # "accounted"

Drained ==
  \A s \in Submissions :
    /\ Service!Awaiting(s) => submissions[s].answer = None
    /\ ~Resolved(s)
    /\ stage[s] # "accounted"

------------------------------------------------------------------------------

\* A body without control, or with one that names no role, is not looked at.
Admitted(r) == r.control # None => Decision(r.commandType, r.control) = "allowed"

Post(s, r) ==
  /\ Drained
  /\ stage[s] = "idle"
  /\ requests' = [requests EXCEPT ![s] = r]
  /\ \/ /\ Admitted(r)
        /\ Service!Submit(s, r.command)
        /\ stage' = [stage EXCEPT ![s] = "submitted"]
        /\ UNCHANGED feed
     \/ /\ ~Admitted(r)
        /\ feed' = RecordEvent(feed, "blocked", None)
        /\ stage' = [stage EXCEPT ![s] = "blocked"]
        /\ UNCHANGED serviceVars
  /\ UNCHANGED <<dispatchCounters, streams>>

\* The executor settles and submit resumes; see CommandDispatch.
ServiceStep(s) ==
  /\ Service!Resume(s) \/ \E a \in Service!Answers : Service!Settle(s, a)
  /\ UNCHANGED <<requests, stage, feed, dispatchCounters, streams>>

\* Fault: a duplicate of a dead letter counts as one.
FaultCountsOriginal(s) ==
  LET result == submissions[s].result
      kind == IF result.status = "duplicate" THEN result.originalResult.status ELSE result.status
  IN
  /\ Resolved(s)
  /\ dispatchCounters' = [dispatchCounters EXCEPT ![kind] = @ + 1]
  /\ feed' = RecordEvent(feed, kind, KeyOf(s))
  /\ stage' = [stage EXCEPT ![s] = "accounted"]
  /\ UNCHANGED <<submissions, dispatchOutcomes, deadLetterQueue, requests, streams>>

\* dispatchCommand counts and records what became of the command.
Account(s) ==
  /\ Resolved(s)
  /\ dispatchCounters' = [dispatchCounters EXCEPT ![submissions[s].result.status] = @ + 1]
  /\ feed' = RecordEvent(feed, submissions[s].result.status, KeyOf(s))
  /\ stage' = [stage EXCEPT ![s] = "accounted"]
  /\ UNCHANGED <<submissions, dispatchOutcomes, deadLetterQueue, requests, streams>>

\* Faults: the route publishes new dispatches only; it never replies to a
\* duplicate.
FaultPublishesNew(s) ==
  /\ stage[s] = "accounted"
  /\ stage' = [stage EXCEPT ![s] = "replied"]
  /\ UNCHANGED <<submissions, dispatchOutcomes, deadLetterQueue, requests, feed, dispatchCounters>>
  /\ IF submissions[s].result.status = "duplicate" THEN UNCHANGED streams ELSE PublishSnapshot

FaultDuplicateDropped(s) ==
  /\ stage[s] = "accounted"
  /\ submissions[s].result.status # "duplicate"
  /\ stage' = [stage EXCEPT ![s] = "replied"]
  /\ UNCHANGED <<submissions, dispatchOutcomes, deadLetterQueue, requests, feed, dispatchCounters>>
  /\ PublishSnapshot

\* The route publishes and replies.
Reply(s) ==
  /\ stage[s] = "accounted"
  /\ stage' = [stage EXCEPT ![s] = "replied"]
  /\ UNCHANGED <<submissions, dispatchOutcomes, deadLetterQueue, requests, feed, dispatchCounters>>
  /\ PublishSnapshot

\* The ticker, or POST /api/tick.
Tick ==
  /\ Drained
  /\ feed.step < MaxSteps
  /\ feed' = RecordFrame(feed)
  /\ UNCHANGED <<submissions, dispatchOutcomes, deadLetterQueue, requests, stage,
                 dispatchCounters>>
  /\ PublishSnapshot

\* GET /api/stream writes a snapshot and subscribes; closing unsubscribes.
Connect(st) ==
  /\ Drained
  /\ streams[st] = None
  /\ streams' = [streams EXCEPT ![st] = Snapshot]
  /\ UNCHANGED <<submissions, dispatchOutcomes, deadLetterQueue, requests, stage, feed,
                 dispatchCounters>>

Disconnect(st) ==
  /\ Drained
  /\ streams[st] # None
  /\ streams' = [streams EXCEPT ![st] = None]
  /\ UNCHANGED <<submissions, dispatchOutcomes, deadLetterQueue, requests, stage, feed,
                 dispatchCounters>>

Handle(s) == ServiceStep(s) \/ Account(s) \/ Reply(s)

Next ==
  \/ \E s \in Submissions : Handle(s) \/ \E r \in Requests : Post(s, r)
  \/ Tick
  \/ \E st \in Streams : Connect(st) \/ Disconnect(st)

\* The engine runs the microtasks and the executor settles its promises.
\* Neither ticks nor clients are needed for anything to end.
Spec ==
  /\ Init
  /\ [][Next]_vars
  /\ \A s \in Submissions :
       /\ WF_vars(Service!Resume(s) /\ ServiceStep(s))
       /\ WF_vars((\E a \in Service!Answers : Service!Settle(s, a)) /\ ServiceStep(s))
       /\ WF_vars(Account(s)) /\ WF_vars(Reply(s))

------------------------------------------------------------------------------

Event == [id : Nat, kind : EventKind, key : Service!Keys \union {None}]

Feed == [step : Nat, frames : Seq(Nat), events : Seq(Event), nextEventId : Nat]

Payload == [dispatch : [Counter -> Nat], pendingDeadLetters : Nat, latestFrame : Nat,
            newestEvent : Nat]

\* Types, the bounds of the buffers included.
TypeOK ==
  /\ requests \in [Submissions -> Request \union {None}]
  /\ stage \in [Submissions -> {"idle", "submitted", "accounted", "replied", "blocked"}]
  /\ feed \in Feed
  /\ Len(feed.frames) <= MaxFrames /\ Len(feed.events) <= MaxEvents
  /\ dispatchCounters \in [Counter -> Nat]
  /\ streams \in [Streams -> Payload \union {None}]

\* Whatever is handed to the dispatch service under a control was confirmed,
\* and a role that may order it asked for it or approved it.
PolicyEnforced ==
  \A s \in Submissions :
    submissions[s] # None /\ requests[s].control # None =>
      LET control == requests[s].control
          granted == {control.actorRole, control.approvedByRole}
      IN /\ control.confirmationAccepted
         /\ requests[s].commandType = "hold_container" => "admin" \in granted
         /\ requests[s].commandType = "reroute_container" =>
              "supervisor" \in granted \/ "admin" \in granted

\* The timeline is the newest events, none missing, in the order they were
\* recorded; so are the frames.
TimelineContiguous ==
  /\ \A i \in DOMAIN feed.events : feed.events[i].id = feed.nextEventId - 1 - Len(feed.events) + i
  /\ \A i \in DOMAIN feed.frames : feed.frames[i] = feed.step - Len(feed.frames) + i
  /\ Len(feed.events) = IF feed.nextEventId - 1 < MaxEvents THEN feed.nextEventId - 1 ELSE MaxEvents
  /\ Len(feed.frames) = IF feed.step < MaxFrames THEN feed.step ELSE MaxFrames

\* The counters agree with the service: each outcome is counted once, and the
\* dead letters counted, with those about to be, are the ones in the queue.
CountersAgree ==
  LET told(status) == Cardinality({s \in Submissions :
                        stage[s] \in {"accounted", "replied"}
                          /\ submissions[s].result.status = status})
  IN /\ \A c \in Counter : dispatchCounters[c] = told(c)
     /\ dispatchCounters["dead-letter"]
          + Cardinality({s \in Submissions : Resolved(s)
                           /\ submissions[s].result.status = "dead-letter"})
          = Len(deadLetterQueue)

\* When the server is idle every subscriber has been sent the current state,
\* but for the blocked dispatches recorded since.
StreamsCurrent ==
  Drained =>
    \A st \in Open :
      /\ [streams[st] EXCEPT !.newestEvent = 0] = [Snapshot EXCEPT !.newestEvent = 0]
      /\ \A i \in DOMAIN feed.events :
           feed.events[i].id > streams[st].newestEvent => feed.events[i].kind = "blocked"

\* The timeline never calls a command a duplicate before it has said what
\* became of the first: that event comes earlier, or has left the timeline.
DuplicateFollows ==
  \A j \in DOMAIN feed.events :
    feed.events[j].kind = "duplicate" =>
      \/ feed.events[1].id > 1
      \/ \E i \in 1..(j - 1) : /\ feed.events[i].key = feed.events[j].key
                               /\ feed.events[i].kind \in {"dispatched", "dead-letter"}

\* No event of the timeline is ever rewritten, and what comes new has a new id.
EventsFinal ==
  [][\A i \in DOMAIN feed.events, j \in DOMAIN feed'.events :
       feed.events[i].id = feed'.events[j].id => feed.events[i] = feed'.events[j]]_vars

\* A subscriber is never shown an older state than it was shown before: frame,
\* events, counters and dead letters only go up.
StreamsForward ==
  [][\A st \in Streams : streams[st] # None /\ streams'[st] # None =>
       /\ streams'[st].latestFrame >= streams[st].latestFrame
       /\ streams'[st].newestEvent >= streams[st].newestEvent
       /\ streams'[st].pendingDeadLetters >= streams[st].pendingDeadLetters
       /\ \A c \in Counter : streams'[st].dispatch[c] >= streams[st].dispatch[c]]_vars

\* Whatever the service has on file, or has given up, a request asked for that
\* the policy let through; no other command gets there on its key.
OutcomesAdmitted ==
  LET asked(command) == \E s \in Submissions :
                          /\ submissions[s] # None
                          /\ requests[s].command = command /\ Admitted(requests[s])
  IN /\ \A k \in Service!Keys : dispatchOutcomes[k] # None => asked(dispatchOutcomes[k].command)
     /\ \A i \in DOMAIN deadLetterQueue : asked(deadLetterQueue[i].command)

\* Every dispatch that was let through is answered.
RequestsAnswered == \A s \in Submissions : stage[s] = "submitted" ~> stage[s] = "replied"

==============================================================================
