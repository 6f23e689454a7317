# NeuroLogix in TLA+

A verification project for the TypeScript services of this repository: TLA+
modules translated from the source, TLC configurations that check small
instances, and theorems checked by TLAPS for every value of the constants.
Paths below are relative to the repository.

## 1. The system

NeuroLogix is a warehouse-control monorepo. Every stateful part is an in-memory
JavaScript object; nothing is persisted, so there is no crash recovery to
model. Concurrency is the interleaving of method activations at their `await`s
and of timer callbacks between them.

| component | state it keeps | operations | what is hard | what makes it correct |
|---|---|---|---|---|
| Recipe executor (`services/recipe-executor`) | `recipes`, `executions`, `activeExecutions` | create, update, delete, execute, cancel, emergencyStop; the launched `startExecution`, `executeStep`, `executeRollback` | activations share mutable execution records across awaits; a stop works from a snapshot; cancel, failure and rollback race | no revived cancellation, accurate registry, complete and reversed rollback, honest completion, final records, calls and executions end |
| WMS/WCS dispatch (`packages/adapters/src/wms-wcs`) | `dispatchOutcomes`, `deadLetterQueue` | submit (ingest, look up, retry loop, file) | submissions of one key overlap while the executor is awaited; retry arithmetic | attempts bounded and used up, duplicates told the truth, dead letters accounted for, submit returns |
| Mission Control state (`apps/mission-control/src/state`) | frames, events, counters, the dispatch service | tick, dispatchCommand, getDispatchPolicy, snapshots | counters after an await, bounded buffers, policy before dispatch | nothing needing approval is dispatched without it; counters match outcomes |
| Mission Control server and operator shell (`server.ts`) | stream clients, last published event | HTTP routes, SSE publication, the shell's policy fetch | responses out of order, events published once and in order | the shell offers only what the current form is allowed |
| Policy engine (`services/policy-engine`) | policies, evaluation cache, violations, metrics | create, update, delete, evaluate (OPA, built-in documents, or both) | evaluations overlap updates; stale cache; OPA failure; order of the documents | a veto prevails wherever it stands; cached answers were reached and fall with their documents; denials are on record |
| OPA authorizer and replay guard (`packages/security-core`) | remembered nonces | authorize (validate, request, body, timer) | eviction, clock skew, a timer racing an answer | a nonce gets through again only when it has expired or had to be forgotten; authorize returns |
| Audit log (`packages/security-core/src/audit`) | a chain of entries, the last hash | logEvent, the integrity report | the log shares its events and entries with its callers | the report is valid exactly when nothing that is hashed has changed |
| Site registry and feature flags (`services/site-registry`) | sites, their overrides, flag definitions, the topology version | create, status, configuration, equipment, flags; what a reader of the topology holds | one version for many changes; three levels of flags | a reader with the current version has missed new equipment and new flag defaults at most; an override decides until it is set anew |
| Capability registry (`services/capability-registry`) | capabilities, health checks | install, update, enable, disable, uninstall, check | enable writes back what it read before an await | what is gone stays gone, but for an activation under way |
| Digital twins (`services/digital-twin`) | twins, bounded histories, simulations | create, update, delete, ingest, simulate | operations overlap between lookup and effect; a trimmed history | a history is the last readings accepted, in order |
| Broker contracts and access rules (`packages/schemas/src/broker`) | a catalogue of topic contracts; the rest are pure functions | compatibility, registry guard, pattern matching, coverage | chains of upgrades, wildcards at every place, tiers | a chain of compatible upgrades stays compatible; matching agrees with its definition |
| Service tokens, certificates (`packages/security-core`) | policies, trusted ids; certificates | decisions; load and rotate | a second load | not modelled (section 5) |
| Schemas, core utilities (`packages/schemas`, `packages/core`) | none, or a timer | parsing, retry, debounce, throttle | boundaries | not modelled (section 5) |

Interactions: the Mission Control server calls Mission Control state, which
wraps the dispatch service; the dispatch service calls an executor given to it;
the page the server sends asks the server for the policy and posts commands. The
policy engine calls the OPA authorizer, which asks the replay guard first.
The recipe executor, registries and twin are independent services that share
nothing with each other; what the recipe executor logs, nobody reads.
`PROJECT.json` lists every component with its status, and under `hazards` what
is hard to test at the line where it bites.

## 2. Modules

| module | role |
|---|---|
| `RecipeExecutor` | the recipe executor at the granularity of awaits |
| `RecipeLifecycle` | abstract specification: what statuses an execution goes through |
| `MCRecipeExecutor` | recipes, requests and updates for TLC |
| `MCEmergencyStop` | the recipe executor with a note of what was pending when `emergencyStop` was called |
| `RecipeExecutorProofs` | type correctness, the inductive invariant over the microtask queue and what follows from it |
| `RecipeOutcomeProofs` | what the record of an execution says of the work done: completion, rollback, finality |
| `CommandDispatch` | the dispatch service |
| `DispatchLedger` | abstract specification: what happens per idempotency key |
| `MCCommandDispatch` | commands for TLC |
| `CommandDispatchProofs` | theorems about dispatch |
| `ControlPolicy` | who may have which command dispatched; shared by server and page |
| `MissionControl` | state of the line, the dispatch service inside it (`INSTANCE CommandDispatch`), HTTP requests, streams |
| `MissionControlProofs` | theorems about Mission Control, over those about dispatch |
| `OperatorShell` | the dispatch form of the page |
| `OperatorShellProofs` | what the page posts |
| `OPAAuthorizer` | the replay guard, the request to OPA and its timer |
| `OPAAuthorizerProofs` | types, bounded memory and replay exclusion |
| `PolicyEngine` | evaluations, documents and cache over the authorizer (`INSTANCE OPAAuthorizer`) |
| `PolicyEngineProofs` | decisions, denials and the cache, over the theorems about the authorizer |
| `Maps` | JavaScript maps and object spread, as functions |
| `SiteRegistry` | sites, feature flags and a reader of the topology |
| `CapabilityRegistry` | capabilities and overlapping activations |
| `DigitalTwin` | twins, histories and simulations on the microtask queue |
| `AuditLog` | the hash chain and its report |
| `BrokerGovernance` | topic contracts, the registry guard, access rules |
| `Services` | the five above in one process |
| `MCServices` | instances of them for TLC |
| `ServicesProofs` | theorems about each, and that `Services` implements each |
| `MCMissionControl`, `MCOperatorShell`, `MCOPAAuthorizer`, `MCPolicyEngine` | requests, forms, inputs, documents and configurations for TLC |

Operators called `Fault...` are never used by a specification. Each is a
plausible mistake in the definition it stands before; substituting it makes
the property named in `PROJECT.json` ("mutants") fail, which shows that the
property depends on that piece of code.

### RecipeExecutor

A process is one method activation: an execution id for `executeRecipe` and
the `startExecution` it launches, a caller for any other call. `pc[p]` names the
`await` it is suspended at and `frame[p]` holds the locals it still needs.
`jobs` is the engine's microtask queue. Awaiting a settled promise puts the
activation at the tail (`Tick`); the head of the queue runs next (`Resume`);
timers fire only when the queue is empty (`Fire`). The queue matters: without
it a cancellation could slip between storing an execution and starting it, and
the model would report an error that JavaScript's ordering rules out. The
awaits of `logAuditEvent` at the end of a call change nothing anybody sees and
are left out, except in `cancelExecution` under `emergencyStop`, where they
decide when the next cancellation happens. Clients may call at any moment
between two jobs, which includes the case of several calls made in one turn.

A step succeeds or fails by a nondeterministic choice (`Math.random` in
`executeStep`); its outcome takes two further ticks to arrive because
`executeStep` is an async function that returns a promise. Dates, names,
counters derived from `stepResults`, parameters and messages are left out;
`error` keeps only whether it was set by a cancellation or by a failure.

Steps run by place: `order` is distinct by validation, and steps are listed in
the order the code sorts them into before the first one (`:752`,
`StepsListedInOrder`). What a result names and what rollback looks for is the
`id` of a step (`:769`, `:858`), and neither `validateRecipe` nor the schema makes
ids distinct. So `CompletedIds` are ids, `RollbackPlaces` are all places of the
recipe with such an id, and a step that failed or never ran is undone along with
a completed one of the same id, as in the code. `RollbackExact` says of any
recipe what is undone, and of one with distinct ids that each undone step is one
that completed.

Approvals are the guard of the code (`Approved`): one person named twice passes
for two, although the header of the class (`:38`) speaks of a 2-person approval
system. No property is stated of them; it could only restate the guard.

The safety checks of the code test constants and never report a violation, so
`SafetyChecked` has no failing branch.

`RecipeLifecycle` is the promise: `none -> pending -> executing -> ...`, with
cancellation refused once rollback has begun, and an execution in flight that
settles or is cancelled. `ImplementsLifecycle` maps `status[e]` to
`executions[e].status`.

### CommandDispatch

A submission is one activation of `submit`. It is suspended only at
`await this.executor(...)`: `Submit` runs to the first await, `Settle` is the
executor's answer, and `Dispatched`, `Retry` and `DeadLetter` are what `submit`
does with it. The queue is not modelled here because no property depends on
the order in which two settled submissions resume: TLC and the proofs cover
every order. `Settle` is external: the executor is a parameter of the service.

`DispatchLedger` is the promise per key: work begins only while the key is
open, ending it closes the key for good.

### MissionControl

A request is one `POST /api/dispatch`: `Post` normalises it, asks the policy and
either records the block or hands the command to the dispatch service, whose
actions run as they are in `CommandDispatch`; `Account` is the rest of
`dispatchCommand`, `Reply` the rest of the route. What a settled promise sets
off are microtasks, and Node runs them before the next request, tick or
connection: those wait for `Drained`. `feed` holds the simulator's step, the
frames, the events and the next event id; a frame is its step number. The
simulator decides by its seed when the line is jammed, so `Seed` and the number
of steps choose whether an alarm is recorded. A blocked dispatch is recorded
but not published, as in the code; `StreamsCurrent` says that it is the only
such change. `Seed` is a natural number here; the code also accepts others. A
body the command schema rejects throws before anything changes and is left out.

### OperatorShell

A state is the page between two events. `Change` is a field that changes,
together with the effect that asks for the policy of the form as it is then;
`Evaluated` is the answer, in any order and for whichever form was asked about;
`SubmitDispatch` captures the form and asks once more, `SubmitEvaluated` posts
or refuses. What the server does with what is posted is `MissionControl`.

### OPAAuthorizer

`Authorize` is the call up to its first await: `Validate` is the guard (purge,
checks, eviction, insertion), and a rejected request returns at once. The
response and its body arrive, or fail, separately; the timer may abort either.
Time is counted in units, `at` is the place of an entry in the order of
insertion that a JavaScript `Map` iterates in, and `accepted` is a history of
what the guard let through. The configuration schema allows a ttl of a second
and a skew of five minutes, and with them a nonce is forgotten while its request
is timely: the model replays it, as the code does. `NoReplay` is therefore stated
for any options: a nonce gets through again only when its time to live is over,
or when it had to make room; and where the ttl is longer than twice the skew
(`TtlCoversSkew`, a definition and not an assumption; the defaults have it), the
same request gets through again for the second reason alone.

### PolicyEngine

`EvaluateRequest` is the call up to its first await: cache, emergency mode,
readiness, and then OPA or the documents. `OpaAnswered` follows the authorizer;
the applicable documents are read there (`basis`). Each document is awaited, so
each turn of the loop is a step (`DocumentEvaluated`), with any other call free
to come between two of them; `loop` holds the locals of the loop and `left` what
it has still to look at. `Recorded` is the await of `recordViolation`. A document
is what it says of each kind of request (`verdict`); the matching of Rego text is
behind that. A request is the key it is cached under, with what the guard looks
at. Creating a document leaves the cache, replacing or deleting one clears it.
The code joins action, resource, user and context into one string (`:1037`); two
requests that happen to give the same string share a cache entry there, and are
one request here.

### Services

`SiteRegistry`, `CapabilityRegistry`, `DigitalTwin`, `AuditLog` and
`BrokerGovernance` have no state in common, and no step of one reads or writes
what another keeps. `Services` puts them beside each other. A behaviour of it
exercises one of them, its `focus`: an interleaving of steps that do not touch
each other adds no state a component can reach, only their product. That the
composition is faithful to each is a theorem (`EachComponentImplemented`).

*SiteRegistry.* No method awaits anything, so a request is a step. A site is
its place in the order of registration. `reader` is what a client last read
from `GET /api/federation`: the version, the sites with their equipment, and the
default flags (`Topology`). `overridden` is a history of the overrides of each
site; the code keeps neither. `ResolveFeatureFlags` follows the three levels of
the code. Refused requests change nothing and are left out.
`UpdateEquipmentTopology`, which no route leads to, and `UpsertFeatureFlag` change
what is read and do not count as changes of the topology, as in the code; a
reader with the current version may have missed those two, and `VersionCovers`
says that it has missed nothing else. A flag key that is the
name of a method of `Object.prototype` is found in every object by the code's
`in`; such keys are not modelled.

*CapabilityRegistry.* Only `enableCapability` awaits between reading and
writing: `EnableCapability` is the part before, `DependenciesValidated` the
rest, first in, first out. The registry gives every capability an empty list of
dependencies, so their validation passes.

*DigitalTwin.* Every operation looks the twin up when it is called and has its
effect one turn of the microtask queue later; a simulation takes three turns.
`twinJobs` is the queue, `accepted` a history of the readings ingested. What a
simulation computes is left out but for whether it completes.

*AuditLog.* A hash is the content it covers, so that hashing is injective.
`RenameService` and `ChangeEntry` are not operations of the logger but what its
callers can do with what it shares: the service identity it keeps by reference
and the entries its queries return, of which they may change anything: the
outcome of the event, its details, the sequence, the hash and the link. Details
stand for description, metadata, target service and tenant. Neither they nor the
sequence are hashed (`audit-logger.ts:273`), so changes of them pass unnoticed,
although the header (`:3`) calls events immutable. The report names the sequence
found on the first broken entry, which is right as long as sequences are left
alone.

*BrokerGovernance.* A topic or pattern is the sequence of its segments.
`UpgradeContract` is a catalogue that passes `assertTopicContractCompatible`
before it is used; `OpenConnections` is a service that has its registrations
and accesses checked first. The loop over the segments of a pattern is given by
where it returns: `Ending` is the set of segments at which it would, and the
first of them decides (`MatchesSparkplugTopicPattern`); `Covers` is the
definition of the wildcards it must agree with. Quality of service, partitions, retention and dead letter topic are one
number, since they are only compared.

## 3. Runs

| run | instance | states | shows |
|---|---|---|---|
| `recipe` | 2 executions, 2 callers; a plain recipe of three steps, one with two steps of the same id, a guarded one; 5 requests, 3 updates | safety | `TypeOK`, `RegistryAccurate`, `CompletionHonest`, `RollbackExact`, `StopEffective`, `CancelStopsSteps`, `SettledIsFinal` |
| `recipe_liveness` | 2 executions, 1 caller, two steps, no symmetry | liveness | `ImplementsLifecycle`, `CallsReturn` |
| `dispatch` | 3 submissions of commands that share keys, 1 retry | safety and liveness | `TypeOK`, `DuplicateHonest`, `DeadLettersAccounted`, `RetriesUsedUp`, `EverySubmitReturns`, `ImplementsLedger` |
| `mission` | 2 requests out of 7 bodies, 2 keys, a tick that jams, 1 subscriber, 2 frames and 5 events kept | safety and liveness | `TypeOK`, `PolicyEnforced`, `TimelineContiguous`, `CountersAgree`, `StreamsCurrent`, `DuplicateFollows`, `RequestsAnswered` |
| `shell` | 12 forms, 3 policy requests, 2 submissions | safety and liveness | `TypeOK`, `PostedAllowed`, `ReadinessComes` |
| `authorizer` | 3 activations, 2 nonces, 6 inputs, room for 1 nonce, ttl 3, skew 1, clock to 4 | safety and liveness | `TypeOK`, `NoReplay`, `AuthorizeReturns` |
| `policy` | 2 evaluations, 2 kinds of request, at most 2 documents out of 3, 5 configurations, clock to 1 | safety | `TypeOK`, `DecisionSound`, `CacheJustified`, `DenialsRecorded` |
| `services` | 2 sites, 2 flags, 3 counted changes; 2 capabilities, 2 activations at once; 2 twins, 4 calls, histories of 2; 2 audit events with 2 kinds of details, 4 changes to them; 3 contracts per topic, 6 lists of rules, 9 accesses | safety | `TypeOK`, `VersionCovers`, `OverridesKept`, `UninstallHolds`, `HistoryAccounts`, `ReportHonest`, `CompatibleWithOrigin`, `AccessAgrees` |

The column called states says what kind of property is checked. `recipe` has
4.8 million distinct states, `policy` 2.5 million, `services` two million, and
the others fewer; `services` takes about three minutes and `recipe` two with
two workers.

Why the bounds are enough: two executions show interference between
executions; two callers show every pair of calls (update against delete, stop
against cancel, stop against stop); three steps are the fewest with a step that
cannot be undone, one that can, and one that may be skipped, so that rollback
has a first, a last and a hole; and two steps of one id are the fewest for a step
to be undone that never completed. Three submissions give one that finishes, one
that overlaps it and one that comes after both; one retry separates the first
attempt from the last, and the proofs cover every number. In `mission` two
requests show a dispatch, a retry, a duplicate and an overlap, and a tick after
the first two frames makes the frame buffer drop its oldest, records an alarm
and, with both requests, makes the timeline drop its oldest event. Three
policy requests of the page show an answer that overtakes another while a third is outstanding. In `authorizer` two nonces and
room for one make the guard forget, three activations use a nonce, push it out
and use it again, and the clock passes both the skew and the ttl. In `policy`
one evaluation fills the cache and the other finds it, before and after it
expires, while a document that vetoes and one that denies are created, replaced
and deleted in any order; the guard is off there, as it is by default. In `services` three counted changes
register two sites and change one between two reads; two activations overlap
with an uninstallation and with each other; a history of two is filled and
trimmed by a third reading, and four calls put a deletion or a second ingest
between the lookup and the effect of another; two audit events with four
changes allow the outcome, the details or the sequence of an entry to be changed, its
hash and the link that follows to be rewritten and the last hash to disagree; three contracts are a chain in which
the first and the last are not compared by the code. Symmetry is used only where no temporal
property is checked that it could invalidate (`CancelStopsSteps`, `SettledIsFinal` and `UninstallHolds` are step
properties, invariant under permutation).

Deadlock is not checked. The constants bound how many calls are made; when all
have been made and have ended the system has nothing left to do and stops.
`CallsReturn` and `EverySubmitReturns` say what a deadlock check would: nothing
stops early.

Runs that find a disagreement between the code and what a comment, test or
document says of it (`findings` in `PROJECT.json`):

| run | says | does |
|---|---|---|
| `recipe_cancel_final` | a cancelled execution is CANCELLED | becomes COMPLETED when its step in flight ends |
| `recipe_stop_all` | emergency stop stops all executions | one whose safety check was under way at the call runs when the stop has returned |
| `dispatch_twice` | duplicates are handled idempotently | two that overlap are both dispatched |
| `shell_disabled` | dispatch remains disabled until the policy approves | an answer for an older form, or a late one, enables the button |

`recipe_stop_all` has its own module because the claim is about the moment of the
call: `MCEmergencyStop` notes which executions were pending when `emergencyStop`
was called, every request has the safety check made, and `StopStopsAll` speaks
of the noted ones alone. The counterexample has five steps: a recipe is created;
it is executed, and its record is stored as pending while the safety check is
under way; `emergencyStop` finds `activeExecutions` empty and returns; the
check ends and the execution is launched.

Behaviours of the models that no document clearly forbids, and that no run
checks:

- an update that read a recipe before it was deleted stores it again, and of
  two overlapping updates the first one's fields are lost
  (`recipe-executor.service.ts:133`);
- a recipe is deleted while an execution of it is rolling back (`:151`), and an
  execution refused for want of approval stays pending and keeps its recipe from
  being deleted until it is cancelled (`:219`);
- two-person approval asks for two names and does not compare them (`:223`);
- with two steps of one id, rollback undoes both when either completed (`:858`;
  `RollbackExact` allows it where ids are not distinct);
- a dispatch body without a control that names a known role is not put to the
  policy (`mission-control-state.ts:245`);
- an answer cached before a policy was created is given until it expires
  (`policy-engine.service.ts:132`), and an evaluation that was at its documents
  when one was replaced puts its answer into the cache afterwards (`:552`);
- a request denied by default, because no document applies, leaves no violation
  (`:559`), and an answer from the cache is returned before the replay guard or
  emergency mode is looked at (`:347`);
- an activation that read a capability before it was uninstalled, disabled or
  updated undoes that (`capability-registry.service.ts:230`), and a forced
  installation makes a second record of one name (`:124`);
- a twin can be given the asset of another, an ingest that resumes after a
  deletion starts a history of a twin that is gone, and versions stop at one
  above the history limit (`digital-twin.service.ts:182`);
- a registration with a newer major version, and another schema, passes the
  registry guard (`packages/schemas/src/broker/index.ts:176`).

The documents of the federation say things of the site registry that the code
does not do; the model follows the code, and these have no run of their own.
`federation_model.yaml:320` (FEDERATION-INV-003) says that the topology version
"increments monotonically on every mutation". `updateEquipmentTopology`
(`site-registry.service.ts:319`) and `upsertFeatureFlag` (`:337`), the latter
through `PUT /api/feature-flags/:key` (`server.ts:852`), change what `GET
/api/federation` answers and increment nothing. `VersionCovers` is what is left of
the invariant: it checks and proves that every other mutation is counted.
`audit-logger.ts:3` calls events immutable, and what is handed out can be changed;
`ReportHonest` says which changes the report notices and which it does not. `GET /api/sites`
lists the sites and reads the version only afterwards (`server.ts:723`); the
minimum platform version is never compared (INV-004); `upsertFeatureFlag`
stores what it is given without validating it (INV-005); `assertSiteOperable`
(INV-002) has no caller.

### Fairness

`RecipeExecutor!Spec` assumes that queued microtasks run (`WF_vars(Job)`) and
that a timer that was set fires (`WF_vars(Timer(e))`): the engine guarantees
both. No client is obliged to call. `CommandDispatch!Spec` assumes that a
settled promise resumes `submit`, and that the executor settles every promise
it returns. The second is an assumption about the executor: `submit` sets no
deadline, so an executor that never answers leaves it waiting.
`MissionControl!Spec` assumes the same of the service inside it, and that the
microtasks after it run; it needs no tick and no client. `OperatorShell!Spec`
assumes that the browser settles every fetch, be it by giving up: the page sets
no deadline of its own. `OPAAuthorizer!Spec` assumes that time passes and that
an expired timer fires, and nothing of OPA or the network. `PolicyEngine!Spec`
and `Services!Spec` assume no fairness; only safety is checked of them.

## 4. Proofs

All theorems are for every value of the constants, under the named assumptions
next to them: processes are distinct, inputs have the types of the schemas,
`None` is not a value of any other type, `MaxRetries` is a natural number,
access rules and accesses have the shape their schemas parse (`AccessTypes`).

Some of the properties below are proved and are in no run: they say of every
instance what a run would say of a small one, and rest on the invariants that
the properties of the runs need anyway. They stand with the others in the
module of their component: `NobodyForgotten` (recipe executor),
`WaitIsAnswered` (operator shell), `PassesPaid` (authorizer), `OpaQuoted`,
`StrictPaid`, `DecisionsFinal` (policy engine), `EventsFinal`, `StreamsForward`,
`OutcomesAdmitted` (Mission Control).

*Recipe executor.* `TypeCorrect` proves `TypeOK`; it contains what each
suspended activation holds. The interesting safety properties are not inductive
because they depend on the order of the microtask queue. `Inv` in
`RecipeExecutorProofs` strengthens them with the facts that make them so: only
activations that were called are queued (`QueuedWereCalled`); a launch
(`safetyChecked`) stands in the queue before the job of any cancellation called
after the record became visible (`LaunchFirst`, `CancelFound`); a status follows from the
`pc` of its execution (`StatusFollowsPc`). From it: `StartedOnlyPending` (`PendingUntilLaunched`),
`RegistryCorrect` (`RegistryAccurate`), `StopCorrect` (`StopEffective`),
`CancelTakesEffect` (`CancelStopsSteps`) and `LifecycleKept`, the safety part of
the refinement `ImplementsLifecycle`. `StartedOnlyPending` has no run: it is the
lemma the other proofs lean on.

The argument runs over *shapes*: lemmas state once what each job may do to the
queue, the record and the registry (`ExecutionStepShape`, `CallerStepShape`,
`ExecutionEffect`, `CallerEffect`), and the preservation proofs use the shape.

`NobodyLost` proves `NobodyForgotten`, inductive with the types alone: every
step is a `Turn` of the event loop for one activation (`ExecutionTurns`,
`CallerTurns`, `ClientTurns`), and a turn queues whoever goes on to await a
microtask and takes off the queue whoever has run. That the entries of the queue
are distinct is what makes it true that an activation that leaves the head is
nowhere else. It is the safety half of `CallsReturn`: nobody waits for a
continuation that does not exist.

What a record says of the work done needs a second invariant on top.
`OutcomeInv` in `RecipeOutcomeProofs` adds `RecipesValid`, that only definitions
that passed validation are stored or run, and `Accounts`. Results are those of
the first places of the recipe, in order (`Traced`). The undone steps are the
latest of the `RollbackPlaces`: of the j-th it says that j - 1 such places lie
above it (`IsUndone`), so that no place is undone twice and none is passed over,
whether or not several steps have the same id. Results do not change once
rollback has begun, so neither do the places. None of this is a matter of what a
step of the loop does alone: a cancellation touches status and error of a record
in the middle of either loop, and an update or a deletion replaces the
definition the run was started from, which is why the run's own copy is what the
invariant speaks of. From it: `CompletionKept` (`CompletionHonest`) and
`RollbackKept` (`RollbackExact`), for recipes of any length. The latter says, of
any recipe, that undone steps have a rollback command and the id of a completed
step, stand latest first at different places, and after a failure are all there
are; where ids are distinct, that each of them is a step that completed. The
distinctness is a hypothesis of that one clause: the code does not check it.
`SettledStand` (`SettledIsFinal`) adds that results and undone steps are only
ever added (`Grown`) and that a record is left alone once its execution has
ended; the latter because an ended execution is completed or failed
(`EndedSaysHow`), which is what keeps a late cancellation or stop away from it.

*Dispatch.* `DispatchTypes` bounds the attempts; `RetriesExhausted` adds that a
transient failure uses all of them; `DuplicatesHonest` needs that every filed
outcome was returned by a submission of the same key; `LedgerKept` is the
safety part of `ImplementsLedger`. `DeadLettersKept` proves
`DeadLettersAccounted`, an equation between two cardinalities: each step that
adds to one of the sets adds the same number to the other, and both are finite
however many submissions there may be. Each of these is proved from `Steps`,
initial state and steps without the fairness (`TypesHold`, `RetriesHold`,
`HonestyHolds`, `DeadLettersHold`), so that it can be cited where the service
runs inside another one.

*Mission Control.* All six safety properties of the run are proved. `Typed` is the base:
types, `FeedOK`, that frames and events are the newest in order without a gap,
and `StagesAgree`, which ties the stage of a request to its submission inside
the dispatch service. The lemmas about dispatch are reused through `INSTANCE`:
every step of Mission Control is a step of the service or leaves it alone
(`ServiceMoves`). Subscribers are behind between the end of a submission and the
reply to its request, so `StreamsCurrent` is proved from `Quiet => ShownAll`.
`DuplicateFollows` needs `Ordered`: an outcome is on the timeline, or the timeline
has been trimmed, before anyone is told duplicate, because a request that finds
an outcome on file came when the server was drained. `CountersAgree` follows
from `Counted`, with the dead letters that are filed and not yet recorded.

`ServiceInside` is the composition as a theorem: every behaviour of Mission
Control is, seen from the variables of dispatch, a behaviour of the dispatch
service. `ServicePromises` and `ServiceKeepsLedger` follow, so that Mission
Control, through the service, implements the ledger. `OutcomesTraced`
(`OutcomesAdmitted`) needs `Traced`, that every submission in the service is of
a request the policy let through, and so is every command on file. `EventsStand`
(`EventsFinal`) rests on the ids of the timeline being consecutive up to the
last one given out. `StreamsNeverBack` (`StreamsForward`) needs that what a
subscriber was sent is not ahead of the state, and that nothing in a snapshot
ever goes down.

*Operator shell.* `ShellTyped`, and `PostsAllowed` for any number of policy
requests and submissions. `WaitsEnd` (`WaitIsAnswered`): any answer, early or
late, takes "evaluating" off the page, so while it is there nothing has come
since the last change, and the request of that change is still to be answered.

*Services.* `EachComponentImplemented`: a behaviour of `Services` is one of each
component, so that their theorems carry over. `VersionsCover` (`VersionCovers`)
goes through every operation: a counted one leaves every reader behind the
current version, an uncounted one touches nothing but the equipment of a site or
the default flags. `OverridesAreKept` needs that
the history of the overrides and the sites agree. `UninstallIsFinal` is a step
property of the types, of identifiers that are never given out twice.
`HistoriesAccount` covers any history limit: filling, the one reading that makes
the first state go, and sliding. `ReportsHonest` is an argument over the first
entry that is not as it was logged: an entry that verifies after entries that
are as logged either is as logged itself or has another hash, and a hash that
differs makes the next entry, or the last hash, fail. So the report is valid
exactly when all that is hashed is as it was logged, changes of details and of
the sequence being invisible to it; and when it is not, with the sequences as
they were, it names the first changed entry if the hash of that is still the
logged one (`FirstChangeBreaks`), and that entry or a later one otherwise.
`ContractsCompatible` rests on transitivity of compatibility,
versions included, which is why checking the predecessor suffices.
`AccessesAgree` (`AccessAgrees`) compares the first place where the loop over a
pattern returns with the definition of the wildcards: no such place, a `#` that
is last or is not, a segment that is missing, empty or different.
`ServicesCorrect` puts the properties of the five together.

*Replay guard.* `ReplaysRejected` proves `NoReplay` for any options, any clock and
any number of requests; that the ttl covers the skew is the hypothesis of its
second clause and assumed nowhere. `NoReplay` speaks only of
the log, so `GuardInv` adds what ties the log to what is remembered: every
entry was made for the acceptance it points to (`EntriesTrue`), the log is in
order of time and was timely (`Chronicle`), and a nonce is remembered since its
use, or has expired, or has been followed by as many acceptances as the guard
has room for (`Remembered`). The last is preserved under eviction because the
newer entries of the map inject into the later acceptances (`NewerFew`).

The guard's memory: `AuthorizerTyped` proves the types of activations and timers
and that no more nonces are remembered than there is room for. `PassesAllPaid`
(`PassesPaid`) counts: activations that got past the guard are finitely many and
no more than the acceptances in the log, because the step that lets one through
(`OneMorePaid`) is the step that adds to the log, and every other step lets
none through (`FewerPaid`).

*Policy engine.* `EngineInv` holds with any documents, any configuration, and OPA
answering as it likes; `EngineTypesKept`, `DecisionsSound`, `DenialsAccounted` and
`CacheSound` prove the four properties of the run `policy` from it. It has the
invariant of the authorizer inside (`SameGuard`: the operators of the two
instances are the same, so what is proved of `OPAAuthorizer` carries over) and,
for each stage of an evaluation, what is true of it (`Fit`). The part that makes
`DecisionSound` inductive is `LoopOK`: after each turn either one of the documents
that denied is a critical one, or every document looked at so far has been
`Heard`, that is, a denial has set the decision to the default and a wish for
approval is noted. Since a turn only adds to that (`OneTurn`), the order of the
documents does not matter. `Records` counts violations and decided evaluations as
finite sets, however many evaluations there may be: a denial adds its violations
before it is counted itself, so the two counters move at different steps
(`PutDenied`, `PutCounted`). A decided evaluation keeps its request and decision
(`DecisionsKept`), which is all a cached answer needs to stay justified.

`EngineAuthorizes` is the composition: every behaviour of the engine is, seen from
the variables of the authorizer, one of the authorizer, so `EngineRejectsReplays`
carries `NoReplay` over. `AnswersQuoted` (`OpaQuoted`) ties the two: what an
evaluation holds as OPA's answer is what its own activation returned, for good.
With it `StrictAnswersPaid` (`StrictPaid`) takes the count of the guard to the
engine: in strict mode a decision other than a denial belongs to an activation
that was let through. `DecisionsStand` (`DecisionsFinal`) is an action property
of the invariant: no step but an evaluation's own touches its decision, its
documents or its violations, and it ends by returning.

*Only model-checked.* Liveness (`CallsReturn`, `EverySubmitReturns`,
`RequestsAnswered`, `ReadinessComes`, `AuthorizeReturns`) and the fairness parts
of both refinements: they are about `WF_` and `~>`, out of the prover's reach.
Every invariant and action property of the passing runs is proved.

## 5. Not modelled

- Read-only queries and statistics, dates, log lines, and the audit records
  other components write; `executionQueue` of the recipe executor and
  `approvalRequests` of the policy engine, which no code fills.
- The server's read-only routes, its shutdown, the page's handling of the
  stream, HTML.
- `ServiceAuthenticator`: policies and trusted ids that are never deleted, and
  decisions that are a row of early returns over them; nothing is kept between a
  decision and its use, so a model would restate each guard.
- `CertificateManager`: synchronous, with placeholder dates for every
  certificate. Loading a certificate for a service that has one leaves the old
  fingerprint in its rotation status (`certificate-manager.ts:35`); no document
  says what it should do.
- Sparkplug ingestion: a stateless chain of schema checks, of which
  `parseSparkplugTopic` is part of `BrokerGovernance`; its connection state takes
  every event in every state.
- Speech recognition (`services/asr-nlu`): calls to external models, no state.
- Core utilities (`retry`, `debounce`, `throttle`, `timeoutPromise`): no service
  calls them, and what a model would check is how they are used.
- Schemas as such, the federation contract as data, benchmarks, end-to-end and
  chaos harnesses, infrastructure.

## 6. Plan

1. (done) Recipe executor and dispatch with their abstract specifications;
   Mission Control over dispatch; the operator shell; the OPA authorizer with
   its replay guard and the policy engine over it.
2. (done) Site registry and feature flags, capability registry, digital twins,
   audit log, broker contracts and access rules, and their composition.
3. (done) Theorems: every safety property of the passing runs, the composition
   of Mission Control with dispatch, of the policy engine with the authorizer
   and of the five services, and the finality and accounting properties of
   section 4 that no run checks.
4. Open: the stream handling of the page.
