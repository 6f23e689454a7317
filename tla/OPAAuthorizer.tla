---------------------------- MODULE OPAAuthorizer ----------------------------
(***************************************************************************)
(* OPAAuthorizer of packages/security-core and the ReplayProtectionGuard   *)
(* it asks first.  authorize turns a replayed or untimely request away     *)
(* without asking OPA; otherwise it waits for OPA's response and then for  *)
(* its body, until a timer aborts both.                                    *)
(*                                                                         *)
(* Time is counted in whole units: Date.now() and the timer.               *)
(***************************************************************************)
EXTENDS Integers, Sequences, FiniteSets

CONSTANTS
  Authorizations,       \* activations of authorize
  ReplayKeys,           \* scope and nonce of a request
  Inputs,               \* what authorize is called with
  ReplayProtection,     \* whether there is a guard
  NonceTtl, MaxTimestampSkew, MaxEntries,   \* options of the guard
  Timeout,              \* of a request to OPA
  MaxTime,              \* bound on the clock
  None                  \* no nonce, no valid timestamp, no entry, nothing yet

\* What the guard looks at.
Input == [key : ReplayKeys \union {None}, timestamp : Int \union {None}]

ASSUME GuardOptions ==
  /\ ReplayProtection \in BOOLEAN
  /\ NonceTtl \in Nat /\ MaxTimestampSkew \in Nat /\ MaxEntries \in Nat \ {0}
  /\ Timeout \in Nat /\ MaxTime \in Nat
  /\ Inputs \subseteq Input

VARIABLES
  now,
  seenNonces,       \* expiry of each remembered key, and when it was inserted
  accepted,         \* history: what the guard has let through, in order
  authorizations    \* how far each activation has come

vars == <<now, seenNonces, accepted, authorizations>>

Decisions == {"allow", "deny", "approval_required"}

\* at: position in accepted.  A Map iterates in the order of insertion.
Entry == [expires : Nat, at : Nat]

Accepted == [key : ReplayKeys, timestamp : Int, time : Nat]

\* What a response can say: a decision, by itself or as a field, and a truth
\* value, likewise.
Payload == [decision : Decisions \union {None}, allow : {"true", "false", None}]

Authorization == [stage : {"fetching", "reading", "returned"}, deadline : Nat,
                  decision : Decisions \union {"error", None}]

ASSUME NoneIsNothing ==
  /\ None \notin ReplayKeys /\ None \notin Int /\ None \notin Decisions
  /\ None \notin Entry /\ None \notin Authorization

Init ==
  /\ now = 0
  /\ seenNonces = [k \in ReplayKeys |-> None]
  /\ accepted = << >>
  /\ authorizations = [a \in Authorizations |-> None]

------------------------------------------------------------------------------

\* purgeExpired: what is left.
Tracked == {k \in ReplayKeys : seenNonces[k] # None /\ seenNonces[k].expires > now}

Newer(k) == {j \in Tracked : seenNonces[j].at > seenNonces[k].at}

\* Fault: room is made for one too late.
FaultEvictsLate == {k \in Tracked : Cardinality(Newer(k)) < MaxEntries}

\* ensureCapacity: the oldest go until there is room for one.
Kept == {k \in Tracked : Cardinality(Newer(k)) + 1 < MaxEntries}

Absolute(n) == IF n < 0 THEN -n ELSE n

\* Fault: the nonce is not looked up.
FaultNotLookedUp(r) ==
  /\ r.key # None
  /\ r.timestamp # None
  /\ Absolute(now - r.timestamp) <= MaxTimestampSkew

\* The guard's checks.
Acceptable(r) ==
  /\ r.key # None
  /\ r.timestamp # None
  /\ Absolute(now - r.timestamp) <= MaxTimestampSkew
  /\ r.key \notin Tracked

Remembering(keys) == [k \in ReplayKeys |-> IF k \in keys THEN seenNonces[k] ELSE None]

\* What has expired is purged whatever is decided.
Validate(r) ==
  \/ /\ Acceptable(r)
     /\ seenNonces' = [Remembering(Kept) EXCEPT ![r.key] =
                         [expires |-> now + NonceTtl, at |-> Len(accepted) + 1]]
     /\ accepted' = Append(accepted, [key |-> r.key, timestamp |-> r.timestamp, time |-> now])
  \/ /\ ~Acceptable(r)
     /\ seenNonces' = Remembering(Tracked)
     /\ UNCHANGED accepted

Authorize(a, r) ==
  /\ authorizations[a] = None
  /\ IF ReplayProtection THEN Validate(r) ELSE UNCHANGED <<seenNonces, accepted>>
  /\ authorizations' = [authorizations EXCEPT ![a] =
       IF ReplayProtection => Acceptable(r)
       THEN [stage |-> "fetching", deadline |-> now + Timeout, decision |-> None]
       ELSE [stage |-> "returned", deadline |-> now, decision |-> "deny"]]
  /\ UNCHANGED now

At(a, stage) == authorizations[a] # None /\ authorizations[a].stage = stage

Return(a, d) ==
  authorizations' = [authorizations EXCEPT ![a].stage = "returned", ![a].decision = d]

\* OPA's response arrives; a status other than success is thrown on.
Responded(a) ==
  /\ At(a, "fetching")
  /\ \/ authorizations' = [authorizations EXCEPT ![a].stage = "reading"]
     \/ Return(a, "error")
  /\ UNCHANGED <<now, seenNonces, accepted>>

\* A decision outranks a truth value beside it; anything else is an error.
ParseDecision(p) ==
  IF p.decision # None THEN p.decision
  ELSE CASE p.allow = "true" -> "allow" [] p.allow = "false" -> "deny" [] OTHER -> "error"

ReadBody(a, p) ==
  /\ At(a, "reading")
  /\ Return(a, ParseDecision(p))
  /\ UNCHANGED <<now, seenNonces, accepted>>

\* The connection fails, or the body is no JSON.
NetworkError(a) ==
  /\ At(a, "fetching") \/ At(a, "reading")
  /\ Return(a, "error")
  /\ UNCHANGED <<now, seenNonces, accepted>>

\* Fault: the timer is cleared when the response arrives.
FaultClearedEarly(a) ==
  /\ At(a, "fetching")
  /\ now >= authorizations[a].deadline
  /\ Return(a, "error")
  /\ UNCHANGED <<now, seenNonces, accepted>>

\* The timer aborts the request, its body included.
Abort(a) ==
  /\ At(a, "fetching") \/ At(a, "reading")
  /\ now >= authorizations[a].deadline
  /\ Return(a, "error")
  /\ UNCHANGED <<now, seenNonces, accepted>>

Tick ==
  /\ now < MaxTime
  /\ now' = now + 1
  /\ UNCHANGED <<seenNonces, accepted, authorizations>>

\* Calls begin while the clock has room for their timers.
Call(a, r) == now + Timeout <= MaxTime /\ Authorize(a, r)

Progress(a) == Responded(a) \/ (\E p \in Payload : ReadBody(a, p)) \/ NetworkError(a) \/ Abort(a)

Next ==
  \/ \E a \in Authorizations : Progress(a) \/ \E r \in Inputs : Call(a, r)
  \/ Tick

\* The clock and the timers go on; nothing is assumed of OPA or the network.
Fairness == WF_vars(Tick) /\ \A a \in Authorizations : WF_vars(Abort(a))

Spec == Init /\ [][Next]_vars /\ Fairness

------------------------------------------------------------------------------

\* Types, and the bound on the nonces remembered.
TypeOK ==
  /\ now \in Nat
  /\ seenNonces \in [ReplayKeys -> Entry \union {None}]
  /\ Cardinality({k \in ReplayKeys : seenNonces[k] # None}) <= MaxEntries
  /\ accepted \in Seq(Accepted)
  /\ authorizations \in [Authorizations -> Authorization \union {None}]

\* Acceptance j uses a nonce that acceptance i has used before it.
Reused(i, j) == i < j /\ accepted[i].key = accepted[j].key

\* Nothing asks for this of the options; the defaults have it, 5 minutes
\* against 1.  Without it a nonce is forgotten while its request is timely.
TtlCoversSkew == NonceTtl > 2 * MaxTimestampSkew

\* Whatever the options, a nonce gets through again only when its time to live
\* has passed, or when so many others got through in between that it had to be
\* forgotten.  With options for which TtlCoversSkew holds, the same request,
\* nonce and timestamp, gets through again for the latter reason alone; with
\* others it may be replayed as soon as its nonce has expired.
NoReplay ==
  \A i, j \in DOMAIN accepted :
    Reused(i, j) =>
      /\ accepted[j].time - accepted[i].time >= NonceTtl \/ j - i > MaxEntries
      /\ TtlCoversSkew /\ accepted[i].timestamp = accepted[j].timestamp => j - i > MaxEntries

\* Not turned away by the guard, nor denied since.
Passed ==
  {a \in Authorizations : /\ authorizations[a] # None
                          /\ authorizations[a].stage = "returned" => authorizations[a].decision # "deny"}

\* Whoever gets past the guard has paid with a nonce of its own: however many
\* activations overlap, no acceptance lets two of them through.
PassesPaid == ReplayProtection => Cardinality(Passed) <= Len(accepted)

\* authorize returns, even when OPA or its body never comes.
AuthorizeReturns ==
  \A a \in Authorizations : authorizations[a] # None ~> At(a, "returned")

==============================================================================
