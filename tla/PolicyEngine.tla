----------------------------- MODULE PolicyEngine -----------------------------
(***************************************************************************)
(* PolicyEngineService: policy documents, a cache of what was decided, and *)
(* evaluations that ask OPA (see OPAAuthorizer) and then one document      *)
(* after another, with an await before what each of them says is taken     *)
(* into account.                                                           *)
(***************************************************************************)
EXTENDS Integers, Sequences, FiniteSets, SequencesExt

CONSTANTS
  Evaluations,      \* activations of evaluateRequest
  Asks,             \* action, resource, user and context of a request
  Requests,
  Documents,        \* what create and update may store
  DefaultPolicies,  \* stored at construction
  MaxPolicies,      \* bound on documents ever created
  Configs,
  CacheTtl,
  ReplayKeys, ReplayProtection, NonceTtl, MaxTimestampSkew, MaxEntries, Timeout,
  MaxTime,          \* bound on the clock
  None

VARIABLES
  now, seenNonces, accepted, authorizations,    \* the authorizer
  config,
  policies,             \* in order of creation, None where deleted
  evaluationCache,
  violations,           \* which document denied which evaluation; 0 is OPA
  evaluationMetrics,
  evaluations

opaVars == <<now, seenNonces, accepted, authorizations>>
vars == <<now, seenNonces, accepted, authorizations, config, policies, evaluationCache,
          violations, evaluationMetrics, evaluations>>

Opa == INSTANCE OPAAuthorizer WITH Authorizations <- Evaluations,
                                   Inputs <- {r.input : r \in Requests}

Decisions == Opa!Decisions

\* expires: last instant at which the document applies.
Document == [active : BOOLEAN, critical : BOOLEAN, expires : Nat \union {None},
             verdict : [Asks -> Decisions \union {"inapplicable"}]]

\* emergency: what the users ask whom emergency mode lets through.
Config == [mode : {"strict", "fallback"}, opa : BOOLEAN, local : BOOLEAN, cache : BOOLEAN,
           default : {"allow", "deny"}, emergency : SUBSET Asks]

Request == [ask : Asks, input : Opa!Input]

Ids == 1..MaxPolicies

\* The documents that apply to a request, by id, and None for the others.
Basis == [Ids -> Document \union {None}]

NoDocuments == [i \in Ids |-> None]

Found(basis) == {i \in Ids : basis[i] # None}

CacheEntry == [decision : Decisions, expires : Nat]

\* What the loop over the documents has come to, and which have denied.
Loop == [decision : {"allow", "deny"}, vetoed : BOOLEAN, approval : BOOLEAN,
         denied : SUBSET Ids]

\* source: what the answer comes from.  opa: OPA's answer.  left: documents of
\* the basis that have not been evaluated.
Evaluation == [request : Request, stage : {"opa", "local", "recording", "returned"},
               source : {"engine", "cache", "emergency", "error"},
               opa : Decisions \union {None}, basis : Basis, left : SUBSET Ids, loop : Loop,
               decision : Decisions \union {None}]

ASSUME ConstantTypes ==
  /\ Requests \subseteq Request /\ Documents \subseteq Document /\ Configs \subseteq Config
  /\ DefaultPolicies \in Seq(Document) /\ Len(DefaultPolicies) <= MaxPolicies
  /\ MaxPolicies \in Nat /\ CacheTtl \in Nat

\* What the authorizer asks of its options.
ASSUME AuthorizerOptions ==
  /\ ReplayProtection \in BOOLEAN
  /\ NonceTtl \in Nat /\ MaxTimestampSkew \in Nat /\ MaxEntries \in Nat \ {0}
  /\ Timeout \in Nat /\ MaxTime \in Nat

ASSUME NoneIsNothing ==
  /\ None \notin ReplayKeys /\ None \notin Int
  /\ None \notin Decisions \union Document \union CacheEntry \union Evaluation
  /\ None \notin Opa!Entry \union Opa!Authorization

Init ==
  /\ Opa!Init
  /\ config \in Configs
  /\ policies = DefaultPolicies
  /\ evaluationCache = [k \in Asks |-> None]
  /\ violations = {}
  /\ evaluationMetrics = [evaluations |-> 0, decisions |-> [d \in Decisions |-> 0],
                          violations |-> 0]
  /\ evaluations = [e \in Evaluations |-> None]

------------------------------------------------------------------------------

\* What the documents say.

Applies(d, ask) ==
  /\ d # None
  /\ d.active
  /\ d.verdict[ask] # "inapplicable"
  /\ d.expires = None \/ d.expires >= now

ApplicablePolicies(ask) ==
  LET applicable == {i \in DOMAIN policies : Applies(policies[i], ask)}
  IN [i \in Ids |-> IF i \in applicable THEN policies[i] ELSE None]

\* evaluatePolicy.
Verdict(d, ask) == d.verdict[ask]

Nothing == [decision |-> "allow", vetoed |-> FALSE, approval |-> FALSE, denied |-> {}]

Defaulted(s, i) == [s EXCEPT !.decision = config.default, !.denied = @ \union {i}]

\* Faults: a veto falls under the default decision too; what vetoes is not
\* among the matches.
FaultNoVeto(s, i, d, ask) ==
  CASE Verdict(d, ask) = "deny" -> Defaulted(s, i)
    [] Verdict(d, ask) = "approval_required" -> [s EXCEPT !.approval = TRUE]
    [] OTHER -> s
FaultVetoUnlisted(s, i, d, ask) ==
  CASE Verdict(d, ask) = "deny" /\ d.critical -> [s EXCEPT !.vetoed = TRUE]
    [] Verdict(d, ask) = "deny" /\ ~d.critical -> Defaulted(s, i)
    [] Verdict(d, ask) = "approval_required" -> [s EXCEPT !.approval = TRUE]
    [] OTHER -> s

\* One turn of the loop.
Considered(s, i, d, ask) ==
  CASE Verdict(d, ask) = "deny" /\ d.critical ->
         [s EXCEPT !.vetoed = TRUE, !.denied = @ \union {i}]
    [] Verdict(d, ask) = "deny" /\ ~d.critical -> Defaulted(s, i)
    [] Verdict(d, ask) = "approval_required" -> [s EXCEPT !.approval = TRUE]
    [] OTHER -> s

LocalDecision(s, basis) ==
  CASE s.vetoed -> "deny"
    [] ~s.vetoed /\ s.approval -> "approval_required"
    [] ~s.vetoed /\ ~s.approval /\ Found(basis) = {} -> config.default
    [] OTHER -> s.decision

\* Fault: OPA's decision is all that counts, even when there is none.
FaultOpaOutranks(local, opa) == opa

MergeDecisions(local, opa) ==
  CASE local = "deny" \/ opa = "deny" -> "deny"
    [] "deny" \notin {local, opa} /\ "approval_required" \in {local, opa} -> "approval_required"
    [] OTHER -> "allow"

------------------------------------------------------------------------------

\* Evaluations.

Put(e, v) == evaluations' = [evaluations EXCEPT ![e] = v]

Counted(m, d) == [m EXCEPT !.evaluations = @ + 1, !.decisions[d] = @ + 1]

\* A denial is counted once its violations are recorded.
Decide(e, v, denied, decision) ==
  \/ /\ decision = "deny"
     /\ violations' = violations \union ({e} \X denied)
     /\ evaluationMetrics' = [evaluationMetrics EXCEPT !.violations = @ + Cardinality(denied)]
     /\ Put(e, [v EXCEPT !.stage = "recording", !.decision = decision])
  \/ /\ decision # "deny"
     /\ evaluationMetrics' = Counted(evaluationMetrics, decision)
     /\ Put(e, [v EXCEPT !.stage = "returned", !.decision = decision])
     /\ UNCHANGED violations

\* Fault: part of what is asked is no part of the key.
FaultCoarseKey(ask) == CHOOSE k \in Asks : TRUE

CacheKey(ask) == ask

\* After the loop: merge, cache, record.
Conclude(e, v) ==
  LET ask == v.request.ask
      decision == MergeDecisions(LocalDecision(v.loop, v.basis), v.opa)
      byOpa == IF v.opa = "deny" THEN {0} ELSE {}
  IN
  /\ evaluationCache' =
       IF config.cache
       THEN [evaluationCache EXCEPT ![CacheKey(ask)] =
               [decision |-> decision, expires |-> now + CacheTtl]]
       ELSE evaluationCache
  /\ Decide(e, v, v.loop.denied \union byOpa, decision)

\* The first document is awaited; without one there is nothing to await.
AskDocuments(e, r, opa) ==
  LET basis == ApplicablePolicies(r.ask)
      v == [request |-> r, stage |-> "local", source |-> "engine", opa |-> opa, basis |-> basis,
            left |-> Found(basis), loop |-> Nothing, decision |-> None]
  IN IF v.left = {} THEN Conclude(e, v)
     ELSE Put(e, v) /\ UNCHANGED <<evaluationCache, violations, evaluationMetrics>>

ReturnedAt(r, source, decision) ==
  [request |-> r, stage |-> "returned", source |-> source, opa |-> None, basis |-> NoDocuments,
   left |-> {}, loop |-> Nothing, decision |-> decision]

Ready == IF config.mode = "strict" THEN config.opa ELSE config.local

Cached(ask) == evaluationCache[CacheKey(ask)]

CacheHit(ask) == config.cache /\ Cached(ask) # None /\ Cached(ask).expires > now

Hit(e, r) ==
  /\ Put(e, ReturnedAt(r, "cache", Cached(r.ask).decision))
  /\ UNCHANGED <<opaVars, evaluationCache, violations, evaluationMetrics>>

Emergency(e, r) ==
  /\ r.ask \in config.emergency
  /\ Put(e, ReturnedAt(r, "emergency", "allow"))
  /\ UNCHANGED <<opaVars, evaluationCache, violations, evaluationMetrics>>

Fails(e, r) ==
  /\ Put(e, ReturnedAt(r, "error", None))
  /\ UNCHANGED <<opaVars, evaluationCache, violations, evaluationMetrics>>

AskOpa(e, r) ==
  /\ Opa!Call(e, r.input)
  /\ Put(e, [request |-> r, stage |-> "opa", source |-> "engine", opa |-> None,
             basis |-> NoDocuments, left |-> {}, loop |-> Nothing, decision |-> None])
  /\ UNCHANGED <<evaluationCache, violations, evaluationMetrics>>

\* The cache is looked at first, emergency mode second.
EvaluateRequest(e, r) ==
  /\ evaluations[e] = None
  /\ \/ CacheHit(r.ask) /\ Hit(e, r)
     \/ ~CacheHit(r.ask) /\ Emergency(e, r)
     \/ /\ ~CacheHit(r.ask) /\ r.ask \notin config.emergency
        /\ \/ ~Ready /\ Fails(e, r)
           \/ Ready /\ config.opa /\ AskOpa(e, r)
           \/ Ready /\ ~config.opa /\ AskDocuments(e, r, None) /\ UNCHANGED opaVars
  /\ UNCHANGED <<config, policies>>

At(e, stage) == evaluations[e] # None /\ evaluations[e].stage = stage

\* authorize has come back.  Strict mode goes by what it says; fallback mode
\* goes on to the documents, without OPA's decision if there was an error.
OpaAnswered(e) ==
  /\ At(e, "opa") /\ authorizations[e].stage = "returned"
  /\ LET r == evaluations[e].request
         opa == IF authorizations[e].decision = "error" THEN None ELSE authorizations[e].decision
     IN \/ config.mode = "fallback" /\ AskDocuments(e, r, opa)
        \/ /\ config.mode = "strict" /\ opa # None
           /\ Decide(e, [evaluations[e] EXCEPT !.opa = opa], IF opa = "deny" THEN {0} ELSE {}, opa)
           /\ UNCHANGED evaluationCache
        \/ /\ config.mode = "strict" /\ opa = None
           /\ Put(e, ReturnedAt(r, "error", None))
           /\ UNCHANGED <<evaluationCache, violations, evaluationMetrics>>
  /\ UNCHANGED <<opaVars, config, policies>>

\* evaluatePolicy has returned; the documents come in order of creation, until
\* one vetoes.
DocumentEvaluated(e) ==
  /\ At(e, "local")
  /\ LET v == evaluations[e]
     IN \E i \in v.left :
          /\ \A j \in v.left : i <= j
          /\ LET next == [v EXCEPT !.left = @ \ {i},
                                  !.loop = Considered(@, i, v.basis[i], v.request.ask)]
             IN IF next.loop.vetoed \/ next.left = {} THEN Conclude(e, next)
                ELSE Put(e, next) /\ UNCHANGED <<evaluationCache, violations, evaluationMetrics>>
  /\ UNCHANGED <<opaVars, config, policies>>

\* recordViolation has returned.
Recorded(e) ==
  /\ At(e, "recording")
  /\ evaluationMetrics' = Counted(evaluationMetrics, evaluations[e].decision)
  /\ Put(e, [evaluations[e] EXCEPT !.stage = "returned"])
  /\ UNCHANGED <<opaVars, config, policies, evaluationCache, violations>>

------------------------------------------------------------------------------

\* Documents.

engineVars == <<violations, evaluationMetrics, evaluations>>

CreatePolicy(d) ==
  /\ Len(policies) < MaxPolicies
  /\ policies' = Append(policies, d)
  /\ UNCHANGED <<opaVars, config, evaluationCache, engineVars>>

ClearPolicyCache == evaluationCache' = [k \in Asks |-> None]

UpdatePolicy(i, d) ==
  /\ policies[i] # None
  /\ policies' = [policies EXCEPT ![i] = d]
  /\ ClearPolicyCache
  /\ UNCHANGED <<opaVars, config, engineVars>>

\* Fault: the cache is left as it is.
FaultCacheKept(i) ==
  /\ policies[i] # None
  /\ policies' = [policies EXCEPT ![i] = None]
  /\ UNCHANGED <<opaVars, config, evaluationCache, engineVars>>

\* No approval request is ever filed that could stand in the way.
DeletePolicy(i) ==
  /\ policies[i] # None
  /\ policies' = [policies EXCEPT ![i] = None]
  /\ ClearPolicyCache
  /\ UNCHANGED <<opaVars, config, engineVars>>

\* The authorizer and the clock.
Outside(step) == step /\ UNCHANGED <<config, policies, evaluationCache, engineVars>>

Proceeds(e) == OpaAnswered(e) \/ DocumentEvaluated(e) \/ Recorded(e)

Next ==
  \/ \E e \in Evaluations : \/ \E r \in Requests : EvaluateRequest(e, r)
                            \/ Proceeds(e)
                            \/ Outside(Opa!Progress(e))
  \/ \E d \in Documents : CreatePolicy(d) \/ \E i \in DOMAIN policies : UpdatePolicy(i, d)
  \/ \E i \in DOMAIN policies : DeletePolicy(i)
  \/ Outside(Opa!Tick)

Spec == Init /\ [][Next]_vars

------------------------------------------------------------------------------

\* Types, the authorizer's included.
TypeOK ==
  /\ Opa!TypeOK
  /\ config \in Config
  /\ policies \in Seq(Document \union {None}) /\ Len(policies) <= MaxPolicies
  /\ evaluationCache \in [Asks -> CacheEntry \union {None}]
  /\ violations \subseteq Evaluations \X Nat
  /\ evaluationMetrics \in [evaluations : Nat, decisions : [Decisions -> Nat], violations : Nat]
  /\ evaluations \in [Evaluations -> Evaluation \union {None}]

Decided(e) ==
  /\ evaluations[e] # None
  /\ evaluations[e].source = "engine"
  /\ evaluations[e].decision # None

Opinions(v) == {v.basis[i].verdict[v.request.ask] : i \in Found(v.basis)} \union {v.opa}

Vetoes(v) ==
  {i \in Found(v.basis) : v.basis[i].critical /\ v.basis[i].verdict[v.request.ask] = "deny"}

\* Wherever it stands among the documents, a critical one that denies prevails,
\* and so does OPA; what is allowed nobody wants approved, and nobody denies
\* unless the default is to allow; strict mode goes by OPA alone.
DecisionSound ==
  \A e \in {f \in Evaluations : Decided(f)} :
    LET v == evaluations[e] IN
    /\ Vetoes(v) # {} \/ v.opa = "deny" => v.decision = "deny"
    /\ v.decision = "allow" =>
         /\ "approval_required" \notin Opinions(v)
         /\ config.default = "deny" /\ config.mode = "fallback" =>
              "deny" \notin Opinions(v) /\ Found(v.basis) # {}
    /\ config.mode = "strict" => v.decision = v.opa

\* What the cache would answer, an evaluation of the same request has come to;
\* and no answer outlives the replacement or deletion of a document.
CacheJustified ==
  /\ [](\A k \in Asks : evaluationCache[k] # None =>
          \E e \in Evaluations : /\ Decided(e)
                                 /\ evaluations[e].request.ask = k
                                 /\ evaluations[e].decision = evaluationCache[k].decision)
  /\ [][(\E k \in Asks : evaluationCache[k] # None /\ evaluationCache'[k] = evaluationCache[k])
          => IsPrefix(policies, policies')]_vars

\* What an evaluation takes OPA to have said, OPA has answered to that very
\* evaluation, and still says: an error counts as nothing said.
OpaQuoted ==
  \A e \in Evaluations :
    evaluations[e] # None /\ evaluations[e].opa # None =>
      /\ Opa!At(e, "returned")
      /\ authorizations[e].decision = evaluations[e].opa

\* In strict mode whatever is answered other than a denial was paid for with a
\* nonce of its own, but for answers from the cache and in an emergency.
StrictPaid ==
  config.mode = "strict" /\ ReplayProtection =>
    Cardinality({e \in Evaluations : Decided(e) /\ evaluations[e].decision # "deny"})
      <= Len(accepted)

\* A decision stands, with the documents it rests on and the violations that
\* were recorded for it, whatever becomes of documents and cache; an answer
\* that was returned is not touched again.
DecisionsFinal ==
  [][\A e \in Evaluations :
       /\ Decided(e) =>
            /\ evaluations'[e].decision = evaluations[e].decision
            /\ evaluations'[e].basis = evaluations[e].basis
            /\ \A i \in Ids \union {0} : <<e, i>> \in violations' <=> <<e, i>> \in violations
       /\ At(e, "returned") => evaluations'[e] = evaluations[e]]_vars

\* A violation is on record for whatever vetoed a request, and only for what
\* denied one that was denied; the counters agree with the records.
DenialsRecorded ==
  /\ \A e \in {f \in Evaluations : Decided(f)} :
       Vetoes(evaluations[e]) # {} =>
         \E i \in Vetoes(evaluations[e]) : <<e, i>> \in violations
  /\ \A w \in violations : Decided(w[1]) /\ evaluations[w[1]].decision = "deny"
  /\ evaluationMetrics.violations = Cardinality(violations)
  /\ \A d \in Decisions :
       evaluationMetrics.decisions[d] =
         Cardinality({e \in Evaluations :
           Decided(e) /\ At(e, "returned") /\ evaluations[e].decision = d})

==============================================================================
