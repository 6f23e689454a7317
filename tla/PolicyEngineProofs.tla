--------------------------- MODULE PolicyEngineProofs ---------------------------
(***************************************************************************)
(* Theorems about the policy engine, for any documents in any order, any   *)
(* configuration, any requests, and OPA answering as it likes.             *)
(***************************************************************************)
EXTENDS PolicyEngine, FiniteSetTheorems, SequenceTheorems, TLAPS

(***************************************************************************)
(* The loop over the documents.                                            *)
(***************************************************************************)

Vetoing(d, ask) == d.critical /\ d.verdict[ask] = "deny"

\* A loop that goes on has taken account of what d says.
Heard(s, d, ask) ==
  /\ ~Vetoing(d, ask)
  /\ d.verdict[ask] = "approval_required" => s.approval
  /\ d.verdict[ask] = "deny" => s.decision = config.default

\* What the loop of v has found among the documents that are not left.
LoopOK(v) ==
  /\ v.loop.vetoed =>
       \E i \in v.loop.denied : i \in Found(v.basis) /\ Vetoing(v.basis[i], v.request.ask)
  /\ ~v.loop.vetoed =>
       \A i \in Found(v.basis) \ v.left : Heard(v.loop, v.basis[i], v.request.ask)

\* A turn of the loop.
LEMMA OneTurn ==
  ASSUME config \in Config, NEW s \in Loop, ~s.vetoed, NEW i \in Ids, NEW d \in Document,
         NEW ask
  PROVE  LET t == Considered(s, i, d, ask)
         IN /\ t \in Loop
            /\ t.vetoed => i \in t.denied /\ Vetoing(d, ask)
            /\ ~t.vetoed => /\ Heard(t, d, ask)
                            /\ \A e : Heard(s, e, ask) => Heard(t, e, ask)
<1> DEFINE t == Considered(s, i, d, ask)
<1>1. config.default \in {"allow", "deny"} /\ d.critical \in BOOLEAN
  BY DEF Config, Document
<1>2. s = [decision |-> s.decision, vetoed |-> s.vetoed, approval |-> s.approval,
           denied |-> s.denied]
  BY DEF Loop
<1>3. CASE d.verdict[ask] = "deny" /\ d.critical
  <2>1. t = [decision |-> s.decision, vetoed |-> TRUE, approval |-> s.approval,
             denied |-> s.denied \union {i}]
    BY <1>2, <1>3 DEF Considered, Verdict
  <2> QED
    BY <1>3, <2>1 DEF Loop, Vetoing
<1>4. CASE d.verdict[ask] = "deny" /\ ~d.critical
  <2>1. t = [decision |-> config.default, vetoed |-> s.vetoed, approval |-> s.approval,
             denied |-> s.denied \union {i}]
    BY <1>2, <1>4 DEF Considered, Verdict, Defaulted
  <2> QED
    BY <1>1, <1>4, <2>1 DEF Loop, Vetoing, Heard
<1>5. CASE d.verdict[ask] = "approval_required"
  <2>1. t = [decision |-> s.decision, vetoed |-> s.vetoed, approval |-> TRUE,
             denied |-> s.denied]
    BY <1>2, <1>5 DEF Considered, Verdict
  <2> QED
    BY <1>5, <2>1 DEF Loop, Vetoing, Heard
<1>6. CASE d.verdict[ask] \notin {"deny", "approval_required"}
  <2>1. t = s
    BY <1>6 DEF Considered, Verdict
  <2> QED
    BY <1>6, <2>1 DEF Vetoing, Heard
<1> QED
  BY <1>1, <1>3, <1>4, <1>5, <1>6

(***************************************************************************)
(* Decisions.                                                              *)
(***************************************************************************)

\* DecisionSound, of one evaluation.
Sound(v) ==
  /\ Vetoes(v) # {} \/ v.opa = "deny" => v.decision = "deny"
  /\ v.decision = "allow" =>
       /\ "approval_required" \notin Opinions(v)
       /\ config.default = "deny" /\ config.mode = "fallback" =>
            "deny" \notin Opinions(v) /\ Found(v.basis) # {}
  /\ config.mode = "strict" => v.decision = v.opa

Settled(v, stage, d) == [v EXCEPT !.stage = stage, !.decision = d]

LEMMA SettledIs ==
  ASSUME NEW v \in Evaluation, NEW stage \in {"opa", "local", "recording", "returned"},
         NEW d \in Decisions \union {None}
  PROVE  LET w == Settled(v, stage, d)
         IN /\ w \in Evaluation /\ w.stage = stage /\ w.decision = d
            /\ w.request = v.request /\ w.source = v.source /\ w.opa = v.opa
            /\ w.basis = v.basis /\ w.left = v.left /\ w.loop = v.loop
            /\ Opinions(w) = Opinions(v) /\ Vetoes(w) = Vetoes(v)
<1> DEFINE w == Settled(v, stage, d)
<1>1. /\ w \in Evaluation /\ w.stage = stage /\ w.decision = d
      /\ w.request = v.request /\ w.source = v.source /\ w.opa = v.opa
      /\ w.basis = v.basis /\ w.left = v.left /\ w.loop = v.loop
  BY DEF Settled, Evaluation
<1> HIDE DEF w
<1> QED
  BY <1>1 DEF Opinions, Vetoes, w

\* What is decided when the loop has ended: of a veto, the record names one.
LEMMA LoopDecides ==
  ASSUME config \in Config, config.mode = "fallback", NEW v \in Evaluation, LoopOK(v),
         v.loop.vetoed \/ v.left = {}, NEW stage \in {"recording", "returned"}
  PROVE  LET d == MergeDecisions(LocalDecision(v.loop, v.basis), v.opa)
         IN /\ d \in Decisions
            /\ Sound(Settled(v, stage, d))
            /\ Vetoes(v) # {} => d = "deny" /\ \E i \in Vetoes(v) : i \in v.loop.denied
<1> DEFINE local == LocalDecision(v.loop, v.basis)
           d == MergeDecisions(local, v.opa)
           w == Settled(v, stage, d)
<1>1. /\ v.loop \in Loop /\ v.opa \in Decisions \union {None}
      /\ config.default \in {"allow", "deny"} /\ None \notin Decisions
      /\ Decisions = {"allow", "deny", "approval_required"}
  BY NoneIsNothing DEF Evaluation, Config, Decisions, Opa!Decisions
<1>2. local \in Decisions
  BY <1>1 DEF LocalDecision, Loop
<1>3. /\ d \in Decisions
      /\ local = "deny" \/ v.opa = "deny" => d = "deny"
      /\ d = "allow" => local = "allow" /\ v.opa \notin {"deny", "approval_required"}
  BY <1>1, <1>2 DEF MergeDecisions
<1> HIDE DEF d, local
<1>4. /\ w.decision = d /\ w.opa = v.opa /\ w.basis = v.basis
      /\ Opinions(w) = Opinions(v) /\ Vetoes(w) = Vetoes(v)
  BY <1>3, SettledIs
<1> HIDE DEF w
<1>5. CASE v.loop.vetoed
  <2>1. local = "deny"
    BY <1>5 DEF LocalDecision, local
  <2>2. \E i \in Vetoes(v) : i \in v.loop.denied
    BY <1>5 DEF LoopOK, Vetoes, Vetoing
  <2>3. Sound(w)
    BY <1>3, <1>4, <2>1 DEF Sound
  <2> QED
    BY <1>3, <2>1, <2>2, <2>3 DEF d, local, w
<1>6. CASE ~v.loop.vetoed
  <2>1. \A i \in Found(v.basis) : Heard(v.loop, v.basis[i], v.request.ask)
    BY <1>6 DEF LoopOK
  <2>2. Vetoes(v) = {}
    BY <2>1 DEF Vetoes, Heard, Vetoing
  <2>3. ASSUME d = "allow"
        PROVE  /\ "approval_required" \notin Opinions(v)
               /\ config.default = "deny" => "deny" \notin Opinions(v) /\ Found(v.basis) # {}
    <3>1. local = "allow" /\ v.opa \notin {"deny", "approval_required"}
      BY <1>3, <2>3
    <3>2. ~v.loop.approval
      BY <1>6, <3>1 DEF LocalDecision, local, Loop
    <3>3. config.default = "deny" => Found(v.basis) # {} /\ v.loop.decision = "allow"
      BY <1>6, <3>1, <3>2 DEF LocalDecision, local
    <3>4. \A i \in Found(v.basis) : v.basis[i].verdict[v.request.ask] # "approval_required"
      BY <2>1, <3>2 DEF Heard
    <3>5. config.default = "deny" =>
            \A i \in Found(v.basis) : v.basis[i].verdict[v.request.ask] # "deny"
      BY <2>1, <3>3 DEF Heard
    <3> QED
      BY <3>1, <3>3, <3>4, <3>5 DEF Opinions
  <2>4. Sound(w)
    BY <1>3, <1>4, <2>2, <2>3 DEF Sound
  <2> QED
    BY <1>3, <2>2, <2>4 DEF d, local, w
<1> QED
  BY <1>5, <1>6

\* Strict mode: what OPA says of a request no document has been asked about.
LEMMA OpaDecides ==
  ASSUME config.mode = "strict", NEW u \in Evaluation, u.basis = NoDocuments, u.opa \in Decisions
  PROVE  /\ Vetoes(u) = {}
         /\ \A stage \in {"recording", "returned"} : Sound(Settled(u, stage, u.opa))
<1>1. Vetoes(u) = {} /\ Opinions(u) = {u.opa}
  BY DEF Vetoes, Opinions, Found, NoDocuments
<1>2. ASSUME NEW stage \in {"recording", "returned"} PROVE Sound(Settled(u, stage, u.opa))
  <2> DEFINE w == Settled(u, stage, u.opa)
  <2>1. w.decision = u.opa /\ w.opa = u.opa /\ w.basis = u.basis /\ w.request = u.request
    BY DEF Settled, Evaluation
  <2> HIDE DEF w
  <2>2. Vetoes(w) = Vetoes(u) /\ Opinions(w) = Opinions(u)
    BY <2>1 DEF Vetoes, Opinions
  <2>3. Sound(w)
    BY <1>1, <2>1, <2>2 DEF Sound
  <2> QED
    BY <2>3 DEF w
<1> QED
  BY <1>1, <1>2

(***************************************************************************)
(* The authorizer.  What is proved of OPAAuthorizer holds of the one the   *)
(* policy engine asks.                                                     *)
(***************************************************************************)

Guard == INSTANCE OPAAuthorizerProofs WITH Authorizations <- Evaluations,
                                           Inputs <- {r.input : r \in Requests}

LEMMA GuardAssumptions ==
  Guard!GuardOptions /\ Guard!NoneIsNothing
BY ConstantTypes, AuthorizerOptions, NoneIsNothing
DEF Request, Decisions, Opa!Input, Opa!Decisions, Opa!Entry, Opa!Authorization,
    Guard!GuardOptions, Guard!NoneIsNothing, Guard!Input,
    Guard!Decisions, Guard!Entry, Guard!Authorization

LEMMA SameTypes ==
  /\ Opa!Entry = Guard!Entry /\ Opa!Accepted = Guard!Accepted
  /\ Opa!Payload = Guard!Payload /\ Opa!Authorization = Guard!Authorization
  /\ (Opa!Init <=> Guard!Init) /\ (Opa!TypeOK <=> Guard!TypeOK) /\ (Opa!Tick <=> Guard!Tick)
<1>1. Opa!Decisions = Guard!Decisions
  BY DEF Opa!Decisions, Guard!Decisions
<1>2. /\ Opa!Entry = Guard!Entry /\ Opa!Accepted = Guard!Accepted
      /\ Opa!Payload = Guard!Payload /\ Opa!Authorization = Guard!Authorization
  BY <1>1 DEF Opa!Entry, Guard!Entry, Opa!Accepted, Guard!Accepted, Opa!Payload, Guard!Payload,
              Opa!Authorization, Guard!Authorization
<1>3. (Opa!Init <=> Guard!Init)
  BY DEF Opa!Init, Guard!Init
<1>4. (Opa!TypeOK <=> Guard!TypeOK)
  BY <1>2 DEF Opa!TypeOK, Guard!TypeOK, Opa!Cardinality, Guard!Cardinality
<1>5. (Opa!Tick <=> Guard!Tick)
  BY DEF Opa!Tick, Guard!Tick
<1> QED
  BY <1>2, <1>3, <1>4, <1>5

LEMMA SameProgress ==
  ASSUME NEW e \in Evaluations
  PROVE  Opa!Progress(e) <=> Guard!Progress(e)
<1>1. \A stage : Opa!At(e, stage) <=> Guard!At(e, stage)
  BY DEF Opa!At, Guard!At
<1>2. \A d : Opa!Return(e, d) <=> Guard!Return(e, d)
  BY DEF Opa!Return, Guard!Return
<1>3. \A p : Opa!ParseDecision(p) = Guard!ParseDecision(p)
  BY DEF Opa!ParseDecision, Guard!ParseDecision
<1>4. Opa!Responded(e) <=> Guard!Responded(e)
  BY <1>1, <1>2 DEF Opa!Responded, Guard!Responded
<1>5. \A p : Opa!ReadBody(e, p) <=> Guard!ReadBody(e, p)
  BY <1>1, <1>2, <1>3 DEF Opa!ReadBody, Guard!ReadBody
<1>6. Opa!NetworkError(e) <=> Guard!NetworkError(e)
  BY <1>1, <1>2 DEF Opa!NetworkError, Guard!NetworkError
<1>7. Opa!Abort(e) <=> Guard!Abort(e)
  BY <1>1, <1>2 DEF Opa!Abort, Guard!Abort
<1> QED
  BY <1>4, <1>5, <1>6, <1>7, SameTypes DEF Opa!Progress, Guard!Progress

LEMMA SameCall ==
  ASSUME NEW e \in Evaluations, NEW r
  PROVE  Opa!Call(e, r) <=> Guard!Call(e, r)
<1>1. Opa!Tracked = Guard!Tracked
  BY DEF Opa!Tracked, Guard!Tracked
<1>2. \A k : Opa!Newer(k) = Guard!Newer(k)
  BY <1>1 DEF Opa!Newer, Guard!Newer
<1>3. Opa!Kept = Guard!Kept
  BY <1>1, <1>2 DEF Opa!Kept, Guard!Kept, Opa!Cardinality, Guard!Cardinality
<1>4. \A n : Opa!Absolute(n) = Guard!Absolute(n)
  BY DEF Opa!Absolute, Guard!Absolute
<1>5. Opa!Acceptable(r) <=> Guard!Acceptable(r)
  BY <1>1, <1>4 DEF Opa!Acceptable, Guard!Acceptable
<1>6. \A keys : Opa!Remembering(keys) = Guard!Remembering(keys)
  BY DEF Opa!Remembering, Guard!Remembering
<1>7. Opa!Validate(r) <=> Guard!Validate(r)
  BY <1>1, <1>3, <1>5, <1>6 DEF Opa!Validate, Guard!Validate
<1>8. Opa!Authorize(e, r) <=> Guard!Authorize(e, r)
  BY <1>5, <1>7 DEF Opa!Authorize, Guard!Authorize
<1> QED
  BY <1>8 DEF Opa!Call, Guard!Call

LEMMA SameGuard ==
  /\ Opa!Init <=> Guard!Init
  /\ Opa!TypeOK <=> Guard!TypeOK
  /\ \A e \in Evaluations :
       /\ Opa!Progress(e) <=> Guard!Progress(e)
       /\ \A i \in {r.input : r \in Requests} : Opa!Call(e, i) <=> Guard!Call(e, i)
  /\ Opa!Tick <=> Guard!Tick
BY SameTypes, SameProgress, SameCall

LEMMA GuardInitial == Init => Guard!Typed
BY GuardAssumptions, SameGuard, Guard!InitTyped DEF Init

\* Every step is one of the authorizer, or leaves it alone.
LEMMA GuardMoves == [Next]_vars => [Guard!Next]_(Guard!vars)
<1> SUFFICES ASSUME [Next]_vars PROVE [Guard!Next]_(Guard!vars)
  OBVIOUS
<1>1. CASE \E e \in Evaluations : Outside(Opa!Progress(e))
  BY <1>1, SameGuard DEF Outside, Guard!Next
<1>2. CASE Outside(Opa!Tick)
  BY <1>2, SameGuard DEF Outside, Guard!Next
<1>3. ASSUME NEW e \in Evaluations, NEW r \in Requests, AskOpa(e, r)
      PROVE  Guard!Next
  BY <1>3, SameGuard DEF AskOpa, Guard!Next
<1>4. CASE UNCHANGED opaVars
  BY <1>4 DEF opaVars, Guard!vars
<1> QED
  BY <1>1, <1>2, <1>3, <1>4
  DEF Next, EvaluateRequest, Hit, Emergency, Fails, Proceeds, OpaAnswered, DocumentEvaluated,
      Recorded, CreatePolicy, UpdatePolicy, DeletePolicy, vars, opaVars

LEMMA GuardStep ==
  ASSUME Guard!Typed, [Next]_vars
  PROVE  /\ Guard!Typed'
         /\ \A e \in Evaluations : authorizations[e] # None => authorizations'[e] # None
BY GuardMoves, GuardAssumptions, Guard!StepTyped, Guard!ActivationsStep
DEF Guard!Typed, Guard!ActivationsKept

(***************************************************************************)
(* The engine's types.                                                     *)
(***************************************************************************)

Metrics == [evaluations : Nat, decisions : [Decisions -> Nat], violations : Nat]

EngineTyped ==
  /\ config \in Config
  /\ policies \in Seq(Document \union {None}) /\ Len(policies) <= MaxPolicies
  /\ evaluationCache \in [Asks -> CacheEntry \union {None}]
  /\ violations \subseteq Evaluations \X Nat
  /\ evaluationMetrics \in Metrics
  /\ evaluations \in [Evaluations -> Evaluation \union {None}]

LEMMA CountedIs ==
  ASSUME NEW m \in Metrics, NEW d \in Decisions
  PROVE  /\ Counted(m, d) \in Metrics
         /\ Counted(m, d).violations = m.violations
         /\ \A c \in Decisions :
              Counted(m, d).decisions[c] = IF c = d THEN m.decisions[c] + 1 ELSE m.decisions[c]
<1> DEFINE counted == [c \in Decisions |-> IF c = d THEN m.decisions[c] + 1 ELSE m.decisions[c]]
<1>1. /\ m.evaluations \in Nat /\ m.decisions \in [Decisions -> Nat] /\ m.violations \in Nat
  BY DEF Metrics
<1>2. counted \in [Decisions -> Nat]
  BY <1>1
<1>3. [m.decisions EXCEPT ![d] = @ + 1] = counted
  BY <1>1
<1>4. Counted(m, d) = [evaluations |-> m.evaluations + 1, decisions |-> counted,
                       violations |-> m.violations]
  <2>1. DOMAIN m = {"evaluations", "decisions", "violations"}
    BY DEF Metrics
  <2>2. Counted(m, d) = [m EXCEPT !.evaluations = @ + 1, !.decisions = counted]
    BY <1>3, <2>1 DEF Counted
  <2>3. m = [evaluations |-> m.evaluations, decisions |-> m.decisions, violations |-> m.violations]
    BY DEF Metrics
  <2> QED
    BY <2>2, <2>3
<1> QED
  BY <1>1, <1>2, <1>4 DEF Metrics

LEMMA ApplicableIs ==
  ASSUME EngineTyped, NEW ask
  PROVE  ApplicablePolicies(ask) \in Basis
<1>1. \A i \in DOMAIN policies : policies[i] \in Document \union {None}
  BY ElementOfSeq, LenProperties DEF EngineTyped
<1> QED
  BY <1>1 DEF ApplicablePolicies, Applies, Basis

\* Documents that denied, and OPA as 0.
LEMMA DeniedFinite ==
  ASSUME NEW denied \in SUBSET (Ids \union {0})
  PROVE  /\ IsFiniteSet(denied) /\ Cardinality(denied) \in Nat /\ denied \subseteq Nat
<1>1. MaxPolicies \in Int /\ MaxPolicies \in Nat
  BY ConstantTypes
<1>2. IsFiniteSet(Ids)
  BY <1>1, FS_Interval DEF Ids
<1>3. IsFiniteSet(Ids \union {0})
  BY <1>2, FS_AddElement
<1>4. IsFiniteSet(denied)
  BY <1>3, FS_Subset
<1>5. Ids \union {0} \subseteq Nat
  BY <1>1 DEF Ids
<1> QED
  BY <1>4, <1>5, FS_CardinalityType

(***************************************************************************)
(* The invariant.                                                          *)
(***************************************************************************)

\* What is true of an evaluation at each stage.
Fit(v) ==
  /\ v.stage = "opa" => v.source = "engine" /\ v.decision = None /\ v.basis = NoDocuments
  /\ v.stage = "local" =>
       /\ v.source = "engine" /\ v.decision = None
       /\ config.mode = "fallback"
       /\ ~v.loop.vetoed /\ LoopOK(v) /\ v.left \subseteq Found(v.basis)
  /\ v.stage = "recording" => v.source = "engine" /\ v.decision = "deny"
  /\ v.source = "engine" /\ v.decision # None => Sound(v) /\ v.stage \in {"recording", "returned"}

EvaluationsFit == \A e \in Evaluations : evaluations[e] # None => Fit(evaluations[e])

\* authorize has been called by whoever waits for it.
Waiting == \A e \in Evaluations : At(e, "opa") => authorizations[e] # None

DecidedBy(e, d) == Decided(e) /\ evaluations[e].decision = d

Tallied(d) == {e \in Evaluations : DecidedBy(e, d) /\ At(e, "returned")}

Records ==
  /\ \A e \in Evaluations :
       Decided(e) /\ Vetoes(evaluations[e]) # {} =>
         \E i \in Vetoes(evaluations[e]) : <<e, i>> \in violations
  /\ \A w \in violations : DecidedBy(w[1], "deny")
  /\ IsFiniteSet(violations) /\ evaluationMetrics.violations = Cardinality(violations)
  /\ \A d \in Decisions :
       IsFiniteSet(Tallied(d)) /\ evaluationMetrics.decisions[d] = Cardinality(Tallied(d))

AnsweredBy(k, e, d) == DecidedBy(e, d) /\ evaluations[e].request.ask = k

CacheTrue ==
  \A k \in Asks : evaluationCache[k] # None =>
    \E e \in Evaluations : AnsweredBy(k, e, evaluationCache[k].decision)

EngineInv ==
  Guard!Typed /\ EngineTyped /\ EvaluationsFit /\ Waiting /\ Records /\ CacheTrue

(***************************************************************************)
(* What one evaluation's progress does to the records.                     *)
(***************************************************************************)

\* Decided evaluations stay so.
DecisionsKept ==
  \A e \in Evaluations : \A k, d : AnsweredBy(k, e, d) => AnsweredBy(k, e, d)'

LEMMA NotDecided ==
  ASSUME EngineTyped, EvaluationsFit, NEW e \in Evaluations,
         evaluations[e] = None \/ At(e, "opa") \/ At(e, "local")
  PROVE  ~Decided(e)
BY DEF EvaluationsFit, Fit, At, Decided

\* An evaluation that is still undecided.
LEMMA PutUndecided ==
  ASSUME EngineTyped, Records, NEW e \in Evaluations, ~Decided(e), NEW v \in Evaluation,
         v.source # "engine" \/ v.decision = None, Put(e, v),
         UNCHANGED <<violations, evaluationMetrics>>
  PROVE  Records' /\ DecisionsKept /\ evaluations' \in [Evaluations -> Evaluation \union {None}]
<1>1. /\ \A f \in Evaluations : evaluations'[f] = IF f = e THEN v ELSE evaluations[f]
      /\ evaluations' \in [Evaluations -> Evaluation \union {None}]
  BY DEF Put, EngineTyped
<1>2. \A f \in Evaluations : Decided(f)' <=> Decided(f)
  BY <1>1 DEF Decided
<1>3. \A f \in Evaluations : Decided(f) => evaluations'[f] = evaluations[f]
  BY <1>1
<1>4. \A f \in Evaluations : \A d : DecidedBy(f, d)' <=> DecidedBy(f, d)
  BY <1>2, <1>3 DEF DecidedBy
<1>5. DecisionsKept
  BY <1>3, <1>4 DEF DecisionsKept, AnsweredBy, DecidedBy
<1>6. \A d : Tallied(d)' = Tallied(d)
  BY <1>3, <1>4 DEF Tallied, At, DecidedBy
<1>7. \A w \in violations : w[1] \in Evaluations
  BY DEF EngineTyped
<1>8. \A f \in Evaluations : Decided(f)' => Vetoes(evaluations[f])' = Vetoes(evaluations[f])
  BY <1>2, <1>3 DEF Vetoes, Found
<1>9. Records'
  <2>1. ASSUME NEW f \in Evaluations, Decided(f)', Vetoes(evaluations[f])' # {}
        PROVE  \E i \in Vetoes(evaluations[f])' : <<f, i>> \in violations'
    BY <1>2, <1>8, <2>1 DEF Records
  <2>2. \A w \in violations' : DecidedBy(w[1], "deny")'
    BY <1>4, <1>7 DEF Records
  <2>3. /\ IsFiniteSet(violations') /\ evaluationMetrics'.violations = Cardinality(violations')
        /\ \A d \in Decisions : IsFiniteSet(Tallied(d)')
                                /\ evaluationMetrics'.decisions[d] = Cardinality(Tallied(d)')
    BY <1>6 DEF Records
  <2> QED
    BY <2>1, <2>2, <2>3 DEF Records
<1> QED
  BY <1>1, <1>5, <1>9

LEMMA SettledAs ==
  ASSUME NEW v \in Evaluation
  PROVE  /\ \A d : [v EXCEPT !.stage = "recording", !.decision = d] = Settled(v, "recording", d)
         /\ \A d : [v EXCEPT !.stage = "returned", !.decision = d] = Settled(v, "returned", d)
         /\ [v EXCEPT !.stage = "returned"] = Settled(v, "returned", v.decision)
BY DEF Settled, Evaluation

\* A denial, whose violations are on record and which is still to be counted.
LEMMA PutDenied ==
  ASSUME EngineTyped, Records, NEW e \in Evaluations, ~Decided(e), NEW v \in Evaluation,
         v.source = "engine", NEW denied \in SUBSET (Ids \union {0}),
         Vetoes(v) # {} => \E i \in Vetoes(v) : i \in denied,
         violations' = violations \union ({e} \X denied),
         evaluationMetrics' = [evaluationMetrics EXCEPT !.violations = @ + Cardinality(denied)],
         Put(e, Settled(v, "recording", "deny"))
  PROVE  /\ Records' /\ DecisionsKept /\ DecidedBy(e, "deny")'
         /\ evaluations' \in [Evaluations -> Evaluation \union {None}]
         /\ violations' \subseteq Evaluations \X Nat /\ evaluationMetrics' \in Metrics
<1> DEFINE w == Settled(v, "recording", "deny")
<1>1. /\ w \in Evaluation /\ w.stage = "recording" /\ w.decision = "deny"
      /\ w.source = "engine" /\ Vetoes(w) = Vetoes(v)
  BY SettledIs DEF Decisions, Opa!Decisions
<1> HIDE DEF w
<1>2. /\ \A f \in Evaluations : evaluations'[f] = IF f = e THEN w ELSE evaluations[f]
      /\ evaluations' \in [Evaluations -> Evaluation \union {None}]
  BY <1>1 DEF Put, EngineTyped, w
<1>3. None \notin Decisions /\ "deny" \in Decisions /\ w # None
  BY <1>1, NoneIsNothing DEF Decisions, Opa!Decisions
<1>4. DecidedBy(e, "deny")' /\ ~At(e, "returned")' /\ evaluations'[e] = w
  BY <1>1, <1>2, <1>3 DEF DecidedBy, Decided, At
<1>5. \A f \in Evaluations \ {e} :
        /\ evaluations'[f] = evaluations[f] /\ (Decided(f)' <=> Decided(f))
        /\ \A d : DecidedBy(f, d)' <=> DecidedBy(f, d)
  BY <1>2 DEF DecidedBy, Decided
<1>6. DecisionsKept
  BY <1>5 DEF DecisionsKept, AnsweredBy, DecidedBy
<1>7. \A d : Tallied(d)' = Tallied(d)
  BY <1>4, <1>5 DEF Tallied, At, DecidedBy
<1>8. /\ IsFiniteSet(denied) /\ Cardinality(denied) \in Nat /\ denied \subseteq Nat
  BY DeniedFinite
<1>9. /\ IsFiniteSet({e} \X denied) /\ Cardinality({e} \X denied) = Cardinality(denied)
  <2>1. IsFiniteSet({e}) /\ Cardinality({e}) = 1
    BY FS_Singleton
  <2>2. IsFiniteSet({e} \X denied) /\ Cardinality({e} \X denied) = 1 * Cardinality(denied)
    BY <1>8, <2>1, FS_Product
  <2> QED
    BY <1>8, <2>2
<1>10. violations \intersect ({e} \X denied) = {}
  BY DEF Records, DecidedBy
<1>11. /\ IsFiniteSet(violations')
       /\ Cardinality(violations') = Cardinality(violations) + Cardinality(denied)
  <2>1. IsFiniteSet(violations) /\ Cardinality(violations) \in Nat
    BY FS_CardinalityType DEF Records
  <2>2. /\ IsFiniteSet(violations')
        /\ Cardinality(violations') = Cardinality(violations) + Cardinality({e} \X denied)
                                      - Cardinality(violations \intersect ({e} \X denied))
    BY <1>9, <2>1, FS_Union
  <2>3. Cardinality(violations \intersect ({e} \X denied)) = 0
    BY <1>10, FS_EmptySet
  <2> HIDE DEF w
  <2>4. Cardinality(violations') = Cardinality(violations) + Cardinality(denied) - 0
    BY <1>9, <2>2, <2>3
  <2> QED
    BY <1>8, <2>1, <2>2, <2>4
<1>12. /\ evaluationMetrics' \in Metrics /\ evaluationMetrics'.decisions = evaluationMetrics.decisions
       /\ evaluationMetrics'.violations = evaluationMetrics.violations + Cardinality(denied)
  <2> DEFINE m == evaluationMetrics
  <2>1. /\ m.evaluations \in Nat /\ m.decisions \in [Decisions -> Nat] /\ m.violations \in Nat
        /\ m = [evaluations |-> m.evaluations, decisions |-> m.decisions,
               violations |-> m.violations]
    BY DEF EngineTyped, Metrics
  <2>2. evaluationMetrics' = [evaluations |-> m.evaluations, decisions |-> m.decisions,
                              violations |-> m.violations + Cardinality(denied)]
    BY <2>1
  <2> QED
    BY <1>8, <2>1, <2>2 DEF Metrics
<1>13. violations' \subseteq Evaluations \X Nat
  BY <1>8 DEF EngineTyped
<1>14. Records'
  <2>1. ASSUME NEW f \in Evaluations, Decided(f)', Vetoes(evaluations[f])' # {}
        PROVE  \E i \in Vetoes(evaluations[f])' : <<f, i>> \in violations'
    <3>1. CASE f = e
      <4>1. Vetoes(evaluations[f])' = Vetoes(v)
        BY <1>1, <1>4, <3>1 DEF Vetoes, Found
      <4> QED
        BY <2>1, <3>1, <4>1
    <3>2. CASE f # e
      <4>1. Vetoes(evaluations[f])' = Vetoes(evaluations[f])
        BY <1>5, <3>2 DEF Vetoes, Found
      <4> QED
        BY <1>5, <2>1, <3>2, <4>1 DEF Records
    <3> QED
      BY <3>1, <3>2
  <2>2. ASSUME NEW x \in violations' PROVE DecidedBy(x[1], "deny")'
    <3>1. CASE x \in violations
      BY <1>4, <1>5, <3>1 DEF Records, EngineTyped
    <3>2. CASE x \in {e} \X denied
      BY <1>4, <3>2
    <3> QED
      BY <3>1, <3>2
  <2>3. IsFiniteSet(violations') /\ evaluationMetrics'.violations = Cardinality(violations')
    BY <1>11, <1>12 DEF Records
  <2>4. \A d \in Decisions : IsFiniteSet(Tallied(d)')
                             /\ evaluationMetrics'.decisions[d] = Cardinality(Tallied(d)')
    BY <1>7, <1>12 DEF Records
  <2> QED
    BY <2>1, <2>2, <2>3, <2>4 DEF Records
<1> QED
  BY <1>2, <1>4, <1>6, <1>12, <1>13, <1>14

LEMMA ReturnedIs ==
  ASSUME NEW v \in Evaluation, NEW c \in Decisions
  PROVE  LET w == Settled(v, "returned", c)
         IN /\ w \in Evaluation /\ w.stage = "returned" /\ w.decision = c
            /\ w.request = v.request /\ w.source = v.source /\ w.opa = v.opa
            /\ w.basis = v.basis /\ Opinions(w) = Opinions(v) /\ Vetoes(w) = Vetoes(v)
<1> DEFINE w == Settled(v, "returned", c)
<1>1. c \in Decisions \union {None}
  OBVIOUS
<1> QED
  BY <1>1, SettledIs

\* A decision that is counted: no denial, or one whose violations are on record.
LEMMA PutCounted ==
  ASSUME EngineTyped, Records, NEW e \in Evaluations, NEW v \in Evaluation,
         v.source = "engine", NEW d \in Decisions,
         \/ ~Decided(e) /\ Vetoes(v) = {}
         \/ evaluations[e] = v /\ v.decision = d /\ v.stage = "recording",
         violations' = violations, evaluationMetrics' = Counted(evaluationMetrics, d),
         Put(e, Settled(v, "returned", d))
  PROVE  /\ Records' /\ DecisionsKept /\ DecidedBy(e, d)'
         /\ evaluations' \in [Evaluations -> Evaluation \union {None}]
         /\ violations' \subseteq Evaluations \X Nat /\ evaluationMetrics' \in Metrics
<1> DEFINE w == Settled(v, "returned", d)
<1>1. /\ w \in Evaluation /\ w.stage = "returned" /\ w.decision = d /\ w.request = v.request
      /\ w.source = "engine" /\ Vetoes(w) = Vetoes(v)
  BY ReturnedIs
<1> HIDE DEF w
<1>2. /\ \A f \in Evaluations : evaluations'[f] = IF f = e THEN w ELSE evaluations[f]
      /\ evaluations' \in [Evaluations -> Evaluation \union {None}]
  BY <1>1 DEF Put, EngineTyped, w
<1>3. None \notin Decisions /\ w # None /\ v # None
  BY <1>1, NoneIsNothing DEF Decisions
<1>4. DecidedBy(e, d)' /\ At(e, "returned")' /\ evaluations'[e] = w
  BY <1>1, <1>2, <1>3 DEF DecidedBy, Decided, At
<1>5. \A f \in Evaluations \ {e} :
        /\ evaluations'[f] = evaluations[f] /\ (Decided(f)' <=> Decided(f))
        /\ \A c : DecidedBy(f, c)' <=> DecidedBy(f, c)
  BY <1>2 DEF DecidedBy, Decided
<1>6. \A c : DecidedBy(e, c) => c = d /\ evaluations[e] = v
  BY DEF DecidedBy
<1>7. DecisionsKept
  <2> SUFFICES ASSUME NEW f \in Evaluations, NEW k, NEW c, AnsweredBy(k, f, c)
               PROVE  AnsweredBy(k, f, c)'
    BY DEF DecisionsKept
  <2>1. CASE f = e
    BY <1>1, <1>4, <1>6, <2>1 DEF AnsweredBy
  <2>2. CASE f # e
    BY <1>5, <2>2 DEF AnsweredBy
  <2> QED
    BY <2>1, <2>2
<1>8. e \notin Tallied(d)
  BY <1>3 DEF Tallied, At, DecidedBy
<1>9. Tallied(d)' = Tallied(d) \union {e}
  BY <1>4, <1>5 DEF Tallied, At
<1>10. \A c \in Decisions \ {d} : Tallied(c)' = Tallied(c)
  <2> SUFFICES ASSUME NEW c \in Decisions \ {d} PROVE Tallied(c)' = Tallied(c)
    OBVIOUS
  <2>1. ~DecidedBy(e, c)'
    BY <1>4 DEF DecidedBy
  <2>2. ~DecidedBy(e, c)
    BY <1>6
  <2> QED
    BY <1>5, <2>1, <2>2 DEF Tallied, At
<1>11. /\ evaluationMetrics' \in Metrics /\ evaluationMetrics'.violations = evaluationMetrics.violations
       /\ \A c \in Decisions :
            evaluationMetrics'.decisions[c] =
              IF c = d THEN evaluationMetrics.decisions[c] + 1 ELSE evaluationMetrics.decisions[c]
  BY CountedIs DEF EngineTyped
<1>12. violations' \subseteq Evaluations \X Nat
  BY DEF EngineTyped
<1>13. Records'
  <2>1. ASSUME NEW f \in Evaluations, Decided(f)', Vetoes(evaluations[f])' # {}
        PROVE  \E i \in Vetoes(evaluations[f])' : <<f, i>> \in violations'
    <3>1. CASE f = e
      <4>1. Vetoes(evaluations[f])' = Vetoes(v)
        BY <1>1, <1>4, <3>1 DEF Vetoes, Found
      <4>2. evaluations[e] = v /\ v.decision = d
        BY <2>1, <4>1
      <4>3. Decided(e)
        BY <1>3, <4>2 DEF Decided
      <4> QED
        BY <2>1, <3>1, <4>1, <4>2, <4>3 DEF Records
    <3>2. CASE f # e
      <4>1. Vetoes(evaluations[f])' = Vetoes(evaluations[f])
        BY <1>5, <3>2 DEF Vetoes, Found
      <4> QED
        BY <1>5, <2>1, <3>2, <4>1 DEF Records
    <3> QED
      BY <3>1, <3>2
  <2>2. ASSUME NEW x \in violations' PROVE DecidedBy(x[1], "deny")'
    <3>1. x[1] \in Evaluations /\ DecidedBy(x[1], "deny")
      BY DEF Records, EngineTyped
    <3> QED
      BY <1>4, <1>5, <1>6, <3>1
  <2>3. ASSUME NEW c \in Decisions
        PROVE  IsFiniteSet(Tallied(c)') /\ evaluationMetrics'.decisions[c] = Cardinality(Tallied(c)')
    <3>1. IsFiniteSet(Tallied(c)) /\ evaluationMetrics.decisions[c] = Cardinality(Tallied(c))
      BY DEF Records
    <3>2. CASE c = d
      BY <1>8, <1>9, <1>11, <3>1, <3>2, FS_AddElement
    <3>3. CASE c # d
      BY <1>10, <1>11, <3>1, <3>3
    <3> QED
      BY <3>2, <3>3
  <2>4. IsFiniteSet(violations') /\ evaluationMetrics'.violations = Cardinality(violations')
    BY <1>11 DEF Records
  <2> QED
    BY <2>1, <2>2, <2>3, <2>4 DEF Records
<1> QED
  BY <1>2, <1>4, <1>7, <1>11, <1>12, <1>13

(***************************************************************************)
(* Steps of an evaluation.                                                 *)
(***************************************************************************)

\* All of the invariant that does not concern the authorizer; and nobody waits
\* for authorize without having called it.
Kept ==
  /\ EngineTyped' /\ EvaluationsFit' /\ Records' /\ CacheTrue'
  /\ \A f \in Evaluations : At(f, "opa")' => At(f, "opa") \/ authorizations'[f] # None

LEMMA FitThen ==
  ASSUME config' = config, NEW f \in Evaluations, NEW w, evaluations'[f] = w, Fit(w)
  PROVE  Fit(evaluations[f])'
BY DEF Fit, Sound, LoopOK, Heard, Vetoing, Found, Vetoes, Opinions

\* One evaluation becomes w, which fits.
LEMMA PutFits ==
  ASSUME EngineTyped, EvaluationsFit, config' = config, NEW e \in Evaluations,
         NEW w \in Evaluation, Fit(w), Put(e, w)
  PROVE  /\ EvaluationsFit' /\ evaluations'[e] = w
         /\ w.stage # "opa" => \A f \in Evaluations : At(f, "opa")' => At(f, "opa")
<1>1. \A f \in Evaluations : evaluations'[f] = IF f = e THEN w ELSE evaluations[f]
  BY DEF Put, EngineTyped
<1>2. ASSUME NEW f \in Evaluations, evaluations'[f] # None PROVE Fit(evaluations[f])'
  <2>1. CASE f = e
    BY <1>1, <2>1, FitThen
  <2>2. CASE f # e
    <3>1. evaluations'[f] = evaluations[f] /\ Fit(evaluations[f])
      BY <1>1, <1>2, <2>2 DEF EvaluationsFit
    <3> QED
      BY <3>1, FitThen
  <2> QED
    BY <2>1, <2>2
<1> QED
  BY <1>1, <1>2 DEF EvaluationsFit, At

LEMMA CacheKept ==
  ASSUME CacheTrue, DecisionsKept, evaluationCache' = evaluationCache
  PROVE  CacheTrue'
<1> SUFFICES ASSUME NEW k \in Asks, evaluationCache[k] # None
             PROVE  \E e \in Evaluations : AnsweredBy(k, e, evaluationCache[k].decision)'
  BY DEF CacheTrue
<1>1. PICK e \in Evaluations : AnsweredBy(k, e, evaluationCache[k].decision)
  BY DEF CacheTrue
<1>2. AnsweredBy(k, e, evaluationCache[k].decision)'
  BY <1>1 DEF DecisionsKept, AnsweredBy, DecidedBy, Decided
<1> QED
  BY <1>2

\* An evaluation ends, or waits for its denial to be recorded.
LEMMA DecideKeeps ==
  ASSUME EngineTyped, EvaluationsFit, Records, UNCHANGED config,
         NEW e \in Evaluations, ~Decided(e), NEW v \in Evaluation, v.source = "engine",
         NEW denied \in SUBSET (Ids \union {0}), NEW d \in Decisions,
         \A stage \in {"recording", "returned"} : Sound(Settled(v, stage, d)),
         Vetoes(v) # {} => d = "deny" /\ \E i \in Vetoes(v) : i \in denied,
         Decide(e, v, denied, d)
  PROVE  /\ Records' /\ DecisionsKept /\ AnsweredBy(v.request.ask, e, d)'
         /\ evaluations' \in [Evaluations -> Evaluation \union {None}]
         /\ violations' \subseteq Evaluations \X Nat /\ evaluationMetrics' \in Metrics
         /\ EvaluationsFit' /\ \A f \in Evaluations : At(f, "opa")' => At(f, "opa")
<1>1. ASSUME NEW stage \in {"recording", "returned"}, stage = "recording" => d = "deny"
      PROVE  LET w == Settled(v, stage, d)
             IN w \in Evaluation /\ Fit(w) /\ w.stage # "opa" /\ w.request = v.request
  <2> DEFINE w == Settled(v, stage, d)
  <2>1. d \in Decisions \union {None}
    OBVIOUS
  <2>2. /\ w \in Evaluation /\ w.stage = stage /\ w.decision = d
        /\ w.request = v.request /\ w.source = v.source
    BY <2>1, SettledIs
  <2>3. Sound(w)
    OBVIOUS
  <2> HIDE DEF w
  <2>4. Fit(w)
    BY <1>1, <2>2, <2>3 DEF Fit
  <2> QED
    BY <2>2, <2>4 DEF w
<1>2. CASE d = "deny"
  <2> DEFINE w == Settled(v, "recording", d)
  <2>1. Put(e, Settled(v, "recording", "deny"))
    BY <1>2, SettledAs DEF Decide
  <2>2. w \in Evaluation /\ Fit(w) /\ w.stage # "opa" /\ w.request = v.request
    BY <1>1, <1>2
  <2>3. Put(e, w)
    BY <1>2, <2>1
  <2>4. /\ Records' /\ DecisionsKept /\ DecidedBy(e, "deny")'
        /\ evaluations' \in [Evaluations -> Evaluation \union {None}]
        /\ violations' \subseteq Evaluations \X Nat /\ evaluationMetrics' \in Metrics
    BY <1>2, <2>1, PutDenied DEF Decide
  <2> HIDE DEF w
  <2>5. EvaluationsFit' /\ evaluations'[e] = w
        /\ \A f \in Evaluations : At(f, "opa")' => At(f, "opa")
    BY <2>2, <2>3, PutFits
  <2> QED
    BY <1>2, <2>2, <2>4, <2>5 DEF AnsweredBy
<1>3. CASE d # "deny"
  <2> DEFINE w == Settled(v, "returned", d)
  <2>1. Put(e, w)
    BY <1>3, SettledAs DEF Decide
  <2>2. w \in Evaluation /\ Fit(w) /\ w.stage # "opa" /\ w.request = v.request
    BY <1>1
  <2>3. Vetoes(v) = {}
    BY <1>3
  <2>4. violations' = violations /\ evaluationMetrics' = Counted(evaluationMetrics, d)
    BY <1>3 DEF Decide
  <2>5. /\ Records' /\ DecisionsKept /\ DecidedBy(e, d)'
        /\ evaluations' \in [Evaluations -> Evaluation \union {None}]
        /\ violations' \subseteq Evaluations \X Nat /\ evaluationMetrics' \in Metrics
    BY <2>1, <2>3, <2>4, PutCounted
  <2> HIDE DEF w
  <2>6. EvaluationsFit' /\ evaluations'[e] = w
        /\ \A f \in Evaluations : At(f, "opa")' => At(f, "opa")
    BY <2>1, <2>2, PutFits
  <2> QED
    BY <2>2, <2>5, <2>6 DEF AnsweredBy
<1> QED
  BY <1>2, <1>3

\* The loop over the documents has ended.
LEMMA ConcludeKeeps ==
  ASSUME EngineInv, UNCHANGED <<config, policies>>, NEW e \in Evaluations, ~Decided(e),
         NEW v \in Evaluation, v.source = "engine", config.mode = "fallback", LoopOK(v),
         v.loop.vetoed \/ v.left = {}, Conclude(e, v)
  PROVE  Kept
<1> DEFINE ask == v.request.ask
           byOpa == IF v.opa = "deny" THEN {0} ELSE {}
           denied == v.loop.denied \union byOpa
<1>1. /\ ask \in Asks /\ v.loop.denied \in SUBSET Ids
      /\ config \in Config /\ EngineTyped /\ EvaluationsFit /\ Records /\ CacheTrue
  BY DEF Evaluation, Request, Loop, EngineInv, EngineTyped
<1> PICK d : d = MergeDecisions(LocalDecision(v.loop, v.basis), v.opa)
  OBVIOUS
<1> PICK entry : entry = [decision |-> d, expires |-> now + CacheTtl]
  OBVIOUS
<1>2. /\ d \in Decisions /\ \A stage \in {"recording", "returned"} : Sound(Settled(v, stage, d))
      /\ Vetoes(v) # {} => d = "deny" /\ \E i \in Vetoes(v) : i \in v.loop.denied
  BY <1>1, LoopDecides
<1>3. denied \in SUBSET (Ids \union {0})
  BY <1>1
<1>4. Decide(e, v, denied, d)
  BY DEF Conclude
<1>5. evaluationCache' = IF config.cache THEN [evaluationCache EXCEPT ![ask] = entry]
                         ELSE evaluationCache
  BY DEF Conclude, CacheKey
<1>6. entry \in CacheEntry /\ entry.decision = d
  <2>1. now \in Nat /\ CacheTtl \in Nat
    BY ConstantTypes DEF EngineInv, Guard!Typed, Guard!GuardInv, Guard!GuardTypes
  <2> QED
    BY <1>2, <2>1 DEF CacheEntry
<1> HIDE DEF byOpa
<1>7. Vetoes(v) # {} => d = "deny" /\ \E i \in Vetoes(v) : i \in denied
  BY <1>2
<1> HIDE DEF denied
<1>8. /\ Records' /\ DecisionsKept /\ AnsweredBy(ask, e, d)'
      /\ evaluations' \in [Evaluations -> Evaluation \union {None}]
      /\ violations' \subseteq Evaluations \X Nat /\ evaluationMetrics' \in Metrics
      /\ EvaluationsFit' /\ \A f \in Evaluations : At(f, "opa")' => At(f, "opa")
  BY <1>1, <1>2, <1>3, <1>4, <1>7, DecideKeeps
<1>9. EngineTyped'
  BY <1>1, <1>5, <1>6, <1>8 DEF EngineTyped
<1>10. CacheTrue'
  <2>1. CASE ~config.cache
    BY <1>1, <1>5, <1>8, <2>1, CacheKept
  <2>2. CASE config.cache
    <3> SUFFICES ASSUME NEW k \in Asks, evaluationCache'[k] # None
                 PROVE  \E f \in Evaluations : AnsweredBy(k, f, evaluationCache[k].decision)'
      BY DEF CacheTrue
    <3>1. CASE k = ask
      <4>1. evaluationCache'[k].decision = d
        BY <1>1, <1>5, <1>6, <2>2, <3>1 DEF EngineTyped
      <4> QED
        BY <1>8, <3>1, <4>1 DEF AnsweredBy, DecidedBy, Decided
    <3>2. CASE k # ask
      <4>1. evaluationCache'[k] = evaluationCache[k]
        BY <1>5, <2>2, <3>2
      <4>2. PICK f \in Evaluations : AnsweredBy(k, f, evaluationCache[k].decision)
        BY <1>1, <4>1 DEF CacheTrue
      <4>3. AnsweredBy(k, f, evaluationCache[k].decision)'
        BY <1>8, <4>1, <4>2 DEF DecisionsKept, AnsweredBy, DecidedBy, Decided
      <4> QED
        BY <4>3
    <3> QED
      BY <3>1, <3>2
  <2> QED
    BY <2>1, <2>2
<1> QED
  BY <1>8, <1>9, <1>10 DEF Kept

\* The documents are asked, the first of them at once.
LEMMA AskDocumentsKeeps ==
  ASSUME EngineInv, UNCHANGED <<config, policies>>, NEW e \in Evaluations, ~Decided(e),
         NEW r \in Request, NEW opa \in Decisions \union {None}, config.mode = "fallback",
         AskDocuments(e, r, opa)
  PROVE  Kept
<1> PICK basis : basis = ApplicablePolicies(r.ask)
  OBVIOUS
<1> PICK v : v = [request |-> r, stage |-> "local", source |-> "engine", opa |-> opa,
                  basis |-> basis, left |-> Found(basis), loop |-> Nothing, decision |-> None]
  OBVIOUS
<1>1. EngineTyped /\ EvaluationsFit /\ Records /\ CacheTrue /\ basis \in Basis
  BY ApplicableIs DEF EngineInv
<1>2. Nothing \in Loop /\ Nothing.vetoed = FALSE /\ Found(basis) \in SUBSET Ids
  BY DEF Nothing, Loop, Found
<1>3. /\ v.stage = "local" /\ v.source = "engine" /\ v.basis = basis /\ v.left = Found(basis)
      /\ v.loop = Nothing /\ v.decision = None
  OBVIOUS
<1>4. v \in Evaluation
  BY <1>1, <1>2 DEF Evaluation
<1>5. LoopOK(v)
  BY <1>2, <1>3 DEF LoopOK
<1>6. \/ v.left = {} /\ Conclude(e, v)
      \/ Put(e, v) /\ UNCHANGED <<evaluationCache, violations, evaluationMetrics>>
  BY <1>3 DEF AskDocuments
<1> HIDE DEF Kept
<1>7. CASE v.left = {} /\ Conclude(e, v)
  BY <1>3, <1>4, <1>5, <1>7, ConcludeKeeps
<1>8. CASE Put(e, v) /\ UNCHANGED <<evaluationCache, violations, evaluationMetrics>>
  <2>1. Fit(v)
    BY <1>2, <1>3, <1>5 DEF Fit
  <2>2. EvaluationsFit' /\ \A f \in Evaluations : At(f, "opa")' => At(f, "opa")
    BY <1>1, <1>3, <1>4, <1>8, <2>1, PutFits
  <2>3. Records' /\ DecisionsKept /\ evaluations' \in [Evaluations -> Evaluation \union {None}]
    BY <1>1, <1>3, <1>4, <1>8, PutUndecided
  <2> QED
    BY <1>1, <1>8, <2>2, <2>3, CacheKept DEF Kept, EngineTyped
<1> QED
  BY <1>6, <1>7, <1>8

\* One document has been evaluated.
LEMMA DocumentEvaluatedKeeps ==
  ASSUME EngineInv, NEW e \in Evaluations, DocumentEvaluated(e)
  PROVE  Kept
<1> PICK v : v = evaluations[e]
  OBVIOUS
<1>1. EngineTyped /\ EvaluationsFit /\ Records /\ CacheTrue
  BY DEF EngineInv
<1>2. /\ v \in Evaluation /\ v.stage = "local" /\ v.source = "engine" /\ v.decision = None
      /\ config.mode = "fallback" /\ ~v.loop.vetoed /\ LoopOK(v) /\ v.left \subseteq Found(v.basis)
  BY <1>1 DEF DocumentEvaluated, At, EngineTyped, EvaluationsFit, Fit
<1>3. ~Decided(e)
  BY <1>2 DEF Decided
<1>4. PICK i \in v.left :
        LET next == [v EXCEPT !.left = @ \ {i},
                              !.loop = Considered(@, i, v.basis[i], v.request.ask)]
        IN IF next.loop.vetoed \/ next.left = {} THEN Conclude(e, next)
           ELSE Put(e, next) /\ UNCHANGED <<evaluationCache, violations, evaluationMetrics>>
  BY DEF DocumentEvaluated
<1> PICK loop : loop = Considered(v.loop, i, v.basis[i], v.request.ask)
  OBVIOUS
<1> PICK next : next = [v EXCEPT !.left = v.left \ {i}, !.loop = loop]
  OBVIOUS
<1>5. /\ i \in Ids /\ i \in Found(v.basis) /\ v.basis[i] \in Document
      /\ v.loop \in Loop /\ v.left \in SUBSET Ids /\ v.basis \in Basis
  BY <1>2 DEF Evaluation, Found, Basis
<1>6. /\ loop \in Loop
      /\ loop.vetoed => i \in loop.denied /\ Vetoing(v.basis[i], v.request.ask)
      /\ ~loop.vetoed => /\ Heard(loop, v.basis[i], v.request.ask)
                         /\ \A d : Heard(v.loop, d, v.request.ask) => Heard(loop, d, v.request.ask)
  BY <1>1, <1>2, <1>5, OneTurn DEF EngineTyped
<1>7. /\ next \in Evaluation /\ next.loop = loop /\ next.left = v.left \ {i}
      /\ next.basis = v.basis /\ next.request = v.request /\ next.stage = "local"
      /\ next.source = "engine" /\ next.decision = None
  BY <1>2, <1>5, <1>6 DEF Evaluation
<1>8. LoopOK(next)
  BY <1>2, <1>5, <1>6, <1>7 DEF LoopOK
<1>9. IF next.loop.vetoed \/ next.left = {} THEN Conclude(e, next)
      ELSE Put(e, next) /\ UNCHANGED <<evaluationCache, violations, evaluationMetrics>>
  BY <1>4
<1>10. UNCHANGED <<config, policies>>
  BY DEF DocumentEvaluated
<1>11. CASE next.loop.vetoed \/ next.left = {}
  BY <1>2, <1>3, <1>7, <1>8, <1>9, <1>10, <1>11, ConcludeKeeps
<1>12. CASE ~(next.loop.vetoed \/ next.left = {})
  <2>1. Fit(next)
    BY <1>2, <1>7, <1>8, <1>12 DEF Fit
  <2>2. Put(e, next) /\ UNCHANGED <<evaluationCache, violations, evaluationMetrics>>
    BY <1>9, <1>12
  <2>3. EvaluationsFit' /\ \A f \in Evaluations : At(f, "opa")' => At(f, "opa")
    BY <1>1, <1>7, <1>10, <2>1, <2>2, PutFits
  <2>4. Records' /\ DecisionsKept /\ evaluations' \in [Evaluations -> Evaluation \union {None}]
    BY <1>1, <1>3, <1>7, <2>2, PutUndecided
  <2> QED
    BY <1>1, <1>10, <2>2, <2>3, <2>4, CacheKept DEF Kept, EngineTyped
<1> QED
  BY <1>11, <1>12

\* A denial's violations are on record.
LEMMA RecordedKeeps ==
  ASSUME EngineInv, NEW e \in Evaluations, Recorded(e)
  PROVE  Kept
<1> PICK v : v = evaluations[e]
  OBVIOUS
<1> PICK w : w = Settled(v, "returned", "deny")
  OBVIOUS
<1>1. EngineTyped /\ EvaluationsFit /\ Records /\ CacheTrue
  BY DEF EngineInv
<1>2. /\ v \in Evaluation /\ v.stage = "recording" /\ v.source = "engine" /\ v.decision = "deny"
      /\ Fit(v) /\ "deny" \in Decisions /\ None \notin Decisions
  BY <1>1, NoneIsNothing DEF Recorded, At, EngineTyped, EvaluationsFit, Fit, Decisions,
                             Opa!Decisions
<1>3. /\ w \in Evaluation /\ w.stage = "returned" /\ w.decision = "deny"
      /\ w.source = v.source /\ w.opa = v.opa /\ w.basis = v.basis
      /\ Opinions(w) = Opinions(v) /\ Vetoes(w) = Vetoes(v)
  BY <1>2, ReturnedIs
<1>4. Put(e, w)
  BY <1>2, SettledAs DEF Recorded
<1>5. /\ violations' = violations /\ evaluationMetrics' = Counted(evaluationMetrics, "deny")
      /\ UNCHANGED <<config, policies, evaluationCache>>
  BY <1>2 DEF Recorded
<1>6. /\ Records' /\ DecisionsKept
      /\ evaluations' \in [Evaluations -> Evaluation \union {None}]
      /\ violations' \subseteq Evaluations \X Nat /\ evaluationMetrics' \in Metrics
  BY <1>1, <1>2, <1>4, <1>5, PutCounted
<1>7. Fit(w)
  BY <1>2, <1>3 DEF Fit, Sound
<1>8. EvaluationsFit' /\ \A f \in Evaluations : At(f, "opa")' => At(f, "opa")
  BY <1>1, <1>3, <1>4, <1>5, <1>7, PutFits
<1> QED
  BY <1>1, <1>5, <1>6, <1>8, CacheKept DEF Kept, EngineTyped

\* An evaluation that comes to no decision of its own.
LEMMA ReturnedKeeps ==
  ASSUME EngineInv, UNCHANGED <<config, policies, evaluationCache, violations, evaluationMetrics>>,
         NEW e \in Evaluations, ~Decided(e), NEW r \in Request,
         NEW source \in {"cache", "emergency", "error"}, NEW d \in Decisions \union {None},
         Put(e, ReturnedAt(r, source, d))
  PROVE  Kept
<1> PICK v : v = ReturnedAt(r, source, d)
  OBVIOUS
<1>1. EngineTyped /\ EvaluationsFit /\ Records /\ CacheTrue
  BY DEF EngineInv
<1>2. NoDocuments \in Basis /\ Nothing \in Loop
  BY DEF NoDocuments, Basis, Nothing, Loop
<1>3. v \in Evaluation /\ v.stage = "returned" /\ v.source # "engine" /\ Put(e, v)
  BY <1>1, <1>2 DEF ReturnedAt, Evaluation
<1>4. Fit(v)
  BY <1>3 DEF Fit
<1>5. EvaluationsFit' /\ \A f \in Evaluations : At(f, "opa")' => At(f, "opa")
  BY <1>1, <1>3, <1>4, PutFits
<1>6. Records' /\ DecisionsKept /\ evaluations' \in [Evaluations -> Evaluation \union {None}]
  BY <1>1, <1>3, PutUndecided
<1> QED
  BY <1>1, <1>5, <1>6, CacheKept DEF Kept, EngineTyped

\* authorize has come back.
LEMMA OpaAnsweredKeeps ==
  ASSUME EngineInv, NEW e \in Evaluations, OpaAnswered(e)
  PROVE  Kept
<1> PICK v : v = evaluations[e]
  OBVIOUS
<1> PICK opa : opa = IF authorizations[e].decision = "error" THEN None
                     ELSE authorizations[e].decision
  OBVIOUS
<1>1. EngineTyped /\ EvaluationsFit /\ Records /\ CacheTrue
  BY DEF EngineInv
<1>2. /\ v \in Evaluation /\ v.stage = "opa" /\ v.source = "engine" /\ v.decision = None
      /\ v.basis = NoDocuments /\ v.request \in Request /\ ~Decided(e)
  BY <1>1 DEF OpaAnswered, At, EngineTyped, EvaluationsFit, Fit, Evaluation, Decided
<1>3. opa \in Decisions \union {None}
  <2>1. authorizations[e] # None
    BY DEF EngineInv, Waiting, OpaAnswered
  <2>2. authorizations[e] \in Guard!Authorization
    BY <2>1 DEF EngineInv, Guard!Typed, Guard!ActivationsTyped
  <2> QED
    BY <2>2 DEF Guard!Authorization, Guard!Decisions, Decisions, Opa!Decisions
<1>4. UNCHANGED <<opaVars, config, policies>>
  BY DEF OpaAnswered
<1>5. \/ config.mode = "fallback" /\ AskDocuments(e, v.request, opa)
      \/ /\ config.mode = "strict" /\ opa # None
         /\ Decide(e, [v EXCEPT !.opa = opa], IF opa = "deny" THEN {0} ELSE {}, opa)
         /\ UNCHANGED evaluationCache
      \/ /\ Put(e, ReturnedAt(v.request, "error", None))
         /\ UNCHANGED <<evaluationCache, violations, evaluationMetrics>>
  BY DEF OpaAnswered
<1>6. CASE config.mode = "fallback" /\ AskDocuments(e, v.request, opa)
  BY <1>2, <1>3, <1>4, <1>6, AskDocumentsKeeps
<1>7. CASE /\ config.mode = "strict" /\ opa # None
           /\ Decide(e, [v EXCEPT !.opa = opa], IF opa = "deny" THEN {0} ELSE {}, opa)
           /\ UNCHANGED evaluationCache
  <2> PICK u : u = [v EXCEPT !.opa = opa]
    OBVIOUS
  <2> PICK denied : denied = IF opa = "deny" THEN {0} ELSE {}
    OBVIOUS
  <2>1. u \in Evaluation /\ u.opa = opa /\ u.source = "engine" /\ u.basis = NoDocuments
    BY <1>2, <1>3 DEF Evaluation
  <2>2. opa \in Decisions /\ denied \in SUBSET (Ids \union {0})
    BY <1>3, <1>7
  <2>3. Vetoes(u) = {} /\ \A stage \in {"recording", "returned"} : Sound(Settled(u, stage, opa))
    BY <1>7, <2>1, <2>2, OpaDecides
  <2>4. Decide(e, u, denied, opa)
    BY <1>7
  <2>5. /\ Records' /\ DecisionsKept
        /\ evaluations' \in [Evaluations -> Evaluation \union {None}]
        /\ violations' \subseteq Evaluations \X Nat /\ evaluationMetrics' \in Metrics
        /\ EvaluationsFit' /\ \A f \in Evaluations : At(f, "opa")' => At(f, "opa")
    BY <1>1, <1>2, <1>4, <2>1, <2>2, <2>3, <2>4, DecideKeeps
  <2> QED
    BY <1>1, <1>4, <1>7, <2>5, CacheKept DEF Kept, EngineTyped
<1>8. CASE /\ Put(e, ReturnedAt(v.request, "error", None))
           /\ UNCHANGED <<evaluationCache, violations, evaluationMetrics>>
  BY <1>2, <1>4, <1>8, ReturnedKeeps
<1> QED
  BY <1>5, <1>6, <1>7, <1>8

LEMMA EvaluateRequestKeeps ==
  ASSUME EngineInv, NEW e \in Evaluations, NEW r \in Requests, EvaluateRequest(e, r)
  PROVE  Kept
<1>1. EngineTyped /\ EvaluationsFit /\ Records /\ CacheTrue /\ r \in Request
  BY ConstantTypes DEF EngineInv
<1>2. /\ evaluations[e] = None /\ ~Decided(e) /\ UNCHANGED <<config, policies>>
  BY DEF EvaluateRequest, Decided
<1>3. CASE CacheHit(r.ask) /\ Hit(e, r)
  <2>1. Cached(r.ask).decision \in Decisions
    BY <1>1, <1>3 DEF CacheHit, Cached, CacheKey, EngineTyped, CacheEntry, Request
  <2> QED
    BY <1>1, <1>2, <1>3, <2>1, ReturnedKeeps DEF Hit
<1>4. CASE Emergency(e, r)
  BY <1>1, <1>2, <1>4, ReturnedKeeps DEF Emergency, Decisions, Opa!Decisions
<1>5. CASE Fails(e, r)
  BY <1>1, <1>2, <1>5, ReturnedKeeps DEF Fails
<1>6. CASE AskOpa(e, r)
  <2> PICK v : v = [request |-> r, stage |-> "opa", source |-> "engine", opa |-> None,
                    basis |-> NoDocuments, left |-> {}, loop |-> Nothing, decision |-> None]
    OBVIOUS
  <2>1. v \in Evaluation /\ v.stage = "opa" /\ v.source = "engine" /\ v.decision = None
        /\ v.basis = NoDocuments
    <3>1. NoDocuments \in Basis /\ Nothing \in Loop
      BY DEF NoDocuments, Basis, Nothing, Loop
    <3> QED
      BY <1>1, <3>1 DEF Evaluation
  <2>2. Put(e, v) /\ UNCHANGED <<evaluationCache, violations, evaluationMetrics>>
    BY <1>6 DEF AskOpa
  <2>3. Fit(v)
    BY <2>1 DEF Fit
  <2>4. EvaluationsFit'
    BY <1>1, <1>2, <2>1, <2>2, <2>3, PutFits
  <2>5. Records' /\ DecisionsKept /\ evaluations' \in [Evaluations -> Evaluation \union {None}]
    BY <1>1, <1>2, <2>1, <2>2, PutUndecided
  <2>6. authorizations'[e] # None
    BY <1>6, SameCall, GuardAssumptions, Guard!ActivationsCall DEF AskOpa, EngineInv, Guard!Typed
  <2>7. \A f \in Evaluations : At(f, "opa")' => At(f, "opa") \/ authorizations'[f] # None
    BY <1>1, <2>2, <2>6 DEF At, Put, EngineTyped
  <2> QED
    BY <1>1, <1>2, <2>2, <2>4, <2>5, <2>7, CacheKept DEF Kept, EngineTyped
<1>7. CASE Ready /\ ~config.opa /\ AskDocuments(e, r, None)
  <2>1. config.mode = "fallback"
    BY <1>1, <1>7 DEF Ready, EngineTyped, Config
  <2> QED
    BY <1>1, <1>2, <1>7, <2>1, AskDocumentsKeeps
<1> QED
  BY <1>3, <1>4, <1>5, <1>6, <1>7 DEF EvaluateRequest

(***************************************************************************)
(* Other steps.                                                            *)
(***************************************************************************)

\* The cache is kept or cleared, and no evaluation proceeds.
LEMMA PoliciesKeep ==
  ASSUME EngineInv, UNCHANGED <<config, engineVars>>,
         policies' \in Seq(Document \union {None}) /\ Len(policies') <= MaxPolicies,
         evaluationCache' = evaluationCache \/ ClearPolicyCache
  PROVE  Kept
<1>1. EngineTyped /\ EvaluationsFit /\ Records /\ CacheTrue
  BY DEF EngineInv
<1>2. UNCHANGED <<config, violations, evaluationMetrics, evaluations>>
  BY DEF engineVars
<1>3. /\ \A e \in Evaluations : Decided(e)' <=> Decided(e)
      /\ \A e, d : DecidedBy(e, d)' <=> DecidedBy(e, d)
      /\ \A e \in Evaluations : Vetoes(evaluations[e])' = Vetoes(evaluations[e])
      /\ \A e, stage : At(e, stage)' <=> At(e, stage)
  BY <1>2 DEF Decided, DecidedBy, At, Vetoes, Found
<1>4. \A d : Tallied(d)' = Tallied(d)
  BY <1>3 DEF Tallied
<1>5. Records'
  BY <1>1, <1>2, <1>3, <1>4 DEF Records
<1>6. EvaluationsFit'
  BY <1>1, <1>2, FitThen DEF EvaluationsFit
<1>7. DecisionsKept
  BY <1>2, <1>3 DEF DecisionsKept, AnsweredBy
<1>8. CASE evaluationCache' = evaluationCache
  BY <1>1, <1>2, <1>3, <1>5, <1>6, <1>7, <1>8, CacheKept DEF Kept, EngineTyped
<1>9. CASE ClearPolicyCache
  <2>1. CacheTrue'
    BY <1>9 DEF ClearPolicyCache, CacheTrue
  <2>2. EngineTyped'
    BY <1>1, <1>2, <1>9 DEF EngineTyped, ClearPolicyCache
  <2> QED
    BY <1>3, <1>5, <1>6, <2>1, <2>2 DEF Kept
<1> QED
  BY <1>8, <1>9

LEMMA EngineInitial == Init => EngineInv
<1> SUFFICES ASSUME Init PROVE EngineInv
  OBVIOUS
<1>1. Guard!Typed
  BY GuardInitial
<1>2. \A e \in Evaluations : evaluations[e] = None
  BY DEF Init
<1>3. policies \in Seq(Document \union {None}) /\ Len(policies) <= MaxPolicies
  <2>1. DefaultPolicies \in Seq(Document) /\ Len(DefaultPolicies) <= MaxPolicies
    BY ConstantTypes
  <2>2. \A i \in 1..Len(DefaultPolicies) : DefaultPolicies[i] \in Document \union {None}
    BY <2>1, ElementOfSeq
  <2> QED
    BY <2>1, <2>2, SeqDef DEF Init
<1>4. evaluationMetrics \in Metrics
  BY DEF Init, Metrics
<1>5. EngineTyped
  BY <1>2, <1>3, <1>4, ConstantTypes DEF Init, EngineTyped
<1>6. EvaluationsFit /\ Waiting /\ CacheTrue
  BY <1>2 DEF EvaluationsFit, Waiting, At, CacheTrue, Init
<1>7. \A d : Tallied(d) = {}
  BY <1>2 DEF Tallied, At
<1>8. Records
  BY <1>2, <1>7, FS_EmptySet DEF Records, Decided, Init
<1> QED
  BY <1>1, <1>5, <1>6, <1>8 DEF EngineInv

LEMMA EngineStep == EngineInv /\ [Next]_vars => EngineInv'
<1> SUFFICES ASSUME EngineInv, [Next]_vars PROVE EngineInv'
  OBVIOUS
<1>1. /\ Guard!Typed'
      /\ \A e \in Evaluations : authorizations[e] # None => authorizations'[e] # None
  BY GuardStep DEF EngineInv
<1>2. policies \in Seq(Document \union {None}) /\ Len(policies) <= MaxPolicies
  BY DEF EngineInv, EngineTyped
<1>3. Kept
  <2>1. ASSUME NEW e \in Evaluations, NEW r \in Requests, EvaluateRequest(e, r) PROVE Kept
    BY <2>1, EvaluateRequestKeeps
  <2>2. ASSUME NEW e \in Evaluations, Proceeds(e) PROVE Kept
    BY <2>2, OpaAnsweredKeeps, DocumentEvaluatedKeeps, RecordedKeeps DEF Proceeds
  <2>3. ASSUME NEW d \in Documents, CreatePolicy(d) PROVE Kept
    <3>1. d \in Document \union {None} /\ Len(policies) \in Nat /\ MaxPolicies \in Nat
      BY <1>2, LenProperties, ConstantTypes
    <3>2. policies' \in Seq(Document \union {None}) /\ Len(policies') = Len(policies) + 1
      BY <1>2, <2>3, <3>1, AppendProperties DEF CreatePolicy
    <3> QED
      BY <2>3, <3>1, <3>2, PoliciesKeep DEF CreatePolicy
  <2>4. ASSUME NEW i \in DOMAIN policies, NEW d \in Documents \union {None},
               policies' = [policies EXCEPT ![i] = d],
               ClearPolicyCache, UNCHANGED <<config, engineVars>>
        PROVE  Kept
    <3>1. d \in Document \union {None} /\ i \in 1..Len(policies)
      BY <1>2, LenProperties, ConstantTypes
    <3>2. policies' \in Seq(Document \union {None}) /\ Len(policies') = Len(policies)
      BY <1>2, <2>4, <3>1, ExceptSeq
    <3> QED
      BY <1>2, <2>4, <3>2, PoliciesKeep
  <2>5. CASE UNCHANGED <<config, policies, evaluationCache, engineVars>>
    BY <1>2, <2>5, PoliciesKeep
  <2> QED
    BY <2>1, <2>2, <2>3, <2>4, <2>5 DEF Next, UpdatePolicy, DeletePolicy, Outside, vars, engineVars
<1>4. Waiting'
  BY <1>1, <1>3 DEF Kept, Waiting, EngineInv
<1> QED
  BY <1>1, <1>3, <1>4 DEF EngineInv, Kept

(***************************************************************************)
(* The theorems.                                                           *)
(***************************************************************************)

LEMMA EngineAlways == Spec => []EngineInv
BY EngineInitial, EngineStep, PTL DEF Spec

\* Whatever documents are stored and requests made, all state is well typed,
\* the authorizer's and the metrics included.
THEOREM EngineTypesKept == Spec => []TypeOK
<1>1. EngineInv => TypeOK
  BY GuardAssumptions, SameGuard, Guard!TypedIsTypeOK
  DEF EngineInv, EngineTyped, Metrics, TypeOK
<1> QED
  BY <1>1, EngineAlways, PTL

\* A veto prevails wherever it stands among the documents, nothing is allowed
\* that somebody wants approved or denies, and strict mode goes by OPA alone.
THEOREM DecisionsSound == Spec => []DecisionSound
<1>1. EngineInv => DecisionSound
  BY DEF EngineInv, EvaluationsFit, Fit, Sound, Decided, DecisionSound
<1> QED
  BY <1>1, EngineAlways, PTL

\* Every veto that decided a request has left a violation, no violation is of a
\* request that was not denied, and the counters agree with the records.
THEOREM DenialsAccounted == Spec => []DenialsRecorded
<1>1. EngineInv => DenialsRecorded
  <2> SUFFICES ASSUME EngineInv PROVE DenialsRecorded
    OBVIOUS
  <2>1. \A d : {e \in Evaluations : Decided(e) /\ At(e, "returned") /\ evaluations[e].decision = d}
                 = Tallied(d)
    BY DEF Tallied, DecidedBy
  <2> QED
    BY <2>1 DEF EngineInv, Records, DecidedBy, DenialsRecorded
<1> QED
  BY <1>1, EngineAlways, PTL

\* What the cache would answer was decided for the same request, and no answer
\* outlives the replacement or deletion of a document.
THEOREM CacheSound == Spec => CacheJustified
<1> DEFINE Source == \A k \in Asks : evaluationCache[k] # None =>
                       \E e \in Evaluations : /\ Decided(e)
                                              /\ evaluations[e].request.ask = k
                                              /\ evaluations[e].decision = evaluationCache[k].decision
           Cleared == (\E k \in Asks : evaluationCache[k] # None
                                       /\ evaluationCache'[k] = evaluationCache[k])
                        => IsPrefix(policies, policies')
<1>1. EngineInv => Source
  BY DEF EngineInv, CacheTrue, AnsweredBy, DecidedBy
<1>2. EngineInv /\ [Next]_vars => [Cleared]_vars
  <2> SUFFICES ASSUME EngineInv, [Next]_vars, NEW k \in Asks, evaluationCache[k] # None,
                      evaluationCache'[k] = evaluationCache[k]
               PROVE  IsPrefix(policies, policies')
    OBVIOUS
  <2>1. policies \in Seq(Document \union {None}) /\ Len(policies) \in Nat
    BY LenProperties DEF EngineInv, EngineTyped
  <2>2. ~ClearPolicyCache
    BY DEF ClearPolicyCache
  <2>3. CASE policies' = policies
    BY <2>1, <2>3 DEF IsPrefix
  <2>4. ASSUME NEW d \in Documents, policies' = Append(policies, d)
        PROVE  IsPrefix(policies, policies')
    <3>1. d \in Document \union {None}
      BY ConstantTypes
    <3>2. Len(policies') = Len(policies) + 1
      BY <2>1, <2>4, <3>1, AppendProperties
    <3>3. SubSeq(policies', 1, Len(policies)) = SubSeq(policies, 1, Len(policies))
      BY <2>1, <2>4, <3>1, <3>2
    <3> QED
      BY <2>1, <3>2, <3>3 DEF IsPrefix
  <2>5. policies' = policies \/ \E d \in Documents : policies' = Append(policies, d)
    BY <2>2 DEF Next, EvaluateRequest, Proceeds, OpaAnswered, DocumentEvaluated, Recorded,
                CreatePolicy, UpdatePolicy, DeletePolicy, Outside, vars
  <2> QED
    BY <2>3, <2>4, <2>5
<1>3. Spec => []Source
  BY <1>1, EngineAlways, PTL
<1>4. Spec => [][Cleared]_vars
  BY <1>2, EngineAlways, PTL DEF Spec
<1> QED
  BY <1>3, <1>4 DEF CacheJustified

(***************************************************************************)
(* The authorizer inside the engine.                                       *)
(***************************************************************************)

\* Every evaluation drives the authorizer as OPAAuthorizer has it: what the
\* engine does to it is one of its steps, or nothing at all.
THEOREM EngineAuthorizes == Spec => Opa!Init /\ [][Opa!Next]_(Opa!vars)
<1>1. Init => Opa!Init
  BY DEF Init
<1>2. [Next]_vars => [Opa!Next]_(Opa!vars)
  <2>1. Guard!Next => Opa!Next
    BY SameGuard DEF Guard!Next, Opa!Next
  <2>2. UNCHANGED Guard!vars => UNCHANGED Opa!vars
    BY DEF Guard!vars, Opa!vars
  <2> QED
    BY <2>1, <2>2, GuardMoves
<1> QED
  BY <1>1, <1>2, PTL DEF Spec

\* However evaluations overlap, and whatever the options of the guard, none of
\* them gets a nonce past it again before it has expired or had to be forgotten;
\* with a time to live that covers the skew, none gets a request past it that
\* another one has already made.
THEOREM EngineRejectsReplays == Spec => []Opa!NoReplay
<1>1. EngineInv => Opa!NoReplay
  BY DEF EngineInv, Guard!Typed, Guard!GuardInv, Guard!NoReplay, Opa!NoReplay,
         Guard!Reused, Opa!Reused, Guard!TtlCoversSkew, Opa!TtlCoversSkew
<1> QED
  BY <1>1, EngineAlways, PTL

LEMMA SameCount ==
  ASSUME NEW S
  PROVE  Guard!Cardinality(S) = Cardinality(S) /\ (Guard!IsFiniteSet(S) <=> IsFiniteSet(S))
BY DEF Guard!Cardinality, Guard!IsFiniteSet, Cardinality, IsFiniteSet

(***************************************************************************)
(* How an evaluation moves, and that it never moves once it has returned.  *)
(***************************************************************************)

\* No other evaluation, nor the violations of any other, is touched.
Alone(e) ==
  \A f \in Evaluations \ {e} :
    /\ evaluations'[f] = evaluations[f]
    /\ \A i \in Ids \union {0} : <<f, i>> \in violations' <=> <<f, i>> \in violations

LEMMA PutAlone ==
  ASSUME EngineTyped, NEW e \in Evaluations, NEW w, Put(e, w), UNCHANGED violations
  PROVE  Alone(e) /\ evaluations'[e] = w
BY DEF EngineTyped, Put, Alone

LEMMA DecideAlone ==
  ASSUME EngineTyped, NEW e \in Evaluations, NEW v \in Evaluation, NEW denied, NEW d,
         Decide(e, v, denied, d)
  PROVE  Alone(e) /\ evaluations'[e].opa = v.opa
<1>1. DOMAIN v = {"request", "stage", "source", "opa", "basis", "left", "loop", "decision"}
  BY DEF Evaluation
<1>2. CASE d = "deny"
  <2>1. /\ violations' = violations \union ({e} \X denied)
        /\ Put(e, [v EXCEPT !.stage = "recording", !.decision = d])
    BY <1>2 DEF Decide
  <2> QED
    BY <1>1, <2>1 DEF EngineTyped, Put, Alone
<1>3. CASE d # "deny"
  <2>1. /\ violations' = violations
        /\ Put(e, [v EXCEPT !.stage = "returned", !.decision = d])
    BY <1>3 DEF Decide
  <2> QED
    BY <1>1, <2>1 DEF EngineTyped, Put, Alone
<1> QED
  BY <1>2, <1>3

LEMMA ConcludeAlone ==
  ASSUME EngineTyped, NEW e \in Evaluations, NEW v \in Evaluation, Conclude(e, v)
  PROVE  Alone(e) /\ evaluations'[e].opa = v.opa
BY DecideAlone DEF Conclude

LEMMA AskDocumentsAlone ==
  ASSUME EngineTyped, NEW e \in Evaluations, NEW r \in Request,
         NEW opa \in Decisions \union {None}, AskDocuments(e, r, opa)
  PROVE  Alone(e) /\ evaluations'[e].opa = opa
<1> PICK basis : basis = ApplicablePolicies(r.ask)
  OBVIOUS
<1> PICK v : v = [request |-> r, stage |-> "local", source |-> "engine", opa |-> opa,
                  basis |-> basis, left |-> Found(basis), loop |-> Nothing, decision |-> None]
  OBVIOUS
<1>1. v \in Evaluation /\ v.opa = opa
  <2>1. basis \in Basis /\ Nothing \in Loop /\ Found(basis) \in SUBSET Ids
    BY ApplicableIs DEF Nothing, Loop, Found
  <2> QED
    BY <2>1 DEF Evaluation
<1>2. \/ Conclude(e, v)
      \/ Put(e, v) /\ UNCHANGED violations
  BY DEF AskDocuments
<1> QED
  BY <1>1, <1>2, ConcludeAlone, PutAlone

\* What an evaluation takes OPA to say it keeps, and takes from its own call.
Quotes(e) ==
  evaluations'[e].opa # None =>
    \/ evaluations[e] # None /\ evaluations'[e].opa = evaluations[e].opa
    \/ /\ Opa!At(e, "returned") /\ authorizations[e].decision = evaluations'[e].opa
       /\ UNCHANGED opaVars

Undecided(e) == evaluations[e] = None \/ At(e, "opa") \/ At(e, "local")

LEMMA DocumentEvaluatedMoves ==
  ASSUME EngineInv, NEW e \in Evaluations, DocumentEvaluated(e)
  PROVE  Alone(e) /\ At(e, "local") /\ Quotes(e)
<1> PICK v : v = evaluations[e]
  OBVIOUS
<1>1. EngineTyped /\ EvaluationsFit
  BY DEF EngineInv
<1>2. /\ v # None /\ v \in Evaluation /\ v.stage = "local" /\ ~v.loop.vetoed
      /\ v.left \subseteq Found(v.basis)
  BY <1>1 DEF DocumentEvaluated, At, EngineTyped, EvaluationsFit, Fit
<1>3. PICK i \in v.left :
        LET next == [v EXCEPT !.left = @ \ {i},
                              !.loop = Considered(@, i, v.basis[i], v.request.ask)]
        IN \/ Conclude(e, next)
           \/ Put(e, next) /\ UNCHANGED violations
  BY DEF DocumentEvaluated
<1> PICK loop : loop = Considered(v.loop, i, v.basis[i], v.request.ask)
  OBVIOUS
<1> PICK next : next = [v EXCEPT !.left = v.left \ {i}, !.loop = loop]
  OBVIOUS
<1>4. /\ i \in Ids /\ v.basis[i] \in Document /\ v.loop \in Loop /\ v.left \in SUBSET Ids
  BY <1>2 DEF Evaluation, Found, Basis
<1>5. loop \in Loop
  BY <1>1, <1>2, <1>4, OneTurn DEF EngineTyped
<1>6. next \in Evaluation /\ next.opa = v.opa
  BY <1>2, <1>4, <1>5 DEF Evaluation
<1>7. Conclude(e, next) \/ (Put(e, next) /\ UNCHANGED violations)
  BY <1>3
<1>8. Alone(e) /\ evaluations'[e].opa = v.opa
  BY <1>1, <1>6, <1>7, ConcludeAlone, PutAlone
<1> QED
  BY <1>2, <1>8 DEF DocumentEvaluated, Quotes

LEMMA OpaAnsweredMoves ==
  ASSUME EngineInv, NEW e \in Evaluations, OpaAnswered(e)
  PROVE  Alone(e) /\ At(e, "opa") /\ Quotes(e)
<1> PICK v : v = evaluations[e]
  OBVIOUS
<1> PICK opa : opa = IF authorizations[e].decision = "error" THEN None
                     ELSE authorizations[e].decision
  OBVIOUS
<1>1. EngineTyped /\ UNCHANGED opaVars
  BY DEF EngineInv, OpaAnswered
<1>2. v \in Evaluation /\ v.request \in Request
  BY <1>1 DEF OpaAnswered, At, EngineTyped, Evaluation
<1>3. authorizations[e] # None /\ authorizations[e].stage = "returned"
  BY DEF EngineInv, Waiting, OpaAnswered
<1>4. opa \in Decisions \union {None}
  <2>1. authorizations[e] \in Guard!Authorization
    BY <1>3 DEF EngineInv, Guard!Typed, Guard!ActivationsTyped
  <2> QED
    BY <2>1 DEF Guard!Authorization, Guard!Decisions, Decisions, Opa!Decisions
<1>5. \/ AskDocuments(e, v.request, opa)
      \/ Decide(e, [v EXCEPT !.opa = opa], IF opa = "deny" THEN {0} ELSE {}, opa)
      \/ Put(e, ReturnedAt(v.request, "error", None)) /\ UNCHANGED violations
  BY DEF OpaAnswered
<1>6. Alone(e) /\ evaluations'[e].opa \in {None, opa}
  <2>1. CASE AskDocuments(e, v.request, opa)
    BY <1>1, <1>2, <1>4, <2>1, AskDocumentsAlone
  <2>2. CASE Decide(e, [v EXCEPT !.opa = opa], IF opa = "deny" THEN {0} ELSE {}, opa)
    <3>1. [v EXCEPT !.opa = opa] \in Evaluation /\ [v EXCEPT !.opa = opa].opa = opa
      BY <1>2, <1>4 DEF Evaluation
    <3> QED
      BY <1>1, <2>2, <3>1, DecideAlone
  <2>3. CASE Put(e, ReturnedAt(v.request, "error", None)) /\ UNCHANGED violations
    BY <1>1, <2>3, PutAlone DEF ReturnedAt
  <2> QED
    BY <1>5, <2>1, <2>2, <2>3
<1>7. Quotes(e)
  BY <1>1, <1>3, <1>6 DEF Quotes, Opa!At
<1> QED
  BY <1>6, <1>7 DEF OpaAnswered

LEMMA EvaluateRequestMoves ==
  ASSUME EngineInv, NEW e \in Evaluations, NEW r \in Requests, EvaluateRequest(e, r)
  PROVE  Alone(e) /\ evaluations[e] = None /\ evaluations'[e].opa = None
<1>1. EngineTyped /\ r \in Request /\ evaluations[e] = None
  BY ConstantTypes DEF EngineInv, EvaluateRequest
<1>2. CASE AskDocuments(e, r, None)
  BY <1>1, <1>2, AskDocumentsAlone
<1>3. ASSUME NEW w, Put(e, w), w.opa = None, UNCHANGED violations
      PROVE  Alone(e) /\ evaluations'[e].opa = None
  BY <1>1, <1>3, PutAlone
<1> QED
  BY <1>1, <1>2, <1>3
  DEF EvaluateRequest, Hit, Emergency, Fails, AskOpa, ReturnedAt

LEMMA RecordedMoves ==
  ASSUME EngineInv, NEW e \in Evaluations, Recorded(e)
  PROVE  /\ Alone(e) /\ At(e, "recording") /\ UNCHANGED violations
         /\ evaluations'[e] = [evaluations[e] EXCEPT !.stage = "returned"]
BY PutAlone DEF EngineInv, Recorded

\* A step moves one evaluation at most: one that is undecided, or one whose
\* violations are on record by now.
LEMMA OneMoves ==
  ASSUME EngineInv, [Next]_vars
  PROVE  \/ UNCHANGED <<evaluations, violations>>
         \/ \E e \in Evaluations :
              /\ Alone(e)
              /\ \/ Undecided(e) /\ Quotes(e)
                 \/ /\ At(e, "recording") /\ UNCHANGED violations
                    /\ evaluations'[e] = [evaluations[e] EXCEPT !.stage = "returned"]
<1>1. ASSUME NEW e \in Evaluations, NEW r \in Requests, EvaluateRequest(e, r)
      PROVE  Alone(e) /\ Undecided(e) /\ Quotes(e)
  BY <1>1, EvaluateRequestMoves DEF Undecided, Quotes
<1>2. ASSUME NEW e \in Evaluations, OpaAnswered(e)
      PROVE  Alone(e) /\ Undecided(e) /\ Quotes(e)
  BY <1>2, OpaAnsweredMoves DEF Undecided
<1>3. ASSUME NEW e \in Evaluations, DocumentEvaluated(e)
      PROVE  Alone(e) /\ Undecided(e) /\ Quotes(e)
  BY <1>3, DocumentEvaluatedMoves DEF Undecided
<1>4. CASE UNCHANGED <<evaluations, violations>>
  BY <1>4
<1> QED
  BY <1>1, <1>2, <1>3, <1>4, RecordedMoves
  DEF Next, Proceeds, CreatePolicy, UpdatePolicy, DeletePolicy, Outside, engineVars, vars

\* Nothing that was decided is decided otherwise, nor loses what it rests on,
\* whatever documents come and go, and whoever else is evaluated meanwhile.
THEOREM DecisionsStand == Spec => DecisionsFinal
<1> DEFINE Final(e) ==
             /\ Decided(e) =>
                  /\ evaluations'[e].decision = evaluations[e].decision
                  /\ evaluations'[e].basis = evaluations[e].basis
                  /\ \A i \in Ids \union {0} : <<e, i>> \in violations' <=> <<e, i>> \in violations
             /\ At(e, "returned") => evaluations'[e] = evaluations[e]
<1>1. ASSUME EngineInv, [Next]_vars, NEW f \in Evaluations
      PROVE  Final(f)
  <2>1. EngineTyped /\ EvaluationsFit
    BY <1>1 DEF EngineInv
  <2>2. CASE UNCHANGED <<evaluations, violations>>
    BY <2>2
  <2>3. ASSUME NEW e \in Evaluations, Alone(e), f # e PROVE Final(f)
    BY <2>3 DEF Alone
  <2>4. CASE Undecided(f)
    <3>1. ~Decided(f) /\ ~At(f, "returned")
      BY <2>1, <2>4, NotDecided DEF Undecided, At
    <3> QED
      BY <3>1
  <2>5. CASE /\ At(f, "recording") /\ UNCHANGED violations
             /\ evaluations'[f] = [evaluations[f] EXCEPT !.stage = "returned"]
    <3>1. evaluations[f] \in Evaluation /\ ~At(f, "returned")
      BY <2>1, <2>5 DEF At, EngineTyped
    <3>2. /\ evaluations'[f].decision = evaluations[f].decision
          /\ evaluations'[f].basis = evaluations[f].basis
      BY <2>5, <3>1 DEF Evaluation
    <3> QED
      BY <2>5, <3>1, <3>2
  <2> HIDE DEF Final
  <2> QED
    BY <1>1, <2>2, <2>3, <2>4, <2>5, OneMoves
<1>2. EngineInv /\ [Next]_vars => [\A e \in Evaluations : Final(e)]_vars
  BY <1>1
<1> QED
  BY <1>2, EngineAlways, PTL DEF Spec, DecisionsFinal

(***************************************************************************)
(* What OPA is taken to have said.                                         *)
(***************************************************************************)

\* Whoever has got an answer of authorize keeps it.
LEMMA AnswersStand ==
  ASSUME Guard!Typed, [Next]_vars, NEW f \in Evaluations, Opa!At(f, "returned")
  PROVE  authorizations'[f] = authorizations[f]
<1>1. DOMAIN authorizations = Evaluations
  BY DEF Guard!Typed, Guard!ActivationsTyped
<1>2. ASSUME NEW e \in Evaluations, Opa!Progress(e)
      PROVE  authorizations'[f] = authorizations[f]
  <2>1. f # e
    BY <1>2 DEF Opa!Progress, Opa!Responded, Opa!ReadBody, Opa!NetworkError, Opa!Abort, Opa!At
  <2> QED
    BY <1>1, <1>2, <2>1
    DEF Opa!Progress, Opa!Responded, Opa!ReadBody, Opa!NetworkError, Opa!Abort, Opa!Return
<1>3. ASSUME NEW e \in Evaluations, NEW r, Opa!Call(e, r)
      PROVE  authorizations'[f] = authorizations[f]
  <2>1. f # e
    BY <1>3 DEF Opa!Call, Opa!Authorize, Opa!At
  <2> QED
    BY <1>1, <1>3, <2>1 DEF Opa!Call, Opa!Authorize
<1>4. CASE UNCHANGED authorizations
  BY <1>4
<1> QED
  BY <1>2, <1>3, <1>4
  DEF Next, EvaluateRequest, Hit, Emergency, Fails, AskOpa, Proceeds, OpaAnswered,
      DocumentEvaluated, Recorded, CreatePolicy, UpdatePolicy, DeletePolicy, Outside,
      Opa!Tick, vars, opaVars

LEMMA QuotedStep ==
  ASSUME EngineInv, OpaQuoted, [Next]_vars
  PROVE  OpaQuoted'
<1> SUFFICES ASSUME NEW f \in Evaluations, evaluations'[f] # None, evaluations'[f].opa # None
             PROVE  Opa!At(f, "returned")' /\ authorizations'[f].decision = evaluations'[f].opa
  BY DEF OpaQuoted
<1>1. EngineTyped /\ Guard!Typed
  BY DEF EngineInv
<1>2. CASE evaluations[f] # None /\ evaluations'[f].opa = evaluations[f].opa
  <2>1. Opa!At(f, "returned") /\ authorizations[f].decision = evaluations[f].opa
    BY <1>2 DEF OpaQuoted
  <2>2. authorizations'[f] = authorizations[f]
    BY <1>1, <2>1, AnswersStand
  <2> QED
    BY <1>2, <2>1, <2>2 DEF Opa!At
<1>3. CASE /\ Opa!At(f, "returned") /\ authorizations[f].decision = evaluations'[f].opa
           /\ UNCHANGED opaVars
  BY <1>3 DEF Opa!At, opaVars
<1>4. CASE UNCHANGED <<evaluations, violations>>
  BY <1>2, <1>4
<1>5. ASSUME NEW e \in Evaluations, Alone(e), f # e
      PROVE  evaluations[f] # None /\ evaluations'[f].opa = evaluations[f].opa
  BY <1>5 DEF Alone
<1>6. CASE Undecided(f) /\ Quotes(f)
  BY <1>2, <1>3, <1>6 DEF Quotes
<1>7. CASE /\ At(f, "recording")
           /\ evaluations'[f] = [evaluations[f] EXCEPT !.stage = "returned"]
  <2>1. evaluations[f] \in Evaluation /\ evaluations[f] # None
    BY <1>1, <1>7 DEF At, EngineTyped
  <2>2. evaluations'[f].opa = evaluations[f].opa
    BY <1>7, <2>1 DEF Evaluation
  <2> QED
    BY <1>2, <2>1, <2>2
<1> QED
  BY <1>2, <1>4, <1>5, <1>6, <1>7, OneMoves

LEMMA QuotedAlways == Spec => [](EngineInv /\ OpaQuoted)
<1>1. Init => OpaQuoted
  BY DEF Init, OpaQuoted
<1> QED
  BY <1>1, EngineInitial, EngineStep, QuotedStep, PTL DEF Spec

\* The answer an evaluation goes by is the one OPA gave to its own call: none is
\* mistaken for another's, made up, or changed once it was given.
THEOREM AnswersQuoted == Spec => []OpaQuoted
BY QuotedAlways, PTL

\* In strict mode each answer that is not a denial, and not one the cache or an
\* emergency gave, has a nonce of its own.
THEOREM StrictAnswersPaid == Spec => []StrictPaid
<1>1. ASSUME EngineInv, OpaQuoted, Guard!Paid, config.mode = "strict" PROVE StrictPaid
  <2> DEFINE Let == {e \in Evaluations : Decided(e) /\ evaluations[e].decision # "deny"}
  <2>1. Let \subseteq Guard!Passed
    <3> SUFFICES ASSUME NEW e \in Evaluations, Decided(e), evaluations[e].decision # "deny"
                 PROVE  e \in Guard!Passed
      OBVIOUS
    <3>1. /\ evaluations[e] # None /\ evaluations[e].decision # None
          /\ evaluations[e].decision = evaluations[e].opa
      BY <1>1 DEF EngineInv, EvaluationsFit, Fit, Sound, Decided
    <3>2. Opa!At(e, "returned") /\ authorizations[e].decision = evaluations[e].opa
      BY <1>1, <3>1 DEF OpaQuoted
    <3> QED
      BY <3>1, <3>2 DEF Opa!At, Guard!Passed
  <2> PICK let : let = Let
    OBVIOUS
  <2> PICK passed : passed = Guard!Passed
    OBVIOUS
  <2>2. IsFiniteSet(passed) /\ Cardinality(passed) <= Len(accepted)
    BY <1>1, SameCount DEF Guard!Paid
  <2>3. IsFiniteSet(let) /\ Cardinality(let) <= Cardinality(passed)
    BY <2>1, <2>2, FS_Subset
  <2>4. Cardinality(let) \in Nat /\ Cardinality(passed) \in Nat
    BY <2>2, <2>3, FS_CardinalityType
  <2>5. Len(accepted) \in Nat
    BY <1>1, LenProperties DEF EngineInv, Guard!Typed, Guard!GuardInv, Guard!GuardTypes
  <2>6. Cardinality(let) <= Len(accepted)
    BY <2>2, <2>3, <2>4, <2>5
  <2> QED
    BY <2>6 DEF StrictPaid
<1>2. CASE ReplayProtection
  <2>1. Init => Guard!Paid
    BY GuardAssumptions, SameGuard, Guard!PaidInit DEF Init
  <2>2. EngineInv /\ Guard!Paid /\ [Next]_vars => Guard!Paid'
    BY <1>2, GuardAssumptions, GuardMoves, Guard!PaidStep DEF EngineInv, Guard!Typed
  <2>3. EngineInv /\ OpaQuoted /\ Guard!Paid => StrictPaid
    BY <1>1 DEF StrictPaid
  <2> QED
    BY <2>1, <2>2, <2>3, QuotedAlways, EngineAlways, PTL DEF Spec
<1>3. CASE ~ReplayProtection
  <2>1. StrictPaid
    BY <1>3 DEF StrictPaid
  <2> QED
    BY <2>1, PTL
<1> QED
  BY <1>2, <1>3

==============================================================================
