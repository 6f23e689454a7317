------------------------- MODULE OPAAuthorizerProofs -------------------------
(***************************************************************************)
(* What the replay guard promises, for any number of requests, any options *)
(* and any course of the clock.                                            *)
(***************************************************************************)
EXTENDS OPAAuthorizer, FiniteSetTheorems, SequenceTheorems, WellFoundedInduction, TLAPS

GuardTypes ==
  /\ now \in Nat
  /\ accepted \in Seq(Accepted)
  /\ seenNonces \in [ReplayKeys -> Entry \union {None}]

\* The log is in order of time, and what it holds was timely.
Chronicle ==
  /\ \A i \in DOMAIN accepted :
       /\ accepted[i].time <= now
       /\ Absolute(accepted[i].time - accepted[i].timestamp) <= MaxTimestampSkew
  /\ \A i, j \in DOMAIN accepted : i <= j => accepted[i].time <= accepted[j].time

\* An entry was made for the request it points to.
EntriesTrue ==
  \A k \in ReplayKeys : seenNonces[k] # None =>
    LET n == seenNonces[k] IN
    /\ n.at \in DOMAIN accepted
    /\ accepted[n.at].key = k
    /\ n.expires = accepted[n.at].time + NonceTtl

\* A nonce is remembered since its use or a later one, or it has expired, or as
\* many others as the guard can hold have come after it.
Remembered ==
  \A i \in DOMAIN accepted :
    LET n == seenNonces[accepted[i].key] IN
    \/ n # None /\ n.at >= i
    \/ accepted[i].time + NonceTtl <= now
    \/ Len(accepted) - i >= MaxEntries

GuardInv == GuardTypes /\ Chronicle /\ EntriesTrue /\ Remembered /\ NoReplay

------------------------------------------------------------------------------

LEMMA Earlier ==
  ASSUME NEW x \in Nat, NEW y \in Nat, NEW d \in Nat, NEW n \in Nat, x <= y
  PROVE  (y + d > n \/ x + d <= n) /\ (x + d > n => y + d > n)
OBVIOUS

\* The entries newer than one's own were made for different later requests.
LEMMA NewerFew ==
  ASSUME GuardTypes, EntriesTrue, NEW k \in Tracked
  PROVE  /\ IsFiniteSet(Newer(k)) /\ Cardinality(Newer(k)) \in Nat
         /\ Cardinality(Newer(k)) <= Len(accepted) - seenNonces[k].at
<1> DEFINE f == [j \in Newer(k) |-> seenNonces[j].at]
           T == (seenNonces[k].at + 1)..Len(accepted)
<1>0. k \in ReplayKeys /\ seenNonces[k] # None /\ seenNonces[k].at \in DOMAIN accepted
  BY DEF Tracked, EntriesTrue
<1>1. Len(accepted) \in Nat /\ DOMAIN accepted = 1..Len(accepted)
  BY LenProperties DEF GuardTypes
<1>2. seenNonces[k].at \in 1..Len(accepted)
  BY <1>0, <1>1
<1>3. \A j \in Newer(k) : j \in ReplayKeys /\ seenNonces[j] # None /\ seenNonces[j].at > seenNonces[k].at
  BY DEF Newer, Tracked
<1>4. f \in [Newer(k) -> T]
  BY <1>1, <1>2, <1>3 DEF EntriesTrue
<1>5. \A i, j \in Newer(k) : f[i] = f[j] => i = j
  BY <1>3 DEF EntriesTrue
<1>6. f \in Injection(Newer(k), T)
  BY <1>4, <1>5 DEF Injection, IsInjective
<1>7. IsFiniteSet(T) /\ Cardinality(T) = Len(accepted) - seenNonces[k].at
  <2>1. seenNonces[k].at + 1 \in Int /\ Len(accepted) \in Int
    BY <1>1, <1>2
  <2>2. /\ IsFiniteSet(T)
        /\ Cardinality(T) = IF seenNonces[k].at + 1 > Len(accepted) THEN 0
                            ELSE Len(accepted) - (seenNonces[k].at + 1) + 1
    BY <2>1, FS_Interval
  <2> QED
    BY <1>1, <1>2, <2>2
<1>8. IsFiniteSet(Newer(k)) /\ Cardinality(Newer(k)) <= Cardinality(T)
  BY FS_Injection, <1>6, <1>7
<1>9. Cardinality(Newer(k)) \in Nat
  BY <1>8, FS_CardinalityType
<1> QED
  BY <1>7, <1>8, <1>9

\* Before the new request is logged: what the guard keeps to make room covers
\* every request but those that MaxEntries others, the new one included, follow.
LEMMA KeptCovers ==
  ASSUME GuardInv, NEW i \in DOMAIN accepted
  PROVE  \/ accepted[i].key \in Kept /\ seenNonces[accepted[i].key].at >= i
         \/ accepted[i].time + NonceTtl <= now
         \/ Len(accepted) + 1 - i >= MaxEntries
<1> DEFINE k == accepted[i].key
<1>1. /\ Len(accepted) \in Nat /\ DOMAIN accepted = 1..Len(accepted)
      /\ i \in 1..Len(accepted) /\ accepted[i] \in Accepted
  BY LenProperties, ElementOfSeq DEF GuardInv, GuardTypes
<1>2. k \in ReplayKeys /\ accepted[i].time \in Nat
  BY <1>1 DEF Accepted
<1>3. MaxEntries \in Nat /\ NonceTtl \in Nat /\ now \in Nat
  BY GuardOptions DEF GuardInv, GuardTypes
<1>4. CASE seenNonces[k] # None /\ seenNonces[k].at >= i
  <2>1. /\ seenNonces[k].at \in 1..Len(accepted)
        /\ seenNonces[k].expires = accepted[seenNonces[k].at].time + NonceTtl
    BY <1>1, <1>2, <1>4 DEF GuardInv, EntriesTrue
  <2>2. accepted[seenNonces[k].at].time \in Nat /\ accepted[i].time <= accepted[seenNonces[k].at].time
    <3>1. accepted[seenNonces[k].at] \in Accepted
      BY <2>1, ElementOfSeq DEF GuardInv, GuardTypes
    <3> QED
      BY <1>1, <1>4, <2>1, <3>1 DEF GuardInv, Chronicle, Accepted
  <2>3. CASE k \notin Tracked
    <3>1. seenNonces[k].expires > now <=> k \in Tracked
      BY <1>2, <1>4 DEF Tracked
    <3>2. ~(accepted[seenNonces[k].at].time + NonceTtl > now)
      BY <2>1, <2>3, <3>1
    <3>3. accepted[i].time + NonceTtl <= now
      BY <1>2, <1>3, <2>2, <3>2, Earlier
    <3> QED
      BY <3>3
  <2>4. CASE k \in Tracked
    <3>1. Cardinality(Newer(k)) \in Nat /\ Cardinality(Newer(k)) <= Len(accepted) - seenNonces[k].at
      BY <2>4, NewerFew DEF GuardInv
    <3> QED
      BY <1>1, <1>3, <1>4, <2>1, <2>4, <3>1 DEF Kept
  <2> QED
    BY <2>3, <2>4
<1>5. CASE ~(seenNonces[k] # None /\ seenNonces[k].at >= i)
  BY <1>1, <1>3, <1>5 DEF GuardInv, Remembered
<1> QED
  BY <1>4, <1>5

\* A request whose nonce is not tracked was not accepted lately; nor, when it is
\* timely and the time to live covers the skew, any time before.
LEMMA NotReplayed ==
  ASSUME GuardInv, NEW r \in Inputs, Acceptable(r), NEW i \in DOMAIN accepted,
         accepted[i].key = r.key,
         \/ accepted[i].time + NonceTtl > now
         \/ TtlCoversSkew /\ accepted[i].timestamp = r.timestamp
  PROVE  Len(accepted) + 1 - i > MaxEntries
<1> DEFINE n == seenNonces[r.key]
<1>1. /\ Len(accepted) \in Nat /\ DOMAIN accepted = 1..Len(accepted)
      /\ i \in 1..Len(accepted) /\ accepted[i] \in Accepted
  BY LenProperties, ElementOfSeq DEF GuardInv, GuardTypes
<1>2. /\ r.key \in ReplayKeys /\ r.timestamp \in Int /\ accepted[i].time \in Nat
      /\ now \in Nat /\ NonceTtl \in Nat /\ MaxTimestampSkew \in Nat /\ MaxEntries \in Nat
  BY <1>1, GuardOptions DEF Acceptable, Input, Accepted, GuardInv, GuardTypes
<1>3. accepted[i].time + NonceTtl > now
  BY <1>1, <1>2 DEF TtlCoversSkew, Acceptable, Absolute, GuardInv, Chronicle
<1>4. ~(n # None /\ n.at >= i)
  <2> SUFFICES ASSUME n # None, n.at >= i PROVE FALSE
    OBVIOUS
  <2>1. n.at \in 1..Len(accepted) /\ n.expires = accepted[n.at].time + NonceTtl
    BY <1>1, <1>2 DEF GuardInv, EntriesTrue
  <2>2. accepted[n.at] \in Accepted
    BY <2>1, ElementOfSeq DEF GuardInv, GuardTypes
  <2>3. accepted[n.at].time \in Nat /\ accepted[i].time <= accepted[n.at].time
    BY <1>1, <2>1, <2>2 DEF GuardInv, Chronicle, Accepted
  <2>4. n.expires > now
    BY <1>2, <1>3, <2>1, <2>3, Earlier
  <2> QED
    BY <1>2, <2>4 DEF Acceptable, Tracked
<1>5. ~(accepted[i].time + NonceTtl <= now)
  BY <1>2, <1>3
<1>6. Len(accepted) - i >= MaxEntries
  BY <1>1, <1>4, <1>5 DEF GuardInv, Remembered
<1> QED
  BY <1>1, <1>2, <1>6

------------------------------------------------------------------------------

LEMMA InitGuard == Init => GuardInv
BY GuardOptions DEF Init, GuardInv, GuardTypes, Chronicle, EntriesTrue, Remembered, NoReplay,
                    Reused

\* A request the guard lets through.
LEMMA AcceptKeeps ==
  ASSUME GuardInv, NEW r \in Inputs, Acceptable(r), Validate(r), now' = now
  PROVE  GuardInv'
<1> DEFINE N == Len(accepted)
           e == [key |-> r.key, timestamp |-> r.timestamp, time |-> now]
           made == [expires |-> now + NonceTtl, at |-> N + 1]
<1>1. /\ r.key \in ReplayKeys /\ r.timestamp \in Int /\ now \in Nat
      /\ NonceTtl \in Nat /\ MaxTimestampSkew \in Nat /\ MaxEntries \in Nat \ {0}
      /\ Absolute(now - r.timestamp) <= MaxTimestampSkew
  BY GuardOptions DEF Acceptable, Input, GuardInv, GuardTypes
<1>2. e \in Accepted /\ accepted \in Seq(Accepted)
  BY <1>1 DEF Accepted, GuardInv, GuardTypes
<1>3. /\ accepted' = Append(accepted, e)
      /\ seenNonces' = [Remembering(Kept) EXCEPT ![r.key] = made]
  BY DEF Validate
<1>4. /\ accepted' \in Seq(Accepted) /\ N \in Nat /\ Len(accepted') = N + 1
      /\ DOMAIN accepted = 1..N /\ DOMAIN accepted' = 1..(N + 1)
      /\ \A i \in 1..N : accepted'[i] = accepted[i] /\ accepted[i] \in Accepted
      /\ accepted'[N + 1] = e
  BY <1>2, <1>3, AppendProperties, LenProperties, ElementOfSeq
<1>5. \A k \in ReplayKeys :
        seenNonces'[k] = IF k = r.key THEN made ELSE IF k \in Kept THEN seenNonces[k] ELSE None
  BY <1>3 DEF Remembering
<1>6. made \in Entry /\ made # None
  BY <1>1, <1>4, NoneIsNothing DEF Entry
<1>7. GuardTypes'
  <2>1. seenNonces' \in [ReplayKeys -> Entry \union {None}]
    BY <1>3, <1>6 DEF Remembering, GuardInv, GuardTypes
  <2> QED
    BY <1>4, <2>1 DEF GuardInv, GuardTypes
<1>8. Chronicle'
  <2>1. \A i \in 1..(N + 1) :
          /\ accepted'[i].time <= now
          /\ Absolute(accepted'[i].time - accepted'[i].timestamp) <= MaxTimestampSkew
    BY <1>1, <1>4 DEF GuardInv, Chronicle
  <2>2. \A i, j \in 1..(N + 1) : i <= j => accepted'[i].time <= accepted'[j].time
    <3> SUFFICES ASSUME NEW i \in 1..(N + 1), NEW j \in 1..(N + 1), i <= j
                 PROVE  accepted'[i].time <= accepted'[j].time
      OBVIOUS
    <3>1. CASE j \in 1..N
      BY <1>4, <3>1 DEF GuardInv, Chronicle
    <3>2. CASE j = N + 1
      BY <1>1, <1>4, <2>1, <3>2
    <3> QED
      BY <1>4, <3>1, <3>2
  <2> QED
    BY <1>4, <2>1, <2>2 DEF Chronicle, Absolute
<1>9. EntriesTrue'
  <2> SUFFICES ASSUME NEW k \in ReplayKeys, seenNonces'[k] # None
               PROVE  /\ seenNonces'[k].at \in DOMAIN accepted'
                      /\ accepted'[seenNonces'[k].at].key = k
                      /\ seenNonces'[k].expires = accepted'[seenNonces'[k].at].time + NonceTtl
    BY DEF EntriesTrue
  <2>1. CASE k = r.key
    BY <1>4, <1>5, <2>1
  <2>2. CASE k # r.key
    <3>1. seenNonces'[k] = seenNonces[k] /\ seenNonces[k] # None
      BY <1>5, <2>2
    <3> QED
      BY <1>4, <3>1 DEF GuardInv, EntriesTrue
  <2> QED
    BY <2>1, <2>2
<1>10. Remembered'
  <2> SUFFICES ASSUME NEW i \in 1..(N + 1)
               PROVE  \/ seenNonces'[accepted'[i].key] # None /\ seenNonces'[accepted'[i].key].at >= i
                      \/ accepted'[i].time + NonceTtl <= now'
                      \/ Len(accepted') - i >= MaxEntries
    BY <1>4 DEF Remembered
  <2>1. CASE i = N + 1 \/ accepted'[i].key = r.key
    BY <1>1, <1>4, <1>5, <1>6, <2>1
  <2>2. CASE i \in 1..N /\ accepted[i].key # r.key
    <3>1. \/ accepted[i].key \in Kept /\ seenNonces[accepted[i].key].at >= i
          \/ accepted[i].time + NonceTtl <= now
          \/ N + 1 - i >= MaxEntries
      BY <1>4, <2>2, KeptCovers
    <3>2. accepted[i].key \in ReplayKeys
      BY <1>4, <2>2 DEF Accepted
    <3>3. accepted[i].key \in Kept => seenNonces'[accepted[i].key] = seenNonces[accepted[i].key]
                                      /\ seenNonces[accepted[i].key] # None
      BY <1>5, <2>2, <3>2 DEF Kept, Tracked
    <3> QED
      BY <1>4, <2>2, <3>1, <3>3
  <2> QED
    BY <1>4, <2>1, <2>2
<1>11. NoReplay'
  <2> SUFFICES ASSUME NEW i \in 1..(N + 1), NEW j \in 1..(N + 1), i < j,
                      accepted'[i].key = accepted'[j].key,
                      \/ ~(accepted'[j].time - accepted'[i].time >= NonceTtl)
                      \/ TtlCoversSkew /\ accepted'[i].timestamp = accepted'[j].timestamp
               PROVE  j - i > MaxEntries
    BY <1>4 DEF NoReplay, Reused, TtlCoversSkew
  <2>1. CASE j = N + 1
    <3>1. i \in DOMAIN accepted /\ accepted'[i] = accepted[i] /\ accepted[i].key = r.key
      BY <1>4, <2>1
    <3>2. accepted[i].time \in Nat
      BY <1>4, <2>1 DEF Accepted
    <3>3. \/ accepted[i].time + NonceTtl > now
          \/ TtlCoversSkew /\ accepted[i].timestamp = r.timestamp
      BY <1>1, <1>4, <2>1, <3>1, <3>2
    <3> QED
      BY <2>1, <3>1, <3>3, NotReplayed
  <2>2. CASE j # N + 1
    <3>1. i \in 1..N /\ j \in 1..N
      BY <1>4, <2>2
    <3>2. accepted'[i] = accepted[i] /\ accepted'[j] = accepted[j]
      BY <1>4, <3>1
    <3>3. NoReplay /\ i \in DOMAIN accepted /\ j \in DOMAIN accepted
      BY <1>4, <3>1 DEF GuardInv
    <3> QED
      BY <3>2, <3>3 DEF NoReplay, Reused
  <2> QED
    BY <2>1, <2>2
<1> QED
  BY <1>7, <1>8, <1>9, <1>10, <1>11 DEF GuardInv

\* A request it turns away; expired entries go.
LEMMA RejectKeeps ==
  ASSUME GuardInv, NEW r \in Inputs, ~Acceptable(r), Validate(r), now' = now
  PROVE  GuardInv'
<1>1. /\ accepted' = accepted
      /\ \A k \in ReplayKeys : seenNonces'[k] = IF k \in Tracked THEN seenNonces[k] ELSE None
      /\ seenNonces' = Remembering(Tracked)
  BY DEF Validate, Remembering
<1>2. GuardTypes' /\ Chronicle' /\ NoReplay'
  BY <1>1 DEF GuardInv, GuardTypes, Chronicle, NoReplay, Reused, Remembering,
             Absolute
<1>3. EntriesTrue'
  BY <1>1 DEF GuardInv, EntriesTrue
<1>4. Remembered'
  <2> SUFFICES ASSUME NEW i \in DOMAIN accepted
               PROVE  \/ seenNonces'[accepted[i].key] # None /\ seenNonces'[accepted[i].key].at >= i
                      \/ accepted[i].time + NonceTtl <= now
                      \/ Len(accepted) - i >= MaxEntries
    BY <1>1 DEF Remembered
  <2> DEFINE k == accepted[i].key
             n == seenNonces[k]
  <2>1. i \in 1..Len(accepted) /\ accepted[i] \in Accepted /\ DOMAIN accepted = 1..Len(accepted)
    BY LenProperties, ElementOfSeq DEF GuardInv, GuardTypes
  <2>2. CASE k \in Tracked \/ ~(n # None /\ n.at >= i)
    BY <1>1, <2>1, <2>2 DEF GuardInv, Remembered, Accepted
  <2>3. CASE k \notin Tracked /\ n # None /\ n.at >= i
    <3>1. n.at \in 1..Len(accepted) /\ n.expires = accepted[n.at].time + NonceTtl
      BY <2>1, <2>3 DEF GuardInv, EntriesTrue, Accepted
    <3>2. accepted[n.at] \in Accepted
      BY <3>1, ElementOfSeq DEF GuardInv, GuardTypes
    <3>3. /\ accepted[i].time \in Nat /\ accepted[n.at].time \in Nat /\ k \in ReplayKeys
          /\ now \in Nat /\ NonceTtl \in Nat
      BY <2>1, <3>2, GuardOptions DEF Accepted, GuardInv, GuardTypes
    <3>4. accepted[i].time <= accepted[n.at].time
      BY <2>1, <2>3, <3>1 DEF GuardInv, Chronicle
    <3>5. n.expires > now <=> k \in Tracked
      BY <2>3, <3>3 DEF Tracked
    <3>6. ~(accepted[n.at].time + NonceTtl > now)
      BY <2>3, <3>1, <3>5
    <3>7. accepted[i].time + NonceTtl <= now
      BY <3>3, <3>4, <3>6, Earlier
    <3> QED
      BY <3>7
  <2> QED
    BY <2>2, <2>3
<1> QED
  BY <1>2, <1>3, <1>4 DEF GuardInv

LEMMA StepGuard == GuardInv /\ [Next]_vars => GuardInv'
<1> SUFFICES ASSUME GuardInv, [Next]_vars PROVE GuardInv'
  OBVIOUS
<1>1. ASSUME NEW a \in Authorizations, NEW r \in Inputs, Call(a, r) PROVE GuardInv'
  <2>1. now' = now /\ (Validate(r) \/ UNCHANGED <<seenNonces, accepted>>)
    BY <1>1 DEF Call, Authorize
  <2>2. CASE Validate(r)
    BY <2>1, <2>2, AcceptKeeps, RejectKeeps
  <2>3. CASE UNCHANGED <<seenNonces, accepted>>
    BY <2>1, <2>3 DEF GuardInv, GuardTypes, Chronicle, EntriesTrue, Remembered, NoReplay, Reused
  <2> QED
    BY <2>1, <2>2, <2>3
<1>2. ASSUME UNCHANGED <<now, seenNonces, accepted>> PROVE GuardInv'
  BY <1>2 DEF GuardInv, GuardTypes, Chronicle, EntriesTrue, Remembered, NoReplay, Reused
<1>3. ASSUME NEW a \in Authorizations, Progress(a) PROVE GuardInv'
  BY <1>2, <1>3 DEF Progress, Responded, ReadBody, NetworkError, Abort
<1>4. CASE Tick
  <2>1. now' = now + 1 /\ accepted' = accepted /\ seenNonces' = seenNonces
    BY <1>4 DEF Tick
  <2>2. \A i \in DOMAIN accepted : accepted[i].time \in Nat
    <3> SUFFICES ASSUME NEW i \in DOMAIN accepted PROVE accepted[i].time \in Nat
      OBVIOUS
    <3>1. accepted[i] \in Accepted
      BY ElementOfSeq, LenProperties DEF GuardInv, GuardTypes
    <3> QED
      BY <3>1 DEF Accepted
  <2>3. GuardTypes' /\ EntriesTrue' /\ NoReplay'
    BY <2>1 DEF GuardInv, GuardTypes, EntriesTrue, NoReplay, Reused
  <2>4. Chronicle'
    BY <2>1, <2>2 DEF GuardInv, GuardTypes, Chronicle, Absolute
  <2>5. Remembered'
    BY <2>1, <2>2, GuardOptions DEF GuardInv, GuardTypes, Remembered
  <2> QED
    BY <2>3, <2>4, <2>5 DEF GuardInv
<1> QED
  BY <1>1, <1>2, <1>3, <1>4 DEF Next, vars

\* Whatever its options, the replay guard lets a nonce through again only when
\* its time to live has passed or more than MaxEntries acceptances lie between;
\* and if the time to live covers the skew, the same request for the latter
\* reason alone.
THEOREM ReplaysRejected == Spec => []NoReplay
<1>1. GuardInv => NoReplay
  BY DEF GuardInv
<1> QED
  BY InitGuard, StepGuard, <1>1, PTL DEF Spec

(***************************************************************************)
(* The room the guard has.                                                 *)
(***************************************************************************)

\* A set of naturals has a least element.
LEMMA LeastExists ==
  ASSUME NEW T \in SUBSET Nat, T # {}
  PROVE  \E x \in T : \A y \in T : x <= y
<1> DEFINE R == OpToRel(<, Nat)
<1>1. IsWellFoundedOn(R, Nat)
  BY NatLessThanWellFounded
<1>2. \A x \in Nat, y \in Nat : <<y, x>> \in R <=> y < x
  BY DEF OpToRel
<1> HIDE DEF R
<1>3. PICK x \in T : \A y \in T : ~ (<<y, x>> \in R)
  BY <1>1, WFMin
<1>4. \A y \in T : ~ (y < x)
  BY <1>2, <1>3, Zenon
<1>5. x \in Nat /\ \A y \in T : y \in Nat /\ x <= y
  BY <1>4
<1> QED
  BY <1>5

\* What is kept is the oldest of it and what is newer than that.
LEMMA KeptFew ==
  ASSUME GuardInv
  PROVE  IsFiniteSet(Kept) /\ Cardinality(Kept) \in Nat /\ Cardinality(Kept) + 1 <= MaxEntries
<1>0. MaxEntries \in Nat \ {0}
  BY GuardOptions
<1>1. CASE Kept = {}
  BY <1>0, <1>1, FS_EmptySet
<1>2. CASE Kept # {}
  <2> DEFINE Ats == {seenNonces[k].at : k \in Kept}
  <2>1. \A k \in Kept : /\ k \in Tracked /\ seenNonces[k].at \in Nat
                        /\ accepted[seenNonces[k].at].key = k
    BY DEF Kept, Tracked, GuardInv, GuardTypes, EntriesTrue, Entry
  <2>2. Ats \in SUBSET Nat /\ Ats # {}
    BY <1>2, <2>1
  <2>3. PICK oldest \in Kept : \A k \in Kept : seenNonces[oldest].at <= seenNonces[k].at
    <3>1. PICK x \in Ats : \A y \in Ats : x <= y
      <4> HIDE DEF Ats
      <4> QED
        BY <2>2, LeastExists
    <3> QED
      BY <3>1
  <2>4. Kept \subseteq Newer(oldest) \union {oldest}
    <3> SUFFICES ASSUME NEW k \in Kept, k # oldest PROVE k \in Newer(oldest)
      OBVIOUS
    <3>1. seenNonces[k].at # seenNonces[oldest].at
      BY <2>1
    <3>2. seenNonces[k].at > seenNonces[oldest].at
      BY <2>1, <2>3, <3>1
    <3> QED
      BY <2>1, <3>2 DEF Newer
  <2>5. /\ IsFiniteSet(Newer(oldest)) /\ Cardinality(Newer(oldest)) \in Nat
        /\ Cardinality(Newer(oldest)) + 1 < MaxEntries
    BY <2>1, NewerFew DEF GuardInv, Kept
  <2>6. /\ IsFiniteSet(Newer(oldest) \union {oldest})
        /\ Cardinality(Newer(oldest) \union {oldest}) \in Nat
        /\ Cardinality(Newer(oldest) \union {oldest}) <= Cardinality(Newer(oldest)) + 1
    <3>1. /\ IsFiniteSet(Newer(oldest) \union {oldest})
          /\ Cardinality(Newer(oldest) \union {oldest}) =
               IF oldest \in Newer(oldest) THEN Cardinality(Newer(oldest))
               ELSE Cardinality(Newer(oldest)) + 1
      BY <2>5, FS_AddElement
    <3> QED
      BY <2>5, <3>1
  <2>7. /\ IsFiniteSet(Kept)
        /\ Cardinality(Kept) <= Cardinality(Newer(oldest) \union {oldest})
    BY <2>4, <2>6, FS_Subset
  <2>8. Cardinality(Kept) \in Nat
    BY <2>7, FS_CardinalityType
  <2> QED
    BY <1>0, <2>5, <2>6, <2>7, <2>8
<1> QED
  BY <1>1, <1>2

RememberedKeys == {k \in ReplayKeys : seenNonces[k] # None}

Room == IsFiniteSet(RememberedKeys) /\ Cardinality(RememberedKeys) <= MaxEntries

LEMMA RoomKept ==
  ASSUME GuardInv, Room, NEW r \in Inputs, Validate(r)
  PROVE  Room'
<1>0. MaxEntries \in Nat \ {0} /\ Cardinality(RememberedKeys) \in Nat
  BY GuardOptions, FS_CardinalityType DEF Room
<1>1. CASE /\ r.key \in ReplayKeys
           /\ \E made : seenNonces' = [Remembering(Kept) EXCEPT ![r.key] = made]
  <2>1. RememberedKeys' \subseteq Kept \union {r.key}
    BY <1>1 DEF RememberedKeys, Remembering
  <2>2. /\ IsFiniteSet(Kept \union {r.key})
        /\ Cardinality(Kept \union {r.key}) =
             IF r.key \in Kept THEN Cardinality(Kept) ELSE Cardinality(Kept) + 1
    BY KeptFew, FS_AddElement
  <2>3. /\ IsFiniteSet(RememberedKeys')
        /\ Cardinality(RememberedKeys') <= Cardinality(Kept \union {r.key})
    BY <2>1, <2>2, FS_Subset
  <2>4. Cardinality(RememberedKeys') \in Nat
    BY <2>3, FS_CardinalityType
  <2> QED
    BY <1>0, <2>2, <2>3, <2>4, KeptFew DEF Room
<1>2. CASE seenNonces' = Remembering(Tracked)
  <2>1. RememberedKeys' \subseteq RememberedKeys
    BY <1>2 DEF RememberedKeys, Remembering
  <2>2. /\ IsFiniteSet(RememberedKeys')
        /\ Cardinality(RememberedKeys') <= Cardinality(RememberedKeys)
    BY <2>1, FS_Subset DEF Room
  <2>3. Cardinality(RememberedKeys') \in Nat
    BY <2>2, FS_CardinalityType
  <2> QED
    BY <1>0, <2>2, <2>3 DEF Room
<1>3. Acceptable(r) => r.key \in ReplayKeys
  BY GuardOptions DEF Acceptable, Input
<1> QED
  BY <1>1, <1>2, <1>3 DEF Validate

(***************************************************************************)
(* The activations.                                                        *)
(***************************************************************************)

ActivationsTyped == authorizations \in [Authorizations -> Authorization \union {None}]

\* An activation stays one.
ActivationsKept ==
  \A a \in Authorizations : authorizations[a] # None => authorizations'[a] # None

LEMMA ActivationsCall ==
  ASSUME GuardInv, ActivationsTyped, NEW a \in Authorizations, NEW r \in Inputs, Call(a, r)
  PROVE  ActivationsTyped' /\ ActivationsKept /\ authorizations'[a] # None
<1>1. now \in Nat /\ now + Timeout \in Nat
  BY GuardOptions DEF GuardInv, GuardTypes
<1>2. /\ [stage |-> "fetching", deadline |-> now + Timeout, decision |-> None] \in Authorization
      /\ [stage |-> "returned", deadline |-> now, decision |-> "deny"] \in Authorization
  BY <1>1 DEF Authorization, Decisions
<1> QED
  BY <1>2, NoneIsNothing DEF Call, Authorize, ActivationsTyped, ActivationsKept

LEMMA ActivationsStep ==
  ASSUME GuardInv, ActivationsTyped, [Next]_vars
  PROVE  ActivationsTyped' /\ ActivationsKept
<1>1. ASSUME NEW a \in Authorizations, NEW r \in Inputs, Call(a, r)
      PROVE  ActivationsTyped' /\ ActivationsKept
  BY <1>1, ActivationsCall
<1>2. ASSUME NEW a \in Authorizations, authorizations[a] # None,
             NEW d \in Decisions \union {"error"}, Return(a, d)
      PROVE  ActivationsTyped' /\ ActivationsKept
  <2>1. authorizations[a] \in Authorization
    BY <1>2 DEF ActivationsTyped
  <2>2. [authorizations[a] EXCEPT !.stage = "returned", !.decision = d] \in Authorization
    BY <2>1 DEF Authorization
  <2> QED
    BY <1>2, <2>2, NoneIsNothing DEF Return, ActivationsTyped, ActivationsKept
<1>3. ASSUME NEW a \in Authorizations, Responded(a) PROVE ActivationsTyped' /\ ActivationsKept
  <2>1. authorizations[a] # None /\ authorizations[a] \in Authorization
    BY <1>3 DEF Responded, At, ActivationsTyped
  <2>2. [authorizations[a] EXCEPT !.stage = "reading"] \in Authorization
    BY <2>1 DEF Authorization
  <2>3. CASE authorizations' = [authorizations EXCEPT ![a].stage = "reading"]
    BY <2>2, <2>3, NoneIsNothing DEF ActivationsTyped, ActivationsKept
  <2>4. CASE Return(a, "error")
    BY <1>2, <2>1, <2>4
  <2> QED
    BY <1>3, <2>3, <2>4 DEF Responded
<1>4. ASSUME NEW a \in Authorizations, NEW p \in Payload, ReadBody(a, p)
      PROVE  ActivationsTyped' /\ ActivationsKept
  <2>1. ParseDecision(p) \in Decisions \union {"error"}
    BY DEF ParseDecision, Payload, Decisions
  <2> QED
    BY <1>2, <1>4, <2>1 DEF ReadBody, At
<1>5. ASSUME NEW a \in Authorizations, NetworkError(a) \/ Abort(a)
      PROVE  ActivationsTyped' /\ ActivationsKept
  BY <1>2, <1>5 DEF NetworkError, Abort, At
<1>6. CASE UNCHANGED authorizations
  BY <1>6 DEF ActivationsTyped, ActivationsKept
<1> QED
  BY <1>1, <1>3, <1>4, <1>5, <1>6 DEF Next, Progress, Tick, vars

Typed == GuardInv /\ Room /\ ActivationsTyped

\* Nothing is remembered or under way at first.
LEMMA InitTyped == Init => Typed
<1> SUFFICES ASSUME Init PROVE Room /\ ActivationsTyped
  BY InitGuard DEF Typed
<1>1. RememberedKeys = {}
  BY DEF Init, RememberedKeys
<1> QED
  BY <1>1, FS_EmptySet, GuardOptions DEF Init, Room, ActivationsTyped

\* Only Validate touches what is remembered.
LEMMA StepTyped == Typed /\ [Next]_vars => Typed'
<1> SUFFICES ASSUME Typed, [Next]_vars PROVE Room'
  BY StepGuard, ActivationsStep DEF Typed
<1>1. CASE UNCHANGED seenNonces
  BY <1>1 DEF Typed, Room, RememberedKeys
<1>2. ASSUME NEW a \in Authorizations, NEW r \in Inputs, Call(a, r) PROVE Room'
  BY <1>1, <1>2, RoomKept DEF Call, Authorize, Typed
<1> QED
  BY <1>1, <1>2
  DEF Next, Progress, Responded, ReadBody, NetworkError, Abort, Tick, vars

LEMMA TypedIsTypeOK == Typed => TypeOK
BY DEF Typed, GuardInv, GuardTypes, Room, RememberedKeys, ActivationsTyped, TypeOK

\* State and activations are well typed, and the guard never remembers more
\* nonces than it has room for, however many requests come and go.
THEOREM AuthorizerTyped == Spec => []TypeOK
BY InitTyped, StepTyped, TypedIsTypeOK, PTL DEF Spec

(***************************************************************************)
(* What got past the guard.                                                *)
(***************************************************************************)

Paid == IsFiniteSet(Passed) /\ Cardinality(Passed) <= Len(accepted)

\* A finite set grows by one at most when one is added.
LEMMA AddOne ==
  ASSUME NEW S, NEW x, IsFiniteSet(S)
  PROVE  IsFiniteSet(S \union {x}) /\ Cardinality(S \union {x}) <= Cardinality(S) + 1
<1>1. IsFiniteSet(S \union {x})
  BY FS_AddElement
<1>2. Cardinality(S) \in Nat
  BY FS_CardinalityType
<1>3. CASE x \in S
  <2>1. S \union {x} = S
    BY <1>3
  <2> QED
    BY <1>1, <1>2, <2>1
<1>4. CASE x \notin S
  <2>1. Cardinality(S \union {x}) = Cardinality(S) + 1
    BY <1>4, FS_AddElement
  <2> QED
    BY <1>1, <1>2, <2>1
<1> QED
  BY <1>3, <1>4

LEMMA FewerPaid ==
  ASSUME GuardTypes, Paid, Passed' \subseteq Passed, accepted' = accepted
  PROVE  Paid'
<1>1. IsFiniteSet(Passed') /\ Cardinality(Passed') <= Cardinality(Passed)
  BY FS_Subset DEF Paid
<1>2. Cardinality(Passed) \in Nat /\ Cardinality(Passed') \in Nat /\ Len(accepted) \in Nat
  BY <1>1, FS_CardinalityType, LenProperties DEF Paid, GuardTypes
<1> QED
  BY <1>1, <1>2 DEF Paid

\* One more has passed, and one more nonce is on the log.
LEMMA OneMorePaid ==
  ASSUME GuardTypes, Paid, NEW a \in Authorizations, Passed' \subseteq Passed \union {a},
         NEW x \in Accepted, accepted' = Append(accepted, x)
  PROVE  Paid'
<1>1. /\ IsFiniteSet(Passed \union {a})
      /\ Cardinality(Passed \union {a}) <= Cardinality(Passed) + 1
  <2>1. PICK passed : passed = Passed
    OBVIOUS
  <2> QED
    BY <2>1, AddOne DEF Paid
<1>2. IsFiniteSet(Passed') /\ Cardinality(Passed') <= Cardinality(Passed \union {a})
  BY <1>1, FS_Subset
<1>3. /\ Cardinality(Passed) \in Nat /\ Cardinality(Passed \union {a}) \in Nat
      /\ Cardinality(Passed') \in Nat /\ Len(accepted) \in Nat
  BY <1>1, <1>2, FS_CardinalityType, LenProperties DEF Paid, GuardTypes
<1>4. Len(accepted') = Len(accepted) + 1
  BY AppendProperties DEF GuardTypes
<1> QED
  BY <1>1, <1>2, <1>3, <1>4 DEF Paid

LEMMA PaidInit == Init => Paid
<1> SUFFICES ASSUME Init PROVE Paid
  OBVIOUS
<1>1. Passed = {} /\ Len(accepted) = 0
  BY DEF Init, Passed
<1> QED
  BY <1>1, FS_EmptySet DEF Paid

\* Whoever goes on had passed, or is let through now on a nonce of its own.
LEMMA PaidStep ==
  ASSUME GuardInv, ActivationsTyped, ReplayProtection, Paid, [Next]_vars
  PROVE  Paid'
<1> USE DEF GuardInv
<1>1. ASSUME NEW a \in Authorizations, NEW r \in Inputs, Call(a, r) PROVE Paid'
  <2>1. /\ \A b \in Authorizations : b # a => authorizations'[b] = authorizations[b]
        /\ ~Acceptable(r) => authorizations'[a] =
             [stage |-> "returned", deadline |-> now, decision |-> "deny"]
    BY <1>1 DEF Call, Authorize, ActivationsTyped
  <2>2. CASE Acceptable(r)
    <3>1. [key |-> r.key, timestamp |-> r.timestamp, time |-> now] \in Accepted
      BY <2>2, GuardOptions DEF Acceptable, Input, Accepted, GuardTypes
    <3>2. accepted' = Append(accepted, [key |-> r.key, timestamp |-> r.timestamp, time |-> now])
      BY <1>1, <2>2 DEF Call, Authorize, Validate
    <3>3. Passed' \subseteq Passed \union {a}
      BY <2>1 DEF Passed
    <3> QED
      BY <3>1, <3>2, <3>3, OneMorePaid
  <2>3. CASE ~Acceptable(r)
    <3>1. accepted' = accepted
      BY <1>1, <2>3 DEF Call, Authorize, Validate
    <3>2. Passed' \subseteq Passed
      BY <2>1, <2>3 DEF Passed
    <3> QED
      BY <3>1, <3>2, FewerPaid
  <2> QED
    BY <2>2, <2>3
<1>2. ASSUME NEW a \in Authorizations, Progress(a) PROVE Paid'
  <2>1. a \in Passed
    BY <1>2 DEF Progress, Responded, ReadBody, NetworkError, Abort, At, Passed
  <2>2. \A b \in Authorizations : b # a => authorizations'[b] = authorizations[b]
    BY <1>2 DEF Progress, Responded, ReadBody, NetworkError, Abort, Return, ActivationsTyped
  <2>3. accepted' = accepted
    BY <1>2 DEF Progress, Responded, ReadBody, NetworkError, Abort
  <2>4. Passed' \subseteq Passed
    BY <2>1, <2>2 DEF Passed
  <2> QED
    BY <2>3, <2>4, FewerPaid
<1>3. CASE UNCHANGED <<authorizations, accepted>>
  BY <1>3, FewerPaid DEF Passed
<1> QED
  BY <1>1, <1>2, <1>3 DEF Next, Tick, vars

\* However many activations overlap, and whatever OPA answers them, no more of
\* them get past the guard than nonces were accepted.
THEOREM PassesAllPaid == Spec => []PassesPaid
<1>1. Typed => GuardInv /\ ActivationsTyped
  BY DEF Typed
<1>2. CASE ReplayProtection
  <2>1. Paid => PassesPaid
    BY DEF Paid, PassesPaid
  <2>2. Typed /\ Paid /\ [Next]_vars => Paid'
    BY <1>1, <1>2, PaidStep
  <2> QED
    BY <2>1, <2>2, InitTyped, StepTyped, PaidInit, PTL DEF Spec
<1>3. CASE ~ReplayProtection
  <2>1. PassesPaid
    BY <1>3 DEF PassesPaid
  <2> QED
    BY <2>1, PTL
<1> QED
  BY <1>2, <1>3

==============================================================================
