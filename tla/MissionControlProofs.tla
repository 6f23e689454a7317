--------------------------- MODULE MissionControlProofs ---------------------------
(***************************************************************************)
(* Proofs about Mission Control, for any requests, subscribers, buffer     *)
(* sizes and seed.                                                         *)
(***************************************************************************)
EXTENDS MissionControl, FiniteSetTheorems, SequenceTheorems, WellFoundedInduction, TLAPS

(***************************************************************************)
(* Numbers                                                                 *)
(***************************************************************************)

\* A set of naturals has a least element.
LEMMA LeastExists ==
  ASSUME NEW T \in SUBSET Nat, T # {}
  PROVE  \E x \in T : \A y \in T : x <= y
  <1>. DEFINE R == OpToRel(<, Nat)
  <1>1. IsWellFoundedOn(R, Nat)
    BY NatLessThanWellFounded
  <1>2. \A x \in Nat, y \in Nat : <<y, x>> \in R <=> y < x
    BY DEF OpToRel
  <1>. HIDE DEF R
  <1>3. PICK x \in T : \A y \in T : ~ (<<y, x>> \in R)
    BY <1>1, WFMin
  <1>4. \A y \in T : ~ (y < x)
    BY <1>2, <1>3, Zenon
  <1>5. x \in Nat /\ \A y \in T : y \in Nat /\ x <= y
    BY <1>4
  <1>. QED
    BY <1>5

\* So a set of naturals that holds 0, and with each number the next as long as
\* that is at most n, holds all numbers up to n.
LEMMA CountUp ==
  ASSUME NEW n \in Nat, NEW Good, 0 \in Good,
         \A i \in 0..n : i \in Good /\ i + 1 \in 0..n => i + 1 \in Good
  PROVE  0..n \subseteq Good
  <1>. DEFINE Bad == {i \in 0..n : i \notin Good}
  <1>. SUFFICES ASSUME Bad # {} PROVE FALSE
    OBVIOUS
  <1>1. Bad \in SUBSET Nat
    OBVIOUS
  <1>2. PICK least \in Bad : \A i \in Bad : least <= i
    <2>. HIDE DEF Bad
    <2>. QED
      BY <1>1, LeastExists
  <1>3. least \in 0..n /\ least \notin Good /\ least # 0
    BY <1>2
  <1>4. least - 1 \in 0..n /\ (least - 1) + 1 = least /\ ~(least <= least - 1)
    BY <1>3
  <1>5. least - 1 \in Good
    BY <1>2, <1>4
  <1>. QED
    BY <1>3, <1>4, <1>5

(***************************************************************************)
(* The feed                                                                *)
(***************************************************************************)

\* The newest max members of an endless sequence, of which there are total.
Newest(s, total, max) == Len(s) = IF total < max THEN total ELSE max

\* A feed of which nothing recorded is missing but what the bounds drop.
FeedOK(f) ==
  /\ f \in Feed
  /\ f.nextEventId # 0
  /\ Newest(f.events, f.nextEventId - 1, MaxEvents) /\ Newest(f.frames, f.step, MaxFrames)
  /\ \A i \in DOMAIN f.events : f.events[i].id = f.nextEventId - 1 - Len(f.events) + i
  /\ \A i \in DOMAIN f.frames : f.frames[i] = f.step - Len(f.frames) + i

\* Appending under a bound: the new member comes last, the others move up when
\* there are too many.
LEMMA AppendBounded ==
  ASSUME NEW S, NEW s \in Seq(S), NEW e \in S, NEW total \in Nat, NEW max \in Nat \ {0},
         Newest(s, total, max)
  PROVE  LET t == Bounded(Append(s, e), max)
             moved == Len(s) + 1 - Len(t)
         IN /\ t \in Seq(S) /\ Newest(t, total + 1, max)
            /\ Len(t) \in 1..max /\ moved \in {0, 1}
            /\ moved = (IF total < max THEN 0 ELSE 1)
            /\ t[Len(t)] = e
            /\ \A i \in 1..(Len(t) - 1) : i + moved \in DOMAIN s /\ t[i] = s[i + moved]
  <1>. DEFINE n == Len(s)
              longer == Append(s, e)
              t == Bounded(longer, max)
  <1>1. n \in Nat /\ DOMAIN s = 1..n /\ n = (IF total < max THEN total ELSE max)
    BY DEF Newest
  <1>2. /\ longer \in Seq(S) /\ Len(longer) = n + 1 /\ longer[n + 1] = e
        /\ \A i \in 1..n : longer[i] = s[i]
    BY AppendProperties
  <1>3. CASE total < max
    <2>1. n = total /\ ~(Len(longer) > max)
      <3>. HIDE DEF n, longer
      <3>. QED
        BY <1>1, <1>2, <1>3
    <2>2. t = longer
      <3>. HIDE DEF longer
      <3>. QED
        BY <2>1 DEF Bounded
    <2>. HIDE DEF n, longer, t
    <2>. QED
      BY <1>1, <1>2, <1>3, <2>1, <2>2 DEF Newest, n, longer, t
  <1>4. CASE ~(total < max)
    <2>1. n = max /\ Len(longer) > max /\ Len(longer) - max + 1 = 2
      <3>. HIDE DEF n, longer
      <3>. QED
        BY <1>1, <1>2, <1>4
    <2>2. t = SubSeq(longer, 2, n + 1)
      <3>. HIDE DEF n, longer
      <3>. QED
        BY <1>2, <2>1 DEF Bounded
    <2>3. /\ t \in Seq(S) /\ Len(t) = n /\ \A i \in 1..n : t[i] = longer[i + 1]
      <3>. HIDE DEF longer, t, n
      <3>1. \A i \in 2..(n + 1) : longer[i] \in S
        BY <1>1, <1>2
      <3>2. n \in Int /\ 2 \in Int /\ n + 1 \in Int /\ 2 <= n + 1
        BY <1>1, <2>1
      <3>3. /\ SubSeq(longer, 2, n + 1) \in Seq(S)
            /\ Len(SubSeq(longer, 2, n + 1)) = n + 1 - 2 + 1
            /\ \A i \in 1..(n + 1 - 2 + 1) : SubSeq(longer, 2, n + 1)[i] = longer[2 + i - 1]
        BY <3>1, <3>2, SubSeqProperties
      <3>. QED
        BY <1>1, <2>2, <3>3
    <2>4. t[n] = e
      <3>. HIDE DEF longer, t, n
      <3>1. n \in 1..n
        BY <1>1, <2>1
      <3>. QED
        BY <1>2, <2>3, <3>1
    <2>5. ASSUME NEW i \in 1..(n - 1)
          PROVE  i + 1 \in 1..n /\ t[i] = s[i + 1]
      <3>. HIDE DEF longer, t, n
      <3>1. i \in 1..n /\ i + 1 \in 1..n
        BY <1>1
      <3>. QED
        BY <1>2, <2>3, <3>1
    <2>. HIDE DEF n, longer, t
    <2>. QED
      BY <1>1, <1>4, <2>1, <2>3, <2>4, <2>5 DEF Newest, n, longer, t
  <1>. QED
    BY <1>3, <1>4

\* s with e appended and, if there is no room for both, its first member dropped.
Grown(t, s, e) ==
  \E moved \in {0, 1} :
    /\ Len(t) = Len(s) + 1 - moved
    /\ Len(t) \in 1..Len(t) /\ t[Len(t)] = e
    /\ \A i \in 1..(Len(t) - 1) : i + moved \in DOMAIN s /\ t[i] = s[i + moved]

LEMMA BoundedGrows ==
  ASSUME NEW S, NEW s \in Seq(S), NEW e \in S, NEW total \in Nat, NEW max \in Nat \ {0},
         Newest(s, total, max)
  PROVE  LET t == Bounded(Append(s, e), max)
         IN t \in Seq(S) /\ Newest(t, total + 1, max) /\ Grown(t, s, e)
  <1>. DEFINE t == Bounded(Append(s, e), max)
              moved == Len(s) + 1 - Len(t)
  <1>1. /\ t \in Seq(S) /\ Newest(t, total + 1, max)
        /\ Len(t) \in 1..max /\ moved \in {0, 1}
        /\ t[Len(t)] = e
        /\ \A i \in 1..(Len(t) - 1) : i + moved \in DOMAIN s /\ t[i] = s[i + moved]
    BY AppendBounded
  <1>2. Len(t) = Len(s) + 1 - moved /\ Len(t) \in 1..Len(t)
    <2>1. Len(t) \in Nat /\ Len(s) \in Nat
      BY <1>1
    <2>. HIDE DEF t
    <2>. QED
      BY <1>1, <2>1
  <1>. HIDE DEF t, moved
  <1>3. Grown(t, s, e)
    BY <1>1, <1>2 DEF Grown
  <1>. QED
    BY <1>1, <1>3 DEF t

\* Counted from the end, each member but the last is one place further on.
LEMMA GrownPlaces ==
  ASSUME NEW s, NEW t, Len(s) \in Nat, Len(t) \in Nat, NEW e, Grown(t, s, e),
         NEW i \in 1..Len(t)
  PROVE  \/ i = Len(t) /\ t[i] = e
         \/ \E j \in DOMAIN s : t[i] = s[j] /\ j = Len(s) + 1 - Len(t) + i
  <1>1. PICK moved \in {0, 1} :
          /\ Len(t) = Len(s) + 1 - moved /\ t[Len(t)] = e
          /\ \A k \in 1..(Len(t) - 1) : k + moved \in DOMAIN s /\ t[k] = s[k + moved]
    BY DEF Grown
  <1>3. CASE i = Len(t)
    BY <1>1, <1>3
  <1>4. CASE i # Len(t)
    <2>1. i \in 1..(Len(t) - 1)
      BY <1>4
    <2>2. i + moved \in DOMAIN s /\ t[i] = s[i + moved]
      BY <1>1, <2>1
    <2>3. i + moved = Len(s) + 1 - Len(t) + i
      BY <1>1
    <2>. QED
      BY <2>2, <2>3
  <1>. QED
    BY <1>3, <1>4

LEMMA RecordEventKeeps ==
  ASSUME NEW f, FeedOK(f), NEW kind \in EventKind, NEW key \in Service!Keys \union {None}
  PROVE  LET g == RecordEvent(f, kind, key)
         IN /\ FeedOK(g) /\ g.step = f.step /\ g.frames = f.frames
            /\ g.nextEventId = f.nextEventId + 1
            /\ Grown(g.events, f.events, [id |-> f.nextEventId, kind |-> kind, key |-> key])
  <1>. DEFINE e == [id |-> f.nextEventId, kind |-> kind, key |-> key]
              t == Bounded(Append(f.events, e), MaxEvents)
              g == RecordEvent(f, kind, key)
              last == f.nextEventId - 1
  <1>1. /\ f.events \in Seq(Event) /\ f.nextEventId \in Nat /\ e \in Event
        /\ last \in Nat /\ f.nextEventId = last + 1
    BY DEF FeedOK, Feed, Event
  <1>2. t \in Seq(Event) /\ Newest(t, last + 1, MaxEvents) /\ Grown(t, f.events, e)
    <2>1. Newest(f.events, last, MaxEvents)
      BY DEF FeedOK
    <2>. HIDE DEF e, last
    <2>. QED
      BY <1>1, <2>1, BufferSizes, BoundedGrows
  <1>3. g = [f EXCEPT !.events = t, !.nextEventId = f.nextEventId + 1]
    BY DEF RecordEvent, FeedOK, Feed
  <1>5. ASSUME NEW i \in DOMAIN t PROVE t[i].id = (last + 1) - Len(t) + i
    <2>. HIDE DEF t, e, last
    <2>1. Len(t) \in Nat /\ Len(f.events) \in Nat /\ i \in Nat /\ DOMAIN f.events \subseteq Nat
      BY <1>1, <1>2
    <2>2. CASE i = Len(t) /\ t[i] = e
      <3>1. e.id = last + 1
        BY <1>1 DEF e
      <3>. QED
        BY <1>1, <2>1, <2>2, <3>1
    <2>3. CASE \E j \in DOMAIN f.events :
                 t[i] = f.events[j] /\ j = Len(f.events) + 1 - Len(t) + i
      <3>1. PICK j \in DOMAIN f.events :
              t[i] = f.events[j] /\ j = Len(f.events) + 1 - Len(t) + i
        BY <2>3
      <3>2. f.events[j].id = last - Len(f.events) + j
        BY DEF FeedOK, last
      <3>. QED
        BY <1>1, <2>1, <3>1, <3>2
    <2>4. \/ i = Len(t) /\ t[i] = e
          \/ \E j \in DOMAIN f.events : t[i] = f.events[j] /\ j = Len(f.events) + 1 - Len(t) + i
      <3>1. /\ Len(f.events) \in Nat /\ Len(t) \in Nat /\ i \in 1..Len(t)
            /\ Grown(t, f.events, e)
        BY <1>1, <1>2
      <3>. QED
        BY <3>1, GrownPlaces
    <2>. QED
      BY <2>2, <2>3, <2>4
  <1>. HIDE DEF t, e
  <1>6. g \in Feed
    <2>1. f \in Feed
      BY DEF FeedOK
    <2>2. t \in Seq(Event) /\ f.nextEventId + 1 \in Nat
      BY <1>1, <1>2
    <2>. HIDE DEF g
    <2>. QED
      BY <1>3, <2>1, <2>2 DEF Feed
  <1>7. FeedOK(g)
    <2>1. g.nextEventId # 0 /\ g.nextEventId - 1 = last + 1
      BY <1>1, <1>3 DEF FeedOK, Feed
    <2>2. g.events = t /\ g.frames = f.frames /\ g.step = f.step
      BY <1>3 DEF FeedOK, Feed
    <2>3. Newest(g.events, g.nextEventId - 1, MaxEvents)
      BY <1>2, <2>1, <2>2
    <2>4. \A i \in DOMAIN g.events : g.events[i].id = g.nextEventId - 1 - Len(g.events) + i
      <3>1. \A i \in DOMAIN t : t[i].id = (last + 1) - Len(t) + i
        BY <1>5
      <3>2. \A i \in DOMAIN t : t[i].id = g.nextEventId - 1 - Len(t) + i
        BY <2>1, <3>1, Zenon
      <3>. HIDE DEF g
      <3>. QED
        BY <2>2, <3>2, Zenon
    <2>. HIDE DEF g
    <2>. QED
      BY <1>6, <2>1, <2>2, <2>3, <2>4 DEF FeedOK
  <1>8. /\ g.step = f.step /\ g.frames = f.frames /\ g.events = t
        /\ g.nextEventId = f.nextEventId + 1
    BY <1>3 DEF FeedOK, Feed
  <1>. HIDE DEF g
  <1>. QED
    BY <1>2, <1>7, <1>8 DEF g, e

\* The simulator's frame, before anything is recorded of it.
WithFrame(f) ==
  [f EXCEPT !.step = f.step + 1, !.frames = Bounded(Append(@, f.step + 1), MaxFrames)]

LEMMA WithFrameKeeps ==
  ASSUME NEW f, FeedOK(f)
  PROVE  /\ FeedOK(WithFrame(f)) /\ WithFrame(f).step = f.step + 1
         /\ WithFrame(f).events = f.events /\ WithFrame(f).nextEventId = f.nextEventId
  <1>. DEFINE e == f.step + 1
              t == Bounded(Append(f.frames, e), MaxFrames)
              g == WithFrame(f)
  <1>1. f.frames \in Seq(Nat) /\ f.step \in Nat /\ e \in Nat
    BY DEF FeedOK, Feed
  <1>2. t \in Seq(Nat) /\ Newest(t, f.step + 1, MaxFrames) /\ Grown(t, f.frames, e)
    <2>1. Newest(f.frames, f.step, MaxFrames)
      BY DEF FeedOK
    <2>. HIDE DEF e
    <2>. QED
      BY <1>1, <2>1, BufferSizes, BoundedGrows
  <1>3. /\ g = [f EXCEPT !.step = e, !.frames = t]
        /\ g.step = e /\ g.frames = t /\ g.events = f.events /\ g.nextEventId = f.nextEventId
    BY DEF WithFrame, FeedOK, Feed
  <1>5. ASSUME NEW i \in DOMAIN t PROVE t[i] = e - Len(t) + i
    <2>. HIDE DEF t, e
    <2>1. Len(t) \in Nat /\ Len(f.frames) \in Nat /\ i \in Nat /\ DOMAIN f.frames \subseteq Nat
      BY <1>1, <1>2
    <2>2. CASE i = Len(t) /\ t[i] = e
      BY <1>1, <2>1, <2>2 DEF e
    <2>3. CASE \E j \in DOMAIN f.frames :
                 t[i] = f.frames[j] /\ j = Len(f.frames) + 1 - Len(t) + i
      <3>1. PICK j \in DOMAIN f.frames :
              t[i] = f.frames[j] /\ j = Len(f.frames) + 1 - Len(t) + i
        BY <2>3
      <3>2. f.frames[j] = f.step - Len(f.frames) + j
        BY DEF FeedOK
      <3>3. e = f.step + 1
        BY DEF e
      <3>4. j \in Nat /\ f.step \in Nat
        BY <1>1, <2>1
      <3>. QED
        BY <2>1, <3>1, <3>2, <3>3, <3>4
    <2>4. \/ i = Len(t) /\ t[i] = e
          \/ \E j \in DOMAIN f.frames : t[i] = f.frames[j] /\ j = Len(f.frames) + 1 - Len(t) + i
      <3>1. /\ Len(f.frames) \in Nat /\ Len(t) \in Nat /\ i \in 1..Len(t)
            /\ Grown(t, f.frames, e)
        BY <1>1, <1>2
      <3>. QED
        BY <3>1, GrownPlaces
    <2>. QED
      BY <2>2, <2>3, <2>4
  <1>6. g \in Feed
    <2>. HIDE DEF t, e
    <2>. QED
      BY <1>1, <1>2, <1>3 DEF FeedOK, Feed
  <1>7. FeedOK(g)
    <2>1. g.nextEventId # 0 /\ Newest(g.events, g.nextEventId - 1, MaxEvents)
      BY <1>3 DEF FeedOK
    <2>2. \A i \in DOMAIN g.events : g.events[i].id = g.nextEventId - 1 - Len(g.events) + i
      BY <1>3 DEF FeedOK
    <2>3. \A i \in DOMAIN g.frames : g.frames[i] = g.step - Len(g.frames) + i
      <3>1. \A i \in DOMAIN t : t[i] = e - Len(t) + i
        BY <1>5, Zenon
      <3>. HIDE DEF t, g, e
      <3>. QED
        BY <1>3, <3>1, Zenon
    <2>4. Newest(g.frames, g.step, MaxFrames)
      BY <1>2, <1>3
    <2>. HIDE DEF t, g
    <2>. QED
      BY <1>6, <2>1, <2>2, <2>3, <2>4 DEF FeedOK
  <1>. HIDE DEF g, t
  <1>. QED
    BY <1>3, <1>7 DEF g

\* What RecordFrame records besides the frame, one event or two.
LEMMA RecordFrameIs ==
  ASSUME NEW f
  PROVE  LET told == RecordEvent(WithFrame(f), "telemetry", None)
         IN RecordFrame(f) \in {told, RecordEvent(told, "alarm", None)}
  BY DEF RecordFrame, WithFrame

LEMMA RecordFrameKeeps ==
  ASSUME NEW f, FeedOK(f)
  PROVE  FeedOK(RecordFrame(f)) /\ RecordFrame(f).step = f.step + 1
  <1>. DEFINE told == RecordEvent(WithFrame(f), "telemetry", None)
  <1>0. FeedOK(WithFrame(f)) /\ WithFrame(f).step = f.step + 1
    BY WithFrameKeeps
  <1>1. FeedOK(told) /\ told.step = f.step + 1
    BY <1>0, RecordEventKeeps DEF EventKind
  <1>. HIDE DEF told
  <1>2. LET g == RecordEvent(told, "alarm", None) IN FeedOK(g) /\ g.step = f.step + 1
    BY <1>1, RecordEventKeeps DEF EventKind
  <1>3. RecordFrame(f) \in {told, RecordEvent(told, "alarm", None)}
    BY RecordFrameIs DEF told
  <1>. QED
    BY <1>1, <1>2, <1>3

\* The timeline has lost events.
Trimmed(f) == Len(f.events) # f.nextEventId - 1

\* What became of the command with key k is on the timeline, or was.
Told(f, k) ==
  \/ Trimmed(f)
  \/ \E i \in DOMAIN f.events :
       f.events[i].key = k /\ f.events[i].kind \in {"dispatched", "dead-letter"}

\* DuplicateFollows, of feed f.
Follows(f) ==
  \A j \in DOMAIN f.events :
    f.events[j].kind = "duplicate" =>
      \/ Trimmed(f)
      \/ \E i \in 1..(j - 1) : /\ f.events[i].key = f.events[j].key
                               /\ f.events[i].kind \in {"dispatched", "dead-letter"}

\* As long as nothing is lost, events only join at the end.
LEMMA Untrimmed ==
  ASSUME NEW f, NEW g, NEW e, FeedOK(f), FeedOK(g), Grown(g.events, f.events, e),
         g.nextEventId = f.nextEventId + 1, ~Trimmed(g)
  PROVE  /\ ~Trimmed(f)
         /\ DOMAIN f.events = 1..Len(f.events) /\ Len(f.events) \in Nat
         /\ DOMAIN g.events = 1..(Len(f.events) + 1)
         /\ g.events[Len(f.events) + 1] = e
         /\ \A i \in 1..Len(f.events) : g.events[i] = f.events[i]
  <1>. DEFINE n == Len(f.events)
              m == Len(g.events)
  <1>1. /\ n \in Nat /\ m \in Nat /\ DOMAIN g.events = 1..m /\ DOMAIN f.events = 1..n
        /\ f.nextEventId \in Nat \ {0}
    <2>1. f.events \in Seq(Event) /\ g.events \in Seq(Event)
      BY DEF FeedOK, Feed
    <2>. QED
      BY <2>1 DEF FeedOK, Feed
  <1>2. PICK moved \in {0, 1} :
          /\ m = n + 1 - moved /\ g.events[m] = e
          /\ \A i \in 1..(m - 1) : i + moved \in DOMAIN f.events /\ g.events[i] = f.events[i + moved]
    BY DEF Grown
  <1>3. n <= f.nextEventId - 1
    BY <1>1, BufferSizes DEF FeedOK, Newest
  <1>4. m = f.nextEventId
    BY <1>1 DEF Trimmed
  <1>. HIDE DEF n, m
  <1>5. moved = 0 /\ m = n + 1 /\ n = f.nextEventId - 1 /\ m - 1 = n
    BY <1>1, <1>2, <1>3, <1>4
  <1>6. \A i \in 1..n : g.events[i] = f.events[i]
    <2>. SUFFICES ASSUME NEW i \in 1..n PROVE g.events[i] = f.events[i]
      OBVIOUS
    <2>1. i + moved = i
      BY <1>1, <1>5
    <2>. QED
      BY <1>2, <1>5, <2>1
  <1>. QED
    BY <1>1, <1>2, <1>5, <1>6 DEF n, m, Trimmed

LEMMA RecordEventTells ==
  ASSUME NEW f, FeedOK(f), NEW kind \in EventKind, NEW key \in Service!Keys \union {None}
  PROVE  LET g == RecordEvent(f, kind, key)
         IN /\ \A k : Told(f, k) => Told(g, k)
            /\ kind \in {"dispatched", "dead-letter"} => Told(g, key)
            /\ Follows(f) /\ (kind = "duplicate" => Told(f, key)) => Follows(g)
  <1>. DEFINE g == RecordEvent(f, kind, key)
              e == [id |-> f.nextEventId, kind |-> kind, key |-> key]
              n == Len(f.events)
  <1>1. /\ FeedOK(g) /\ Grown(g.events, f.events, e) /\ g.nextEventId = f.nextEventId + 1
        /\ e.key = key /\ e.kind = kind
    BY RecordEventKeeps
  <1>. HIDE DEF g, e
  <1>2. ASSUME Trimmed(g)
        PROVE  Follows(g) /\ \A k : Told(g, k)
    BY <1>2 DEF Follows, Told
  <1>3. ASSUME ~Trimmed(g)
        PROVE  /\ \A k : Told(f, k) => Told(g, k)
               /\ kind \in {"dispatched", "dead-letter"} => Told(g, key)
               /\ Follows(f) /\ (kind = "duplicate" => Told(f, key)) => Follows(g)
    <2>1. /\ ~Trimmed(f) /\ DOMAIN f.events = 1..n /\ n \in Nat
          /\ DOMAIN g.events = 1..(n + 1) /\ g.events[n + 1] = e
          /\ \A i \in 1..n : g.events[i] = f.events[i]
      BY <1>1, <1>3, Untrimmed
    <2>. HIDE DEF n
    <2>2. ASSUME NEW k, Told(f, k) PROVE Told(g, k)
      <3>1. PICK i \in 1..n :
              f.events[i].key = k /\ f.events[i].kind \in {"dispatched", "dead-letter"}
        BY <2>1, <2>2 DEF Told
      <3>2. i \in 1..(n + 1)
        BY <2>1
      <3>. QED
        BY <2>1, <3>1, <3>2 DEF Told
    <2>3. n + 1 \in 1..(n + 1)
      BY <2>1
    <2>4. ASSUME kind \in {"dispatched", "dead-letter"} PROVE Told(g, key)
      BY <1>1, <2>1, <2>3, <2>4 DEF Told
    <2>5. ASSUME Follows(f), kind = "duplicate" => Told(f, key),
                 NEW j \in 1..(n + 1), g.events[j].kind = "duplicate"
          PROVE  \E i \in 1..(j - 1) : /\ g.events[i].key = g.events[j].key
                                       /\ g.events[i].kind \in {"dispatched", "dead-letter"}
      <3>1. CASE j = n + 1
        <4>1. g.events[j] = e /\ kind = "duplicate" /\ j - 1 = n
          BY <1>1, <2>1, <2>5, <3>1
        <4>2. PICK i \in 1..n :
                f.events[i].key = key /\ f.events[i].kind \in {"dispatched", "dead-letter"}
          BY <2>1, <2>5, <4>1 DEF Told
        <4>. QED
          BY <1>1, <2>1, <4>1, <4>2
      <3>2. CASE j # n + 1
        <4>1. j \in 1..n /\ g.events[j] = f.events[j]
          BY <2>1, <3>2
        <4>2. PICK i \in 1..(j - 1) :
                /\ f.events[i].key = f.events[j].key
                /\ f.events[i].kind \in {"dispatched", "dead-letter"}
          BY <2>1, <2>5, <4>1 DEF Follows
        <4>3. i \in 1..n
          BY <2>1, <4>1
        <4>. QED
          BY <2>1, <4>1, <4>2, <4>3
      <3>. QED
        BY <3>1, <3>2
    <2>6. Follows(f) /\ (kind = "duplicate" => Told(f, key)) => Follows(g)
      BY <2>1, <2>5 DEF Follows
    <2>. QED
      BY <2>2, <2>4, <2>6
  <1>. QED
    BY <1>2, <1>3 DEF g

LEMMA RecordFrameTells ==
  ASSUME NEW f, FeedOK(f)
  PROVE  LET g == RecordFrame(f)
         IN (\A k : Told(f, k) => Told(g, k)) /\ (Follows(f) => Follows(g))
  <1>. DEFINE h == WithFrame(f)
              told == RecordEvent(h, "telemetry", None)
              next == RecordEvent(told, "alarm", None)
              g == RecordFrame(f)
  <1>1. FeedOK(h) /\ (\A k : Told(f, k) => Told(h, k)) /\ (Follows(f) => Follows(h))
    <2>1. FeedOK(h) /\ h.events = f.events /\ h.nextEventId = f.nextEventId
      BY WithFrameKeeps
    <2>2. Trimmed(h) <=> Trimmed(f)
      BY <2>1, Zenon DEF Trimmed
    <2>3. \A k : Told(f, k) => Told(h, k)
      BY <2>1, <2>2, Zenon DEF Told
    <2>4. Follows(f) => Follows(h)
      BY <2>1, <2>2, Zenon DEF Follows
    <2>. QED
      BY <2>1, <2>3, <2>4
  <1>2. g \in {told, next}
    BY RecordFrameIs
  <1>. HIDE DEF h, g
  <1>3. /\ FeedOK(told) /\ (\A k : Told(h, k) => Told(told, k))
        /\ Follows(h) => Follows(told)
    BY <1>1, RecordEventKeeps, RecordEventTells DEF EventKind
  <1>. HIDE DEF told
  <1>4. (\A k : Told(told, k) => Told(next, k)) /\ (Follows(told) => Follows(next))
    BY <1>3, RecordEventTells DEF EventKind
  <1>. HIDE DEF next
  <1>5. (\A k : Told(f, k) => Told(g, k)) /\ (Follows(f) => Follows(g))
    BY <1>1, <1>2, <1>3, <1>4
  <1>. QED
    BY <1>5 DEF g

\* No event of f that is newer than the given one was more than a blocked dispatch.
OnlyBlockedSince(f, newest) ==
  \A i \in DOMAIN f.events : f.events[i].id > newest => f.events[i].kind = "blocked"

LEMMA BlockedKeeps ==
  ASSUME NEW f, FeedOK(f), NEW newest, OnlyBlockedSince(f, newest)
  PROVE  OnlyBlockedSince(RecordEvent(f, "blocked", None), newest)
  <1>. DEFINE g == RecordEvent(f, "blocked", None)
              e == [id |-> f.nextEventId, kind |-> "blocked", key |-> None]
  <1>1. FeedOK(g) /\ Grown(g.events, f.events, e) /\ e.kind = "blocked"
    BY RecordEventKeeps DEF EventKind
  <1>. HIDE DEF g, e
  <1>2. ASSUME NEW i \in DOMAIN g.events, g.events[i].id > newest
        PROVE  g.events[i].kind = "blocked"
    <2>1. f.events \in Seq(Event) /\ g.events \in Seq(Event)
      BY <1>1 DEF FeedOK, Feed
    <2>2. Len(f.events) \in Nat /\ Len(g.events) \in Nat /\ i \in 1..Len(g.events)
      BY <2>1
    <2>3. \/ g.events[i] = e
          \/ \E j \in DOMAIN f.events : g.events[i] = f.events[j]
      BY <1>1, <2>2, GrownPlaces
    <2>. QED
      BY <1>1, <1>2, <2>3 DEF OnlyBlockedSince
  <1>3. OnlyBlockedSince(g, newest)
    BY <1>2 DEF OnlyBlockedSince
  <1>. QED
    BY <1>3 DEF g

\* There is no event newer than the newest.
LEMMA NothingSince == ASSUME NEW f, FeedOK(f) PROVE OnlyBlockedSince(f, f.nextEventId - 1)
  <1>. SUFFICES ASSUME NEW i \in DOMAIN f.events, f.events[i].id > f.nextEventId - 1 PROVE FALSE
    BY DEF OnlyBlockedSince
  <1>1. f.events \in Seq(Event) /\ f.nextEventId \in Nat
    BY DEF FeedOK, Feed
  <1>2. i \in 1..Len(f.events) /\ Len(f.events) \in Nat
    BY <1>1
  <1>3. f.events[i].id = f.nextEventId - 1 - Len(f.events) + i
    BY DEF FeedOK
  <1>. QED
    BY <1>1, <1>2, <1>3

(***************************************************************************)
(* The feed Mission Control starts with.                                   *)
(***************************************************************************)

\* The feeds after 0, ..., m frames.
FeedsUpTo(m, fs) ==
  fs = [n \in 0..m |-> IF n = 0 THEN NoFeed ELSE RecordFrame(fs[n - 1])]

LEMMA FeedsExist == \E fs : FeedsUpTo(InitialFrames, fs)
  <1>. DEFINE Good == {m \in 0..InitialFrames : \E fs : FeedsUpTo(m, fs)}
  <1>1. 0 \in Good
    <2>1. FeedsUpTo(0, [n \in 0..0 |-> NoFeed])
      BY DEF FeedsUpTo
    <2>. QED
      BY <2>1, BufferSizes
  <1>2. ASSUME NEW m \in 0..InitialFrames, m \in Good, m + 1 \in 0..InitialFrames
        PROVE  m + 1 \in Good
    <2>1. PICK fs : FeedsUpTo(m, fs)
      BY <1>2
    <2>. DEFINE gs == [n \in 0..(m + 1) |-> IF n = m + 1 THEN RecordFrame(fs[m]) ELSE fs[n]]
    <2>2. m \in Nat /\ m \in 0..m
      BY BufferSizes
    <2>3. ASSUME NEW n \in 0..(m + 1)
          PROVE  gs[n] = IF n = 0 THEN NoFeed ELSE RecordFrame(gs[n - 1])
      <3>1. CASE n = m + 1
        <4>1. n # 0 /\ n - 1 = m /\ m \in 0..(m + 1) /\ m # m + 1
          BY <2>2, <3>1
        <4>. QED
          BY <3>1, <4>1
      <3>2. CASE n # m + 1
        <4>1. n \in 0..m /\ (n # 0 => n - 1 \in 0..(m + 1) /\ n - 1 # m + 1)
          BY <2>2, <3>2
        <4>2. fs[n] = IF n = 0 THEN NoFeed ELSE RecordFrame(fs[n - 1])
          BY <2>1, <4>1 DEF FeedsUpTo
        <4>. QED
          BY <3>2, <4>1, <4>2
      <3>. QED
        BY <3>1, <3>2
    <2>4. FeedsUpTo(m + 1, gs)
      BY <2>3 DEF FeedsUpTo
    <2>. HIDE DEF gs
    <2>. QED
      BY <1>2, <2>4
  <1>3. 0..InitialFrames \subseteq Good
    <2>. HIDE DEF Good
    <2>. QED
      BY <1>1, <1>2, CountUp, BufferSizes
  <1>4. InitialFrames \in 0..InitialFrames
    BY BufferSizes
  <1>. QED
    BY <1>3, <1>4

LEMMA FirstFeed ==
  LET f == FeedAfter[InitialFrames]
  IN FeedOK(f) /\ Follows(f) /\ f.step = InitialFrames
  <1>. DEFINE Good == {n \in 0..InitialFrames :
                         LET f == FeedAfter[n] IN FeedOK(f) /\ Follows(f) /\ f.step = n}
  <1>1. FeedsUpTo(InitialFrames, FeedAfter)
    BY FeedsExist, Zenon DEF FeedAfter, FeedsUpTo
  <1>2. \A n \in 0..InitialFrames :
          FeedAfter[n] = IF n = 0 THEN NoFeed ELSE RecordFrame(FeedAfter[n - 1])
    BY <1>1 DEF FeedsUpTo
  <1>3. FeedOK(NoFeed) /\ Follows(NoFeed) /\ NoFeed.step = 0
    BY BufferSizes DEF NoFeed, FeedOK, Follows, Feed, Newest
  <1>4. 0 \in Good
    BY <1>2, <1>3, BufferSizes
  <1>5. ASSUME NEW n \in 0..InitialFrames, n \in Good, n + 1 \in 0..InitialFrames
        PROVE  n + 1 \in Good
    <2>1. FeedAfter[n + 1] = RecordFrame(FeedAfter[n])
      <3>1. n \in Nat /\ n + 1 # 0 /\ (n + 1) - 1 = n
        BY BufferSizes
      <3>. QED
        BY <1>2, <1>5, <3>1
    <2>. QED
      BY <1>5, <2>1, RecordFrameKeeps, RecordFrameTells
  <1>6. 0..InitialFrames \subseteq Good
    <2>. HIDE DEF Good
    <2>. QED
      BY <1>4, <1>5, CountUp, BufferSizes
  <1>7. InitialFrames \in Good
    BY <1>6, BufferSizes
  <1>. QED
    BY <1>7

(***************************************************************************)
(* The dispatch service.  What is proved of CommandDispatch holds of the   *)
(* service inside Mission Control.                                         *)
(***************************************************************************)

Dispatch == INSTANCE CommandDispatchProofs WITH MaxRetries <- 2

LEMMA SameTypes ==
  /\ Service!Keys = Dispatch!Keys /\ Service!Answers = Dispatch!Answers
  /\ Service!Command = Dispatch!Command /\ Service!Submission = Dispatch!Submission
  /\ Service!Result = Dispatch!Result
  BY DEF Service!Keys, Dispatch!Keys, Service!Answers, Dispatch!Answers,
         Service!Classification, Dispatch!Classification, Service!Command, Dispatch!Command,
         Service!Submission, Dispatch!Submission, Service!Result, Dispatch!Result,
         Service!Outcome, Dispatch!Outcome

LEMMA SameSteps ==
  ASSUME NEW s \in Submissions
  PROVE  /\ \A c \in Commands : Service!Submit(s, c) <=> Dispatch!Submit(s, c)
         /\ \A a \in Dispatch!Answers : Service!Settle(s, a) <=> Dispatch!Settle(s, a)
         /\ Service!Resume(s) <=> Dispatch!Resume(s)
         /\ Service!Awaiting(s) <=> Dispatch!Awaiting(s)
         /\ Service!Returned(s) <=> Dispatch!Returned(s)
         /\ KeyOf(s) = Dispatch!IdempotencyKey(submissions[s].command)
  BY DEF Service!Submit, Dispatch!Submit, Service!Settle, Dispatch!Settle,
         Service!Resume, Dispatch!Resume, Service!Awaiting, Dispatch!Awaiting,
         Service!Returned, Dispatch!Returned, KeyOf, Service!IdempotencyKey,
         Dispatch!IdempotencyKey, Service!Dispatched, Dispatch!Dispatched,
         Service!Retry, Dispatch!Retry, Service!DeadLetter, Dispatch!DeadLetter,
         Service!Conclude, Dispatch!Conclude, Service!OutcomeOf, Dispatch!OutcomeOf,
         Service!CanRetry, Dispatch!CanRetry, Service!EntryOf, Dispatch!EntryOf

LEMMA SameInit == Service!Init <=> Dispatch!Init
  BY SameTypes DEF Service!Init, Dispatch!Init

\* What CommandDispatch assumes of its constants.
LEMMA DispatchAssumptions ==
  Dispatch!CommandTypes /\ Dispatch!RetryBound /\ Dispatch!NoneIsNothing
  BY ServiceTypes, SameTypes
  DEF Dispatch!CommandTypes, Dispatch!RetryBound, Dispatch!NoneIsNothing

\* submit returned o to s and, if it gave the command up, queued a dead letter.
Concluded(s, o) ==
  /\ o \in Dispatch!Outcome /\ o # None
  /\ Dispatch!Returned(s)' /\ submissions'[s].result = o
  /\ \/ o.status = "dispatched" /\ deadLetterQueue' = deadLetterQueue
     \/ o.status = "dead-letter" /\ \E x : deadLetterQueue' = Append(deadLetterQueue, x)

\* A submission under way waits on or returns; nothing happens to the others.
LEMMA ServiceChange ==
  ASSUME Dispatch!TypeOK, NEW s \in Submissions, ServiceStep(s)
  PROVE  /\ Dispatch!Awaiting(s) /\ [Dispatch!Next]_Dispatch!vars
         /\ UNCHANGED <<requests, stage, feed, dispatchCounters, streams>>
         /\ \A t \in Submissions : t # s => submissions'[t] = submissions[t]
         /\ submissions'[s].command = submissions[s].command
         /\ \/ Dispatch!Awaiting(s)' /\ UNCHANGED deadLetterQueue
            \/ \E o : Concluded(s, o)
  <1>1. Dispatch!Resume(s) \/ \E a \in Dispatch!Answers : Dispatch!Settle(s, a)
    BY SameTypes, SameSteps DEF ServiceStep
  <1>2. UNCHANGED <<requests, stage, feed, dispatchCounters, streams>>
    BY DEF ServiceStep
  <1>3. Dispatch!Awaiting(s)
    BY <1>1 DEF Dispatch!Resume, Dispatch!Settle, Dispatch!Dispatched, Dispatch!Retry,
                Dispatch!DeadLetter
  <1>4. Dispatch!Next
    BY <1>1 DEF Dispatch!Next
  <1>5. \/ (Dispatch!Starts(s) \/ Dispatch!Waits(s)) /\ UNCHANGED deadLetterQueue
        \/ \E o \in Dispatch!Outcome :
             Dispatch!Concludes(s, o) /\ o.status = "dispatched" /\ UNCHANGED deadLetterQueue
        \/ \E o \in Dispatch!Outcome :
             /\ Dispatch!Concludes(s, o) /\ o.status = "dead-letter"
             /\ \E x : deadLetterQueue' = Append(deadLetterQueue, x)
    <2>1. \/ \E c \in Commands : Dispatch!Submit(s, c)
          \/ \E a \in Dispatch!Answers : Dispatch!Settle(s, a)
          \/ Dispatch!Resume(s)
      BY <1>1
    <2>. QED
      BY <2>1, Dispatch!StepShape, DispatchAssumptions
  <1>6. ~Dispatch!Starts(s)
    BY <1>3 DEF Dispatch!Starts, Dispatch!Awaiting
  <1>7. CASE Dispatch!Waits(s) /\ UNCHANGED deadLetterQueue
    <2>1. PICK x \in Dispatch!Submission :
            /\ x.command = submissions[s].command /\ x.result = None
            /\ submissions' = [submissions EXCEPT ![s] = x]
      BY <1>7 DEF Dispatch!Waits, Dispatch!Goes
    <2>2. x # None
      BY DispatchAssumptions DEF Dispatch!NoneIsNothing
    <2>. QED
      BY <1>2, <1>3, <1>4, <1>7, <2>1, <2>2 DEF Dispatch!TypeOK, Dispatch!Awaiting
  <1>8. ASSUME NEW o \in Dispatch!Outcome, Dispatch!Concludes(s, o),
               \/ o.status = "dispatched" /\ UNCHANGED deadLetterQueue
               \/ o.status = "dead-letter" /\ \E x : deadLetterQueue' = Append(deadLetterQueue, x)
        PROVE  /\ \A t \in Submissions : t # s => submissions'[t] = submissions[t]
               /\ submissions'[s].command = submissions[s].command
               /\ Concluded(s, o)
    <2>1. submissions[s] \in Dispatch!Submission
      BY <1>3 DEF Dispatch!TypeOK, Dispatch!Awaiting
    <2>2. submissions' = [submissions EXCEPT ![s] = [submissions[s] EXCEPT !.result = o]]
      BY <1>8 DEF Dispatch!Concludes, Dispatch!Conclude, Dispatch!TypeOK
    <2>3. o # None /\ [submissions[s] EXCEPT !.result = o] # None
      BY <2>1, DispatchAssumptions
      DEF Dispatch!NoneIsNothing, Dispatch!Result, Dispatch!Submission
    <2>. QED
      BY <1>8, <2>1, <2>2, <2>3
      DEF Concluded, Dispatch!TypeOK, Dispatch!Returned, Dispatch!Submission
  <1>. QED
    BY <1>2, <1>3, <1>4, <1>5, <1>6, <1>7, <1>8

\* A request that is let through starts a submission: of a command that is not
\* on file, which then waits, or of one that is, which returns as a duplicate.
LEMMA SubmitChange ==
  ASSUME Dispatch!TypeOK, NEW s \in Submissions, NEW c \in Commands, Service!Submit(s, c)
  PROVE  /\ submissions[s] = None /\ [Dispatch!Next]_Dispatch!vars
         /\ UNCHANGED <<dispatchOutcomes, deadLetterQueue>>
         /\ \A t \in Submissions : t # s => submissions'[t] = submissions[t]
         /\ submissions'[s] # None /\ submissions'[s].command = c
         /\ \/ Dispatch!Awaiting(s)'
            \/ /\ Dispatch!Returned(s)' /\ submissions'[s].result.status = "duplicate"
               /\ dispatchOutcomes[Dispatch!IdempotencyKey(c)] # None
  <1>. DEFINE known == dispatchOutcomes[Dispatch!IdempotencyKey(c)]
              dup == [status |-> "duplicate", originalResult |-> known]
              x(r) == [command |-> c, attempt |-> 1, answer |-> None, result |-> r]
  <1>1. Dispatch!Submit(s, c)
    BY SameSteps
  <1>2. Dispatch!Next
    BY <1>1 DEF Dispatch!Next
  <1>3. submissions[s] = None /\ UNCHANGED <<dispatchOutcomes, deadLetterQueue>>
    BY <1>1 DEF Dispatch!Submit
  <1>4. \/ known # None /\ submissions' = [submissions EXCEPT ![s] = x(dup)]
        \/ known = None /\ submissions' = [submissions EXCEPT ![s] = x(None)]
    BY <1>1 DEF Dispatch!Submit
  <1>5. known \in Dispatch!Outcome \union {None}
    <2>1. Dispatch!IdempotencyKey(c) \in Dispatch!Keys
      BY Dispatch!KeyType, DispatchAssumptions
    <2>. QED
      BY <2>1 DEF Dispatch!TypeOK
  <1>6. known # None => dup \in Dispatch!Result /\ dup # None
    BY <1>5, DispatchAssumptions DEF Dispatch!Result, Dispatch!NoneIsNothing
  <1>7. x(None) \in Dispatch!Submission /\ (known # None => x(dup) \in Dispatch!Submission)
    BY <1>6 DEF Dispatch!Submission
  <1>8. x(None) # None /\ (known # None => x(dup) # None)
    BY <1>7, DispatchAssumptions DEF Dispatch!NoneIsNothing
  <1>. HIDE DEF known
  <1>9. CASE known # None /\ submissions' = [submissions EXCEPT ![s] = x(dup)]
    BY <1>2, <1>3, <1>6, <1>8, <1>9 DEF Dispatch!TypeOK, Dispatch!Returned, known
  <1>10. CASE known = None /\ submissions' = [submissions EXCEPT ![s] = x(None)]
    BY <1>2, <1>3, <1>8, <1>10 DEF Dispatch!TypeOK, Dispatch!Awaiting
  <1>. QED
    BY <1>4, <1>9, <1>10

(***************************************************************************)
(* Types.  stage follows the submission it belongs to.                     *)
(***************************************************************************)

StagesAgree ==
  \A s \in Submissions :
    /\ stage[s] \in {"idle", "blocked"} => submissions[s] = None
    /\ stage[s] = "submitted" => submissions[s] # None
    /\ stage[s] \in {"accounted", "replied"} => Dispatch!Returned(s)
    /\ stage[s] # "idle" => requests[s] \in Request

Typed ==
  /\ Dispatch!TypeOK /\ TypeOK
  /\ FeedOK(feed) /\ feed.step # 0
  /\ StagesAgree

\* What is published of a feed, counters and a queue of dead letters.
PayloadOf(f, c, q) ==
  [dispatch |-> c, pendingDeadLetters |-> Len(q), latestFrame |-> f.frames[Len(f.frames)],
   newestEvent |-> f.nextEventId - 1]

LEMMA PayloadType ==
  ASSUME NEW f, FeedOK(f), f.step # 0, NEW c \in [Counter -> Nat],
         NEW q \in Seq(Dispatch!DeadLetterEntry)
  PROVE  PayloadOf(f, c, q) \in Payload
  <1>1. f.frames \in Seq(Nat) /\ f.step \in Nat \ {0} /\ f.nextEventId \in Nat \ {0}
    BY DEF FeedOK, Feed
  <1>2. Len(f.frames) # 0
    BY <1>1, BufferSizes DEF FeedOK, Newest
  <1>3. Len(f.frames) \in DOMAIN f.frames
    BY <1>1, <1>2
  <1>4. f.frames[Len(f.frames)] \in Nat
    BY <1>1, <1>3
  <1>5. f.nextEventId - 1 \in Nat /\ Len(q) \in Nat
    BY <1>1
  <1>. QED
    BY <1>4, <1>5 DEF PayloadOf, Payload

\* The buffers of a feed keep to their bounds.
LEMMA FeedTypes ==
  ASSUME NEW f, FeedOK(f)
  PROVE  f \in Feed /\ Len(f.frames) <= MaxFrames /\ Len(f.events) <= MaxEvents
  BY BufferSizes DEF FeedOK, Newest, Feed

LEMMA TypedInit == Init => Typed
  <1>. SUFFICES ASSUME Init PROVE Typed
    OBVIOUS
  <1>1. Dispatch!TypeOK
    BY SameInit, DispatchAssumptions DEF Init, Dispatch!Init, Dispatch!TypeOK
  <1>2. FeedOK(feed) /\ feed.step # 0
    BY FirstFeed, BufferSizes DEF Init
  <1>3. StagesAgree
    BY SameInit DEF Init, Dispatch!Init, StagesAgree
  <1>4. TypeOK
    BY <1>2, FeedTypes DEF Init, TypeOK
  <1>. QED
    BY <1>1, <1>2, <1>3, <1>4 DEF Typed

\* Publishing keeps the type of streams.
LEMMA PublishTypes ==
  ASSUME PublishSnapshot, FeedOK(feed'), feed'.step # 0, dispatchCounters' \in [Counter -> Nat],
         deadLetterQueue' \in Seq(Dispatch!DeadLetterEntry)
  PROVE  streams' \in [Streams -> Payload \union {None}]
  <1>1. Snapshot' = PayloadOf(feed', dispatchCounters', deadLetterQueue')
    BY DEF Snapshot, PayloadOf
  <1>2. Snapshot' \in Payload
    BY <1>1, PayloadType
  <1>. QED
    BY <1>2 DEF PublishSnapshot

\* Every step is one of the dispatch service, or leaves it alone.
LEMMA ServiceMoves == ASSUME Typed, [Next]_vars PROVE [Dispatch!Next]_Dispatch!vars
  <1>1. CASE \E s \in Submissions : ServiceStep(s)
    BY <1>1, ServiceChange DEF Typed
  <1>2. CASE \E s \in Submissions, r \in Requests : Post(s, r)
    <2>1. PICK s \in Submissions, r \in Requests :
            Service!Submit(s, r.command) \/ UNCHANGED serviceVars
      BY <1>2 DEF Post
    <2>2. r.command \in Commands
      BY RequestTypes DEF Request
    <2>. QED
      BY <2>1, <2>2, SubmitChange DEF Typed, serviceVars, Dispatch!vars
  <1>3. CASE UNCHANGED <<submissions, dispatchOutcomes, deadLetterQueue>>
    BY <1>3 DEF Dispatch!vars
  <1>. QED
    BY <1>1, <1>2, <1>3
    DEF Next, Handle, Account, Reply, Tick, Connect, Disconnect, vars

\* What is on file is a key and what it is filed for; the status of a result is
\* one that is counted.
LEMMA ReturnedType ==
  ASSUME Typed, NEW s \in Submissions, Dispatch!Returned(s)
  PROVE  /\ submissions[s].result \in Dispatch!Result
         /\ submissions[s].result.status \in Counter
         /\ submissions[s].command \in Commands
         /\ KeyOf(s) \in Service!Keys
  <1>1. submissions[s] \in Dispatch!Submission /\ submissions[s].result # None
    BY DEF Typed, Dispatch!TypeOK, Dispatch!Returned
  <1>2. submissions[s].command \in Commands /\ submissions[s].result \in Dispatch!Result
    BY <1>1 DEF Dispatch!Submission
  <1>3. submissions[s].result.status \in Counter
    BY <1>2 DEF Dispatch!Result, Dispatch!Outcome, Counter
  <1>4. KeyOf(s) \in Service!Keys
    BY <1>2, SameTypes, SameSteps, Dispatch!KeyType, DispatchAssumptions
  <1>. QED
    BY <1>2, <1>3, <1>4

LEMMA PostTyped ==
  ASSUME Typed, Dispatch!TypeOK', NEW s \in Submissions, NEW r \in Requests, Post(s, r)
  PROVE  Typed'
  <1>0. r \in Request /\ r.command \in Commands
    BY RequestTypes DEF Request
  <1>1. CASE Service!Submit(s, r.command) /\ stage' = [stage EXCEPT ![s] = "submitted"]
             /\ UNCHANGED feed
    <2>1. /\ submissions'[s] # None
          /\ \A t \in Submissions : t # s => submissions'[t] = submissions[t]
      BY <1>0, <1>1, SubmitChange DEF Typed
    <2>2. StagesAgree'
      BY <1>0, <1>1, <2>1 DEF Typed, TypeOK, StagesAgree, Post, Dispatch!Returned
    <2>. QED
      BY <1>0, <1>1, <2>2 DEF Typed, TypeOK, Post
  <1>2. CASE /\ feed' = RecordEvent(feed, "blocked", None)
             /\ stage' = [stage EXCEPT ![s] = "blocked"]
             /\ UNCHANGED serviceVars
    <2>1. FeedOK(feed') /\ feed'.step # 0
      BY <1>2, RecordEventKeeps DEF Typed, EventKind
    <2>2. StagesAgree'
      BY <1>0, <1>2 DEF Typed, TypeOK, StagesAgree, Post, Dispatch!Returned, serviceVars
    <2>3. TypeOK'
      BY <1>0, <1>2, <2>1, FeedTypes DEF Typed, TypeOK, Post
    <2>. QED
      BY <2>1, <2>2, <2>3 DEF Typed
  <1>. QED
    BY <1>1, <1>2 DEF Post

LEMMA ServiceStepTyped ==
  ASSUME Typed, Dispatch!TypeOK', NEW s \in Submissions, ServiceStep(s)
  PROVE  Typed'
  <1>1. /\ Dispatch!Awaiting(s)
        /\ UNCHANGED <<requests, stage, feed, dispatchCounters, streams>>
        /\ \A t \in Submissions : t # s => submissions'[t] = submissions[t]
        /\ Dispatch!Awaiting(s)' \/ Dispatch!Returned(s)'
    BY ServiceChange DEF Typed, Concluded
  <1>2. stage[s] = "submitted"
    BY <1>1 DEF Typed, TypeOK, StagesAgree, Dispatch!Awaiting, Dispatch!Returned
  <1>3. StagesAgree'
    BY <1>1, <1>2
    DEF Typed, TypeOK, StagesAgree, Dispatch!Awaiting, Dispatch!Returned
  <1>. QED
    BY <1>1, <1>3 DEF Typed, TypeOK

LEMMA AccountTyped ==
  ASSUME Typed, NEW s \in Submissions, Account(s)
  PROVE  Typed'
  <1>1. Dispatch!Returned(s) /\ stage[s] = "submitted"
    BY SameSteps DEF Account, Resolved
  <1>2. submissions[s].result.status \in Counter /\ KeyOf(s) \in Service!Keys
    BY <1>1, ReturnedType
  <1>3. FeedOK(feed') /\ feed'.step # 0
    <2>1. submissions[s].result.status \in EventKind
      BY <1>2 DEF Counter, EventKind
    <2>2. feed' = RecordEvent(feed, submissions[s].result.status, KeyOf(s))
      BY DEF Account
    <2>3. FeedOK(feed) /\ feed.step # 0
      BY DEF Typed
    <2>. QED
      BY <1>2, <2>1, <2>2, <2>3, RecordEventKeeps
  <1>4. dispatchCounters' \in [Counter -> Nat]
    BY <1>2 DEF Account, Typed, TypeOK
  <1>5. StagesAgree'
    BY <1>1 DEF Account, Typed, TypeOK, StagesAgree, Dispatch!Returned
  <1>6. TypeOK'
    BY <1>3, <1>4, FeedTypes DEF Account, Typed, TypeOK
  <1>7. Dispatch!TypeOK'
    BY DEF Account, Typed, Dispatch!TypeOK
  <1>. QED
    BY <1>3, <1>5, <1>6, <1>7 DEF Typed

LEMMA ReplyTyped ==
  ASSUME Typed, NEW s \in Submissions, Reply(s)
  PROVE  Typed'
  <1>1. /\ UNCHANGED <<submissions, dispatchOutcomes, deadLetterQueue, requests, feed,
                       dispatchCounters>>
        /\ stage[s] = "accounted" /\ stage' = [stage EXCEPT ![s] = "replied"]
        /\ PublishSnapshot
    BY DEF Reply
  <1>2. streams' \in [Streams -> Payload \union {None}]
    BY <1>1, PublishTypes DEF Typed, TypeOK, Dispatch!TypeOK
  <1>3. StagesAgree'
    BY <1>1 DEF Typed, TypeOK, StagesAgree, Dispatch!Returned
  <1>4. Dispatch!TypeOK'
    BY <1>1 DEF Typed, Dispatch!TypeOK
  <1>. QED
    BY <1>1, <1>2, <1>3, <1>4 DEF Typed, TypeOK

LEMMA TickTyped ==
  ASSUME Typed, Tick
  PROVE  Typed'
  <1>1. /\ UNCHANGED <<submissions, dispatchOutcomes, deadLetterQueue, requests, stage,
                       dispatchCounters>>
        /\ feed' = RecordFrame(feed) /\ PublishSnapshot
    BY DEF Tick
  <1>2. FeedOK(feed') /\ feed'.step # 0
    <2>1. FeedOK(feed') /\ feed'.step = feed.step + 1 /\ feed.step \in Nat
      BY <1>1, RecordFrameKeeps DEF Typed, FeedOK, Feed
    <2>. QED
      BY <2>1
  <1>3. streams' \in [Streams -> Payload \union {None}]
    BY <1>1, <1>2, PublishTypes DEF Typed, TypeOK, Dispatch!TypeOK
  <1>4. StagesAgree'
    BY <1>1 DEF Typed, StagesAgree, Dispatch!Returned
  <1>5. Dispatch!TypeOK'
    BY <1>1 DEF Typed, Dispatch!TypeOK
  <1>6. TypeOK'
    BY <1>1, <1>2, <1>3, FeedTypes DEF Typed, TypeOK
  <1>. QED
    BY <1>2, <1>4, <1>5, <1>6 DEF Typed

LEMMA StreamsTyped ==
  ASSUME Typed, NEW st \in Streams, Connect(st) \/ Disconnect(st)
  PROVE  Typed'
  <1>1. /\ UNCHANGED <<submissions, dispatchOutcomes, deadLetterQueue, requests, stage, feed,
                       dispatchCounters>>
        /\ streams' = [streams EXCEPT ![st] = Snapshot] \/ streams' = [streams EXCEPT ![st] = None]
    BY DEF Connect, Disconnect
  <1>2. Snapshot \in Payload
    <2>1. Snapshot = PayloadOf(feed, dispatchCounters, deadLetterQueue)
      BY DEF Snapshot, PayloadOf
    <2>. QED
      BY <2>1, PayloadType DEF Typed, TypeOK, Dispatch!TypeOK
  <1>3. Dispatch!TypeOK' /\ StagesAgree'
    BY <1>1 DEF Typed, Dispatch!TypeOK, StagesAgree, Dispatch!Returned
  <1>. QED
    BY <1>1, <1>2, <1>3 DEF Typed, TypeOK

LEMMA TypedStep == ASSUME Typed, [Next]_vars PROVE Typed'
  <1>1. Dispatch!TypeOK'
    BY ServiceMoves, Dispatch!TypeStep, DispatchAssumptions DEF Typed
  <1>2. ASSUME NEW s \in Submissions, Handle(s) PROVE Typed'
    BY <1>1, <1>2, ServiceStepTyped, AccountTyped, ReplyTyped DEF Handle
  <1>3. ASSUME NEW s \in Submissions, NEW r \in Requests, Post(s, r) PROVE Typed'
    BY <1>1, <1>3, PostTyped
  <1>4. CASE UNCHANGED vars
    BY <1>4 DEF vars, Typed, TypeOK, Dispatch!TypeOK, StagesAgree, Dispatch!Returned
  <1>. QED
    BY <1>2, <1>3, <1>4, TickTyped, StreamsTyped DEF Next

\* The state of Mission Control is well typed: whatever clients ask and
\* subscribe to and however long the line runs, the frames and the events kept
\* stay within their bounds.
THEOREM MissionTyped == Spec => []TypeOK
  <1>1. Spec => []Typed
    BY TypedInit, TypedStep, PTL DEF Spec
  <1>2. Typed => TypeOK
    BY DEF Typed
  <1>. QED
    BY <1>1, <1>2, PTL

\* However many events and frames are recorded, what is kept of them is the
\* newest, without a gap and in order, and the buffers are as full as they can
\* be.
THEOREM TimelineKept == Spec => []TimelineContiguous
  <1>1. Spec => []Typed
    BY TypedInit, TypedStep, PTL DEF Spec
  <1>2. Typed => TimelineContiguous
    BY DEF Typed, FeedOK, Newest, TimelineContiguous
  <1>. QED
    BY <1>1, <1>2, PTL

(***************************************************************************)
(* The policy.  A request reaches the service in Post only, once it has    *)
(* been admitted, and is never changed after that.                         *)
(***************************************************************************)

Confirmed(r) ==
  r.control # None =>
    LET granted == {r.control.actorRole, r.control.approvedByRole}
    IN /\ r.control.confirmationAccepted
       /\ r.commandType = "hold_container" => "admin" \in granted
       /\ r.commandType = "reroute_container" => "supervisor" \in granted \/ "admin" \in granted

LEMMA AdmittedConfirmed ==
  ASSUME NEW r \in Request, Admitted(r)
  PROVE  Confirmed(r)
  <1>. SUFFICES ASSUME r.control # None PROVE Confirmed(r)
    BY DEF Confirmed
  <1>1. /\ r.control \in Control /\ r.commandType \in CommandType
        /\ Decision(r.commandType, r.control) = "allowed"
    BY DEF Admitted, Request
  <1>2. r.control.confirmationAccepted
    BY <1>1 DEF Decision
  <1>3. ASSUME NEW role, Satisfies("hold_container", role), role \in Roles \union {None}
        PROVE  role = "admin"
    BY <1>3 DEF Satisfies, Rank, Requirement, Roles
  <1>4. ASSUME NEW role, Satisfies("reroute_container", role), role \in Roles \union {None}
        PROVE  role \in {"supervisor", "admin"}
    BY <1>4 DEF Satisfies, Rank, Requirement, Roles
  <1>5. /\ r.control.actorRole \in Roles \union {None}
        /\ r.control.approvedByRole \in Roles \union {None}
    BY <1>1 DEF Control
  <1>6. CASE r.commandType = "hold_container"
    <2>1. Requirement[r.commandType] # None
      BY <1>6, RequestTypes DEF Requirement, Roles
    <2>2. \/ Satisfies("hold_container", r.control.actorRole)
          \/ Satisfies("hold_container", r.control.approvedByRole)
      BY <1>1, <1>6, <2>1 DEF Decision
    <2>. QED
      BY <1>2, <1>3, <1>5, <1>6, <2>2 DEF Confirmed
  <1>7. CASE r.commandType = "reroute_container"
    <2>1. \/ Satisfies("reroute_container", r.control.actorRole)
          \/ Satisfies("reroute_container", r.control.approvedByRole)
      BY <1>1, <1>7, RequestTypes DEF Decision, Requirement, Roles
    <2>. QED
      BY <1>2, <1>4, <1>5, <1>7, <2>1 DEF Confirmed
  <1>. QED
    BY <1>2, <1>6, <1>7 DEF Confirmed

\* Every command at the service came with a request that was admitted.
Vetted ==
  \A s \in Submissions : submissions[s] # None =>
    requests[s] \in Request /\ Confirmed(requests[s])

LEMMA VettedStep == ASSUME Typed, Vetted, [Next]_vars PROVE Vetted'
  <1>1. ASSUME NEW s \in Submissions, ServiceStep(s) PROVE Vetted'
    <2>1. /\ submissions[s] # None /\ requests' = requests
          /\ \A t \in Submissions : t # s => submissions'[t] = submissions[t]
      BY <1>1, ServiceChange DEF Typed, Dispatch!Awaiting
    <2>. QED
      BY <2>1 DEF Vetted
  <1>2. ASSUME NEW s \in Submissions, NEW r \in Requests, Post(s, r) PROVE Vetted'
    <2>0. /\ r \in Request /\ r.command \in Commands /\ stage[s] = "idle"
          /\ submissions[s] = None /\ requests' = [requests EXCEPT ![s] = r]
      BY <1>2, RequestTypes DEF Request, Post, Typed, StagesAgree
    <2>1. CASE Admitted(r) /\ Service!Submit(s, r.command)
      <3>1. \A t \in Submissions : t # s => submissions'[t] = submissions[t]
        BY <2>0, <2>1, SubmitChange DEF Typed
      <3>2. Confirmed(r)
        BY <2>0, <2>1, AdmittedConfirmed
      <3>. QED
        BY <2>0, <3>1, <3>2 DEF Vetted, Typed, TypeOK
    <2>2. CASE UNCHANGED serviceVars
      BY <2>0, <2>2 DEF Vetted, Typed, TypeOK, serviceVars
    <2>. QED
      BY <1>2, <2>1, <2>2 DEF Post
  <1>3. CASE UNCHANGED <<submissions, requests>>
    BY <1>3 DEF Vetted
  <1>. QED
    BY <1>1, <1>2, <1>3
    DEF Next, Handle, Account, Reply, Tick, Connect, Disconnect, vars

\* No controlled command reaches the dispatch service unless it was confirmed
\* and a role that may order it asked for it or approved it, whatever requests
\* are under way at the same time.
THEOREM PolicyKept == Spec => []PolicyEnforced
  <1>1. Init => Typed /\ Vetted
    BY TypedInit, SameInit DEF Init, Dispatch!Init, Vetted
  <1>2. Spec => [](Typed /\ Vetted)
    BY <1>1, TypedStep, VettedStep, PTL DEF Spec
  <1>3. Vetted => PolicyEnforced
    BY DEF Vetted, Confirmed, PolicyEnforced
  <1>. QED
    BY <1>2, <1>3, PTL

(***************************************************************************)
(* The streams.  Between the end of a submission and the reply to its      *)
(* request subscribers may be behind; at any other time they are not.      *)
(***************************************************************************)

Quiet == \A s \in Submissions : ~Resolved(s) /\ stage[s] # "accounted"

\* Subscribers that were sent p have seen all of q but blocked dispatches.
Shows(p, q) ==
  /\ p.dispatch = q.dispatch /\ p.pendingDeadLetters = q.pendingDeadLetters
  /\ p.latestFrame = q.latestFrame
  /\ OnlyBlockedSince(feed, p.newestEvent)

ShownAll ==
  \A st \in Streams : streams[st] # None => Shows(streams[st], Snapshot)

\* What was just published is up to date.
LEMMA PublishShows ==
  ASSUME PublishSnapshot, FeedOK(feed')
  PROVE  ShownAll'
  <1>. SUFFICES ASSUME NEW st \in Streams, streams'[st] # None
                PROVE  Shows(streams[st], Snapshot)'
    BY DEF ShownAll
  <1>1. streams'[st] = Snapshot'
    BY DEF PublishSnapshot
  <1>2. OnlyBlockedSince(feed', feed'.nextEventId - 1)
    BY NothingSince
  <1>. QED
    BY <1>1, <1>2 DEF Shows, Snapshot

LEMMA ShownInit == Init => ShownAll
  BY DEF Init, ShownAll

LEMMA ShownStep ==
  ASSUME Typed, Typed', Quiet => ShownAll, Quiet', [Next]_vars
  PROVE  ShownAll'
  <1>1. ASSUME NEW s \in Submissions, ServiceStep(s) PROVE ShownAll'
    <2>1. /\ Dispatch!Awaiting(s)
          /\ UNCHANGED <<requests, stage, feed, dispatchCounters, streams>>
          /\ \A t \in Submissions : t # s => submissions'[t] = submissions[t]
          /\ \/ Dispatch!Awaiting(s)' /\ UNCHANGED deadLetterQueue
             \/ Dispatch!Returned(s)'
      BY <1>1, ServiceChange DEF Typed, Concluded
    <2>2. stage[s] = "submitted"
      BY <2>1 DEF Typed, TypeOK, StagesAgree, Dispatch!Awaiting, Dispatch!Returned
    <2>3. ~Dispatch!Returned(s)'
      BY <2>1, <2>2 DEF Quiet, Resolved, Dispatch!Returned, Service!Returned
    <2>4. ~Resolved(s)
      BY <2>1 DEF Resolved, Dispatch!Awaiting, Service!Returned
    <2>5. Quiet
      BY <2>1, <2>2, <2>4 DEF Quiet, Resolved, Service!Returned
    <2>. QED
      BY <2>1, <2>3, <2>5 DEF ShownAll, Shows, Snapshot, OnlyBlockedSince
  <1>2. ASSUME NEW s \in Submissions, NEW r \in Requests, Post(s, r) PROVE ShownAll'
    <2>1. Quiet
      BY <1>2 DEF Post, Drained, Quiet
    <2>2. UNCHANGED <<dispatchCounters, streams, deadLetterQueue>>
      BY <1>2 DEF Post, serviceVars, Service!Submit
    <2>3. CASE UNCHANGED feed
      BY <2>1, <2>2, <2>3 DEF ShownAll, Shows, Snapshot, OnlyBlockedSince
    <2>4. CASE feed' = RecordEvent(feed, "blocked", None)
      <3>1. feed'.frames = feed.frames
        BY <2>4, RecordEventKeeps DEF Typed, EventKind
      <3>2. \A st \in Streams : OnlyBlockedSince(feed, streams[st].newestEvent) =>
                                  OnlyBlockedSince(feed', streams[st].newestEvent)
        BY <2>4, BlockedKeeps DEF Typed
      <3>. QED
        BY <2>1, <2>2, <3>1, <3>2 DEF ShownAll, Shows, Snapshot
    <2>. QED
      BY <1>2, <2>3, <2>4 DEF Post
  <1>3. ASSUME NEW s \in Submissions, Account(s) PROVE FALSE
    BY <1>3 DEF Account, Quiet, Typed, TypeOK
  <1>4. CASE PublishSnapshot
    BY <1>4, PublishShows DEF Typed
  <1>5. ASSUME NEW st \in Streams, Connect(st) PROVE ShownAll'
    <2>1. /\ Quiet /\ streams' = [streams EXCEPT ![st] = Snapshot]
          /\ UNCHANGED <<deadLetterQueue, feed, dispatchCounters>>
      BY <1>5 DEF Connect, Drained, Quiet
    <2>2. OnlyBlockedSince(feed, feed.nextEventId - 1)
      BY NothingSince DEF Typed
    <2>3. Shows(Snapshot, Snapshot)
      BY <2>2 DEF Shows, Snapshot
    <2>4. Snapshot' = Snapshot
      BY <2>1 DEF Snapshot
    <2>5. \A p : Shows(p, Snapshot) => Shows(p, Snapshot)'
      BY <2>1, <2>4 DEF Shows, OnlyBlockedSince
    <2>. QED
      BY <2>1, <2>3, <2>4, <2>5 DEF ShownAll, Typed, TypeOK
  <1>6. ASSUME NEW st \in Streams, Disconnect(st) PROVE ShownAll'
    <2>1. /\ Quiet /\ streams' = [streams EXCEPT ![st] = None]
          /\ UNCHANGED <<deadLetterQueue, feed, dispatchCounters>>
      BY <1>6 DEF Disconnect, Drained, Quiet
    <2>. QED
      BY <2>1 DEF ShownAll, Shows, Snapshot, OnlyBlockedSince, Typed, TypeOK
  <1>7. CASE UNCHANGED vars
    BY <1>7 DEF vars, Quiet, Resolved, Service!Returned, ShownAll, Shows, Snapshot,
                OnlyBlockedSince
  <1>. QED
    BY <1>1, <1>2, <1>3, <1>4, <1>5, <1>6, <1>7 DEF Next, Handle, Reply, Tick

\* Whenever the server is idle, each subscriber has been sent the current
\* counters, dead letters and frame, and every event but blocked dispatches,
\* however connections and requests come and go.
THEOREM StreamsKept == Spec => []StreamsCurrent
  <1>1. Spec => [](Typed /\ (Quiet => ShownAll))
    <2>1. Typed /\ (Quiet => ShownAll) /\ [Next]_vars => Typed' /\ (Quiet' => ShownAll')
      BY TypedStep, ShownStep
    <2>. QED
      BY <2>1, TypedInit, ShownInit, PTL DEF Spec
  <1>2. Typed /\ (Quiet => ShownAll) => StreamsCurrent
    <2>. SUFFICES ASSUME Typed, ShownAll, NEW st \in Open
                  PROVE  /\ [streams[st] EXCEPT !.newestEvent = 0] = [Snapshot EXCEPT !.newestEvent = 0]
                         /\ OnlyBlockedSince(feed, streams[st].newestEvent)
      BY DEF StreamsCurrent, OnlyBlockedSince, Drained, Quiet
    <2>1. streams[st] \in Payload /\ Shows(streams[st], Snapshot)
      BY DEF Open, Typed, TypeOK, ShownAll
    <2>2. Snapshot \in Payload
      <3>1. Snapshot = PayloadOf(feed, dispatchCounters, deadLetterQueue)
        BY DEF Snapshot, PayloadOf
      <3>. QED
        BY <3>1, PayloadType DEF Typed, TypeOK, Dispatch!TypeOK
    <2>3. \A p \in Payload, q \in Payload : Shows(p, q) =>
            [p EXCEPT !.newestEvent = 0] = [q EXCEPT !.newestEvent = 0]
      BY DEF Payload, Shows
    <2>. QED
      BY <2>1, <2>2, <2>3 DEF Shows
  <1>. QED
    BY <1>1, <1>2, PTL

(***************************************************************************)
(* The timeline tells what became of a command before it calls another     *)
(* submission of it a duplicate: by the time a request finds the outcome   *)
(* on file, the server is idle, so that the outcome has been recorded.     *)
(***************************************************************************)

Recorded == {s \in Submissions : stage[s] \in {"accounted", "replied"}}

Ordered ==
  /\ Follows(feed)
  /\ \A s \in Recorded : submissions[s].result.status # "duplicate" => Told(feed, KeyOf(s))
  /\ \A s \in Submissions :
       Resolved(s) /\ submissions[s].result.status = "duplicate" => Told(feed, KeyOf(s))

\* Two ways to speak of a command's key.
LEMMA KeySame ==
  ASSUME NEW s \in Submissions
  PROVE  /\ KeyOf(s) = Dispatch!IdempotencyKey(submissions[s].command)
         /\ submissions'[s].command = submissions[s].command => KeyOf(s)' = KeyOf(s)
  BY DEF KeyOf, Service!IdempotencyKey, Dispatch!IdempotencyKey

\* Recording more keeps the order.
LEMMA OrderedOn ==
  ASSUME Ordered, \A k : Told(feed, k) => Told(feed', k), Follows(feed'),
         UNCHANGED <<submissions, stage>>
  PROVE  Ordered'
  <1>1. \A s \in Submissions : KeyOf(s)' = KeyOf(s)
    BY KeySame
  <1>. QED
    BY <1>1 DEF Ordered, Recorded, Resolved, Service!Returned

LEMMA OrderedServiceStep ==
  ASSUME Typed, Ordered, NEW s \in Submissions, ServiceStep(s)
  PROVE  Ordered'
  <1>1. /\ Dispatch!Awaiting(s) /\ UNCHANGED <<stage, feed>>
        /\ \A t \in Submissions : t # s => submissions'[t] = submissions[t]
        /\ submissions'[s].command = submissions[s].command
        /\ \/ Dispatch!Awaiting(s)'
           \/ submissions'[s].result.status # "duplicate"
    BY ServiceChange DEF Typed, Concluded
  <1>2. stage[s] = "submitted"
    BY <1>1 DEF Typed, TypeOK, StagesAgree, Dispatch!Awaiting, Dispatch!Returned
  <1>3. \A t \in Submissions : KeyOf(t)' = KeyOf(t)
    BY <1>1, KeySame
  <1>4. Resolved(s)' => submissions'[s].result.status # "duplicate"
    BY <1>1 DEF Resolved, Service!Returned, Dispatch!Awaiting
  <1>. QED
    BY <1>1, <1>2, <1>3, <1>4 DEF Ordered, Recorded, Resolved, Service!Returned

LEMMA OrderedPost ==
  ASSUME Typed, Ordered, Dispatch!FiledHonestly, NEW s \in Submissions, NEW r \in Requests,
         Post(s, r)
  PROVE  Ordered'
  <1>0. r.command \in Commands /\ stage[s] = "idle" /\ Quiet /\ submissions[s] = None
    BY RequestTypes DEF Request, Post, Drained, Quiet, Typed, StagesAgree
  <1>1. CASE /\ Service!Submit(s, r.command) /\ stage' = [stage EXCEPT ![s] = "submitted"]
             /\ UNCHANGED feed
    <2>. DEFINE k == Dispatch!IdempotencyKey(r.command)
    <2>1. /\ \A t \in Submissions : t # s => submissions'[t] = submissions[t]
          /\ submissions'[s].command = r.command
          /\ Dispatch!Awaiting(s)' \/ dispatchOutcomes[k] # None
      BY <1>0, <1>1, SubmitChange DEF Typed
    <2>2. KeyOf(s)' = k
      BY <2>1 DEF KeyOf, Service!IdempotencyKey, Dispatch!IdempotencyKey
    <2>3. ASSUME dispatchOutcomes[k] # None PROVE Told(feed, k)
      <3>1. k \in Dispatch!Keys
        BY <1>0, Dispatch!KeyType, DispatchAssumptions
      <3>2. PICK t \in Submissions : Dispatch!ReturnedUnder(t, k, dispatchOutcomes[k])
        BY <2>3, <3>1 DEF Dispatch!FiledHonestly
      <3>3. /\ Dispatch!Returned(t) /\ submissions[t].result = dispatchOutcomes[k]
            /\ KeyOf(t) = k
        BY <3>2, KeySame DEF Dispatch!ReturnedUnder
      <3>4. t \in Recorded
        BY <1>0, <3>3, SameSteps
        DEF Recorded, Quiet, Resolved, Typed, TypeOK, StagesAgree, Dispatch!Returned
      <3>5. submissions[t].result.status # "duplicate"
        <4>1. dispatchOutcomes[k] \in Dispatch!Outcome
          BY <2>3, <3>1 DEF Typed, Dispatch!TypeOK
        <4>. QED
          BY <3>3, <4>1 DEF Dispatch!Outcome
      <3>. QED
        BY <3>3, <3>4, <3>5 DEF Ordered
    <2>4. \A t \in Submissions : t # s => KeyOf(t)' = KeyOf(t)
      BY <2>1, KeySame
    <2>5. Resolved(s)' => Told(feed, k)
      BY <2>1, <2>3 DEF Resolved, Service!Returned, Dispatch!Awaiting
    <2>. HIDE DEF k
    <2>6. ASSUME NEW t \in Submissions
          PROVE  /\ t \in Recorded' => t # s /\ t \in Recorded
                 /\ t # s /\ Resolved(t)' => Resolved(t)
      BY <1>1, <2>1 DEF Recorded, Resolved, Service!Returned, Typed, TypeOK
    <2>. QED
      BY <1>1, <2>1, <2>2, <2>4, <2>5, <2>6 DEF Ordered, Recorded
  <1>2. CASE /\ feed' = RecordEvent(feed, "blocked", None)
             /\ stage' = [stage EXCEPT ![s] = "blocked"]
             /\ UNCHANGED serviceVars
    <2>1. /\ \A k : Told(feed, k) => Told(feed', k)
          /\ Follows(feed) => Follows(feed')
      BY <1>2, RecordEventTells DEF Typed, EventKind
    <2>2. \A t \in Submissions : KeyOf(t)' = KeyOf(t)
      BY <1>2, KeySame DEF serviceVars
    <2>3. ASSUME NEW t \in Submissions
          PROVE  (t \in Recorded' => t \in Recorded) /\ (Resolved(t)' => Resolved(t))
      BY <1>2 DEF Recorded, Resolved, Service!Returned, Typed, TypeOK, serviceVars
    <2>. QED
      BY <1>2, <2>1, <2>2, <2>3 DEF Ordered, Recorded, serviceVars
  <1>. QED
    BY <1>1, <1>2 DEF Post

LEMMA OrderedAccount ==
  ASSUME Typed, Ordered, NEW s \in Submissions, Account(s)
  PROVE  Ordered'
  <1>. DEFINE kind == submissions[s].result.status
              key == KeyOf(s)
  <1>1. /\ Dispatch!Returned(s) /\ feed' = RecordEvent(feed, kind, key)
        /\ stage' = [stage EXCEPT ![s] = "accounted"] /\ submissions' = submissions
    BY SameSteps DEF Account, Resolved
  <1>2. kind \in Counter /\ key \in Service!Keys
    BY <1>1, ReturnedType
  <1>3. kind = "duplicate" => Told(feed, key)
    BY DEF Account, Ordered
  <1>4. \A t \in Submissions : KeyOf(t)' = KeyOf(t)
    BY <1>1, KeySame
  <1>5. ASSUME NEW t \in Submissions
        PROVE  (t \in Recorded' => t = s \/ t \in Recorded) /\ (Resolved(t)' => Resolved(t))
    BY <1>1 DEF Recorded, Resolved, Service!Returned, Typed, TypeOK
  <1>. HIDE DEF kind, key
  <1>6. /\ \A k : Told(feed, k) => Told(feed', k)
        /\ kind # "duplicate" => Told(feed', key)
        /\ Follows(feed')
    BY <1>1, <1>2, <1>3, RecordEventTells DEF Typed, Ordered, EventKind, Counter
  <1>. QED
    BY <1>1, <1>4, <1>5, <1>6 DEF Ordered, Recorded, kind, key

LEMMA OrderedStep == ASSUME Typed, Ordered, Dispatch!FiledHonestly, [Next]_vars PROVE Ordered'
  <1>1. ASSUME NEW s \in Submissions, Reply(s) PROVE Ordered'
    <2>1. /\ UNCHANGED <<submissions, feed>> /\ stage[s] = "accounted"
          /\ stage' = [stage EXCEPT ![s] = "replied"]
      BY <1>1 DEF Reply
    <2>2. \A t \in Submissions : KeyOf(t)' = KeyOf(t)
      BY <2>1, KeySame
    <2>3. ASSUME NEW t \in Submissions
          PROVE  (t \in Recorded' => t \in Recorded) /\ (Resolved(t)' => Resolved(t))
      BY <2>1 DEF Recorded, Resolved, Service!Returned, Typed, TypeOK
    <2>. QED
      BY <2>1, <2>2, <2>3 DEF Ordered, Recorded
  <1>2. CASE Tick
    BY <1>2, RecordFrameTells, OrderedOn DEF Tick, Typed, Ordered
  <1>3. CASE UNCHANGED <<submissions, stage, feed>>
    BY <1>3, OrderedOn DEF Ordered
  <1>. QED
    BY <1>1, <1>2, <1>3, OrderedServiceStep, OrderedPost, OrderedAccount
    DEF Next, Handle, Connect, Disconnect, vars

\* The timeline calls a command a duplicate only after it has said what became
\* of the first, however many submissions of the command overlap.
THEOREM DuplicatesFollow == Spec => []DuplicateFollows
  <1>1. Init => Typed /\ Ordered /\ Dispatch!FiledHonestly /\ Dispatch!DuplicateHonest
    <2>. SUFFICES ASSUME Init
                  PROVE  Ordered /\ Dispatch!FiledHonestly /\ Dispatch!DuplicateHonest
      BY TypedInit
    <2>1. Ordered
      BY FirstFeed DEF Init, Ordered, Recorded, Resolved
    <2>2. Dispatch!Init
      BY SameInit DEF Init
    <2>. QED
      BY <2>1, <2>2
      DEF Dispatch!Init, Dispatch!FiledHonestly, Dispatch!DuplicateHonest, Dispatch!Returned
  <1>2. Typed /\ Ordered /\ Dispatch!FiledHonestly /\ Dispatch!DuplicateHonest /\ [Next]_vars
          => Typed' /\ Ordered' /\ Dispatch!FiledHonestly' /\ Dispatch!DuplicateHonest'
    <2>. SUFFICES ASSUME Typed, Ordered, Dispatch!FiledHonestly, Dispatch!DuplicateHonest,
                         [Next]_vars
                  PROVE  Dispatch!FiledHonestly' /\ Dispatch!DuplicateHonest'
      BY TypedStep, OrderedStep
    <2>. QED
      BY ServiceMoves, Dispatch!HonestyStep, DispatchAssumptions DEF Typed
  <1>3. Typed /\ Ordered => DuplicateFollows
    <2>. SUFFICES ASSUME Typed, Ordered, NEW j \in DOMAIN feed.events, Trimmed(feed)
                  PROVE  feed.events[1].id > 1
      BY DEF Ordered, Follows, DuplicateFollows
    <2>1. feed.events \in Seq(Event) /\ feed.nextEventId \in Nat \ {0}
      BY DEF Typed, FeedOK, Feed
    <2>2. 1 \in DOMAIN feed.events /\ Len(feed.events) \in Nat
      BY <2>1
    <2>3. Len(feed.events) < feed.nextEventId - 1
      BY <2>1, <2>2, BufferSizes DEF Typed, FeedOK, Newest, Trimmed
    <2>4. feed.events[1].id = feed.nextEventId - 1 - Len(feed.events) + 1
      BY <2>2 DEF Typed, FeedOK
    <2>. QED
      BY <2>1, <2>2, <2>3, <2>4
  <1>. QED
    BY <1>1, <1>2, <1>3, PTL DEF Spec

(***************************************************************************)
(* The counters.                                                           *)
(***************************************************************************)

RecordedAs(c) == {s \in Submissions :
  stage[s] \in {"accounted", "replied"} /\ submissions[s].result.status = c}

DeadUnrecorded == {s \in Submissions :
  Resolved(s) /\ submissions[s].result.status = "dead-letter"}

Counted ==
  /\ \A c \in Counter : /\ IsFiniteSet(RecordedAs(c))
                        /\ dispatchCounters[c] = Cardinality(RecordedAs(c))
  /\ IsFiniteSet(DeadUnrecorded)
  /\ dispatchCounters["dead-letter"] + Cardinality(DeadUnrecorded) = Len(deadLetterQueue)

LEMMA CountedInit == Init => Counted
  <1>. SUFFICES ASSUME Init PROVE Counted
    OBVIOUS
  <1>1. DeadUnrecorded = {} /\ \A c : RecordedAs(c) = {}
    BY DEF Init, DeadUnrecorded, RecordedAs, Resolved
  <1>2. deadLetterQueue = << >>
    BY SameInit DEF Init, Dispatch!Init
  <1>3. /\ \A c \in Counter : dispatchCounters[c] = 0
        /\ dispatchCounters["dead-letter"] = 0
    BY DEF Init, Counter
  <1>4. IsFiniteSet({}) /\ Cardinality({}) = 0 /\ Len(deadLetterQueue) = 0
    BY <1>2, FS_EmptySet
  <1>. QED
    BY <1>1, <1>3, <1>4 DEF Counted

\* Nothing counted changes.
LEMMA CountedOn ==
  ASSUME Counted, \A c : RecordedAs(c)' = RecordedAs(c), DeadUnrecorded' = DeadUnrecorded,
         UNCHANGED dispatchCounters, Len(deadLetterQueue') = Len(deadLetterQueue)
  PROVE  Counted'
  BY DEF Counted

LEMMA CountedServiceStep ==
  ASSUME Typed, Counted, NEW s \in Submissions, ServiceStep(s)
  PROVE  Counted'
  <1>1. /\ Dispatch!Awaiting(s) /\ UNCHANGED <<stage, dispatchCounters>>
        /\ \A t \in Submissions : t # s => submissions'[t] = submissions[t]
        /\ \/ Dispatch!Awaiting(s)' /\ UNCHANGED deadLetterQueue
           \/ \E o : Concluded(s, o)
    BY ServiceChange DEF Typed
  <1>2. stage[s] = "submitted" /\ s \notin DeadUnrecorded
    BY <1>1 DEF Typed, TypeOK, StagesAgree, Dispatch!Awaiting, Dispatch!Returned,
                DeadUnrecorded, Resolved, Service!Returned
  <1>3. \A c : RecordedAs(c)' = RecordedAs(c)
    BY <1>1, <1>2 DEF RecordedAs
  <1>4. \A t \in Submissions : t # s => (t \in DeadUnrecorded' <=> t \in DeadUnrecorded)
    BY <1>1 DEF DeadUnrecorded, Resolved, Service!Returned
  <1>5. DeadUnrecorded \subseteq Submissions /\ DeadUnrecorded' \subseteq Submissions
    BY DEF DeadUnrecorded
  <1>6. CASE Dispatch!Awaiting(s)' /\ UNCHANGED deadLetterQueue
    <2>1. s \notin DeadUnrecorded'
      BY <1>6 DEF DeadUnrecorded, Resolved, Service!Returned, Dispatch!Awaiting
    <2>2. DeadUnrecorded' = DeadUnrecorded
      BY <1>2, <1>4, <1>5, <2>1
    <2>. QED
      BY <1>1, <1>3, <1>6, <2>2, CountedOn
  <1>7. ASSUME NEW o, Concluded(s, o), o.status = "dispatched", deadLetterQueue' = deadLetterQueue
        PROVE  Counted'
    <2>1. s \notin DeadUnrecorded'
      BY <1>7 DEF DeadUnrecorded, Concluded
    <2>2. DeadUnrecorded' = DeadUnrecorded
      BY <1>2, <1>4, <1>5, <2>1
    <2>. QED
      BY <1>1, <1>3, <1>7, <2>2, CountedOn
  <1>8. ASSUME NEW o, Concluded(s, o), o.status = "dead-letter",
               NEW x, deadLetterQueue' = Append(deadLetterQueue, x)
        PROVE  Counted'
    <2>1. s \in DeadUnrecorded'
      BY <1>1, <1>2, <1>8
      DEF DeadUnrecorded, Concluded, Resolved, Service!Returned, Dispatch!Returned
    <2>2. DeadUnrecorded' = DeadUnrecorded \union {s}
      BY <1>2, <1>4, <1>5, <2>1
    <2>3. /\ IsFiniteSet(DeadUnrecorded')
          /\ Cardinality(DeadUnrecorded') = Cardinality(DeadUnrecorded) + 1
          /\ Cardinality(DeadUnrecorded) \in Nat
      BY <1>2, <2>2, FS_AddElement, FS_CardinalityType DEF Counted
    <2>4. Len(deadLetterQueue') = Len(deadLetterQueue) + 1 /\ Len(deadLetterQueue) \in Nat
      <3>1. deadLetterQueue \in Seq(Dispatch!DeadLetterEntry)
        BY DEF Typed, Dispatch!TypeOK
      <3>2. deadLetterQueue' \in Seq(Dispatch!DeadLetterEntry \union {x})
        BY <1>8, <3>1
      <3>. QED
        BY <1>8, <3>1
    <2>5. dispatchCounters["dead-letter"] \in Nat
      BY DEF Typed, TypeOK, Counter
    <2>6. dispatchCounters["dead-letter"] + Cardinality(DeadUnrecorded')
            = Len(deadLetterQueue')
      BY <2>3, <2>4, <2>5 DEF Counted
    <2>. QED
      BY <1>1, <1>3, <2>3, <2>6 DEF Counted
  <1>. QED
    BY <1>1, <1>6, <1>7, <1>8 DEF Concluded

LEMMA CountedPost ==
  ASSUME Typed, Counted, NEW s \in Submissions, NEW r \in Requests, Post(s, r)
  PROVE  Counted'
  <1>0. /\ r.command \in Commands /\ stage[s] = "idle" /\ submissions[s] = None
        /\ UNCHANGED dispatchCounters
    BY RequestTypes DEF Request, Post, Typed, StagesAgree
  <1>1. /\ stage'[s] \in {"submitted", "blocked"}
        /\ \A t \in Submissions : t # s => /\ stage'[t] = stage[t]
                                           /\ submissions'[t] = submissions[t]
        /\ UNCHANGED deadLetterQueue
        /\ Resolved(s)' => submissions'[s].result.status # "dead-letter"
    <2>1. CASE Service!Submit(s, r.command) /\ stage' = [stage EXCEPT ![s] = "submitted"]
      <3>1. /\ \A t \in Submissions : t # s => submissions'[t] = submissions[t]
            /\ UNCHANGED deadLetterQueue
            /\ Dispatch!Awaiting(s)' \/ submissions'[s].result.status = "duplicate"
        BY <1>0, <2>1, SubmitChange DEF Typed
      <3>. QED
        BY <2>1, <3>1 DEF Typed, TypeOK, Resolved, Service!Returned, Dispatch!Awaiting
    <2>2. CASE stage' = [stage EXCEPT ![s] = "blocked"] /\ UNCHANGED serviceVars
      BY <2>2 DEF Typed, TypeOK, Resolved, serviceVars
    <2>. QED
      BY <1>0, <2>1, <2>2 DEF Post
  <1>2. \A c : RecordedAs(c)' = RecordedAs(c)
    BY <1>0, <1>1 DEF RecordedAs
  <1>3. DeadUnrecorded' = DeadUnrecorded
    BY <1>0, <1>1 DEF DeadUnrecorded, Resolved, Service!Returned
  <1>. QED
    BY <1>0, <1>1, <1>2, <1>3, CountedOn

LEMMA CountedAccount ==
  ASSUME Typed, Counted, NEW s \in Submissions, Account(s)
  PROVE  Counted'
  <1>0. PICK kind : kind = submissions[s].result.status
    OBVIOUS
  <1>1. /\ Resolved(s) /\ stage[s] = "submitted" /\ Dispatch!Returned(s)
        /\ dispatchCounters' = [dispatchCounters EXCEPT ![kind] = @ + 1]
        /\ stage' = [stage EXCEPT ![s] = "accounted"]
        /\ UNCHANGED <<submissions, deadLetterQueue>>
    BY <1>0, SameSteps DEF Account, Resolved
  <1>2. kind \in Counter
    BY <1>0, <1>1, ReturnedType
  <1>3. /\ RecordedAs(kind)' = RecordedAs(kind) \union {s} /\ s \notin RecordedAs(kind)
        /\ \A c \in Counter \ {kind} : RecordedAs(c)' = RecordedAs(c)
    BY <1>0, <1>1 DEF RecordedAs, Typed, TypeOK
  <1>4. /\ DeadUnrecorded' = DeadUnrecorded \ {s}
        /\ s \in DeadUnrecorded <=> kind = "dead-letter"
    BY <1>0, <1>1 DEF DeadUnrecorded, Resolved, Service!Returned, Typed, TypeOK
  <1>5. dispatchCounters \in [Counter -> Nat] /\ "dead-letter" \in Counter
    BY DEF Typed, TypeOK, Counter
  <1>6. ASSUME NEW c \in Counter
        PROVE  /\ IsFiniteSet(RecordedAs(c)')
               /\ dispatchCounters'[c] = Cardinality(RecordedAs(c)')
    <2>1. IsFiniteSet(RecordedAs(c)) /\ dispatchCounters[c] = Cardinality(RecordedAs(c))
      BY DEF Counted
    <2>2. CASE c = kind
      <3>1. /\ IsFiniteSet(RecordedAs(c)')
            /\ Cardinality(RecordedAs(c)') = Cardinality(RecordedAs(c)) + 1
        BY <1>3, <2>1, <2>2, FS_AddElement
      <3>. QED
        BY <1>1, <1>5, <2>1, <2>2, <3>1
    <2>3. CASE c # kind
      BY <1>1, <1>3, <1>5, <2>1, <2>3
    <2>. QED
      BY <2>2, <2>3
  <1>7. /\ IsFiniteSet(DeadUnrecorded')
        /\ Cardinality(DeadUnrecorded) \in Nat
        /\ Cardinality(DeadUnrecorded') =
             IF kind = "dead-letter" THEN Cardinality(DeadUnrecorded) - 1
             ELSE Cardinality(DeadUnrecorded)
    BY <1>4, FS_RemoveElement, FS_CardinalityType DEF Counted
  <1>8. dispatchCounters'["dead-letter"] + Cardinality(DeadUnrecorded') = Len(deadLetterQueue')
    <2>1. dispatchCounters'["dead-letter"] =
            IF kind = "dead-letter" THEN dispatchCounters["dead-letter"] + 1
            ELSE dispatchCounters["dead-letter"]
      BY <1>1, <1>2, <1>5
    <2>2. /\ dispatchCounters["dead-letter"] + Cardinality(DeadUnrecorded) = Len(deadLetterQueue)
          /\ dispatchCounters["dead-letter"] \in Nat
          /\ Len(deadLetterQueue') = Len(deadLetterQueue)
      BY <1>1, <1>5 DEF Counted
    <2>. QED
      BY <1>7, <2>1, <2>2
  <1>. QED
    BY <1>6, <1>7, <1>8 DEF Counted

LEMMA CountedStep == ASSUME Typed, Counted, [Next]_vars PROVE Counted'
  <1>1. ASSUME NEW s \in Submissions, Reply(s) PROVE Counted'
    <2>1. /\ UNCHANGED <<submissions, deadLetterQueue, dispatchCounters>>
          /\ stage[s] = "accounted" /\ stage' = [stage EXCEPT ![s] = "replied"]
      BY <1>1 DEF Reply
    <2>2. /\ \A c : RecordedAs(c)' = RecordedAs(c)
          /\ DeadUnrecorded' = DeadUnrecorded
      BY <2>1 DEF RecordedAs, DeadUnrecorded, Resolved, Service!Returned, Typed, TypeOK
    <2>. QED
      BY <2>1, <2>2, CountedOn
  <1>2. CASE UNCHANGED <<submissions, deadLetterQueue, stage, dispatchCounters>>
    <2>1. /\ \A c : RecordedAs(c)' = RecordedAs(c)
          /\ DeadUnrecorded' = DeadUnrecorded
      BY <1>2 DEF RecordedAs, DeadUnrecorded, Resolved, Service!Returned
    <2>. QED
      BY <1>2, <2>1, CountedOn
  <1>. QED
    BY <1>1, <1>2, CountedServiceStep, CountedPost, CountedAccount
    DEF Next, Handle, Tick, Connect, Disconnect, vars

\* Each outcome is counted once, and the dead letters counted, with those about
\* to be, are the ones in the queue, however many requests overlap.
THEOREM CountersKept == Spec => []CountersAgree
  <1>1. Spec => [](Typed /\ Counted)
    BY TypedInit, CountedInit, TypedStep, CountedStep, PTL DEF Spec
  <1>2. Counted => CountersAgree
    BY DEF Counted, RecordedAs, DeadUnrecorded, CountersAgree
  <1>. QED
    BY <1>1, <1>2, PTL

(***************************************************************************)
(* What the dispatch service promises, it keeps inside Mission Control.    *)
(***************************************************************************)

\* Whatever Mission Control does, its dispatch service takes a step of
\* CommandDispatch or stays as it is.
THEOREM ServiceInside == Spec => Service!Init /\ [][Service!Next]_(Service!vars)
  <1>1. Init => Service!Init
    BY DEF Init
  <1>2. Typed /\ [Next]_vars => [Service!Next]_(Service!vars)
    <2>. SUFFICES ASSUME Typed, [Next]_vars PROVE [Service!Next]_(Service!vars)
      OBVIOUS
    <2>1. [Dispatch!Next]_(Dispatch!vars)
      BY ServiceMoves
    <2>2. Dispatch!Next => Service!Next
      BY SameSteps, SameTypes DEF Dispatch!Next, Service!Next
    <2>3. UNCHANGED Dispatch!vars => UNCHANGED Service!vars
      BY DEF Dispatch!vars, Service!vars
    <2>. QED
      BY <2>1, <2>2, <2>3
  <1>. QED
    BY <1>1, <1>2, TypedInit, TypedStep, PTL DEF Spec

LEMMA DispatchSteps == Spec => Dispatch!Steps
  <1>1. Init => Dispatch!Init
    BY SameInit DEF Init
  <1>2. Typed /\ [Next]_vars => [Dispatch!Next]_(Dispatch!vars)
    BY ServiceMoves
  <1>. QED
    BY <1>1, <1>2, TypedInit, TypedStep, PTL DEF Spec, Dispatch!Steps

LEMMA SameCount ==
  ASSUME NEW S
  PROVE  Service!Cardinality(S) = Dispatch!Cardinality(S)
  BY DEF Service!Cardinality, Dispatch!Cardinality

LEMMA SamePromises ==
  /\ Dispatch!DuplicateHonest => Service!DuplicateHonest
  /\ Dispatch!RetriesUsedUp => Service!RetriesUsedUp
  /\ Dispatch!DeadLettersAccounted => Service!DeadLettersAccounted
  <1>1. Dispatch!DuplicateHonest => Service!DuplicateHonest
    BY DEF Dispatch!DuplicateHonest, Service!DuplicateHonest, Dispatch!Returned,
           Service!Returned, Dispatch!SameRequest, Service!SameRequest
  <1>2. Dispatch!RetriesUsedUp => Service!RetriesUsedUp
    BY DEF Dispatch!RetriesUsedUp, Service!RetriesUsedUp
  <1>3. Dispatch!DeadLettersAccounted => Service!DeadLettersAccounted
    BY SameCount DEF Dispatch!DeadLettersAccounted, Service!DeadLettersAccounted,
                     Dispatch!Returned, Service!Returned
  <1>. QED
    BY <1>1, <1>2, <1>3

\* Whoever asks for what, and however their requests overlap: duplicates are
\* told the truth, nothing transient is given up before three attempts, and the
\* queue has one dead letter for each command that was given up.
THEOREM ServicePromises ==
  Spec => [](Service!DuplicateHonest /\ Service!RetriesUsedUp /\ Service!DeadLettersAccounted)
  <1>1. Dispatch!Steps => []Dispatch!DuplicateHonest
    BY DispatchAssumptions, Dispatch!HonestyHolds
  <1>2. Dispatch!Steps => []Dispatch!RetriesUsedUp
    BY DispatchAssumptions, Dispatch!RetriesHold
  <1>3. Dispatch!Steps => []Dispatch!DeadLettersAccounted
    BY DispatchAssumptions, Dispatch!DeadLettersHold
  <1>. QED
    BY <1>1, <1>2, <1>3, DispatchSteps, SamePromises, PTL

WorkingNow == [k \in Service!Keys |-> Service!Working(k)]

ClosedNow == {k \in Service!Keys : dispatchOutcomes[k] # None}

LEMMA SameLedger ==
  /\ Dispatch!WorkingNow = WorkingNow /\ Dispatch!ClosedNow = ClosedNow
  /\ Dispatch!WorkingNow' = WorkingNow' /\ Dispatch!ClosedNow' = ClosedNow'
  <1>1. \A k : Dispatch!Working(k) = Service!Working(k) /\ Dispatch!Working(k)' = Service!Working(k)'
    BY DEF Dispatch!Working, Service!Working, Dispatch!Awaiting, Service!Awaiting,
           Dispatch!IdempotencyKey, Service!IdempotencyKey
  <1>. QED
    BY <1>1, SameTypes DEF Dispatch!WorkingNow, WorkingNow, Dispatch!ClosedNow, ClosedNow

\* Once one request has ended under a key, no other puts the executor to work
\* under it again.
THEOREM ServiceKeepsLedger == Spec => Service!Ledger!Safety
  <1>1. Init => Service!Ledger!Init
    <2>. SUFFICES ASSUME Init PROVE Service!Ledger!Init
      OBVIOUS
    <2>1. \A s \in Submissions : submissions[s] = None
      BY SameInit DEF Init, Dispatch!Init
    <2>2. \A k \in Service!Keys : dispatchOutcomes[k] = None
      BY SameInit, SameTypes DEF Init, Dispatch!Init
    <2>. QED
      BY <2>1, <2>2 DEF Service!Ledger!Init, Service!Working, Service!Awaiting
  <1>2. Typed /\ [Next]_vars => [Service!Ledger!Next]_<<WorkingNow, ClosedNow>>
    <2>. SUFFICES ASSUME Typed, [Next]_vars
                  PROVE  \/ Service!Ledger!Next
                         \/ WorkingNow' = WorkingNow /\ ClosedNow' = ClosedNow
      OBVIOUS
    <2>1. \/ Dispatch!Ledger!Next
          \/ Dispatch!WorkingNow' = Dispatch!WorkingNow /\ Dispatch!ClosedNow' = Dispatch!ClosedNow
      BY ServiceMoves, DispatchAssumptions, Dispatch!LedgerStep DEF Typed
    <2>2. Dispatch!Ledger!Next => Service!Ledger!Next
      BY SameLedger, SameTypes
      DEF Dispatch!Ledger!Next, Service!Ledger!Next, Dispatch!Ledger!Begin, Service!Ledger!Begin,
          Dispatch!Ledger!End, Service!Ledger!End, WorkingNow, ClosedNow, Dispatch!WorkingNow,
          Dispatch!ClosedNow
    <2>. QED
      BY <2>1, <2>2, SameLedger
  <1>. QED
    BY <1>1, <1>2, TypedInit, TypedStep, PTL DEF Spec, Service!Ledger!Safety, WorkingNow, ClosedNow

(***************************************************************************)
(* Nothing reaches the service but what was admitted.                      *)
(***************************************************************************)

AskedFor(c) ==
  \E s \in Submissions :
    submissions[s] # None /\ requests[s].command = c /\ Admitted(requests[s])

\* Each submission is of the command its request names, and was admitted; so
\* were the commands on file and in the queue.
Traced ==
  /\ \A s \in Submissions :
       submissions[s] # None =>
         requests[s].command = submissions[s].command /\ Admitted(requests[s])
  /\ \A k \in Dispatch!Keys : dispatchOutcomes[k] # None => AskedFor(dispatchOutcomes[k].command)
  /\ \A i \in DOMAIN deadLetterQueue : AskedFor(deadLetterQueue[i].command)

\* What was asked for stays so, when no submission is dropped.
LEMMA AskedKept ==
  ASSUME NEW c, AskedFor(c),
         \A s \in Submissions : submissions[s] # None =>
           submissions'[s] # None /\ requests'[s] = requests[s]
  PROVE  AskedFor(c)'
  <1>1. PICK s \in Submissions :
          submissions[s] # None /\ requests[s].command = c /\ Admitted(requests[s])
    BY DEF AskedFor
  <1>2. requests'[s] = requests[s] /\ submissions'[s] # None
    BY <1>1
  <1>. QED
    BY <1>1, <1>2 DEF AskedFor, Admitted

\* Filing or queueing what submission s asked for.
LEMMA TracedServiceStep ==
  ASSUME Typed, Traced, NEW s \in Submissions, ServiceStep(s)
  PROVE  Traced'
  <1>1. /\ Dispatch!Awaiting(s) /\ UNCHANGED requests
        /\ \A t \in Submissions : t # s => submissions'[t] = submissions[t]
        /\ submissions'[s].command = submissions[s].command
        /\ submissions'[s] # None
    BY ServiceChange DEF Typed, Concluded, Dispatch!Awaiting, Dispatch!Returned
  <1>2. \A c : AskedFor(c) => AskedFor(c)'
    BY <1>1, AskedKept
  <1>3. AskedFor(submissions[s].command)
    BY <1>1 DEF Traced, AskedFor, Dispatch!Awaiting
  <1>4. \A t \in Submissions : submissions'[t] # None =>
          requests'[t].command = submissions'[t].command /\ Admitted(requests[t])'
    <2>. SUFFICES ASSUME NEW t \in Submissions, submissions'[t] # None
                  PROVE  requests'[t].command = submissions'[t].command /\ Admitted(requests[t])'
      OBVIOUS
    <2>1. submissions[t] # None /\ submissions'[t].command = submissions[t].command
      BY <1>1 DEF Dispatch!Awaiting
    <2>. QED
      BY <1>1, <2>1 DEF Traced, Admitted
  <1>5. \/ UNCHANGED <<dispatchOutcomes, deadLetterQueue>>
        \/ \E o \in Dispatch!Outcome :
             /\ Dispatch!Concludes(s, o)
             /\ \/ UNCHANGED deadLetterQueue
                \/ deadLetterQueue' = Append(deadLetterQueue, Dispatch!EntryOf(s))
    <2>1. Dispatch!Resume(s) \/ \E a \in Dispatch!Answers : Dispatch!Settle(s, a)
      BY SameTypes, SameSteps DEF ServiceStep
    <2>. QED
      BY <2>1, Dispatch!StepShape, DispatchAssumptions
      DEF Typed, Dispatch!Starts, Dispatch!Waits, Dispatch!Goes
  <1>6. CASE UNCHANGED <<dispatchOutcomes, deadLetterQueue>>
    BY <1>2, <1>4, <1>6 DEF Traced
  <1>7. ASSUME NEW o \in Dispatch!Outcome, Dispatch!Concludes(s, o),
               \/ UNCHANGED deadLetterQueue
               \/ deadLetterQueue' = Append(deadLetterQueue, Dispatch!EntryOf(s))
        PROVE  Traced'
    <2>1. o.command = submissions[s].command /\ Dispatch!EntryOf(s).command = submissions[s].command
      BY <1>7 DEF Dispatch!Concludes, Dispatch!EntryOf
    <2>2. \A k \in Dispatch!Keys : dispatchOutcomes'[k] \in {dispatchOutcomes[k], o}
      BY <1>7 DEF Dispatch!Concludes, Dispatch!Conclude, Typed, Dispatch!TypeOK
    <2>3. \A k \in Dispatch!Keys :
            dispatchOutcomes'[k] # None => AskedFor(dispatchOutcomes[k].command)'
      <3>. SUFFICES ASSUME NEW k \in Dispatch!Keys, dispatchOutcomes'[k] # None
                    PROVE  AskedFor(dispatchOutcomes[k].command)'
        OBVIOUS
      <3>1. PICK c : c = dispatchOutcomes'[k].command
        OBVIOUS
      <3>2. AskedFor(c)
        BY <1>3, <2>1, <2>2, <3>1 DEF Traced
      <3>3. AskedFor(c)'
        BY <1>2, <3>2
      <3>. QED
        BY <3>1, <3>3 DEF AskedFor
    <2>4. \A i \in DOMAIN deadLetterQueue' :
            deadLetterQueue'[i] \in {Dispatch!EntryOf(s)} \union {deadLetterQueue[j] : j \in DOMAIN deadLetterQueue}
      BY <1>7 DEF Typed, Dispatch!TypeOK
    <2>5. \A i \in DOMAIN deadLetterQueue' : AskedFor(deadLetterQueue[i].command)'
      <3>. SUFFICES ASSUME NEW i \in DOMAIN deadLetterQueue'
                    PROVE  AskedFor(deadLetterQueue[i].command)'
        OBVIOUS
      <3>1. PICK c : c = deadLetterQueue'[i].command
        OBVIOUS
      <3>2. AskedFor(c)
        BY <1>3, <2>1, <2>4, <3>1 DEF Traced
      <3>3. AskedFor(c)'
        BY <1>2, <3>2
      <3>. QED
        BY <3>1, <3>3 DEF AskedFor
    <2>. QED
      BY <1>4, <2>3, <2>5 DEF Traced
  <1>. QED
    BY <1>5, <1>6, <1>7

LEMMA TracedPost ==
  ASSUME Typed, Traced, NEW s \in Submissions, NEW r \in Requests, Post(s, r)
  PROVE  Traced'
  <1>1. /\ r \in Request /\ r.command \in Commands /\ stage[s] = "idle"
        /\ submissions[s] = None /\ requests' = [requests EXCEPT ![s] = r]
    BY RequestTypes DEF Request, Post, Typed, StagesAgree
  <1>2. /\ requests'[s] = r /\ \A t \in Submissions : t # s => requests'[t] = requests[t]
        /\ UNCHANGED <<dispatchOutcomes, deadLetterQueue>>
        /\ \A t \in Submissions : t # s => submissions'[t] = submissions[t]
        /\ submissions'[s] # None => submissions'[s].command = r.command /\ Admitted(r)
    <2>1. CASE Admitted(r) /\ Service!Submit(s, r.command)
      BY <1>1, <2>1, SubmitChange DEF Typed, TypeOK
    <2>2. CASE UNCHANGED serviceVars
      BY <1>1, <2>2 DEF Typed, TypeOK, serviceVars
    <2>. QED
      BY <2>1, <2>2 DEF Post
  <1>3. \A c : AskedFor(c) => AskedFor(c)'
    <2>1. \A t \in Submissions : submissions[t] # None =>
            submissions'[t] # None /\ requests'[t] = requests[t]
      BY <1>1, <1>2
    <2>. QED
      BY <2>1, AskedKept
  <1>4. \A t \in Submissions : submissions'[t] # None =>
          requests'[t].command = submissions'[t].command /\ Admitted(requests[t])'
    BY <1>2 DEF Traced, Admitted
  <1>. QED
    BY <1>2, <1>3, <1>4 DEF Traced

LEMMA TracedStep == ASSUME Typed, Traced, [Next]_vars PROVE Traced'
  <1>1. CASE UNCHANGED <<submissions, dispatchOutcomes, deadLetterQueue, requests>>
    <2>1. \A c : AskedFor(c) => AskedFor(c)'
      BY <1>1, AskedKept
    <2>. QED
      BY <1>1, <2>1 DEF Traced, Admitted
  <1>. QED
    BY <1>1, TracedServiceStep, TracedPost
    DEF Next, Handle, Account, Reply, Tick, Connect, Disconnect, vars

\* No command is on file or in the dead-letter queue but one that a request
\* asked for under a control the policy accepts, or under none.
THEOREM OutcomesTraced == Spec => []OutcomesAdmitted
  <1>1. Init => Traced
    BY SameInit DEF Init, Dispatch!Init, Traced
  <1>2. Spec => [](Typed /\ Traced)
    BY <1>1, TypedInit, TypedStep, TracedStep, PTL DEF Spec
  <1>3. Traced => OutcomesAdmitted
    BY SameTypes DEF Traced, AskedFor, OutcomesAdmitted
  <1>. QED
    BY <1>2, <1>3, PTL

(***************************************************************************)
(* Nothing that was recorded or shown is taken back.                       *)
(***************************************************************************)

\* g goes on from f: what is on its timeline was on that of f, or is newer.
Later(f, g) ==
  /\ f.step <= g.step /\ f.nextEventId <= g.nextEventId
  /\ \A j \in DOMAIN g.events :
       \/ \E i \in DOMAIN f.events : g.events[j] = f.events[i]
       \/ g.events[j].id >= f.nextEventId

LEMMA LaterThan ==
  ASSUME NEW f, NEW g, NEW h, FeedOK(f), FeedOK(g), FeedOK(h), Later(f, g), Later(g, h)
  PROVE  Later(f, h)
  <1>1. /\ f.step \in Nat /\ g.step \in Nat /\ h.step \in Nat
        /\ f.nextEventId \in Nat /\ g.nextEventId \in Nat /\ h.nextEventId \in Nat
        /\ h.events \in Seq(Event)
    BY DEF FeedOK, Feed
  <1>2. ASSUME NEW j \in DOMAIN h.events
        PROVE  \/ \E i \in DOMAIN f.events : h.events[j] = f.events[i]
               \/ h.events[j].id >= f.nextEventId
    <2>1. h.events[j].id \in Nat
      <3>1. h.events[j] \in Event
        BY <1>1
      <3>. QED
        BY <3>1 DEF Event
    <2>2. \/ \E i \in DOMAIN g.events : h.events[j] = g.events[i]
          \/ h.events[j].id >= g.nextEventId
      BY <1>2 DEF Later
    <2>. QED
      BY <1>1, <2>1, <2>2 DEF Later
  <1>. QED
    BY <1>1, <1>2 DEF Later

LEMMA RecordEventAdds ==
  ASSUME NEW f, FeedOK(f), NEW kind \in EventKind, NEW key \in Service!Keys \union {None}
  PROVE  FeedOK(RecordEvent(f, kind, key)) /\ Later(f, RecordEvent(f, kind, key))
  <1>. PICK g : g = RecordEvent(f, kind, key)
    OBVIOUS
  <1>. PICK e : e = [id |-> f.nextEventId, kind |-> kind, key |-> key]
    OBVIOUS
  <1>1. /\ FeedOK(g) /\ g.step = f.step /\ g.nextEventId = f.nextEventId + 1
        /\ Grown(g.events, f.events, e)
    BY RecordEventKeeps
  <1>2. /\ f.step \in Nat /\ f.nextEventId \in Nat /\ e.id = f.nextEventId
        /\ Len(f.events) \in Nat /\ Len(g.events) \in Nat
        /\ DOMAIN g.events = 1..Len(g.events)
    BY <1>1 DEF FeedOK, Feed
  <1>3. ASSUME NEW j \in DOMAIN g.events
        PROVE  g.events[j] = e \/ \E i \in DOMAIN f.events : g.events[j] = f.events[i]
    BY <1>1, <1>2, <1>3, GrownPlaces
  <1>. QED
    BY <1>1, <1>2, <1>3 DEF Later

LEMMA RecordFrameAdds ==
  ASSUME NEW f, FeedOK(f)
  PROVE  Later(f, RecordFrame(f))
  <1>. PICK framed : framed = WithFrame(f)
    OBVIOUS
  <1>. PICK told : told = RecordEvent(framed, "telemetry", None)
    OBVIOUS
  <1>. PICK warned : warned = RecordEvent(told, "alarm", None)
    OBVIOUS
  <1>1. FeedOK(framed) /\ Later(f, framed)
    <2>1. /\ FeedOK(framed) /\ framed.step = f.step + 1
          /\ framed.events = f.events /\ framed.nextEventId = f.nextEventId
      BY WithFrameKeeps
    <2>2. f.step \in Nat /\ f.nextEventId \in Nat
      BY DEF FeedOK, Feed
    <2>. QED
      BY <2>1, <2>2 DEF Later
  <1>2. FeedOK(told) /\ Later(framed, told)
    BY <1>1, RecordEventAdds DEF EventKind
  <1>3. FeedOK(warned) /\ Later(told, warned)
    BY <1>2, RecordEventAdds DEF EventKind
  <1>4. Later(f, told)
    BY <1>1, <1>2, LaterThan
  <1>5. Later(f, warned)
    BY <1>2, <1>3, <1>4, LaterThan
  <1>. QED
    BY <1>4, <1>5, RecordFrameIs

LEMMA FeedForward == ASSUME Typed, [Next]_vars PROVE Later(feed, feed')
  <1>1. FeedOK(feed) /\ feed.step \in Nat /\ feed.nextEventId \in Nat
    BY DEF Typed, FeedOK, Feed
  <1>2. CASE feed' = feed
    BY <1>1, <1>2 DEF Later
  <1>3. CASE feed' = RecordEvent(feed, "blocked", None)
    BY <1>1, <1>3, RecordEventAdds DEF EventKind
  <1>4. CASE feed' = RecordFrame(feed)
    BY <1>1, <1>4, RecordFrameAdds
  <1>5. ASSUME NEW s \in Submissions, Account(s)
        PROVE  Later(feed, feed')
    <2>1. Dispatch!Returned(s)
      BY <1>5, SameSteps DEF Account, Resolved
    <2>2. submissions[s].result.status \in EventKind /\ KeyOf(s) \in Service!Keys
      BY <2>1, ReturnedType DEF Counter, EventKind
    <2>. QED
      BY <1>1, <1>5, <2>2, RecordEventAdds DEF Account
  <1>. QED
    BY <1>2, <1>3, <1>4, <1>5
    DEF Next, Handle, ServiceStep, Post, Reply, Tick, Connect, Disconnect, vars

\* An event on the timeline stays what it was until it leaves, and none that
\* comes takes its id.
THEOREM EventsStand == Spec => EventsFinal
  <1>. DEFINE Same == \A i \in DOMAIN feed.events, j \in DOMAIN feed'.events :
                        feed.events[i].id = feed'.events[j].id => feed.events[i] = feed'.events[j]
  <1>1. Typed /\ [Next]_vars => Same
    <2>. SUFFICES ASSUME Typed, [Next]_vars, NEW i \in DOMAIN feed.events,
                         NEW j \in DOMAIN feed'.events, feed.events[i].id = feed'.events[j].id
                  PROVE  feed.events[i] = feed'.events[j]
      OBVIOUS
    <2>1. /\ feed.events \in Seq(Event) /\ feed.nextEventId \in Nat
          /\ \A k \in DOMAIN feed.events :
               feed.events[k].id = feed.nextEventId - 1 - Len(feed.events) + k
      BY DEF Typed, FeedOK, Feed
    <2>2. Len(feed.events) \in Nat /\ DOMAIN feed.events = 1..Len(feed.events)
      BY <2>1
    <2>3. ~(feed'.events[j].id >= feed.nextEventId)
      BY <2>1, <2>2
    <2>4. PICK k \in DOMAIN feed.events : feed'.events[j] = feed.events[k]
      BY <2>3, FeedForward DEF Later
    <2>5. i = k
      BY <2>1, <2>2, <2>4
    <2>. QED
      BY <2>4, <2>5
  <1>. HIDE DEF Same
  <1>2. Typed /\ [Next]_vars => [Same]_vars
    BY <1>1
  <1>3. Spec => [][Same]_vars
    BY <1>2, TypedInit, TypedStep, PTL DEF Spec
  <1>. QED
    BY <1>3 DEF EventsFinal, Same

\* p is no later than q.
UpTo(p, q) ==
  /\ p.latestFrame <= q.latestFrame /\ p.newestEvent <= q.newestEvent
  /\ p.pendingDeadLetters <= q.pendingDeadLetters
  /\ \A c \in Counter : p.dispatch[c] <= q.dispatch[c]

LEMMA UpToTransitive ==
  ASSUME NEW p \in Payload, NEW q \in Payload, NEW r \in Payload, UpTo(p, q), UpTo(q, r)
  PROVE  UpTo(p, r)
  <1>1. /\ p.latestFrame \in Nat /\ q.latestFrame \in Nat /\ r.latestFrame \in Nat
        /\ p.newestEvent \in Nat /\ q.newestEvent \in Nat /\ r.newestEvent \in Nat
        /\ p.pendingDeadLetters \in Nat /\ q.pendingDeadLetters \in Nat
        /\ r.pendingDeadLetters \in Nat
        /\ \A c \in Counter : p.dispatch[c] \in Nat /\ q.dispatch[c] \in Nat /\ r.dispatch[c] \in Nat
    BY DEF Payload
  <1>. QED
    BY <1>1 DEF UpTo

LEMMA PayloadIs ==
  ASSUME NEW f, FeedOK(f), f.step # 0, NEW c \in [Counter -> Nat],
         NEW q \in Seq(Dispatch!DeadLetterEntry)
  PROVE  PayloadOf(f, c, q) \in Payload /\ PayloadOf(f, c, q).latestFrame = f.step
  <1>1. /\ f.frames \in Seq(Nat) /\ f.step \in Nat \ {0}
        /\ Len(f.frames) = IF f.step < MaxFrames THEN f.step ELSE MaxFrames
        /\ \A i \in DOMAIN f.frames : f.frames[i] = f.step - Len(f.frames) + i
    BY DEF FeedOK, Feed, Newest
  <1>2. Len(f.frames) \in DOMAIN f.frames /\ Len(f.frames) \in Nat
    BY <1>1, BufferSizes
  <1>3. f.frames[Len(f.frames)] = f.step
    BY <1>1, <1>2
  <1>. QED
    BY <1>3, PayloadType DEF PayloadOf

LEMMA SnapshotIs ==
  ASSUME Typed, Typed'
  PROVE  /\ Snapshot \in Payload /\ Snapshot.latestFrame = feed.step
         /\ Snapshot' \in Payload /\ (Snapshot').latestFrame = feed'.step
  <1>1. /\ Snapshot = PayloadOf(feed, dispatchCounters, deadLetterQueue)
        /\ Snapshot' = PayloadOf(feed', dispatchCounters', deadLetterQueue')
    BY DEF Snapshot, PayloadOf
  <1>2. Snapshot \in Payload /\ Snapshot.latestFrame = feed.step
    BY <1>1, PayloadIs DEF Typed, TypeOK, Dispatch!TypeOK
  <1>3. Snapshot' \in Payload /\ (Snapshot').latestFrame = feed'.step
    BY <1>1, PayloadIs DEF Typed, TypeOK, Dispatch!TypeOK
  <1>. QED
    BY <1>2, <1>3

\* The state that is shown only moves on.
LEMMA SnapshotForward ==
  ASSUME Typed, Typed', [Next]_vars
  PROVE  UpTo(Snapshot, Snapshot')
  <1>1. feed.step <= feed'.step /\ feed.nextEventId <= feed'.nextEventId
    BY FeedForward DEF Later
  <1>2. /\ Snapshot.latestFrame = feed.step
        /\ (Snapshot').latestFrame = feed'.step
    BY SnapshotIs
  <1>3. /\ feed.nextEventId \in Nat /\ feed'.nextEventId \in Nat
        /\ dispatchCounters \in [Counter -> Nat]
        /\ deadLetterQueue \in Seq(Dispatch!DeadLetterEntry)
    BY DEF Typed, TypeOK, FeedOK, Feed, Dispatch!TypeOK
  <1>4. Len(deadLetterQueue) <= Len(deadLetterQueue')
    <2>1. CASE deadLetterQueue' = deadLetterQueue
      BY <1>3, <2>1
    <2>2. ASSUME NEW s \in Submissions, ServiceStep(s)
          PROVE  deadLetterQueue' = deadLetterQueue \/ \E x : deadLetterQueue' = Append(deadLetterQueue, x)
      BY <2>2, ServiceChange DEF Typed, Concluded
    <2>3. ASSUME NEW x, deadLetterQueue' = Append(deadLetterQueue, x)
          PROVE  Len(deadLetterQueue) <= Len(deadLetterQueue')
      <3>1. deadLetterQueue \in Seq(Dispatch!DeadLetterEntry \union {x})
        BY <1>3
      <3>2. Len(deadLetterQueue') = Len(deadLetterQueue) + 1
        BY <2>3, <3>1, AppendProperties
      <3>. QED
        BY <1>3, <3>2
    <2>. QED
      BY <2>1, <2>2, <2>3
      DEF Next, Handle, Post, Service!Submit, serviceVars, Account, Reply, Tick, Connect,
          Disconnect, vars
  <1>5. \A c \in Counter : dispatchCounters[c] <= dispatchCounters'[c]
    <2>1. CASE dispatchCounters' = dispatchCounters
      BY <1>3, <2>1
    <2>2. ASSUME NEW s \in Submissions, Account(s)
          PROVE  \A c \in Counter : dispatchCounters[c] <= dispatchCounters'[c]
      BY <1>3, <2>2 DEF Account
    <2>. QED
      BY <2>1, <2>2
      DEF Next, Handle, Post, ServiceStep, Reply, Tick, Connect, Disconnect, vars
  <1>. QED
    BY <1>1, <1>2, <1>3, <1>4, <1>5 DEF UpTo, Snapshot

\* No subscriber is ahead of the state.
ShownPast == \A st \in Streams : streams[st] # None => UpTo(streams[st], Snapshot)

\* What a subscriber is sent is the state after the step, or before a connection.
LEMMA StreamsMove ==
  ASSUME Typed, [Next]_vars, NEW st \in Streams, streams'[st] # None
  PROVE  \/ streams[st] # None /\ streams'[st] = streams[st]
         \/ streams'[st] = Snapshot'
         \/ streams[st] = None /\ streams'[st] = Snapshot
  <1>1. CASE UNCHANGED streams
    BY <1>1
  <1>2. CASE PublishSnapshot
    BY <1>2 DEF PublishSnapshot
  <1>3. ASSUME NEW x \in Streams, Connect(x) \/ Disconnect(x)
        PROVE  \/ streams[st] # None /\ streams'[st] = streams[st]
               \/ streams[st] = None /\ streams'[st] = Snapshot
    BY <1>3 DEF Connect, Disconnect, Typed, TypeOK
  <1>. QED
    BY <1>1, <1>2, <1>3 DEF Next, Handle, ServiceStep, Post, Account, Reply, Tick, vars

LEMMA ShownPastStep ==
  ASSUME Typed, Typed', ShownPast, [Next]_vars
  PROVE  ShownPast'
  <1>. SUFFICES ASSUME NEW st \in Streams, streams'[st] # None
                PROVE  UpTo(streams'[st], Snapshot')
    BY DEF ShownPast, UpTo
  <1>1. Snapshot \in Payload /\ Snapshot' \in Payload
    BY SnapshotIs
  <1>2. UpTo(Snapshot, Snapshot')
    BY SnapshotForward
  <1>3. CASE streams[st] # None /\ streams'[st] = streams[st]
    <2>1. streams[st] \in Payload /\ UpTo(streams[st], Snapshot)
      BY <1>3 DEF ShownPast, Typed, TypeOK
    <2>. QED
      BY <1>1, <1>2, <1>3, <2>1, UpToTransitive
  <1>4. CASE streams'[st] = Snapshot'
    <2>1. \A p \in Payload : UpTo(p, p)
      BY DEF UpTo, Payload
    <2>. QED
      BY <1>1, <1>4, <2>1
  <1>5. CASE streams'[st] = Snapshot
    BY <1>2, <1>5
  <1>. QED
    BY <1>3, <1>4, <1>5, StreamsMove

\* Frames, events, counters and dead letters go up only, as each subscriber is
\* shown them, whoever publishes and whoever connects in between.
THEOREM StreamsNeverBack == Spec => StreamsForward
  <1>. DEFINE Forward == \A st \in Streams : streams[st] # None /\ streams'[st] # None =>
                /\ streams'[st].latestFrame >= streams[st].latestFrame
                /\ streams'[st].newestEvent >= streams[st].newestEvent
                /\ streams'[st].pendingDeadLetters >= streams[st].pendingDeadLetters
                /\ \A c \in Counter : streams'[st].dispatch[c] >= streams[st].dispatch[c]
  <1>1. Typed /\ Typed' /\ ShownPast /\ [Next]_vars => Forward
    <2>. SUFFICES ASSUME Typed, Typed', ShownPast, [Next]_vars, NEW st \in Streams,
                         streams[st] # None, streams'[st] # None
                  PROVE  UpTo(streams[st], streams'[st])
      <3>1. \A p \in Payload, q \in Payload : UpTo(p, q) =>
              /\ q.latestFrame >= p.latestFrame /\ q.newestEvent >= p.newestEvent
              /\ q.pendingDeadLetters >= p.pendingDeadLetters
              /\ \A c \in Counter : q.dispatch[c] >= p.dispatch[c]
        BY DEF UpTo, Payload
      <3>. QED
        BY <3>1 DEF Typed, TypeOK
    <2>1. /\ streams[st] \in Payload /\ streams'[st] \in Payload
          /\ UpTo(streams[st], Snapshot)
      BY DEF ShownPast, Typed, TypeOK
    <2>2. Snapshot \in Payload
      BY SnapshotIs
    <2>3. CASE streams'[st] = streams[st]
      <3>1. \A p \in Payload : UpTo(p, p)
        BY DEF UpTo, Payload
      <3>. QED
        BY <2>1, <2>3, <3>1
    <2>4. CASE streams'[st] = Snapshot'
      <3>1. UpTo(Snapshot, Snapshot')
        BY SnapshotForward
      <3>. QED
        BY <2>1, <2>2, <2>4, <3>1, UpToTransitive
    <2>. QED
      BY <2>3, <2>4, StreamsMove
  <1>. HIDE DEF Forward
  <1>2. Init => ShownPast
    BY DEF Init, ShownPast
  <1>3. Typed /\ Typed' /\ ShownPast /\ [Next]_vars => ShownPast'
    BY ShownPastStep
  <1>4. Typed /\ Typed' /\ ShownPast /\ [Next]_vars => [Forward]_vars
    BY <1>1
  <1>5. Spec => [][Forward]_vars
    BY <1>2, <1>3, <1>4, TypedInit, TypedStep, PTL DEF Spec
  <1>. QED
    BY <1>5 DEF StreamsForward, Forward

==============================================================================
