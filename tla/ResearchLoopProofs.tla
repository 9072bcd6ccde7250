------------------------- MODULE ResearchLoopProofs -------------------------
(***************************************************************************)
(* What holds of the feed-reliability loop for every set of feeds, desks   *)
(* and regimes, every release schedule and tolerance, and however checks,  *)
(* releases, reviews, promotions and deaths of the process follow one      *)
(* another.                                                                *)
(***************************************************************************)
EXTENDS ResearchLoop, SequenceTheorems, FiniteSetTheorems, FunctionTheorems,
        WellFoundedInduction, TLAPS

-----------------------------------------------------------------------------
(***************************************************************************)
(* Queues and weight histories as sequences.                               *)
(***************************************************************************)
LEMMA FirstExists ==
    ASSUME NEW S \in SUBSET Nat, S # {}
    PROVE  \E d \in S : \A x \in S : d <= x
  <1>1. PICK d \in S : \A x \in S : <<x, d>> \notin OpToRel(<, Nat)
    BY NatLessThanWellFounded, WFMin
  <1>2. \A x \in S : ~(x < d)
    BY <1>1 DEF OpToRel
  <1> QED
    BY <1>2

\* A published queue holds the events it held and the ones published.
LEMMA QueueGrows ==
    ASSUME NEW T, NEW q \in Seq(T), NEW es \in SUBSET T, IsFiniteSet(es), NEW r \in Queues(q, es)
    PROVE  /\ r \in Seq(T)
           /\ \A i \in DOMAIN q : \E k \in DOMAIN r : r[k] = q[i]
           /\ \A e \in es : \E k \in DOMAIN r : r[k] = e
  <1>1. Len(q) \in Nat /\ DOMAIN q = 1..Len(q) /\ \A i \in DOMAIN q : q[i] \in T
    OBVIOUS
  <1>2. Cardinality(es) \in Nat
    BY FS_CardinalityType
  <1>3. r \in [1..(Len(q) + Cardinality(es)) -> ToSet(q) \cup es] /\ Merged(r, q, es)
    BY Zenon DEF Queues
  <1>4. ToSet(q) \subseteq T
    BY <1>1 DEF ToSet
  <1>5. r \in Seq(T)
    <2>1. Len(q) + Cardinality(es) \in Nat
      BY <1>1, <1>2
    <2>2. r \in [1..(Len(q) + Cardinality(es)) -> T]
      BY <1>3, <1>4
    <2> QED
      BY <2>1, <2>2
  <1>6. PICK at \in [1..Len(q) -> DOMAIN r] :
           /\ \A i \in 1..Len(q) : r[at[i]] = q[i]
           /\ es = {r[k] : k \in DOMAIN r \ {at[i] : i \in 1..Len(q)}}
    BY <1>3 DEF Merged
  <1> QED
    BY <1>1, <1>5, <1>6

\* Taking the first of the events equal to e leaves the others.
LEMMA QueueShrinks ==
    ASSUME NEW T, NEW q \in Seq(T), NEW e
    PROVE  /\ RemoveFirst(q, e) \in Seq(T)
           /\ \A i \in DOMAIN q : q[i] # e =>
                 \E k \in DOMAIN RemoveFirst(q, e) : RemoveFirst(q, e)[k] = q[i]
  <1>1. Len(q) \in Nat /\ DOMAIN q = 1..Len(q) /\ \A i \in DOMAIN q : q[i] \in T
    OBVIOUS
  <1>2. CASE ~ \E i \in 1..Len(q) : q[i] = e
    BY <1>1, <1>2 DEF RemoveFirst
  <1>3. CASE \E i \in 1..Len(q) : q[i] = e
    <2> DEFINE I == {i \in 1..Len(q) : q[i] = e}
               n == SelectInSeq(q, LAMBDA v : v = e)
    <2>1. I \in SUBSET Nat /\ I # {}
      BY <1>1, <1>3
    <2>2. n = Min(I)
      BY <2>1 DEF SelectInSeq
    <2>3. \E d \in I : \A x \in I : d <= x
      BY <2>1, FirstExists
    <2>4. n \in I
      BY <2>2, <2>3 DEF Min
    <2> HIDE DEF n
    <2>5. n \in 1..Len(q) /\ q[n] = e
      BY <2>4
    <2>6. RemoveFirst(q, e) = SubSeq(q, 1, n - 1) \o SubSeq(q, n + 1, Len(q))
      BY <1>3 DEF RemoveFirst, RemoveAt, n
    <2> DEFINE a == SubSeq(q, 1, n - 1)
               b == SubSeq(q, n + 1, Len(q))
    <2>7. /\ a \in Seq(T) /\ Len(a) = n - 1
          /\ \A i \in 1..(n - 1) : a[i] = q[i]
      BY <1>1, <2>5, SubSeqProperties
    <2>8. /\ b \in Seq(T) /\ Len(b) = Len(q) - n
          /\ \A i \in 1..(Len(q) - n) : b[i] = q[n + i]
      <3>1. n + 1 \in 1..(Len(q) + 1) /\ Len(q) \in n..Len(q)
        BY <1>1, <2>5
      <3>2. /\ b \in Seq(T) /\ Len(b) = Len(q) - (n + 1) + 1
            /\ \A i \in 1..(Len(q) - (n + 1) + 1) : b[i] = q[(n + 1) + i - 1]
        BY <3>1, SubSeqProperties
      <3>3. Len(q) - (n + 1) + 1 = Len(q) - n
        BY <1>1, <2>5
      <3>4. \A i \in 1..(Len(q) - n) : (n + 1) + i - 1 = n + i
        BY <1>1, <2>5
      <3> HIDE DEF b
      <3> QED
        BY <3>2, <3>3, <3>4
    <2> HIDE DEF a, b
    <2>9. /\ a \o b \in Seq(T) /\ Len(a \o b) = Len(q) - 1
          /\ \A i \in 1..(n - 1) : (a \o b)[i] = q[i]
          /\ \A i \in 1..(Len(q) - n) : (a \o b)[n - 1 + i] = q[n + i]
      <3>1. /\ a \o b \in Seq(T) /\ Len(a \o b) = Len(a) + Len(b)
            /\ \A i \in 1..(Len(a) + Len(b)) :
                  (a \o b)[i] = IF i <= Len(a) THEN a[i] ELSE b[i - Len(a)]
        BY <2>7, <2>8, ConcatProperties
      <3>2. Len(a) + Len(b) = Len(q) - 1
        BY <1>1, <2>5, <2>7, <2>8
      <3>3. \A i \in 1..(n - 1) : (a \o b)[i] = q[i]
        BY <1>1, <2>5, <2>7, <3>1, <3>2
      <3>4. ASSUME NEW i \in 1..(Len(q) - n) PROVE (a \o b)[n - 1 + i] = q[n + i]
        <4>1. n - 1 + i \in 1..(Len(q) - 1) /\ ~(n - 1 + i <= n - 1) /\ n - 1 + i - (n - 1) = i
          BY <1>1, <2>5
        <4>2. (a \o b)[n - 1 + i] = b[i]
          BY <2>7, <3>1, <3>2, <4>1
        <4> QED
          BY <2>8, <4>2
      <3> QED
        BY <3>1, <3>2, <3>3, <3>4
    <2>10. ASSUME NEW i \in DOMAIN q, q[i] # e
           PROVE  \E k \in DOMAIN (a \o b) : (a \o b)[k] = q[i]
      <3>1. i \in 1..Len(q) /\ i # n
        BY <1>1, <2>5, <2>10
      <3>2. CASE i < n
        <4>1. i \in DOMAIN (a \o b) /\ (a \o b)[i] = q[i]
          BY <1>1, <2>5, <2>9, <3>1, <3>2
        <4> QED
          BY <4>1
      <3>3. CASE i > n
        <4>1. i - n \in 1..(Len(q) - n) /\ n + (i - n) = i /\ n - 1 + (i - n) = i - 1
          BY <1>1, <2>5, <3>1, <3>3
        <4>2. (a \o b)[i - 1] = q[i]
          BY <2>9, <4>1
        <4>3. i - 1 \in DOMAIN (a \o b)
          BY <1>1, <2>5, <2>9, <3>1, <3>3
        <4> QED
          BY <4>2, <4>3
      <3> QED
        BY <1>1, <2>5, <3>1, <3>2, <3>3
    <2> QED
      BY <2>6, <2>9, <2>10 DEF a, b
  <1> QED
    BY <1>2, <1>3

\* A row put into a history at i.
LEMMA RowInserted ==
    ASSUME NEW T, NEW s \in Seq(T), NEW i \in 1..(Len(s) + 1), NEW e \in T
    PROVE  /\ InsertAt(s, i, e) \in Seq(T) /\ Len(InsertAt(s, i, e)) = Len(s) + 1
           /\ \A k \in 1..(Len(s) + 1) :
                 InsertAt(s, i, e)[k] = IF k < i THEN s[k] ELSE IF k = i THEN e ELSE s[k - 1]
  <1>1. Len(s) \in Nat /\ DOMAIN s = 1..Len(s) /\ \A k \in 1..Len(s) : s[k] \in T
    OBVIOUS
  <1> DEFINE a == SubSeq(s, 1, i - 1)
             b == SubSeq(s, i, Len(s))
  <1>2. a \in Seq(T) /\ Len(a) = i - 1 /\ \A k \in 1..(i - 1) : a[k] = s[k]
    BY <1>1, SubSeqProperties
  <1>3. /\ b \in Seq(T) /\ Len(b) = Len(s) - i + 1
        /\ \A k \in 1..(Len(s) - i + 1) : b[k] = s[i - 1 + k]
    BY <1>1, SubSeqProperties
  <1>4. InsertAt(s, i, e) = (a \o <<e>>) \o b
    BY DEF InsertAt
  <1> HIDE DEF a, b
  <1> DEFINE c == a \o <<e>>
  <1>5. c \in Seq(T) /\ Len(c) = i /\ c[i] = e /\ \A k \in 1..(i - 1) : c[k] = s[k]
    <2>1. <<e>> \in Seq(T) /\ Len(<<e>>) = 1 /\ <<e>>[1] = e
      OBVIOUS
    <2> QED
      BY <1>1, <1>2, <2>1, ConcatProperties
  <1> HIDE DEF c
  <1> DEFINE d == c \o b
  <1>6. /\ d \in Seq(T) /\ Len(d) = Len(s) + 1
        /\ \A k \in 1..i : d[k] = c[k]
        /\ \A k \in 1..(Len(s) - i + 1) : d[i + k] = b[k]
    <2>1. /\ d \in Seq(T) /\ Len(d) = Len(c) + Len(b)
          /\ \A k \in 1..(Len(c) + Len(b)) :
                d[k] = IF k <= Len(c) THEN c[k] ELSE b[k - Len(c)]
      BY <1>3, <1>5, ConcatProperties
    <2>2. Len(c) + Len(b) = Len(s) + 1
      BY <1>1, <1>3, <1>5
    <2> HIDE DEF d
    <2>3. \A k \in 1..i : d[k] = c[k]
      BY <1>1, <1>5, <2>1, <2>2
    <2>4. ASSUME NEW k \in 1..(Len(s) - i + 1) PROVE d[i + k] = b[k]
      <3>1. i + k \in 1..(Len(s) + 1) /\ ~(i + k <= i) /\ i + k - i = k
        BY <1>1
      <3> QED
        BY <1>5, <2>1, <2>2, <3>1
    <2> QED
      BY <2>1, <2>2, <2>3, <2>4
  <1> HIDE DEF d
  <1>7. ASSUME NEW k \in 1..(Len(s) + 1)
        PROVE  d[k] = IF k < i THEN s[k] ELSE IF k = i THEN e ELSE s[k - 1]
    <2>1. CASE k <= i
      BY <1>1, <1>5, <1>6, <2>1
    <2>2. CASE k > i
      <3>1. k - i \in 1..(Len(s) - i + 1) /\ i + (k - i) = k /\ i - 1 + (k - i) = k - 1
        BY <1>1, <2>2
      <3>2. d[k] = b[k - i] /\ b[k - i] = s[k - 1]
        BY <1>3, <1>6, <3>1
      <3> QED
        BY <2>2, <3>2
    <2> QED
      BY <1>1, <2>1, <2>2
  <1> QED
    BY <1>4, <1>6, <1>7 DEF c, d

-----------------------------------------------------------------------------
(***************************************************************************)
(* Type correctness.                                                       *)
(***************************************************************************)

\* An event whose subject is of the kind its type is about.
FitEvent ==
    {e \in Event : /\ e.type = "data_ingestion_failure" => e.subject \in Release
                   /\ e.type = "gate_failure" => e.subject \in Keys
                   /\ e.type = "regime_transition" => e.subject \in {<<r>> : r \in Regimes}}

QueueOK ==
    /\ pending \in Seq(FitEvent) /\ batch \in Seq(FitEvent)
    /\ pc \in {"idle", "next", "retire", "write", "mark"}
    /\ pc \in {"retire", "write", "mark"} => batch # <<>>
    /\ pc = "retire" => Head(batch).type = "feed_reliability_review"
    /\ pc = "write" => Head(batch).type # "data_ingestion_failure"

ClockOK ==
    /\ now \in Time
    /\ prints \in [Feeds -> SUBSET Time]
    /\ requests \in 0..MaxRequests /\ crashes \in 0..MaxCrashes

FeedOK ==
    /\ incidents \in Seq(Incident)
    /\ ph \in [Feeds -> [drift : 0..(Lambda + 1), tripped : BOOLEAN]]
    /\ cut \subseteq Feeds

Ordered(h) == \A i, j \in DOMAIN h : i < j => h[i].ts <= h[j].ts
TableOK ==
    /\ weights \in [Keys -> Seq(SignalWeight)]
    /\ \A k \in Keys : weights[k] # <<>> /\ Ordered(weights[k])
    /\ todo \subseteq Write

TypeInv == QueueOK /\ ClockOK /\ FeedOK /\ TableOK

LEMMA Bounds ==
    /\ Time \subseteq Nat /\ MaxTime \in Nat /\ 0 \in Time
    /\ Tolerance \in Nat /\ MissWindow \in Nat /\ Lookback \in Nat /\ Threshold \in Nat
    /\ Recovery \in Nat /\ Delta \in Nat /\ Lambda \in Nat
    /\ MaxPending \in Nat /\ MaxRequests \in Nat /\ MaxCrashes \in Nat
  BY LoopAssumption DEF Time

LEMMA HeadIsEvent ==
    ASSUME QueueOK, batch # <<>>
    PROVE  /\ Head(batch) \in FitEvent /\ Head(batch).at \in Time /\ Head(batch).at \in Nat
           /\ Tail(batch) \in Seq(FitEvent)
  <1>1. batch \in Seq(FitEvent)
    BY DEF QueueOK
  <1>2. Head(batch) \in FitEvent /\ Tail(batch) \in Seq(FitEvent)
    BY <1>1
  <1>3. Head(batch).at \in Time
    BY <1>2 DEF FitEvent, Event
  <1> QED
    BY <1>2, <1>3, Bounds

LEMMA FeedsFinite == IsFiniteSet(Feeds) /\ Len(FeedOrder) \in Nat /\ DOMAIN FeedOrder = 1..Len(FeedOrder)
  <1>1. FeedOrder \in Seq(Feeds) /\ ToSet(FeedOrder) = Feeds
    BY LoopAssumption
  <1>2. FeedOrder \in [1..Len(FeedOrder) -> Feeds] /\ Len(FeedOrder) \in Nat
    BY <1>1
  <1>3. FeedOrder \in Surjection(1..Len(FeedOrder), Feeds)
    BY <1>1, <1>2, Fun_IsSurj DEF ToSet
  <1> QED
    BY <1>2, <1>3, FS_Interval, FS_Surjection

\* Only so many firings lie before now.
LEMMA MissesFinite ==
    ASSUME now \in Time
    PROVE  /\ IsFiniteSet(UNION {{Failure(f, s) : s \in Missed(f)} : f \in Feeds})
           /\ UNION {{Failure(f, s) : s \in Missed(f)} : f \in Feeds} \subseteq FitEvent
  <1> DEFINE misses == UNION {{Failure(f, s) : s \in Missed(f)} : f \in Feeds}
             slots == Feeds \X (0..now)
             late == {x \in slots : x[2] \in Missed(x[1])}
             g == [x \in late |-> Failure(x[1], x[2])]
  <1>1. now \in Nat
    BY Bounds
  <1>2. IsFiniteSet(slots)
    <2>1. IsFiniteSet(0..now)
      BY <1>1, FS_Interval
    <2> QED
      BY <2>1, FeedsFinite, FS_Product
  <1>3. IsFiniteSet(late)
    BY <1>2, FS_Subset
  <1>4. \A f \in Feeds : Missed(f) \subseteq 0..now
    BY <1>1, LoopAssumption DEF Missed, FiringsBetween
  <1>5. ASSUME NEW e \in misses PROVE \E x \in late : e = g[x]
    <2>1. PICK f \in Feeds : e \in {Failure(f, s) : s \in Missed(f)}
      OBVIOUS
    <2>2. PICK s \in Missed(f) : e = Failure(f, s)
      BY <2>1
    <2>3. <<f, s>> \in late /\ g[<<f, s>>] = e
      BY <1>4, <2>2
    <2> QED
      BY <2>3
  <1>6. \A x \in late : g[x] \in misses
    OBVIOUS
  <1>7. g \in Surjection(late, misses)
    <2>1. g \in [late -> misses]
      BY <1>6
    <2> QED
      BY <1>5, <2>1, Fun_IsSurj
  <1>8. IsFiniteSet(misses)
    BY <1>3, <1>7, FS_Surjection
  <1>9. ASSUME NEW e \in misses PROVE e \in FitEvent
    <2>1. PICK x \in late : e = Failure(x[1], x[2])
      BY <1>5
    <2>2. <<x[1], x[2]>> \in Release
      BY <1>1 DEF Release
    <2>3. "data_ingestion_failure" \in DOMAIN Priority
      BY DEF Priority
    <2> QED
      BY <2>1, <2>2, <2>3 DEF Failure, FitEvent, Event, Subject
  <1> QED
    BY <1>8, <1>9

\* What publishes an event, and which.
Publishes(es) == pending' \in Queues(pending, es) /\ es \subseteq FitEvent /\ IsFiniteSet(es)

LEMMA OneFailure ==
    ASSUME now \in Time, NEW f \in Feeds, NEW s \in Nat
    PROVE  {Failure(f, s)} \subseteq FitEvent /\ IsFiniteSet({Failure(f, s)})
  <1>1. "data_ingestion_failure" \in DOMAIN Priority
    BY DEF Priority
  <1>2. <<f, s>> \in Release
    BY DEF Release
  <1>3. Failure(f, s) \in FitEvent
    BY <1>1, <1>2 DEF Failure, FitEvent, Event, Subject
  <1> QED
    BY <1>3, FS_Singleton

LEMMA Publishers ==
    ASSUME TypeInv
    PROVE  /\ CheckIngestionMisses => \E es : Publishes(es) /\ UNCHANGED runState
           /\ \A f \in Feeds : ObserveLatency(f) =>
                 (pending' = pending \/ \E es : Publishes(es)) /\ UNCHANGED runState
           /\ SubmitFeedReliabilityReview \/ SubmitGateFailure \/ SubmitRegimeTransition
                 => \E es : Publishes(es) /\ UNCHANGED runState
  <1>0. now \in Time
    BY DEF TypeInv, ClockOK
  <1>1. CheckIngestionMisses => \E es : Publishes(es) /\ UNCHANGED runState
    BY <1>0, MissesFinite DEF CheckIngestionMisses, Publishes
  <1>2. ASSUME NEW f \in Feeds, ObserveLatency(f)
        PROVE  (pending' = pending \/ \E es : Publishes(es)) /\ UNCHANGED runState
    <2>1. PICK s \in FiringsBetween(f, now - MissWindow, now) :
             /\ pending' = pending \/ pending' \in Queues(pending, {Failure(f, s)})
             /\ UNCHANGED runState
      BY <1>2 DEF ObserveLatency
    <2>2. s \in Nat
      BY LoopAssumption DEF FiringsBetween
    <2> QED
      BY <1>0, <2>1, <2>2, OneFailure DEF Publishes
  <1>3. ASSUME NEW type \in {"feed_reliability_review", "gate_failure", "regime_transition"},
               NEW subject, Submit(type, subject),
               /\ type = "feed_reliability_review" => subject = <<>>
               /\ type = "gate_failure" => subject \in Keys
               /\ type = "regime_transition" => subject \in {<<r>> : r \in Regimes}
        PROVE  \E es : Publishes(es) /\ UNCHANGED runState
    <2> DEFINE e == [type |-> type, at |-> now, subject |-> subject]
    <2>1. type \in DOMAIN Priority /\ type # "data_ingestion_failure"
      BY DEF Priority
    <2>2. subject \in Subject
      BY <1>3 DEF Subject
    <2>3. e \in FitEvent
      BY <1>0, <1>3, <2>1, <2>2 DEF FitEvent, Event
    <2>4. {e} \subseteq FitEvent /\ IsFiniteSet({e})
      BY <2>3, FS_Singleton
    <2> QED
      BY <1>3, <2>4 DEF Submit, Publishes
  <1>4. SubmitFeedReliabilityReview => \E es : Publishes(es) /\ UNCHANGED runState
    BY <1>3 DEF SubmitFeedReliabilityReview
  <1>5. SubmitGateFailure => \E es : Publishes(es) /\ UNCHANGED runState
    BY <1>3 DEF SubmitGateFailure
  <1>6. SubmitRegimeTransition => \E es : Publishes(es) /\ UNCHANGED runState
    BY <1>3 DEF SubmitRegimeTransition
  <1> QED
    BY <1>1, <1>2, <1>4, <1>5, <1>6

LEMMA QueueNext == TypeInv /\ [Next]_vars => QueueOK'
  <1> SUFFICES ASSUME TypeInv, [Next]_vars PROVE QueueOK'
    OBVIOUS
  <1>0. QueueOK
    BY DEF TypeInv
  <1>1. CASE /\ pending' = pending \/ \E es : Publishes(es)
             /\ UNCHANGED runState
    <2>1. pending' \in Seq(FitEvent)
      <3>1. CASE pending' = pending
        BY <1>0, <3>1 DEF QueueOK
      <3>2. CASE \E es : Publishes(es)
        BY <1>0, <3>2, QueueGrows DEF QueueOK, Publishes
      <3> QED
        BY <1>1, <3>1, <3>2
    <2> QED
      BY <1>0, <1>1, <2>1 DEF QueueOK, runState
  <1>2. CASE BeginRun
    BY <1>0, <1>2 DEF BeginRun, QueueOK
  <1>3. CASE EndRun
    BY <1>0, <1>3 DEF EndRun, QueueOK
  <1>4. CASE Handlers
    <2>1. /\ pc' \in {"retire", "write", "mark"} /\ batch # <<>> /\ UNCHANGED <<pending, batch>>
          /\ pc' = "retire" => Head(batch).type = "feed_reliability_review"
          /\ pc' = "write" => Head(batch).type # "data_ingestion_failure"
      BY <1>4 DEF Handlers, DataIngestionFailureHandler, FeedReliabilityReviewHandler,
                  GateFailureHandler, RegimeTransitionHandler, Handling
    <2> QED
      BY <1>0, <2>1 DEF QueueOK
  <1>5. CASE WriteRow \/ Reinstate \/ HandlerReturns
    <2>1. /\ pc \in {"retire", "write"} /\ pc' \in {"retire", "write", "mark"}
          /\ UNCHANGED <<pending, batch>>
          /\ pc' = "retire" => pc = "retire"
      BY <1>5 DEF WriteRow, Reinstate, HandlerReturns
    <2> QED
      BY <1>0, <2>1 DEF QueueOK
  <1>6. CASE MarkCompleted
    <2>1. /\ pc = "mark" /\ pc' = "next" /\ batch' = Tail(batch)
          /\ pending' = RemoveFirst(pending, Head(batch))
      BY <1>6 DEF MarkCompleted
    <2>2. pending' \in Seq(FitEvent)
      BY <1>0, <2>1, QueueShrinks DEF QueueOK
    <2>3. batch' \in Seq(FitEvent)
      BY <1>0, <2>1, HeadIsEvent DEF QueueOK
    <2> QED
      BY <2>1, <2>2, <2>3 DEF QueueOK
  <1>7. CASE Crash
    BY <1>0, <1>7 DEF Crash, QueueOK
  <1>8. CASE CheckIncidentRecoveries \/ Tick \/ ReleaseArrives \/ UNCHANGED vars
    <2>1. UNCHANGED <<pending, runState>>
      BY <1>8 DEF CheckIncidentRecoveries, Tick, ReleaseArrives, vars, runState
    <2> QED
      BY <1>1, <2>1
  <1>9. CASE CheckIngestionMisses \/ (\E f \in Feeds : ObserveLatency(f))
             \/ SubmitFeedReliabilityReview \/ SubmitGateFailure \/ SubmitRegimeTransition
    BY <1>1, <1>9, Publishers
  <1> QED
    BY <1>2, <1>3, <1>4, <1>5, <1>6, <1>7, <1>8, <1>9 DEF Next, Dispatch

LEMMA ClockNext == TypeInv /\ [Next]_vars => ClockOK'
  <1> SUFFICES ASSUME TypeInv, [Next]_vars PROVE ClockOK'
    OBVIOUS
  <1> USE DEF TypeInv, ClockOK
  <1>1. now' \in Time
    <2>1. CASE Tick
      BY <2>1, Bounds DEF Tick, Time
    <2>2. CASE ~Tick
      BY <2>2 DEF Next, vars, feedState, runState, Dispatch, Handlers, BeginRun, EndRun,
           DataIngestionFailureHandler, FeedReliabilityReviewHandler, GateFailureHandler,
           RegimeTransitionHandler, WriteRow, Reinstate, HandlerReturns, MarkCompleted,
           CheckIngestionMisses, CheckIncidentRecoveries, ObserveLatency,
           SubmitFeedReliabilityReview, SubmitGateFailure, SubmitRegimeTransition, Submit,
           Crash, ReleaseArrives
    <2> QED
      BY <2>1, <2>2
  <1>2. prints' \in [Feeds -> SUBSET Time]
    <2>1. CASE ReleaseArrives
      BY <2>1 DEF ReleaseArrives
    <2>2. CASE ~ReleaseArrives
      BY <2>2 DEF Next, vars, feedState, runState, Dispatch, Handlers, BeginRun, EndRun,
           DataIngestionFailureHandler, FeedReliabilityReviewHandler, GateFailureHandler,
           RegimeTransitionHandler, WriteRow, Reinstate, HandlerReturns, MarkCompleted,
           CheckIngestionMisses, CheckIncidentRecoveries, ObserveLatency,
           SubmitFeedReliabilityReview, SubmitGateFailure, SubmitRegimeTransition, Submit,
           Crash, Tick
    <2> QED
      BY <2>1, <2>2
  <1>3. requests' \in 0..MaxRequests
    <2>1. requests' \in {requests, requests + 1} /\ (requests' # requests => requests < MaxRequests)
      BY DEF Next, vars, feedState, runState, Dispatch, Handlers, BeginRun, EndRun,
           DataIngestionFailureHandler, FeedReliabilityReviewHandler, GateFailureHandler,
           RegimeTransitionHandler, WriteRow, Reinstate, HandlerReturns, MarkCompleted,
           CheckIngestionMisses, CheckIncidentRecoveries, ObserveLatency,
           SubmitFeedReliabilityReview, SubmitGateFailure, SubmitRegimeTransition, Submit,
           Crash, Tick, ReleaseArrives
    <2> QED
      BY <2>1, Bounds
  <1>4. crashes' \in 0..MaxCrashes
    <2>1. crashes' \in {crashes, crashes + 1} /\ (crashes' # crashes => crashes < MaxCrashes)
      BY DEF Next, vars, feedState, runState, Dispatch, Handlers, BeginRun, EndRun,
           DataIngestionFailureHandler, FeedReliabilityReviewHandler, GateFailureHandler,
           RegimeTransitionHandler, WriteRow, Reinstate, HandlerReturns, MarkCompleted,
           CheckIngestionMisses, CheckIncidentRecoveries, ObserveLatency,
           SubmitFeedReliabilityReview, SubmitGateFailure, SubmitRegimeTransition, Submit,
           Crash, Tick, ReleaseArrives
    <2> QED
      BY <2>1, Bounds
  <1> QED
    BY <1>1, <1>2, <1>3, <1>4

\* The nearest release in tolerance exists, and a latency is a time.
LEMMA LatencyType ==
    ASSUME ClockOK, NEW f \in Feeds, NEW s \in Nat
    PROVE  Latency(f, s) \in Nat
  <1> DEFINE near == OnTime(f, s)
             arrival == IF near = {} THEN now
                        ELSE CHOOSE p \in near : \A q \in near : Distance(p, s) <= Distance(q, s)
  <1>1. near \subseteq Nat /\ now \in Nat
    BY Bounds DEF OnTime, ClockOK
  <1>2. \A p \in near : Distance(p, s) \in Nat
    BY <1>1 DEF Distance
  <1>3. ASSUME near # {}
        PROVE  (CHOOSE p \in near : \A q \in near : Distance(p, s) <= Distance(q, s)) \in near
    <2> DEFINE far == {Distance(p, s) : p \in near}
    <2>1. far \in SUBSET Nat /\ far # {}
      BY <1>2, <1>3
    <2>2. PICK d \in far : \A x \in far : d <= x
      BY <2>1, FirstExists
    <2>3. \E p \in near : \A q \in near : Distance(p, s) <= Distance(q, s)
      BY <2>2
    <2> QED
      BY <2>3, Zenon
  <1>4. arrival \in Nat
    BY <1>1, <1>3
  <1>5. Latency(f, s) = IF arrival > s THEN arrival - s ELSE 0
    BY Zenon DEF Latency
  <1> HIDE DEF arrival
  <1> QED
    BY <1>4, <1>5

Detector == [drift : 0..(Lambda + 1), tripped : BOOLEAN]

LEMMA DetectorType ==
    ASSUME NEW d \in Detector, NEW latency \in Nat
    PROVE  UpdatePageHinkley(d, latency) \in Detector
  <1> DEFINE moved == d.drift + latency - Delta
             drift == IF moved < 0 THEN 0 ELSE IF moved > Lambda THEN Lambda + 1 ELSE moved
  <1>1. d.drift \in Nat /\ moved \in Int
    BY Bounds DEF Detector
  <1> HIDE DEF moved
  <1>2. drift \in 0..(Lambda + 1)
    BY <1>1, Bounds
  <1> HIDE DEF drift
  <1> DEFINE latched == d.tripped \/ drift > Lambda
  <1>3. latched \in BOOLEAN
    OBVIOUS
  <1> HIDE DEF latched
  <1>4. UpdatePageHinkley(d, latency) = [drift |-> drift, tripped |-> latched]
    BY Zenon DEF UpdatePageHinkley, drift, moved, latched
  <1> QED
    BY <1>2, <1>3, <1>4 DEF Detector

\* The actions that leave the registry and the detectors alone.
LEMMA FeedUntouched ==
    ASSUME [Next]_vars, ~DataIngestionFailureHandler, ~CheckIncidentRecoveries,
           ~ \E f \in Feeds : ObserveLatency(f)
    PROVE  UNCHANGED feedState
  BY DEF Next, vars, feedState, Dispatch, Handlers, BeginRun, EndRun,
         FeedReliabilityReviewHandler, GateFailureHandler,
         RegimeTransitionHandler, WriteRow, Reinstate, HandlerReturns, MarkCompleted,
         CheckIngestionMisses, SubmitFeedReliabilityReview, SubmitGateFailure,
         SubmitRegimeTransition, Submit, Crash, Tick, ReleaseArrives

\* What observing a firing does to the detector of the feed.
LEMMA Observed ==
    ASSUME TypeInv, NEW f \in Feeds, ObserveLatency(f)
    PROVE  \E d \in Detector :
             /\ ph' = [ph EXCEPT ![f] = d]
             /\ UNCHANGED incidents
             /\ cut' \in {cut, cut \cup {f}}
             /\ d.tripped /\ ~ph[f].tripped /\ OpenIncidents(f) = {} =>
                   \/ f \in cut'
                   \/ \E s \in Nat : pending' \in Queues(pending, {Failure(f, s)})
             /\ \/ pending' = pending /\ cut' = cut
                \/ \E s \in Nat : pending' \in Queues(pending, {Failure(f, s)})
                \/ pending' = pending /\ cut' = cut \cup {f}
  <1>1. PICK s \in FiringsBetween(f, now - MissWindow, now) :
          LET d == UpdatePageHinkley(ph[f], Latency(f, s))
              report == d.tripped /\ ~ph[f].tripped /\ OpenIncidents(f) = {}
          IN  /\ ph' = [ph EXCEPT ![f] = d]
              /\ \/ /\ report
                    /\ pending' \in Queues(pending, {Failure(f, s)})
                    /\ cut' = cut
                 \/ ~report /\ pending' = pending /\ cut' = cut
                 \/ report /\ cut' = cut \cup {f} /\ pending' = pending
              /\ UNCHANGED incidents
    BY DEF ObserveLatency
  <1>2. s \in Nat
    BY LoopAssumption DEF FiringsBetween
  <1>3. ph[f] \in Detector /\ Latency(f, s) \in Nat
    BY <1>2, LatencyType DEF TypeInv, FeedOK, Detector
  <1>4. UpdatePageHinkley(ph[f], Latency(f, s)) \in Detector
    BY <1>3, DetectorType
  <1> WITNESS UpdatePageHinkley(ph[f], Latency(f, s)) \in Detector
  <1> QED
    BY <1>1, <1>2, Zenon

LEMMA FeedNext == TypeInv /\ [Next]_vars => FeedOK'
  <1> SUFFICES ASSUME TypeInv, [Next]_vars PROVE FeedOK'
    OBVIOUS
  <1>0. FeedOK
    BY DEF TypeInv
  <1>1. CASE UNCHANGED feedState
    BY <1>0, <1>1 DEF FeedOK, feedState
  <1>2. CASE DataIngestionFailureHandler
    <2> DEFINE e == Head(batch)
               i == [feed |-> e.subject[1], opened |-> e.at, closed |-> NULL, cause |-> e.subject]
    <2>1. /\ OpenFeedIncident(e) /\ UNCHANGED <<ph, cut>>
          /\ batch # <<>> /\ e.type = "data_ingestion_failure"
      BY <1>2 DEF DataIngestionFailureHandler, Handling
    <2>2. e \in FitEvent /\ e.at \in Time
      BY <2>1, HeadIsEvent DEF TypeInv
    <2>3. e.subject \in Release
      BY <2>1, <2>2 DEF FitEvent
    <2> HIDE DEF e
    <2>4. i \in Incident
      BY <2>2, <2>3 DEF Incident, Release
    <2> HIDE DEF i
    <2>5. incidents' \in {incidents, Append(incidents, i)}
      BY <2>1, Zenon DEF OpenFeedIncident, i
    <2>6. incidents' \in Seq(Incident)
      BY <1>0, <2>4, <2>5 DEF FeedOK
    <2> QED
      BY <1>0, <2>1, <2>6 DEF FeedOK
  <1>3. CASE CheckIncidentRecoveries
    <2>1. PICK i \in DOMAIN incidents :
             /\ incidents' = [incidents EXCEPT ![i].closed = now]
             /\ \/ ph' = [ph EXCEPT ![incidents[i].feed] = ResetForFeed]
                \/ ph' = ph
             /\ cut' \in {cut \ {incidents[i].feed}, cut \cup {incidents[i].feed}}
      BY <1>3 DEF CheckIncidentRecoveries
    <2>2. incidents \in Seq(Incident) /\ incidents[i] \in Incident /\ now \in Time
      BY <1>0 DEF FeedOK, TypeInv, ClockOK
    <2>3. [incidents[i] EXCEPT !.closed = now] \in Incident
      BY <2>2 DEF Incident
    <2>4. incidents' = [incidents EXCEPT ![i] = [incidents[i] EXCEPT !.closed = now]]
      BY <2>1
    <2>5. incidents' \in Seq(Incident)
      BY <2>2, <2>3, <2>4
    <2>6. incidents[i].feed \in Feeds
      BY <2>2 DEF Incident
    <2>7. ResetForFeed \in Detector
      BY Bounds DEF ResetForFeed, Detector
    <2>8. ph' \in [Feeds -> Detector]
      BY <1>0, <2>1, <2>7 DEF FeedOK, Detector
    <2>9. cut' \subseteq Feeds
      BY <1>0, <2>1, <2>6 DEF FeedOK
    <2> QED
      BY <2>5, <2>8, <2>9 DEF FeedOK, Detector
  <1>4. ASSUME NEW f \in Feeds, ObserveLatency(f) PROVE FeedOK'
    <2>1. PICK d \in Detector : /\ ph' = [ph EXCEPT ![f] = d] /\ UNCHANGED incidents
                                /\ cut' \in {cut, cut \cup {f}}
      BY <1>4, Observed
    <2> QED
      BY <1>0, <2>1 DEF FeedOK, Detector
  <1> QED
    BY <1>1, <1>2, <1>3, <1>4, FeedUntouched

-----------------------------------------------------------------------------
(***************************************************************************)
(* The table of weights.                                                   *)
(***************************************************************************)

\* A history after a row went in among its equals: still in order, and its
\* latest row is the new one or the one before, never older than the new one.
LEMMA HistoryGrows ==
    ASSUME NEW h \in Seq(SignalWeight), h # <<>>, Ordered(h), NEW row \in SignalWeight,
           NEW i \in 1..(Len(h) + 1),
           \A m \in 1..(i - 1) : h[m].ts <= row.ts,
           \A m \in i..Len(h) : h[m].ts >= row.ts
    PROVE  /\ InsertAt(h, i, row) \in Seq(SignalWeight) /\ InsertAt(h, i, row) # <<>>
           /\ Ordered(InsertAt(h, i, row))
           /\ Last(InsertAt(h, i, row)) \in {row, Last(h)}
           /\ Last(InsertAt(h, i, row)).ts >= row.ts
  <1> DEFINE g == InsertAt(h, i, row)
             n == Len(h)
  <1>1. /\ n \in Nat /\ n > 0 /\ DOMAIN h = 1..n
        /\ \A k \in 1..n : h[k] \in SignalWeight /\ h[k].ts \in Nat
    <2>1. n \in Nat /\ n > 0 /\ DOMAIN h = 1..n /\ \A k \in 1..n : h[k] \in SignalWeight
      OBVIOUS
    <2>2. \A r \in SignalWeight : r.ts \in Nat
      BY DEF SignalWeight
    <2> QED
      BY <2>1, <2>2
  <1>2. row.ts \in Nat
    BY DEF SignalWeight
  <1>3. /\ g \in Seq(SignalWeight) /\ Len(g) = n + 1
        /\ \A k \in 1..(n + 1) : g[k] = IF k < i THEN h[k] ELSE IF k = i THEN row ELSE h[k - 1]
    BY RowInserted
  <1> HIDE DEF g
  <1>4. Ordered(g)
    <2> SUFFICES ASSUME NEW a \in 1..(n + 1), NEW b \in 1..(n + 1), a < b
                 PROVE  g[a].ts <= g[b].ts
      BY <1>1, <1>3 DEF Ordered
    <2>1. \A x, y \in 1..n : x < y => h[x].ts <= h[y].ts
      BY <1>1 DEF Ordered
    <2>2. CASE b < i
      <3>1. a \in 1..n /\ b \in 1..n /\ g[a] = h[a] /\ g[b] = h[b]
        BY <1>1, <1>3, <2>2
      <3> QED
        BY <2>1, <3>1
    <2>3. CASE b = i
      <3>1. a \in 1..(i - 1) /\ g[a] = h[a] /\ g[b] = row
        BY <1>1, <1>3, <2>3
      <3> QED
        BY <3>1
    <2>4. CASE b > i /\ a < i
      <3>1. a \in 1..n /\ b - 1 \in 1..n /\ b - 1 \in i..n /\ g[a] = h[a] /\ g[b] = h[b - 1]
        BY <1>1, <1>3, <2>4
      <3>2. a \in 1..(i - 1)
        BY <1>1, <2>4
      <3>3. h[a].ts <= row.ts /\ row.ts <= h[b - 1].ts /\ h[a].ts \in Nat /\ h[b - 1].ts \in Nat
        BY <1>1, <3>1, <3>2
      <3> QED
        BY <1>2, <3>1, <3>3
    <2>5. CASE b > i /\ a = i
      <3>1. b - 1 \in i..n /\ g[a] = row /\ g[b] = h[b - 1]
        BY <1>1, <1>3, <2>5
      <3> QED
        BY <1>1, <1>2, <3>1
    <2>6. CASE a > i
      <3>1. a - 1 \in 1..n /\ b - 1 \in 1..n /\ a - 1 < b - 1 /\ g[a] = h[a - 1] /\ g[b] = h[b - 1]
        BY <1>1, <1>3, <2>6
      <3> QED
        BY <2>1, <3>1
    <2> QED
      BY <1>1, <2>2, <2>3, <2>4, <2>5, <2>6
  <1>5. Last(g) = g[n + 1] /\ Last(h) = h[n]
    BY <1>1, <1>3 DEF Last
  <1>6. CASE i = n + 1
    <2>1. g[n + 1] = row
      BY <1>1, <1>3, <1>6
    <2> QED
      BY <1>2, <1>3, <1>4, <1>5, <2>1, <1>1 DEF g
  <1>7. CASE i # n + 1
    <2>1. g[n + 1] = h[n] /\ n \in i..n
      <3>1. n + 1 \in 1..(n + 1) /\ ~(n + 1 < i) /\ n + 1 # i /\ n + 1 - 1 = n
        BY <1>1, <1>7
      <3>2. n \in i..n
        BY <1>1, <1>7
      <3> QED
        BY <1>3, <3>1, <3>2
    <2>2. h[n].ts >= row.ts
      BY <2>1
    <2> QED
      BY <1>1, <1>3, <1>4, <1>5, <2>1, <2>2 DEF g
  <1> QED
    BY <1>6, <1>7

Histories == {t \in [Keys -> Seq(SignalWeight)] : \A k \in Keys : t[k] # <<>> /\ Ordered(t[k])}

LEMMA TableGrows ==
    ASSUME NEW t \in Histories, NEW w \in Write, NEW u \in InsertSignalWeight(t, w.key, w.row)
    PROVE  /\ u \in Histories
           /\ \A k \in Keys : k # w.key => u[k] = t[k]
           /\ LatestWeight(u, w.key) \in {w.row, LatestWeight(t, w.key)}
           /\ LatestWeight(u, w.key).ts >= w.row.ts
  <1> DEFINE key == w.key
             row == w.row
  <1>1. key \in Keys /\ row \in SignalWeight
    BY DEF Write
  <1>2. t \in [Keys -> Seq(SignalWeight)] /\ \A k \in Keys : t[k] # <<>> /\ Ordered(t[k])
    BY DEF Histories
  <1>3. u \in InsertSignalWeight(t, key, row)
    OBVIOUS
  <1> HIDE DEF key, row
  <1>4. PICK i \in 1..(Len(t[key]) + 1) :
           /\ \A m \in 1..(i - 1) : t[key][m].ts <= row.ts
           /\ \A m \in i..Len(t[key]) : t[key][m].ts >= row.ts
           /\ u = [t EXCEPT ![key] = InsertAt(t[key], i, row)]
    BY <1>3 DEF InsertSignalWeight
  <1> DEFINE g == InsertAt(t[key], i, row)
  <1>5. /\ g \in Seq(SignalWeight) /\ g # <<>> /\ Ordered(g)
        /\ Last(g) \in {row, Last(t[key])} /\ Last(g).ts >= row.ts
    <2>1. t[key] \in Seq(SignalWeight) /\ t[key] # <<>> /\ Ordered(t[key])
      BY <1>1, <1>2
    <2> QED
      BY <1>1, <1>4, <2>1, HistoryGrows
  <1> HIDE DEF g
  <1>6. u = [t EXCEPT ![key] = g]
    BY <1>4 DEF g
  <1>7. u[key] = g /\ \A k \in Keys : k # key => u[k] = t[k]
    BY <1>1, <1>2, <1>6
  <1>8. u \in Histories
    <2>1. u \in [Keys -> Seq(SignalWeight)]
      BY <1>2, <1>5, <1>6
    <2>2. \A k \in Keys : u[k] # <<>> /\ Ordered(u[k])
      BY <1>2, <1>5, <1>7
    <2> QED
      BY <2>1, <2>2 DEF Histories
  <1> QED
    BY <1>5, <1>7, <1>8 DEF LatestWeight, key, row

\* The rows a handler sets out to write.
LEMMA WritesType ==
    ASSUME NEW t \in Nat, NEW w \in 0..1, NEW k \in Keys, NEW g \in Tags
    PROVE  /\ WriteOf(k, w, t, g) \in Write
           /\ WriteOf(k, w, t, g).key = k
           /\ WriteOf(k, w, t, g).row.weight = w /\ WriteOf(k, w, t, g).row.ts = t
           /\ WriteOf(k, w, t, g).row.tag = g
  BY DEF WriteOf, Write, SignalWeight, Weights

LEMMA RetirementType ==
    ASSUME NEW t \in Nat, NEW w \in RetirementWrites(t)
    PROVE  \E k \in Keys : \E i \in FirstUnreliable(k[2], t) :
              w = WriteOf(k, 0, t, <<"unreliable", FeedOrder[i]>>) /\ Active(weights, k)
  <1>1. PICK y \in Desks \X DOMAIN FeedOrder :
           /\ y[2] \in FirstUnreliable(y[1], t)
           /\ w \in RetireForAllRegimes(weights, y[1], FeedOrder[y[2]], t)
    BY DEF RetirementWrites
  <1>2. PICK k \in Keys : /\ k[2] = y[1] /\ Active(weights, k)
                          /\ w = WriteOf(k, 0, t, <<"unreliable", FeedOrder[y[2]]>>)
    BY <1>1 DEF RetireForAllRegimes
  <1> QED
    BY <1>1, <1>2

LEMMA ReinstatementType ==
    ASSUME NEW t \in Nat, NEW w \in ReinstatementWrites(t)
    PROVE  \E f \in Feeds : \E k \in RetiredForFeed(weights, f) :
              /\ Eligible(f, t)
              /\ w = WriteOf(k, 1, t, <<"reinstate", f>>)
  BY DEF ReinstatementWrites, ReinstateForFeed

LEMMA TagsFor ==
    /\ <<"auto">> \in Tags /\ <<"harmful">> \in Tags /\ <<"cold_start">> \in Tags
    /\ \A f \in Feeds : <<"unreliable", f>> \in Tags /\ <<"reinstate", f>> \in Tags
    /\ \A i \in DOMAIN FeedOrder : FeedOrder[i] \in Feeds
  BY LoopAssumption DEF Tags

LEMMA RetirementRows == \A t \in Nat : RetirementWrites(t) \subseteq Write
  <1> SUFFICES ASSUME NEW t \in Nat, NEW w \in RetirementWrites(t) PROVE w \in Write
    OBVIOUS
  <1>1. PICK k \in Keys : \E i \in FirstUnreliable(k[2], t) :
              w = WriteOf(k, 0, t, <<"unreliable", FeedOrder[i]>>)
    BY RetirementType
  <1>2. PICK i \in FirstUnreliable(k[2], t) :
              w = WriteOf(k, 0, t, <<"unreliable", FeedOrder[i]>>)
    BY <1>1
  <1>3. <<"unreliable", FeedOrder[i]>> \in Tags
    BY TagsFor DEF FirstUnreliable
  <1> QED
    BY <1>2, <1>3, WritesType

LEMMA ReinstatementRows == \A t \in Nat : ReinstatementWrites(t) \subseteq Write
  <1> SUFFICES ASSUME NEW t \in Nat, NEW w \in ReinstatementWrites(t) PROVE w \in Write
    OBVIOUS
  <1>0. PICK f \in Feeds : \E k \in RetiredForFeed(weights, f) :
              w = WriteOf(k, 1, t, <<"reinstate", f>>)
    BY ReinstatementType
  <1>1. PICK k \in RetiredForFeed(weights, f) : w = WriteOf(k, 1, t, <<"reinstate", f>>)
    BY <1>0
  <1>2. k \in Keys /\ <<"reinstate", f>> \in Tags
    BY TagsFor DEF RetiredForFeed
  <1> QED
    BY <1>1, <1>2, WritesType

\* What the other handlers may set out to write.
LEMMA GateRows ==
    ASSUME TypeInv, GateFailureHandler
    PROVE  \A w \in todo' : \E k \in Keys : w = WriteOf(k, 0, now, <<"harmful">>)
  <1>1. batch # <<>> /\ Head(batch).type = "gate_failure"
        /\ todo' \in {RetireForRegime(Head(batch).subject, now), {}}
    BY DEF GateFailureHandler, Handling
  <1>2. Head(batch).subject \in Keys
    BY <1>1, HeadIsEvent DEF TypeInv, FitEvent
  <1> QED
    BY <1>1, <1>2 DEF RetireForRegime

LEMMA PromotionRows ==
    ASSUME TypeInv, RegimeTransitionHandler
    PROVE  \A w \in todo' : \E k \in Keys : \E x \in 0..1 :
              w = WriteOf(k, x, Head(batch).at, <<"auto">>)
  <1>1. /\ batch # <<>> /\ Head(batch).type = "regime_transition"
        /\ \/ todo' = {}
           \/ \E S \in SUBSET Desks :
                 todo' = ProposeFromShapley(Head(batch).subject[1], S, Head(batch).at)
    BY DEF RegimeTransitionHandler, Handling
  <1>2. PICK r \in Regimes : Head(batch).subject = <<r>>
    BY <1>1, HeadIsEvent DEF TypeInv, FitEvent
  <1>3. Head(batch).subject[1] = r
    BY <1>2
  <1>4. ASSUME NEW S \in SUBSET Desks, NEW w \in ProposeFromShapley(r, S, Head(batch).at)
        PROVE  \E k \in Keys : \E x \in 0..1 : w = WriteOf(k, x, Head(batch).at, <<"auto">>)
    <2>1. PICK d \in Desks :
             w = WriteOf(<<r, d>>, IF d \in S THEN 1 ELSE 0, Head(batch).at, <<"auto">>)
      BY <1>4 DEF ProposeFromShapley
    <2>2. <<r, d>> \in Keys /\ (IF d \in S THEN 1 ELSE 0) \in 0..1
      BY DEF Keys
    <2> QED
      BY <2>1, <2>2
  <1> QED
    BY <1>1, <1>3, <1>4

\* The actions that leave the weights and what is to be written alone.
LEMMA TableUntouched ==
    ASSUME [Next]_vars
    PROVE  \/ UNCHANGED <<weights, todo>>
           \/ WriteRow
           \/ /\ UNCHANGED weights
              /\ \/ FeedReliabilityReviewHandler \/ GateFailureHandler
                 \/ RegimeTransitionHandler \/ Reinstate \/ Crash
  BY DEF Next, vars, feedState, runState, Dispatch, Handlers, BeginRun, EndRun,
         DataIngestionFailureHandler, FeedReliabilityReviewHandler, GateFailureHandler,
         RegimeTransitionHandler, Reinstate, HandlerReturns, MarkCompleted,
         CheckIngestionMisses, CheckIncidentRecoveries, ObserveLatency,
         SubmitFeedReliabilityReview, SubmitGateFailure, SubmitRegimeTransition, Submit,
         Crash, Tick, ReleaseArrives

LEMMA TableNext == TypeInv /\ [Next]_vars => TableOK'
  <1> SUFFICES ASSUME TypeInv, [Next]_vars PROVE TableOK'
    OBVIOUS
  <1>0. /\ weights \in Histories /\ todo \subseteq Write
        /\ (\E b \in Histories : weights' = b) /\ todo' \subseteq Write => TableOK'
    BY DEF TypeInv, TableOK, Histories
  <1>1. CASE UNCHANGED <<weights, todo>>
    BY <1>0, <1>1
  <1>2. CASE WriteRow
    <2>1. PICK w \in todo : /\ weights' \in InsertSignalWeight(weights, w.key, w.row)
                            /\ todo' = todo \ {w}
      BY <1>2 DEF WriteRow
    <2>2. weights' \in Histories
      BY <1>0, <2>1, TableGrows
    <2> QED
      BY <1>0, <2>1, <2>2
  <1>3. ASSUME batch # <<>> PROVE Head(batch).at \in Nat
    BY <1>3, HeadIsEvent DEF TypeInv
  <1>4. CASE UNCHANGED weights /\ FeedReliabilityReviewHandler
    <2>1. batch # <<>> /\ todo' = RetirementWrites(Head(batch).at)
      BY <1>4 DEF FeedReliabilityReviewHandler, Handling
    <2> QED
      BY <1>0, <1>3, <1>4, <2>1, RetirementRows
  <1>5. CASE UNCHANGED weights /\ Reinstate
    <2>1. batch # <<>> /\ todo' = ReinstatementWrites(Head(batch).at)
      BY <1>5 DEF Reinstate, TypeInv, QueueOK
    <2> QED
      BY <1>0, <1>3, <1>5, <2>1, ReinstatementRows
  <1>6. CASE UNCHANGED weights /\ GateFailureHandler
    <2>1. ASSUME NEW w \in todo' PROVE w \in Write
      <3>1. PICK k \in Keys : w = WriteOf(k, 0, now, <<"harmful">>)
        BY <1>6, GateRows
      <3>2. now \in Nat
        BY Bounds DEF TypeInv, ClockOK
      <3> QED
        BY <3>1, <3>2, WritesType, TagsFor
    <2> QED
      BY <1>0, <1>6, <2>1
  <1>7. CASE UNCHANGED weights /\ RegimeTransitionHandler
    <2>1. ASSUME NEW w \in todo' PROVE w \in Write
      <3>1. PICK k \in Keys, x \in 0..1 : w = WriteOf(k, x, Head(batch).at, <<"auto">>)
        BY <1>7, PromotionRows
      <3>2. Head(batch).at \in Nat
        BY <1>3, <1>7 DEF RegimeTransitionHandler, Handling
      <3> QED
        BY <3>1, <3>2, WritesType, TagsFor
    <2> QED
      BY <1>0, <1>7, <2>1
  <1>8. CASE UNCHANGED weights /\ Crash
    BY <1>0, <1>8 DEF Crash
  <1> QED
    BY <1>1, <1>2, <1>4, <1>5, <1>6, <1>7, <1>8, TableUntouched

LEMMA InitTypes == Init => TypeInv
  <1> SUFFICES ASSUME Init PROVE TypeInv
    OBVIOUS
  <1>1. QueueOK
    BY DEF Init, QueueOK
  <1>2. ClockOK
    BY Bounds DEF Init, ClockOK
  <1>3. FeedOK
    <2>1. [drift |-> 0, tripped |-> FALSE] \in Detector
      BY Bounds DEF Detector
    <2> QED
      BY <2>1 DEF Init, FeedOK, Detector
  <1>4. TableOK
    <2> DEFINE row == [weight |-> 1, ts |-> 0, tag |-> <<"cold_start">>]
    <2>1. row \in SignalWeight
      BY TagsFor DEF SignalWeight, Weights
    <2>2. weights = [k \in Keys |-> <<row>>] /\ todo = {}
      BY DEF Init, SeedColdStart
    <2> HIDE DEF row
    <2>3. <<row>> \in Seq(SignalWeight) /\ <<row>> # <<>>
      BY <2>1
    <2>4. Ordered(<<row>>)
      BY DEF Ordered
    <2> QED
      BY <2>2, <2>3, <2>4 DEF TableOK
  <1> QED
    BY <1>1, <1>2, <1>3, <1>4 DEF TypeInv

LEMMA TypeInvariant == Spec => []TypeInv
  <1>1. TypeInv /\ [Next]_vars => TypeInv'
    BY QueueNext, ClockNext, FeedNext, TableNext DEF TypeInv
  <1> QED
    BY InitTypes, <1>1, PTL DEF Spec

\* Rows, events, incidents and the run under way stay well-formed, and every
\* key's rows stay in the order get_latest_signal_weights ranks them in, a
\* row with an older time stamp included.
THEOREM TypeCorrect == Spec => []TypeOK
  <1>1. TypeInv => TypeOK
    <2> SUFFICES ASSUME TypeInv PROVE TypeOK
      OBVIOUS
    <2>1. pending \in Seq(Event) /\ batch \in Seq(Event)
      <3>1. FitEvent \subseteq Event
        BY DEF FitEvent
      <3> QED
        BY <3>1 DEF TypeInv, QueueOK
    <2> QED
      BY <2>1 DEF TypeInv, QueueOK, ClockOK, FeedOK, TableOK, Ordered, TypeOK
  <1> QED
    BY <1>1, TypeInvariant, PTL

-----------------------------------------------------------------------------
(***************************************************************************)
(* A tripped detector is never silent.                                     *)
(***************************************************************************)

Queued(f) == \E i \in DOMAIN pending :
                 pending[i].type = "data_ingestion_failure" /\ pending[i].subject[1] = f

\* What the registry, the detectors, the queue and the run say together.  The
\* last part is why an event may leave the queue: its handler has seen to it
\* that an incident of the feed is open.
OneOpen == \A i, j \in DOMAIN incidents :
              incidents[i].feed = incidents[j].feed /\ IsOpen(i) /\ IsOpen(j) => i = j
HandledIsOpen ==
    pc = "mark" /\ Head(batch).type = "data_ingestion_failure" =>
        OpenIncidents(Head(batch).subject[1]) # {}
ReportInv == OneOpen /\ TrippedIsReported /\ HandledIsOpen

LEMMA SilentUnlessReported ==
    TrippedIsReported <=>
        \A f \in Feeds : ph[f].tripped /\ f \notin cut => OpenIncidents(f) # {} \/ Queued(f)
  BY DEF TrippedIsReported, Queued

\* Publishing leaves what is queued, and completing an event removes no other.
LEMMA StaysQueued ==
    ASSUME TypeInv, [Next]_vars, NEW f \in Feeds, Queued(f)
    PROVE  \/ Queued(f)'
           \/ /\ MarkCompleted
              /\ Head(batch).type = "data_ingestion_failure" /\ Head(batch).subject[1] = f
  <1>0. pending \in Seq(FitEvent)
    BY DEF TypeInv, QueueOK
  <1>1. PICK i \in DOMAIN pending :
           pending[i].type = "data_ingestion_failure" /\ pending[i].subject[1] = f
    BY DEF Queued
  <1>2. CASE pending' = pending
    BY <1>1, <1>2 DEF Queued
  <1>3. ASSUME NEW es, Publishes(es) PROVE Queued(f)'
    <2>1. \E k \in DOMAIN pending' : pending'[k] = pending[i]
      BY <1>0, <1>3, QueueGrows DEF Publishes
    <2> QED
      BY <1>1, <2>1 DEF Queued
  <1>4. CASE MarkCompleted
    <2>1. CASE pending[i] = Head(batch)
      BY <1>1, <1>4, <2>1
    <2>2. CASE pending[i] # Head(batch)
      <3>1. \E k \in DOMAIN pending' : pending'[k] = pending[i]
        BY <1>0, <1>4, <2>2, QueueShrinks DEF MarkCompleted
      <3> QED
        BY <1>1, <3>1 DEF Queued
    <2> QED
      BY <2>1, <2>2
  <1>5. \/ pending' = pending \/ MarkCompleted
        \/ CheckIngestionMisses \/ (\E g \in Feeds : ObserveLatency(g))
        \/ SubmitFeedReliabilityReview \/ SubmitGateFailure \/ SubmitRegimeTransition
    BY DEF Next, vars, Dispatch, Handlers, BeginRun, EndRun,
         DataIngestionFailureHandler, FeedReliabilityReviewHandler, GateFailureHandler,
         RegimeTransitionHandler, WriteRow, Reinstate, HandlerReturns,
         CheckIncidentRecoveries, Crash, Tick, ReleaseArrives
  <1> QED
    BY <1>2, <1>3, <1>4, <1>5, Publishers

\* The registry under the three actions that touch it.
LEMMA OpenAfterFailure ==
    ASSUME TypeInv, OneOpen, DataIngestionFailureHandler
    PROVE  /\ OneOpen'
           /\ \A f \in Feeds : OpenIncidents(f) # {} => OpenIncidents(f)' # {}
           /\ OpenIncidents(Head(batch).subject[1])' # {}
           /\ UNCHANGED <<ph, cut, pending, batch>>
  <1>0. PICK f : f = Head(batch).subject[1]
    OBVIOUS
  <1>i. PICK i : i = [feed |-> f, opened |-> Head(batch).at, closed |-> NULL,
                      cause |-> Head(batch).subject]
    OBVIOUS
  <1>1. /\ incidents' = IF OpenIncidents(f) # {} THEN incidents ELSE Append(incidents, i)
        /\ UNCHANGED <<ph, cut, pending, batch>>
    BY <1>0, <1>i DEF DataIngestionFailureHandler, OpenFeedIncident
  <1>2. i.feed = f /\ i.closed = NULL
    BY <1>i
  <1>3. incidents \in Seq(Incident)
    BY DEF TypeInv, FeedOK
  <1>4. CASE OpenIncidents(f) # {}
    <2>1. incidents' = incidents
      BY <1>1, <1>4
    <2> QED
      BY <1>0, <1>1, <1>4, <2>1 DEF OneOpen, OpenIncidents, IsOpen
  <1>5. CASE OpenIncidents(f) = {}
    <2> DEFINE n == Len(incidents)
    <2>1. incidents' = Append(incidents, i)
      BY <1>1, <1>5
    <2>2. /\ n \in Nat /\ DOMAIN incidents = 1..n /\ DOMAIN incidents' = 1..(n + 1)
          /\ incidents'[n + 1] = i /\ \A k \in 1..n : incidents'[k] = incidents[k]
      BY <1>3, <2>1
    <2>3. \A k \in 1..n : ~(incidents[k].feed = f /\ incidents[k].closed = NULL)
      BY <1>5, <2>2 DEF OpenIncidents, IsOpen
    <2>4. ASSUME NEW a \in DOMAIN incidents', NEW b \in DOMAIN incidents',
                 incidents'[a].feed = incidents'[b].feed,
                 incidents'[a].closed = NULL, incidents'[b].closed = NULL
          PROVE  a = b
      <3>1. CASE a = n + 1 /\ b = n + 1
        BY <3>1
      <3>2. CASE a \in 1..n /\ b \in 1..n
        BY <2>2, <2>4, <3>2 DEF OneOpen, IsOpen
      <3>3. CASE a = n + 1 /\ b \in 1..n
        BY <1>2, <2>2, <2>3, <2>4, <3>3
      <3>4. CASE a \in 1..n /\ b = n + 1
        BY <1>2, <2>2, <2>3, <2>4, <3>4
      <3> QED
        BY <2>2, <3>1, <3>2, <3>3, <3>4
    <2>5. OneOpen'
      BY <2>4 DEF OneOpen, IsOpen
    <2>6. n + 1 \in OpenIncidents(f)'
      BY <1>2, <2>2 DEF OpenIncidents, IsOpen
    <2>7. ASSUME NEW g \in Feeds, OpenIncidents(g) # {} PROVE OpenIncidents(g)' # {}
      <3>1. PICK k \in DOMAIN incidents : incidents[k].feed = g /\ incidents[k].closed = NULL
        BY <2>7 DEF OpenIncidents, IsOpen
      <3>2. k \in OpenIncidents(g)'
        BY <2>2, <3>1 DEF OpenIncidents, IsOpen
      <3> QED
        BY <3>2
    <2>8. \A g \in Feeds : OpenIncidents(g) # {} => OpenIncidents(g)' # {}
      BY <2>7
    <2>9. OpenIncidents(f)' # {}
      BY <2>6
    <2>10. Head(batch)' = Head(batch)
      BY <1>1
    <2> QED
      BY <1>0, <1>1, <2>5, <2>8, <2>9, <2>10
  <1> QED
    BY <1>4, <1>5

LEMMA OpenAfterRecovery ==
    ASSUME TypeInv, OneOpen, CheckIncidentRecoveries
    PROVE  \E f \in Feeds :
             /\ OneOpen'
             /\ \A g \in Feeds \ {f} : /\ OpenIncidents(g) # {} => OpenIncidents(g)' # {}
                                       /\ ph'[g] = ph[g] /\ (g \in cut' <=> g \in cut)
             /\ ~ph'[f].tripped \/ f \in cut'
             /\ UNCHANGED <<pending, pc>> /\ pc = "idle"
  <1>1. PICK i \in DOMAIN incidents :
          /\ pc = "idle"
          /\ incidents' = [incidents EXCEPT ![i].closed = now]
          /\ \/ ph' = [ph EXCEPT ![incidents[i].feed] = ResetForFeed]
                /\ cut' = cut \ {incidents[i].feed}
             \/ ph' = ph /\ cut' = cut \cup {incidents[i].feed}
          /\ UNCHANGED <<pending, pc>>
    BY DEF CheckIncidentRecoveries, runState
  <1> DEFINE f == incidents[i].feed
  <1>2. incidents \in Seq(Incident) /\ ph \in [Feeds -> Detector]
    BY DEF TypeInv, FeedOK, Detector
  <1>3. incidents[i] \in Incident /\ \A k \in DOMAIN incidents : incidents[k] \in Incident
    BY <1>2
  <1>4. f \in Feeds
    BY <1>3 DEF Incident
  <1>5. now # NULL
    BY Bounds DEF TypeInv, ClockOK, NULL
  <1>6. /\ DOMAIN incidents' = DOMAIN incidents
        /\ incidents'[i].closed = now /\ incidents'[i].feed = f
        /\ \A k \in DOMAIN incidents : k # i => incidents'[k] = incidents[k]
    <2>1. incidents' = [incidents EXCEPT ![i] = [incidents[i] EXCEPT !.closed = now]]
      BY <1>1
    <2>2. /\ [incidents[i] EXCEPT !.closed = now].closed = now
          /\ [incidents[i] EXCEPT !.closed = now].feed = f
      BY <1>3 DEF Incident
    <2> QED
      BY <1>2, <2>1, <2>2
  <1>7. \A g \in Feeds \ {f} : ph'[g] = ph[g] /\ (g \in cut' <=> g \in cut)
    BY <1>1, <1>2, <1>4
  <1>8. ~ph'[f].tripped \/ f \in cut'
    BY <1>1, <1>2, <1>4 DEF ResetForFeed
  <1> HIDE DEF f
  <1>9. OneOpen'
    <2> SUFFICES ASSUME NEW a \in DOMAIN incidents', NEW b \in DOMAIN incidents',
                        incidents'[a].feed = incidents'[b].feed,
                        incidents'[a].closed = NULL, incidents'[b].closed = NULL
                 PROVE  a = b
      BY DEF OneOpen, IsOpen
    <2>1. a # i /\ b # i
      BY <1>5, <1>6
    <2> QED
      BY <1>6, <2>1 DEF OneOpen, IsOpen
  <1>10. ASSUME NEW g \in Feeds, g # f, OpenIncidents(g) # {} PROVE OpenIncidents(g)' # {}
    <2>1. PICK k \in DOMAIN incidents : incidents[k].feed = g /\ incidents[k].closed = NULL
      BY <1>10 DEF OpenIncidents, IsOpen
    <2>2. k # i
      BY <1>10, <2>1 DEF f
    <2>3. k \in OpenIncidents(g)'
      BY <1>6, <2>1, <2>2 DEF OpenIncidents, IsOpen
    <2> QED
      BY <2>3
  <1> QED
    BY <1>1, <1>4, <1>7, <1>8, <1>9, <1>10

LEMMA ReportNext == TypeInv /\ ReportInv /\ [Next]_vars => ReportInv'
  <1> SUFFICES ASSUME TypeInv, ReportInv, [Next]_vars PROVE ReportInv'
    OBVIOUS
  <1> USE DEF ReportInv
  <1>1. CASE DataIngestionFailureHandler
    <2>1. /\ OneOpen' /\ OpenIncidents(Head(batch).subject[1])' # {}
          /\ \A f \in Feeds : OpenIncidents(f) # {} => OpenIncidents(f)' # {}
          /\ UNCHANGED <<ph, cut, pending, batch>>
      BY <1>1, OpenAfterFailure
    <2>2. TrippedIsReported'
      BY <2>1 DEF TrippedIsReported
    <2>3. HandledIsOpen'
      BY <2>1 DEF HandledIsOpen
    <2> QED
      BY <2>1, <2>2, <2>3
  <1>2. CASE CheckIncidentRecoveries
    <2>1. PICK f \in Feeds :
             /\ OneOpen'
             /\ \A g \in Feeds \ {f} : /\ OpenIncidents(g) # {} => OpenIncidents(g)' # {}
                                       /\ ph'[g] = ph[g] /\ (g \in cut' <=> g \in cut)
             /\ ~ph'[f].tripped \/ f \in cut'
             /\ UNCHANGED <<pending, pc>> /\ pc = "idle"
      BY <1>2, OpenAfterRecovery
    <2>2. TrippedIsReported'
      BY <2>1 DEF TrippedIsReported
    <2>3. HandledIsOpen'
      BY <2>1 DEF HandledIsOpen
    <2> QED
      BY <2>1, <2>2, <2>3
  <1>3. ASSUME NEW f \in Feeds, ObserveLatency(f) PROVE ReportInv'
    <2>1. PICK d \in Detector :
             /\ ph' = [ph EXCEPT ![f] = d]
             /\ UNCHANGED incidents
             /\ cut' \in {cut, cut \cup {f}}
             /\ d.tripped /\ ~ph[f].tripped /\ OpenIncidents(f) = {} =>
                   \/ f \in cut'
                   \/ \E s \in Nat : pending' \in Queues(pending, {Failure(f, s)})
      BY <1>3, Observed
    <2>2. ph \in [Feeds -> Detector] /\ pending \in Seq(FitEvent) /\ now \in Time
      BY DEF TypeInv, FeedOK, QueueOK, ClockOK, Detector
    <2>3. UNCHANGED runState /\ pc = "idle"
      BY <1>3 DEF ObserveLatency
    <2>4. ~MarkCompleted
      BY <2>3 DEF MarkCompleted
    <2>5. ASSUME NEW g \in Feeds, ph'[g].tripped, g \notin cut', OpenIncidents(g)' = {}
          PROVE  Queued(g)'
      <3>1. OpenIncidents(g) = {}
        BY <2>1, <2>5 DEF OpenIncidents, IsOpen
      <3>2. CASE ph[g].tripped
        <4>1. g \notin cut
          BY <2>1, <2>5
        <4>2. Queued(g)
          BY <3>1, <3>2, <4>1, SilentUnlessReported
        <4> QED
          BY <2>4, <4>2, StaysQueued
      <3>3. CASE ~ph[g].tripped
        <4>1. g = f /\ d.tripped
          BY <2>1, <2>2, <2>5, <3>3
        <4>2. PICK s \in Nat : pending' \in Queues(pending, {Failure(f, s)})
          BY <2>1, <2>5, <3>1, <3>3, <4>1
        <4>3. PICK es : es = {Failure(f, s)}
          OBVIOUS
        <4>4. es \in SUBSET FitEvent /\ IsFiniteSet(es) /\ pending' \in Queues(pending, es)
          BY <2>2, <4>2, <4>3, OneFailure
        <4>5. \A e \in es : \E k \in DOMAIN pending' : pending'[k] = e
          BY <2>2, <4>4, QueueGrows
        <4> QED
          BY <4>1, <4>3, <4>5 DEF Queued, Failure
      <3> QED
        BY <3>2, <3>3
    <2>6. TrippedIsReported'
      BY <2>5 DEF TrippedIsReported, Queued
    <2>7. OneOpen'
      BY <2>1 DEF OneOpen, IsOpen
    <2>8. HandledIsOpen'
      BY <2>3 DEF HandledIsOpen, runState
    <2> QED
      BY <2>6, <2>7, <2>8
  <1>4. CASE UNCHANGED feedState
    <2>1. OneOpen'
      BY <1>4 DEF OneOpen, IsOpen, feedState
    <2>2. \A f : OpenIncidents(f)' = OpenIncidents(f)
      BY <1>4 DEF OpenIncidents, IsOpen, feedState
    <2>3. ASSUME NEW f \in Feeds, ph[f].tripped, f \notin cut, OpenIncidents(f) = {}
          PROVE  Queued(f)'
      <3>1. Queued(f)
        BY <2>3, SilentUnlessReported
      <3>2. MarkCompleted => pc = "mark"
        BY DEF MarkCompleted
      <3> QED
        BY <2>3, <3>1, <3>2, StaysQueued DEF HandledIsOpen
    <2>4. TrippedIsReported'
      BY <1>4, <2>2, <2>3 DEF TrippedIsReported, Queued, feedState
    <2>5. HandledIsOpen'
      <3>1. CASE pc' = "mark" /\ ~DataIngestionFailureHandler
        <4>1. \/ pc = "mark" /\ batch' = batch
              \/ HandlerReturns
          BY <3>1 DEF Next, vars, runState, Dispatch, Handlers, BeginRun, EndRun,
             FeedReliabilityReviewHandler, GateFailureHandler,
             RegimeTransitionHandler, WriteRow, Reinstate, HandlerReturns, MarkCompleted,
             CheckIngestionMisses, CheckIncidentRecoveries, ObserveLatency,
             SubmitFeedReliabilityReview, SubmitGateFailure, SubmitRegimeTransition, Submit,
             Crash, Tick, ReleaseArrives
        <4> QED
          BY <2>2, <4>1 DEF HandledIsOpen, HandlerReturns, TypeInv, QueueOK
      <3> QED
        BY <1>1, <3>1 DEF HandledIsOpen
    <2> QED
      BY <2>1, <2>4, <2>5
  <1> QED
    BY <1>1, <1>2, <1>3, <1>4, FeedUntouched

LEMMA InitReports == Init => ReportInv
  <1> SUFFICES ASSUME Init PROVE ReportInv
    OBVIOUS
  <1>1. incidents = <<>> /\ pc = "idle" /\ \A f \in Feeds : ~ph[f].tripped
    BY DEF Init
  <1> QED
    BY <1>1 DEF ReportInv, OneOpen, TrippedIsReported, HandledIsOpen

LEMMA ReportInvariant == Spec => []ReportInv
  <1> QED
    BY InitReports, ReportNext, TypeInvariant, PTL DEF Spec

\* However the two detection paths, repeated checks, crashes and re-runs of a
\* handler overlap, a feed has at most one open incident, and a detector that
\* has tripped has an open incident or a queued event to show for it, unless
\* the process died in the one gap between the detector's row and the rest.
THEOREM MissesAreReported == Spec => []ReportedOnce
  <1>1. TypeInv /\ ReportInv => ReportedOnce
    <2> SUFFICES ASSUME TypeInv, ReportInv, NEW f \in Feeds
                 PROVE  Cardinality(OpenIncidents(f)) <= 1
      BY DEF ReportedOnce, OneOpenIncident, ReportInv
    <2>1. \A i, j \in OpenIncidents(f) : i = j
      BY DEF ReportInv, OneOpen, OpenIncidents
    <2>2. CASE OpenIncidents(f) = {}
      <3>1. Cardinality(OpenIncidents(f)) = 0
        BY <2>2, FS_EmptySet
      <3> QED
        BY <3>1
    <2>3. CASE OpenIncidents(f) # {}
      <3>1. PICK i : OpenIncidents(f) = {i}
        BY <2>1, <2>3
      <3>2. Cardinality(OpenIncidents(f)) = 1
        BY <3>1, FS_Singleton
      <3> QED
        BY <3>2
    <2> QED
      BY <2>2, <2>3
  <1> QED
    BY <1>1, TypeInvariant, ReportInvariant, PTL

-----------------------------------------------------------------------------
(***************************************************************************)
(* Weight comes back through a promotion or through the recovery of the    *)
(* feed it was taken for.                                                  *)
(***************************************************************************)

\* What a handler may still write: a review that gives weight back, rows that
\* undo a retirement for a feed that has recovered; otherwise promotions and
\* rows without weight.
Reinstating == pc = "write" /\ Head(batch).type = "feed_reliability_review"
Undoes(w, f) == /\ w.row.tag = <<"reinstate", f>>
                /\ OpenIncidents(f) = {}
                /\ \/ Active(weights, w.key)
                   \/ LatestWeight(weights, w.key).tag = <<"unreliable", f>>
SelectiveInv ==
    \A w \in todo : /\ Reinstating => w.row.weight = 1 /\ \E f \in Feeds : Undoes(w, f)
                    /\ ~Reinstating => w.row.weight = 0 \/ w.row.tag = <<"auto">>

LEMMA Inserted ==
    ASSUME TypeInv, WriteRow
    PROVE  \E w \in todo :
              /\ w \in Write /\ todo' = todo \ {w}
              /\ \A k \in Keys : k # w.key => weights'[k] = weights[k]
              /\ LatestWeight(weights', w.key) \in {w.row, LatestWeight(weights, w.key)}
              /\ LatestWeight(weights', w.key).ts >= w.row.ts
              /\ UNCHANGED <<pc, batch, feedState>>
  <1>1. PICK w \in todo : /\ weights' \in InsertSignalWeight(weights, w.key, w.row)
                          /\ todo' = todo \ {w}
    BY DEF WriteRow
  <1>2. weights \in Histories /\ w \in Write
    BY DEF TypeInv, TableOK, Histories
  <1>3. PICK u : u = weights'
    OBVIOUS
  <1>4. /\ \A k \in Keys : k # w.key => u[k] = weights[k]
        /\ LatestWeight(u, w.key) \in {w.row, LatestWeight(weights, w.key)}
        /\ LatestWeight(u, w.key).ts >= w.row.ts
    BY <1>1, <1>2, <1>3, TableGrows
  <1> QED
    BY <1>1, <1>2, <1>3, <1>4 DEF WriteRow

\* The actions that leave the table, the registry and what is to be written
\* alone change what the run is at only when nothing is left to write.
LEMMA RunMoves ==
    ASSUME TypeInv, [Next]_vars, UNCHANGED todo, ~Reinstate, ~FeedReliabilityReviewHandler,
           ~GateFailureHandler, ~RegimeTransitionHandler, ~WriteRow
    PROVE  \/ UNCHANGED <<pc, batch, weights>> /\ (pc # "idle" => UNCHANGED incidents)
           \/ pc \notin {"retire", "write"} /\ pc' \notin {"retire", "write"} /\ ~HandlerReturns
              /\ UNCHANGED weights /\ (pc' = "mark" => DataIngestionFailureHandler)
           \/ HandlerReturns
           \/ Crash
  <1>1. CASE BeginRun \/ EndRun \/ DataIngestionFailureHandler \/ MarkCompleted
    <2>1. ~HandlerReturns
      BY <1>1 DEF BeginRun, EndRun, DataIngestionFailureHandler, Handling, MarkCompleted,
                  HandlerReturns
    <2> QED
      BY <1>1, <2>1 DEF BeginRun, EndRun, DataIngestionFailureHandler, Handling, MarkCompleted
  <1>2. CASE \/ CheckIngestionMisses \/ CheckIncidentRecoveries
             \/ \E f \in Feeds : ObserveLatency(f)
             \/ SubmitFeedReliabilityReview \/ SubmitGateFailure \/ SubmitRegimeTransition
             \/ Tick \/ ReleaseArrives
    <2>1. UNCHANGED <<pc, batch, weights>> /\ pc = "idle"
      BY <1>2 DEF CheckIngestionMisses, CheckIncidentRecoveries, ObserveLatency, runState,
             SubmitFeedReliabilityReview, SubmitGateFailure, SubmitRegimeTransition, Submit,
             Tick, ReleaseArrives
    <2> QED
      BY <2>1
  <1>3. CASE UNCHANGED vars
    BY <1>3 DEF vars
  <1> QED
    BY <1>1, <1>2, <1>3 DEF Next, Dispatch, Handlers

LEMMA SelectiveNext == TypeInv /\ SelectiveInv /\ [Next]_vars => SelectiveInv'
  <1> SUFFICES ASSUME TypeInv, SelectiveInv, [Next]_vars PROVE SelectiveInv'
    OBVIOUS
  <1>1. CASE WriteRow
    <2>1. PICK w \in todo :
              /\ w \in Write /\ todo' = todo \ {w}
              /\ \A k \in Keys : k # w.key => weights'[k] = weights[k]
              /\ LatestWeight(weights', w.key) \in {w.row, LatestWeight(weights, w.key)}
              /\ UNCHANGED <<pc, batch, feedState>>
      BY <1>1, Inserted
    <2>2. Reinstating' = Reinstating
      BY <2>1 DEF Reinstating
    <2>3. \A f : OpenIncidents(f)' = OpenIncidents(f)
      BY <2>1 DEF OpenIncidents, IsOpen, feedState
    <2>4. ASSUME NEW v \in todo', Reinstating, NEW f \in Feeds, Undoes(v, f) PROVE Undoes(v, f)'
      <3>1. v \in Write /\ v.key \in Keys
        BY <2>1, <2>4 DEF TypeInv, TableOK, Write
      <3>2. CASE v.key # w.key
        <4>1. weights'[v.key] = weights[v.key]
          BY <2>1, <3>1, <3>2
        <4> QED
          BY <2>3, <2>4, <4>1 DEF Undoes, Active, LatestWeight
      <3>3. CASE v.key = w.key
        <4>1. w.row.weight = 1
          BY <2>4 DEF SelectiveInv
        <4>2. \/ LatestWeight(weights', v.key) = w.row
              \/ LatestWeight(weights', v.key) = LatestWeight(weights, v.key)
          BY <2>1, <3>3
        <4> QED
          BY <2>3, <2>4, <4>1, <4>2 DEF Undoes, Active
      <3> QED
        BY <3>2, <3>3
    <2> QED
      BY <2>1, <2>2, <2>4 DEF SelectiveInv
  <1>2. CASE FeedReliabilityReviewHandler
    <2>1. /\ pc' = "retire" /\ todo' = RetirementWrites(Head(batch).at) /\ batch # <<>>
      BY <1>2 DEF FeedReliabilityReviewHandler, Handling
    <2>2. Head(batch).at \in Nat
      BY <2>1, HeadIsEvent DEF TypeInv
    <2>3. \A w \in todo' : w.row.weight = 0
      <3>1. ASSUME NEW w \in todo' PROVE w.row.weight = 0
        <4>1. PICK k \in Keys : \E i \in FirstUnreliable(k[2], Head(batch).at) :
                 w = WriteOf(k, 0, Head(batch).at, <<"unreliable", FeedOrder[i]>>)
          BY <2>1, <2>2, <3>1, RetirementType
        <4> QED
          BY <4>1 DEF WriteOf
      <3> QED
        BY <3>1
    <2>4. ~Reinstating'
      BY <2>1 DEF Reinstating
    <2> QED
      BY <2>3, <2>4 DEF SelectiveInv
  <1>3. CASE Reinstate
    <2>1. /\ pc = "retire" /\ pc' = "write" /\ todo' = ReinstatementWrites(Head(batch).at)
          /\ UNCHANGED <<batch, weights, incidents>>
      BY <1>3 DEF Reinstate, feedState
    <2>2. Head(batch).at \in Nat /\ Head(batch).type = "feed_reliability_review"
      BY <2>1, HeadIsEvent DEF TypeInv, QueueOK
    <2>3. Reinstating'
      BY <2>1, <2>2 DEF Reinstating
    <2>4. ASSUME NEW w \in todo' PROVE w.row.weight = 1 /\ \E f \in Feeds : Undoes(w, f)'
      <3>1. PICK f \in Feeds : \E k \in RetiredForFeed(weights, f) :
               /\ Eligible(f, Head(batch).at)
               /\ w = WriteOf(k, 1, Head(batch).at, <<"reinstate", f>>)
        BY <2>1, <2>2, <2>4, ReinstatementType
      <3>2. PICK k \in RetiredForFeed(weights, f) :
               w = WriteOf(k, 1, Head(batch).at, <<"reinstate", f>>)
        BY <3>1
      <3>3. w.key = k /\ w.row.weight = 1 /\ w.row.tag = <<"reinstate", f>>
        BY <3>2 DEF WriteOf
      <3>4. LatestWeight(weights, k).tag = <<"unreliable", f>>
        BY DEF RetiredForFeed
      <3>5. OpenIncidents(f)' = {}
        BY <2>1, <3>1 DEF Eligible, OpenIncidents, IsOpen
      <3> QED
        BY <2>1, <3>3, <3>4, <3>5 DEF Undoes
    <2> QED
      BY <2>3, <2>4 DEF SelectiveInv
  <1>4. CASE GateFailureHandler
    <2>1. Head(batch).type = "gate_failure" /\ UNCHANGED batch
      BY <1>4 DEF GateFailureHandler, Handling
    <2>2. \A w \in todo' : w.row.weight = 0
      BY <1>4, GateRows DEF WriteOf
    <2> QED
      BY <2>1, <2>2 DEF SelectiveInv, Reinstating
  <1>5. CASE RegimeTransitionHandler
    <2>1. Head(batch).type = "regime_transition" /\ UNCHANGED batch
      BY <1>5 DEF RegimeTransitionHandler, Handling
    <2>2. \A w \in todo' : w.row.tag = <<"auto">>
      BY <1>5, PromotionRows DEF WriteOf
    <2> QED
      BY <2>1, <2>2 DEF SelectiveInv, Reinstating
  <1>6. CASE Crash
    BY <1>6 DEF Crash, SelectiveInv
  <1>7. CASE /\ UNCHANGED todo
             /\ ~Reinstate /\ ~FeedReliabilityReviewHandler /\ ~GateFailureHandler
             /\ ~RegimeTransitionHandler /\ ~WriteRow
    <2>1. CASE UNCHANGED <<pc, batch, weights>> /\ (pc # "idle" => UNCHANGED incidents)
      <3>1. Reinstating' = Reinstating
        BY <2>1 DEF Reinstating
      <3>2. ASSUME NEW w \in todo, Reinstating, NEW f \in Feeds, Undoes(w, f) PROVE Undoes(w, f)'
        <4>1. UNCHANGED incidents
          BY <2>1, <3>2 DEF Reinstating
        <4> QED
          BY <2>1, <3>2, <4>1 DEF Undoes, OpenIncidents, IsOpen
      <3> QED
        BY <1>7, <3>1, <3>2 DEF SelectiveInv
    <2>2. CASE pc \notin {"retire", "write"} /\ pc' \notin {"retire", "write"}
      BY <1>7, <2>2 DEF SelectiveInv, Reinstating
    <2>3. CASE HandlerReturns
      BY <1>7, <2>3 DEF HandlerReturns, SelectiveInv
    <2> QED
      BY <1>6, <1>7, <2>1, <2>2, <2>3, RunMoves
  <1> QED
    BY <1>1, <1>2, <1>3, <1>4, <1>5, <1>6, <1>7, TableUntouched

LEMMA SelectiveInvariant == Spec => []SelectiveInv
  <1>1. Init => SelectiveInv
    BY DEF Init, SelectiveInv
  <1> QED
    BY <1>1, SelectiveNext, TypeInvariant, PTL DEF Spec

\* Whatever reviews, promotions, failures and deaths of the process do in
\* between, a key that had no weight has weight again only through a validated
\* promotion or the recovery of the very feed it was retired for, and then
\* while that feed has no open incident.
THEOREM RecoveryUndoesItsOwn == Spec => RecoveryIsSelective
  <1> DEFINE A == \A k \in Keys : ComesBack(k) =>
         LET old == LatestWeight(weights, k).tag
             new == LatestWeight(weights, k)'.tag
         IN  \/ new = <<"auto">>
             \/ \E f \in Feeds : /\ old = <<"unreliable", f>> /\ new = <<"reinstate", f>>
                                 /\ OpenIncidents(f) = {}
  <1>1. ASSUME TypeInv, SelectiveInv, [Next]_vars PROVE [A]_vars
    <2> SUFFICES ASSUME NEW k \in Keys, ~Active(weights, k), Active(weights, k)'
                 PROVE  \/ LatestWeight(weights, k)'.tag = <<"auto">>
                        \/ \E f \in Feeds : /\ LatestWeight(weights, k).tag = <<"unreliable", f>>
                                            /\ LatestWeight(weights, k)'.tag = <<"reinstate", f>>
                                            /\ OpenIncidents(f) = {}
      BY DEF ComesBack
    <2>1. WriteRow
      <3>1. weights' # weights
        BY DEF Active, LatestWeight
      <3> QED
        BY <1>1, <3>1, TableUntouched
    <2>2. PICK w \in todo :
              /\ w \in Write
              /\ \A x \in Keys : x # w.key => weights'[x] = weights[x]
              /\ LatestWeight(weights', w.key) \in {w.row, LatestWeight(weights, w.key)}
      BY <1>1, <2>1, Inserted
    <2>3. k = w.key
      BY <2>2 DEF Active, LatestWeight
    <2>4. LatestWeight(weights, k)' = w.row
      BY <2>2, <2>3 DEF Active
    <2>5. w.row.weight # 0
      BY <2>4 DEF Active
    <2>6. w.row.tag = <<"auto">> \/ \E f \in Feeds : Undoes(w, f)
      BY <1>1, <2>5 DEF SelectiveInv
    <2> QED
      BY <2>3, <2>4, <2>6 DEF Undoes
  <1> QED
    BY <1>1, TypeInvariant, SelectiveInvariant, PTL DEF Spec, RecoveryIsSelective

-----------------------------------------------------------------------------
(***************************************************************************)
(* What a review decides takes effect.                                     *)
(***************************************************************************)

\* A key is settled at t when a row no older than t is in force for it, and
\* under way when the handler has still to write it.
Settled(k, t) == LatestWeight(weights, k).ts >= t
UnderWay(k) == \E w \in todo : w.key = k

\* How far a review of time t has got: first the retirements, then, with
\* those done, the reinstatements.
Retiring(t) ==
    \A f \in Feeds : Unreliable(f, t) =>
        \A k \in Keys : k[2] \in Consumers[f] =>
            ~Active(weights, k) \/ Settled(k, t) \/ UnderWay(k)
Retired(t) ==
    \A f \in Feeds : Unreliable(f, t) =>
        \A k \in Keys : k[2] \in Consumers[f] => ~Active(weights, k) \/ Settled(k, t)
Restoring(t) ==
    \A f \in Feeds : Eligible(f, t) =>
        \A k \in RetiredForFeed(weights, f) : Settled(k, t) \/ UnderWay(k)
Restored(t) ==
    \A f \in Feeds : Eligible(f, t) => \A k \in RetiredForFeed(weights, f) : Settled(k, t)

Reviewing == Head(batch).type = "feed_reliability_review"
ReviewInv ==
    /\ pc = "retire" => Retiring(Head(batch).at)
    /\ pc = "write" /\ Reviewing => Retired(Head(batch).at) /\ Restoring(Head(batch).at)
    /\ pc = "mark" /\ Reviewing => Retired(Head(batch).at) /\ Restored(Head(batch).at)
    /\ pc \in {"retire", "write"} /\ Reviewing => \A w \in todo : w.row.ts = Head(batch).at

\* The desks of an unreliable feed are retired for the first one listed.
LEMMA FirstOfDesk ==
    ASSUME NEW f \in Feeds, NEW t \in Nat, Unreliable(f, t), NEW d \in Desks, d \in Consumers[f]
    PROVE  FirstUnreliable(d, t) # {}
  <1> DEFINE I == {i \in DOMAIN FeedOrder : Unreliable(FeedOrder[i], t) /\ d \in Consumers[FeedOrder[i]]}
  <1>1. DOMAIN FeedOrder = 1..Len(FeedOrder) /\ Len(FeedOrder) \in Nat
    BY FeedsFinite
  <1>2. PICK i \in DOMAIN FeedOrder : FeedOrder[i] = f
    BY LoopAssumption DEF ToSet
  <1>3. I \in SUBSET Nat /\ I # {}
    BY <1>1, <1>2
  <1>4. PICK m \in I : \A x \in I : m <= x
    BY <1>3, FirstExists
  <1>5. m \in 1..Len(FeedOrder)
    BY <1>1
  <1>6. \A j \in 1..(m - 1) : j \in DOMAIN FeedOrder /\ ~(m <= j)
    BY <1>1, <1>5
  <1>7. m \in FirstUnreliable(d, t)
    BY <1>4, <1>6 DEF FirstUnreliable
  <1> QED
    BY <1>7

LEMMA RetirementsUnderWay ==
    ASSUME NEW f \in Feeds, NEW t \in Nat, Unreliable(f, t),
           NEW k \in Keys, k[2] \in Consumers[f], Active(weights, k)
    PROVE  \E w \in RetirementWrites(t) : w.key = k
  <1>1. k[2] \in Desks
    BY DEF Keys
  <1>2. PICK i : i \in FirstUnreliable(k[2], t)
    BY <1>1, FirstOfDesk
  <1>3. i \in DOMAIN FeedOrder
    BY <1>2 DEF FirstUnreliable
  <1> DEFINE w == WriteOf(k, 0, t, <<"unreliable", FeedOrder[i]>>)
             y == <<k[2], i>>
  <1>4. y \in Desks \X DOMAIN FeedOrder /\ y[1] = k[2] /\ y[2] = i
    BY <1>1, <1>3
  <1>5. w \in RetireForAllRegimes(weights, y[1], FeedOrder[y[2]], t)
    BY <1>4 DEF RetireForAllRegimes
  <1>6. y \in {x \in Desks \X DOMAIN FeedOrder : x[2] \in FirstUnreliable(x[1], t)}
    BY <1>2, <1>4
  <1>7. w.key = k
    BY DEF WriteOf
  <1> HIDE DEF w, y
  <1>8. w \in RetirementWrites(t)
    BY <1>5, <1>6 DEF RetirementWrites
  <1> QED
    BY <1>7, <1>8

LEMMA RestorationsUnderWay ==
    ASSUME NEW f \in Feeds, NEW t \in Nat, Eligible(f, t), NEW k \in RetiredForFeed(weights, f)
    PROVE  \E w \in ReinstatementWrites(t) : w.key = k
  <1> DEFINE w == WriteOf(k, 1, t, <<"reinstate", f>>)
  <1>1. w \in ReinstateForFeed(weights, f, t)
    BY DEF ReinstateForFeed
  <1>2. w.key = k
    BY DEF WriteOf
  <1> HIDE DEF w
  <1>3. w \in ReinstatementWrites(t)
    BY <1>1 DEF ReinstatementWrites
  <1> QED
    BY <1>2, <1>3

\* Nothing that a review judges by changes while a handler runs.
LEMMA JudgedTheSame ==
    ASSUME UNCHANGED incidents
    PROVE  \A f, t : /\ Unreliable(f, t)' = Unreliable(f, t)
                     /\ Eligible(f, t)' = Eligible(f, t)
  BY DEF Unreliable, Eligible, OpenIncidents, IsOpen, CountInWindow

LEMMA WritingSettles ==
    ASSUME TypeInv, WriteRow, NEW t \in Nat, \A w \in todo : w.row.ts = t
    PROVE  /\ Retiring(t) => Retiring(t)'
           /\ Retired(t) => Retired(t)'
           /\ Restoring(t) => Restoring(t)'
           /\ \A w \in todo' : w.row.ts = t
  <1>1. PICK w \in todo :
              /\ w \in Write /\ todo' = todo \ {w}
              /\ \A k \in Keys : k # w.key => weights'[k] = weights[k]
              /\ LatestWeight(weights', w.key).ts >= w.row.ts
              /\ UNCHANGED <<pc, batch, feedState>>
    BY Inserted
  <1>2. UNCHANGED incidents
    BY <1>1 DEF feedState
  <1>3. Settled(w.key, t)'
    BY <1>1 DEF Settled, LatestWeight
  <1>4. \A k \in Keys : k # w.key =>
           /\ Active(weights, k)' <=> Active(weights, k)
           /\ Settled(k, t)' <=> Settled(k, t)
           /\ UnderWay(k) => UnderWay(k)'
           /\ \A f : k \in RetiredForFeed(weights, f)' <=> k \in RetiredForFeed(weights, f)
    <2> SUFFICES ASSUME NEW k \in Keys, k # w.key
                 PROVE  /\ Active(weights, k)' <=> Active(weights, k)
                        /\ Settled(k, t)' <=> Settled(k, t)
                        /\ UnderWay(k) => UnderWay(k)'
                        /\ \A f : k \in RetiredForFeed(weights, f)' <=> k \in RetiredForFeed(weights, f)
      OBVIOUS
    <2>1. weights'[k] = weights[k]
      BY <1>1
    <2>2. Active(weights, k)' <=> Active(weights, k)
      BY <2>1 DEF Active, LatestWeight
    <2>3. Settled(k, t)' <=> Settled(k, t)
      BY <2>1 DEF Settled, LatestWeight
    <2>4. UnderWay(k) => UnderWay(k)'
      BY <1>1 DEF UnderWay
    <2>5. \A f : k \in RetiredForFeed(weights, f)' <=> k \in RetiredForFeed(weights, f)
      BY <2>1 DEF RetiredForFeed, Active, LatestWeight
    <2> QED
      BY <2>2, <2>3, <2>4, <2>5
  <1>5. \A f : \A k \in RetiredForFeed(weights, f)' : k \in Keys
    BY DEF RetiredForFeed
  <1>6. \A f : /\ Unreliable(f, t)' = Unreliable(f, t)
               /\ Eligible(f, t)' = Eligible(f, t)
    BY <1>2, JudgedTheSame
  <1>7. Retiring(t) => Retiring(t)'
    BY <1>3, <1>4, <1>6, Zenon DEF Retiring
  <1>8. Retired(t) => Retired(t)'
    BY <1>3, <1>4, <1>6, Zenon DEF Retired
  <1>9. Restoring(t) => Restoring(t)'
    BY <1>3, <1>4, <1>5, <1>6, Zenon DEF Restoring
  <1> QED
    BY <1>1, <1>7, <1>8, <1>9

LEMMA ReviewNext == TypeInv /\ ReviewInv /\ [Next]_vars => ReviewInv'
  <1> SUFFICES ASSUME TypeInv, ReviewInv, [Next]_vars PROVE ReviewInv'
    OBVIOUS
  <1>0. PICK t : t = Head(batch).at
    OBVIOUS
  <1>t. batch # <<>> => t \in Nat
    BY <1>0, HeadIsEvent DEF TypeInv
  <1>1. CASE WriteRow
    <2>1. pc \in {"retire", "write"} /\ UNCHANGED <<pc, batch>>
      BY <1>1 DEF WriteRow
    <2>2. CASE Reviewing
      <3>1. t \in Nat
        BY <1>t, <2>1 DEF TypeInv, QueueOK
      <3>2. \A w \in todo : w.row.ts = t
        BY <1>0, <2>1, <2>2 DEF ReviewInv
      <3>3. /\ Retiring(t) => Retiring(t)'
            /\ Retired(t) => Retired(t)'
            /\ Restoring(t) => Restoring(t)'
            /\ \A w \in todo' : w.row.ts = t
        BY <1>1, <3>1, <3>2, WritingSettles
      <3>4. t = Head(batch)'.at /\ Head(batch)' = Head(batch)
        BY <1>0, <2>1
      <3>5. /\ pc = "retire" => Retiring(t)
            /\ pc = "write" => Retired(t) /\ Restoring(t)
        BY <1>0, <2>2 DEF ReviewInv
      <3> QED
        BY <2>1, <3>3, <3>4, <3>5 DEF ReviewInv
    <2>3. CASE ~Reviewing
      <3>1. pc = "write" /\ ~Reviewing'
        BY <2>1, <2>3 DEF TypeInv, QueueOK, Reviewing
      <3> QED
        BY <2>1, <3>1 DEF ReviewInv
    <2> QED
      BY <2>2, <2>3
  <1>2. CASE FeedReliabilityReviewHandler
    <2>1. /\ pc' = "retire" /\ batch # <<>> /\ todo' = RetirementWrites(t)
          /\ UNCHANGED <<batch, weights, incidents>>
      BY <1>0, <1>2 DEF FeedReliabilityReviewHandler, Handling, feedState
    <2>2. Retiring(t)'
      <3>1. ASSUME NEW f \in Feeds, Unreliable(f, t), NEW k \in Keys, k[2] \in Consumers[f],
                   Active(weights, k)
            PROVE  UnderWay(k)'
        <4>1. \E w \in RetirementWrites(t) : w.key = k
          BY <1>t, <2>1, <3>1, RetirementsUnderWay
        <4> QED
          BY <2>1, <4>1 DEF UnderWay
      <3>2. \A k : Active(weights, k)' <=> Active(weights, k)
        BY <2>1
      <3>3. \A f : Unreliable(f, t)' = Unreliable(f, t)
        BY <2>1, JudgedTheSame
      <3> QED
        BY <3>1, <3>2, <3>3 DEF Retiring
    <2>3. \A w \in todo' : w.row.ts = t
      <3> SUFFICES ASSUME NEW w \in RetirementWrites(t) PROVE w.row.ts = t
        BY <2>1
      <3>1. PICK k \in Keys : \E i \in FirstUnreliable(k[2], t) :
               w = WriteOf(k, 0, t, <<"unreliable", FeedOrder[i]>>)
        BY <1>t, <2>1, RetirementType
      <3> QED
        BY <3>1 DEF WriteOf
    <2>4. Head(batch)'.at = t
      BY <1>0, <2>1
    <2> QED
      BY <2>1, <2>2, <2>3, <2>4 DEF ReviewInv
  <1>3. CASE Reinstate
    <2>1. /\ pc = "retire" /\ pc' = "write" /\ todo = {} /\ todo' = ReinstatementWrites(t)
          /\ UNCHANGED <<batch, weights, incidents>>
      BY <1>0, <1>3 DEF Reinstate, feedState
    <2>t. t \in Nat
      BY <1>t, <2>1 DEF TypeInv, QueueOK
    <2>2. Retired(t)
      <3>1. Retiring(t)
        BY <1>0, <2>1 DEF ReviewInv
      <3> QED
        BY <2>1, <3>1 DEF Retiring, Retired, UnderWay
    <2>3. \A f : /\ Unreliable(f, t)' = Unreliable(f, t)
                 /\ Eligible(f, t)' = Eligible(f, t)
      BY <2>1, JudgedTheSame
    <2>4. Retired(t)'
      <3>1. \A k : /\ Active(weights, k)' <=> Active(weights, k)
                   /\ Settled(k, t)' <=> Settled(k, t)
        BY <2>1 DEF Settled
      <3> QED
        BY <2>2, <2>3, <3>1, Zenon DEF Retired
    <2>5. Restoring(t)'
      <3>1. ASSUME NEW f \in Feeds, Eligible(f, t), NEW k \in RetiredForFeed(weights, f)
            PROVE  UnderWay(k)'
        <4>1. \E w \in ReinstatementWrites(t) : w.key = k
          BY <2>t, <3>1, RestorationsUnderWay
        <4> QED
          BY <2>1, <4>1 DEF UnderWay
      <3>2. \A f : RetiredForFeed(weights, f)' = RetiredForFeed(weights, f)
        BY <2>1
      <3> QED
        BY <2>3, <3>1, <3>2 DEF Restoring
    <2>6. \A w \in todo' : w.row.ts = t
      <3> SUFFICES ASSUME NEW w \in ReinstatementWrites(t) PROVE w.row.ts = t
        BY <2>1
      <3>1. PICK f \in Feeds : \E k \in RetiredForFeed(weights, f) :
               w = WriteOf(k, 1, t, <<"reinstate", f>>)
        BY <2>t, ReinstatementType
      <3> QED
        BY <3>1 DEF WriteOf
    <2>7. Head(batch)'.at = t
      BY <1>0, <2>1
    <2> QED
      BY <2>1, <2>4, <2>5, <2>6, <2>7 DEF ReviewInv
  <1>4. CASE GateFailureHandler \/ RegimeTransitionHandler
    <2>1. pc' = "write" /\ ~Reviewing'
      BY <1>4 DEF GateFailureHandler, RegimeTransitionHandler, Handling, Reviewing
    <2> QED
      BY <2>1 DEF ReviewInv
  <1>5. CASE Crash
    BY <1>5 DEF Crash, ReviewInv
  <1>6. CASE HandlerReturns
    <2>1. /\ pc = "write" /\ pc' = "mark" /\ todo = {}
          /\ UNCHANGED <<batch, weights, incidents>>
      BY <1>6 DEF HandlerReturns, feedState
    <2>2. ASSUME Reviewing PROVE Retired(t) /\ Restored(t)
      <3>1. Retired(t) /\ Restoring(t)
        BY <1>0, <2>1, <2>2 DEF ReviewInv
      <3> QED
        BY <2>1, <3>1 DEF Restoring, Restored, UnderWay
    <2>3. Retired(t)' = Retired(t) /\ Restored(t)' = Restored(t)
      <3>1. \A f : /\ Unreliable(f, t)' = Unreliable(f, t)
                   /\ Eligible(f, t)' = Eligible(f, t)
        BY <2>1, JudgedTheSame
      <3> QED
        BY <2>1, <3>1 DEF Retired, Restored, Settled
    <2>4. Head(batch)' = Head(batch) /\ Head(batch)'.at = t
      BY <1>0, <2>1
    <2> QED
      BY <2>1, <2>2, <2>3, <2>4 DEF ReviewInv, Reviewing
  <1>7. CASE /\ UNCHANGED todo
             /\ ~Reinstate /\ ~FeedReliabilityReviewHandler /\ ~GateFailureHandler
             /\ ~RegimeTransitionHandler /\ ~WriteRow
    <2>1. CASE UNCHANGED <<pc, batch, weights>> /\ (pc # "idle" => UNCHANGED incidents)
      <3>1. CASE pc = "idle"
        BY <2>1, <3>1 DEF ReviewInv
      <3>2. CASE pc # "idle"
        <4>1. UNCHANGED <<incidents, weights, todo, batch, pc>>
          BY <1>7, <2>1, <3>2
        <4>2. \A f : /\ Unreliable(f, t)' = Unreliable(f, t)
                     /\ Eligible(f, t)' = Eligible(f, t)
          BY <4>1, JudgedTheSame
        <4>3. /\ Retiring(t)' = Retiring(t) /\ Retired(t)' = Retired(t)
              /\ Restoring(t)' = Restoring(t) /\ Restored(t)' = Restored(t)
          BY <4>1, <4>2 DEF Retiring, Retired, Restoring, Restored, Settled, UnderWay
        <4>4. Head(batch)' = Head(batch) /\ Head(batch)'.at = t
          BY <1>0, <4>1
        <4>5. /\ pc = "retire" => Retiring(t)
              /\ pc = "write" /\ Reviewing => Retired(t) /\ Restoring(t)
              /\ pc = "mark" /\ Reviewing => Retired(t) /\ Restored(t)
              /\ pc \in {"retire", "write"} /\ Reviewing => \A w \in todo : w.row.ts = t
          BY <1>0 DEF ReviewInv
        <4> QED
          BY <4>1, <4>3, <4>4, <4>5 DEF ReviewInv, Reviewing
      <3> QED
        BY <3>1, <3>2
    <2>2. CASE /\ pc \notin {"retire", "write"} /\ pc' \notin {"retire", "write"}
               /\ (pc' = "mark" => DataIngestionFailureHandler)
      <3>1. DataIngestionFailureHandler => ~Reviewing'
        BY DEF DataIngestionFailureHandler, Handling, Reviewing
      <3> QED
        BY <2>2, <3>1 DEF ReviewInv
    <2> QED
      BY <1>5, <1>6, <1>7, <2>1, <2>2, RunMoves
  <1> QED
    BY <1>1, <1>2, <1>3, <1>4, <1>5, <1>7, TableUntouched

LEMMA ReviewInvariant == Spec => []ReviewInv
  <1>1. Init => ReviewInv
    BY DEF Init, ReviewInv
  <1> QED
    BY <1>1, ReviewNext, TypeInvariant, PTL DEF Spec

\* When a review completes, and whatever was promoted, retired or cut short
\* before, no desk of a feed it found unreliable has weight in any regime and
\* no desk is still retired for a feed it found recovered, except through a
\* row stamped no earlier than the review.
THEOREM ReviewsTakeEffect == Spec => []ReviewTakesEffect
  <1>1. ReviewInv => ReviewTakesEffect
    BY DEF ReviewInv, ReviewTakesEffect, ReviewRetires, ReviewReinstates, ReviewDone,
           Reviewing, Retired, Restored, Settled
  <1> QED
    BY <1>1, ReviewInvariant, PTL

=============================================================================
