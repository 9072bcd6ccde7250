------------------------ MODULE ForwardLedgerProofs ------------------------
(***************************************************************************)
(* What holds of the forward holdout for every calendar, price series,     *)
(* publication order, edit and crash.                                      *)
(***************************************************************************)
EXTENDS ForwardLedger, SequenceTheorems, FiniteSetTheorems,
        WellFoundedInduction, TLAPS

-----------------------------------------------------------------------------
(***************************************************************************)
(* Sets of days: the first, the last and the one after a number of others. *)
(***************************************************************************)

LEMMA FirstExists ==
    ASSUME NEW S \in SUBSET Nat, S # {}
    PROVE  \E d \in S : \A x \in S : d <= x
  <1>1. PICK d \in S : \A x \in S : <<x, d>> \notin OpToRel(<, Nat)
    BY NatLessThanWellFounded, WFMin
  <1>2. \A x \in S : ~(x < d)
    BY <1>1 DEF OpToRel
  <1> QED
    BY <1>2

LEMMA LastExists ==
    ASSUME NEW S \in SUBSET Nat, S # {}, NEW n \in Nat, \A x \in S : x <= n
    PROVE  \E d \in S : \A x \in S : x <= d
  <1> DEFINE Bounds == {m \in Nat : \A x \in S : x <= m}
  <1>1. PICK m \in Bounds : \A b \in Bounds : m <= b
    BY FirstExists, n \in Bounds
  <1>2. CASE m \in S
    BY <1>2
  <1>3. CASE m \notin S
    <2>1. PICK x \in S : TRUE
      OBVIOUS
    <2>2. \A y \in S : y <= m - 1
      BY <1>3
    <2>3. m - 1 \in Nat
      BY <2>1, <2>2
    <2> QED
      BY <1>1, <2>2, <2>3
  <1> QED
    BY <1>2, <1>3

\* The day that has exactly h others before it.
LEMMA NthExists ==
    ASSUME NEW S \in SUBSET Nat, NEW n \in Nat, \A x \in S : x <= n,
           NEW h \in Nat, Cardinality(S) > h
    PROVE  \E d \in S : Cardinality({x \in S : x < d}) = h
  <1> DEFINE Below(d) == {x \in S : x < d}
             Past == {d \in Nat : Cardinality(Below(d)) > h}
  <1>0. \A x \in S : x \in Nat /\ x < n + 1 /\ ~(x < 0)
    OBVIOUS
  <1>1. IsFiniteSet(S)
    BY FS_BoundedSetOfNaturals
  <1>2. \A d \in Nat : IsFiniteSet(Below(d)) /\ Cardinality(Below(d)) \in Nat
    BY <1>1, FS_Subset, FS_CardinalityType
  <1>3. n + 1 \in Past
    <2>1. Below(n + 1) = S
      BY <1>0, Zenon
    <2>2. n + 1 \in Nat
      OBVIOUS
    <2> QED
      BY <2>1, <2>2, Zenon
  <1>4. PICK d \in Past : \A x \in Past : d <= x
    <2>1. Past \in SUBSET Nat /\ Past # {}
      BY <1>3
    <2> HIDE DEF Past
    <2> QED
      BY <2>1, FirstExists
  <1>5. d # 0
    <2>1. Below(0) = {}
      BY <1>0, Zenon
    <2>2. Cardinality(Below(d)) > h
      OBVIOUS
    <2> QED
      BY <2>1, <2>2, FS_EmptySet
  <1>6. d - 1 \in Nat /\ Cardinality(Below(d - 1)) <= h
    <2>1. d - 1 \in Nat /\ d - 1 \notin Past
      BY <1>4, <1>5
    <2> QED
      BY <2>1, <1>2
  <1>7. Below(d) = IF d - 1 \in S THEN Below(d - 1) \cup {d - 1} ELSE Below(d - 1)
    <2>1. \A x \in S : x < d <=> x < d - 1 \/ x = d - 1
      BY <1>0
    <2>2. d - 1 < d
      OBVIOUS
    <2> QED
      BY <2>1, <2>2, Zenon
  <1>8. Cardinality(Below(d)) > h
    OBVIOUS
  <1>9. d - 1 \in S
    BY <1>6, <1>7, <1>8, <1>2
  <1>10. Cardinality(Below(d)) = Cardinality(Below(d - 1)) + 1
    <2>1. d - 1 \notin Below(d - 1)
      BY <1>6
    <2> QED
      BY <1>2, <1>6, <1>7, <1>9, <2>1, FS_AddElement
  <1>11. Cardinality(Below(d - 1)) = h
    BY <1>2, <1>6, <1>8, <1>10
  <1> QED
    BY <1>9, <1>11, Zenon

-----------------------------------------------------------------------------
(***************************************************************************)
(* What the rows around a time are.  A series is a set of days that ends.  *)
(***************************************************************************)

Series(prices) == prices \subseteq Days /\ \E n \in Nat : \A x \in prices : x <= n

LEMMA EndedDays ==
    ASSUME now \in Nat
    PROVE  /\ Series(Ended)
           /\ \A d \in Ended : d \in Nat /\ PerDay * (d + 1) <= now
  <1>1. \A d \in Ended : d \in Days /\ d \in Nat /\ PerDay * (d + 1) <= now
    BY ForwardAssumption DEF Ended
  <1>2. \A p \in Nat \ {0}, m \in Nat : m <= p * m
    OBVIOUS
  <1>3. \A d \in Ended : d <= now
    <2> TAKE d \in Ended
    <2>1. d \in Nat /\ d + 1 \in Nat /\ PerDay \in Nat \ {0}
      BY <1>1, ForwardAssumption
    <2>2. d + 1 <= PerDay * (d + 1)
      BY <2>1, <1>2
    <2>3. PerDay * (d + 1) \in Nat /\ PerDay * (d + 1) <= now
      BY <1>1, <2>1
    <2> QED
      BY <2>1, <2>2, <2>3
  <1> QED
    BY <1>1, <1>3 DEF Series

LEMMA SubSeries ==
    ASSUME NEW s, NEW prices, Series(prices), s \subseteq prices
    PROVE  Series(s)
  BY DEF Series

LEMMA LastRow ==
    ASSUME NEW prices, Series(prices), prices # {}
    PROVE  LET last == CHOOSE d \in prices : \A x \in prices : x <= d
           IN  last \in prices /\ \A x \in prices : x <= last
  <1>1. prices \in SUBSET Nat
    BY ForwardAssumption DEF Series
  <1>2. PICK n \in Nat : \A x \in prices : x <= n
    BY DEF Series
  <1>3. \E d \in prices : \A x \in prices : x <= d
    BY <1>1, <1>2, LastExists
  <1> QED
    BY <1>3

LEMMA AnchorIsFirst ==
    ASSUME NEW prices, Series(prices), NEW t \in Nat, HasAnchor(prices, t)
    PROVE  /\ Anchor(prices, t) \in RowsFrom(prices, t)
           /\ \A x \in RowsFrom(prices, t) : Anchor(prices, t) <= x
  <1>1. RowsFrom(prices, t) \in SUBSET Nat /\ RowsFrom(prices, t) # {}
    BY ForwardAssumption DEF Series, RowsFrom, HasAnchor
  <1>2. \E d \in RowsFrom(prices, t) : \A x \in RowsFrom(prices, t) : d <= x
    BY <1>1, FirstExists
  <1> QED
    BY <1>2 DEF Anchor

LEMMA WindowHasAnchor ==
    ASSUME NEW prices, NEW t, HasWindow(prices, t)
    PROVE  HasAnchor(prices, t)
  <1>1. Cardinality(RowsFrom(prices, t)) > Horizon /\ Horizon \in Nat
    BY ForwardAssumption DEF HasWindow
  <1>2. Cardinality({}) = 0
    BY FS_EmptySet
  <1>3. RowsFrom(prices, t) # {}
    BY <1>1, <1>2
  <1> QED
    BY <1>3 DEF HasAnchor

LEMMA WindowEnds ==
    ASSUME NEW prices, Series(prices), NEW t \in Nat, HasWindow(prices, t)
    PROVE  WindowEnd(prices, t) \in RowsFrom(prices, t)
  <1> DEFINE rows == RowsFrom(prices, t)
  <1>1. rows \in SUBSET Nat /\ rows \subseteq prices
    BY ForwardAssumption DEF Series, RowsFrom
  <1>2. PICK n \in Nat : \A x \in rows : x <= n
    BY <1>1 DEF Series
  <1>3. Cardinality(rows) > Horizon /\ Horizon \in Nat
    BY ForwardAssumption DEF HasWindow
  <1>4. \E d \in rows : Cardinality({x \in rows : x < d}) = Horizon
    <2> HIDE DEF rows
    <2> QED
      BY <1>1, <1>2, <1>3, NthExists
  <1> QED
    BY <1>4, Zenon DEF WindowEnd

LEMMA FeatureIsLast ==
    ASSUME NEW prices, Series(prices), NEW t \in Nat, HasFeature(prices, t)
    PROVE  /\ FeatureRow(prices, t) \in RowsBefore(prices, t)
           /\ \A x \in RowsBefore(prices, t) : x <= FeatureRow(prices, t)
  <1> DEFINE rows == RowsBefore(prices, t)
  <1>1. rows # {}
    BY FS_EmptySet DEF HasFeature
  <1>2. Series(rows)
    BY SubSeries DEF RowsBefore
  <1> HIDE DEF rows
  <1>3. LET last == CHOOSE d \in rows : \A x \in rows : x <= d
        IN  last \in rows /\ \A x \in rows : x <= last
    BY <1>1, <1>2, LastRow
  <1> QED
    BY <1>3, Zenon DEF rows, FeatureRow

-----------------------------------------------------------------------------
(***************************************************************************)
(* Types.                                                                  *)
(***************************************************************************)

Outcomes == UNION {[S -> RowType] : S \in SUBSET EventIds}
Locks == [at : Instants, files : 1..MaxFiles]
Jobs == [pc : {"idle", "score", "append", "chain", "resolve", "write"},
         asOf : Nat, lock : Nat, code : 0..MaxFiles,
         batch : Seq(Forecasts), prefix : Seq(Forecasts), rows : Outcomes]
Pasts == [sealed : Seq(Forecasts), settled : Outcomes,
          faults : SUBSET {"gap", "torn", "edited"}, crashes : Nat, edits : Nat]

TypeInv ==
    /\ now \in Instants
    /\ proxy \subseteq Ended
    /\ files \in 1..MaxFiles
    /\ locks \in Seq(Locks) /\ Len(locks) \in 1..(MaxMishaps + 1)
    /\ \A k \in 1..Len(locks) : locks[k].files <= files
    /\ queue \subseteq EventIds
    /\ forecasts \in Seq(Forecasts) /\ chain \in Seq(Seq(Forecasts))
    /\ outcomes \in Outcomes
    /\ job \in Jobs /\ past \in Pasts
    /\ job.pc = "score" => job.code \in 1..MaxFiles /\ job.asOf = now

LEMMA Numbers ==
    /\ PerDay \in Nat \ {0} /\ Instants \subseteq Nat /\ Days \subseteq Nat
    /\ MaxLag \in Nat /\ MaxAge \in Nat /\ MinTrain \in Nat /\ MaxMishaps \in Nat
    /\ MaxFiles \in Nat \ {0}
    /\ \A e \in EventIds : DecisionAt[e] \in Nat
  BY ForwardAssumption

LEMMA SeriesHere ==
    ASSUME now \in Instants, proxy \subseteq Ended
    PROVE  Series(proxy) /\ Series(Ended)
  <1>1. Series(Ended)
    BY Numbers, EndedDays
  <1> QED
    BY <1>1, SubSeries

LEMMA PrefixType ==
    ASSUME NEW fc \in Seq(Forecasts), NEW k \in 0..Len(fc)
    PROVE  /\ SubSeq(fc, 1, k) \in Seq(Forecasts)
           /\ Len(SubSeq(fc, 1, k)) = k
           /\ \A i \in 1..k : SubSeq(fc, 1, k)[i] = fc[i]
  OBVIOUS

LEMMA ChainOfType ==
    ASSUME NEW fc \in Seq(Forecasts)
    PROVE  /\ ChainOf(fc) \in Seq(Seq(Forecasts))
           /\ Len(ChainOf(fc)) = Len(fc)
           /\ \A k \in 1..Len(fc) : ChainOf(fc)[k] = SubSeq(fc, 1, k)
  <1>1. DOMAIN fc = 1..Len(fc) /\ Len(fc) \in Nat
    OBVIOUS
  <1>2. \A k \in 1..Len(fc) : SubSeq(fc, 1, k) \in Seq(Forecasts)
    BY PrefixType
  <1> QED
    BY <1>1, <1>2 DEF ChainOf

LEMMA BootstrappedType ==
    ASSUME NEW fc \in Seq(Forecasts), NEW ch \in Seq(Seq(Forecasts))
    PROVE  Bootstrapped(fc, ch) \in Seq(Seq(Forecasts))
  BY ChainOfType DEF Bootstrapped

LEMMA NewEntriesType ==
    ASSUME job \in Jobs
    PROVE  /\ NewEntries \in Seq(Seq(Forecasts))
           /\ Len(NewEntries) = Len(job.batch)
           /\ \A k \in 1..Len(job.batch) :
                    NewEntries[k] = job.prefix \o SubSeq(job.batch, 1, k)
  <1>1. job.batch \in Seq(Forecasts) /\ job.prefix \in Seq(Forecasts)
    BY DEF Jobs
  <1>2. DOMAIN job.batch = 1..Len(job.batch) /\ Len(job.batch) \in Nat
    BY <1>1
  <1>3. \A k \in 1..Len(job.batch) : SubSeq(job.batch, 1, k) \in Seq(Forecasts)
    BY <1>1, PrefixType
  <1>4. \A k \in 1..Len(job.batch) :
            job.prefix \o SubSeq(job.batch, 1, k) \in Seq(Forecasts)
    BY <1>1, <1>3
  <1> QED
    BY <1>2, <1>4 DEF NewEntries

LEMMA RowIsTyped ==
    ASSUME NEW f \in Forecasts, NEW prices, Series(prices)
    PROVE  Row(f, prices) \in RowType
  <1> DEFINE t == DecisionAt[f.id]
  <1>1. t \in Nat /\ f.sign \in {"positive", "negative"}
    BY Numbers DEF Forecasts
  <1>2. FreshFeature(prices, t) \in BOOLEAN
    BY DEF FreshFeature, HasFeature
  <1>3. HasAnchor(prices, t) => Anchor(prices, t) \in Days
    BY <1>1, AnchorIsFirst DEF RowsFrom, Series
  <1>4. HasWindow(prices, t) => HasAnchor(prices, t) /\ WindowEnd(prices, t) \in Days
    BY <1>1, WindowHasAnchor, WindowEnds DEF RowsFrom, Series
  <1> HIDE DEF t
  <1>5. CASE HasWindow(prices, t)
    <2>1. Row(f, prices) =
            [status |-> "resolved", sign |-> f.sign, fresh |-> FreshFeature(prices, t),
             start |-> Anchor(prices, t), end |-> WindowEnd(prices, t)]
      BY <1>5 DEF Row, t
    <2> QED
      BY <2>1, <1>1, <1>2, <1>3, <1>4, <1>5 DEF RowType
  <1>6. CASE ~HasWindow(prices, t)
    <2>1. Row(f, prices) =
            [status |-> "waiting", sign |-> f.sign, fresh |-> FreshFeature(prices, t),
             start |-> IF HasAnchor(prices, t) THEN Anchor(prices, t) ELSE -1,
             end |-> -1]
      BY <1>6 DEF Row, t
    <2> QED
      BY <2>1, <1>1, <1>2, <1>3 DEF RowType
  <1> QED
    BY <1>5, <1>6

\* The ids of the ledger.
Ids == {forecasts[k].id : k \in DOMAIN forecasts}

LEMMA ForecastIsThere ==
    ASSUME forecasts \in Seq(Forecasts), NEW e \in Ids
    PROVE  /\ e \in EventIds
           /\ \E k \in 1..Len(forecasts) : ForecastOf(e) = forecasts[k]
           /\ ForecastOf(e) \in Forecasts /\ ForecastOf(e).id = e
  <1>1. \E k \in DOMAIN forecasts : forecasts[k].id = e
    BY DEF Ids
  <1>2. PICK k \in DOMAIN forecasts :
            ForecastOf(e) = forecasts[k] /\ forecasts[k].id = e
    BY <1>1 DEF ForecastOf
  <1>3. forecasts[k] \in Forecasts /\ k \in 1..Len(forecasts)
    OBVIOUS
  <1> QED
    BY <1>2, <1>3 DEF Forecasts

LEMMA NextRowsType ==
    ASSUME forecasts \in Seq(Forecasts), outcomes \in Outcomes,
           NEW prices, Series(prices)
    PROVE  /\ NextRows(prices) \in Outcomes
           /\ DOMAIN NextRows(prices) = Ids
           /\ \A e \in Ids :
                NextRows(prices)[e] =
                    IF e \in DOMAIN outcomes /\ outcomes[e].status = "resolved"
                    THEN outcomes[e]
                    ELSE Row(ForecastOf(e), prices)
  <1>1. Ids \subseteq EventIds
    BY ForecastIsThere
  <1>2. \A e \in DOMAIN outcomes : outcomes[e] \in RowType
    BY DEF Outcomes
  <1>3. \A e \in Ids : Row(ForecastOf(e), prices) \in RowType
    BY ForecastIsThere, RowIsTyped
  <1>4. NextRows(prices) \in [Ids -> RowType]
    BY <1>2, <1>3, Zenon DEF NextRows, Ids
  <1> QED
    BY <1>1, <1>4, Zenon DEF NextRows, Ids, Outcomes

\* The calendar is a finite list.
LEMMA FiniteCalendar == IsFiniteSet(EventIds)
  <1>1. Events \in Surjection(1..Len(Events), EventIds)
    <2>1. Events \in Seq(EventIds)
      BY ForwardAssumption
    <2>2. \A e \in EventIds : \E k \in 1..Len(Events) : Events[k] = e
      BY <2>1 DEF EventIds, Range
    <2> QED
      BY <2>1, <2>2 DEF Surjection
  <1>2. IsFiniteSet(1..Len(Events))
    BY ForwardAssumption, FS_Interval
  <1> QED
    BY <1>1, <1>2, FS_Surjection

\* What a scoring run hands on: one forecast for each due event.
LEMMA ScoredBatch ==
    ASSUME TypeInv, job.pc = "score",
           NEW mine \in InOrder({e \in EventIds : Due(e, job.asOf, proxy)}),
           NEW batch, batch = [k \in DOMAIN mine |-> Forecast(mine[k], proxy)]
    PROVE  /\ batch \in Seq(Forecasts)
           /\ \A k \in 1..Len(batch) :
                 /\ batch[k].id \in EventIds
                 /\ Due(batch[k].id, job.asOf, proxy)
                 /\ batch[k] = Forecast(batch[k].id, proxy)
                 /\ batch[k].seen \in proxy
                 /\ \A x \in proxy : x <= batch[k].seen
           /\ \A i, k \in 1..Len(batch) : batch[i].id = batch[k].id => i = k
  <1> DEFINE due == {e \in EventIds : Due(e, job.asOf, proxy)}
             n == Cardinality(due)
  <1>1. mine \in [1..n -> due] /\ \A i, k \in 1..n : i # k => mine[i] # mine[k]
    BY Zenon DEF InOrder, SetToSeqs
  <1>2. \A e \in due : HasFeature(proxy, DecisionAt[e])
    BY DEF Due, FreshFeature
  <1>3. Series(proxy) /\ Series(Ended)
    BY SeriesHere DEF TypeInv
  <1>4. \A e \in due : /\ Forecast(e, proxy) \in Forecasts
                       /\ Forecast(e, proxy).id = e
                       /\ Forecast(e, proxy).seen \in proxy
                       /\ \A x \in proxy : x <= Forecast(e, proxy).seen
    <2> TAKE e \in due
    <2> DEFINE last == CHOOSE d \in proxy : \A x \in proxy : x <= d
    <2>1. DecisionAt[e] \in Nat
      BY Numbers
    <2>2. FeatureRow(proxy, DecisionAt[e]) \in proxy
      BY <1>2, <1>3, <2>1, FeatureIsLast DEF RowsBefore
    <2>3. last \in proxy /\ \A x \in proxy : x <= last
      BY <1>3, <2>2, LastRow, Zenon
    <2>4. last \in Days
      BY <1>3, <2>3 DEF Series
    <2>5. Len(locks) \in 1..(MaxMishaps + 1) /\ job.code \in 1..MaxFiles
      BY DEF TypeInv
    <2>6. Forecast(e, proxy) = [id |-> e, lock |-> Len(locks), sign |-> "positive",
                                code |-> job.code, seen |-> last]
      BY Zenon DEF Forecast
    <2> HIDE DEF last
    <2>7. e \in EventIds
      OBVIOUS
    <2> QED
      BY <2>3, <2>4, <2>5, <2>6, <2>7 DEF Forecasts
  <1>5. n \in Nat
    <2>1. due \in SUBSET EventIds
      OBVIOUS
    <2> HIDE DEF due
    <2> QED
      BY <2>1, FiniteCalendar, FS_Subset, FS_CardinalityType
  <1>6. \A e \in due : e \in EventIds /\ Due(e, job.asOf, proxy)
    OBVIOUS
  <1> HIDE DEF due, n
  <1>7. DOMAIN mine = 1..n /\ DOMAIN batch = 1..n
    BY <1>1
  <1>8. \A k \in 1..n : /\ mine[k] \in due
                         /\ batch[k] = Forecast(mine[k], proxy)
                         /\ batch[k].id = mine[k]
    BY <1>1, <1>4, <1>7
  <1>9. batch \in Seq(Forecasts) /\ Len(batch) = n
    BY <1>4, <1>5, <1>7, <1>8
  <1>10. ASSUME NEW k \in 1..n
         PROVE  /\ batch[k].id \in EventIds
                /\ Due(batch[k].id, job.asOf, proxy)
                /\ batch[k] = Forecast(batch[k].id, proxy)
                /\ batch[k].seen \in proxy
                /\ \A x \in proxy : x <= batch[k].seen
    <2>1. /\ mine[k] \in due /\ batch[k].id = mine[k]
          /\ batch[k] = Forecast(mine[k], proxy)
      BY <1>8, <1>10
    <2> QED
      BY <2>1, <1>4, <1>6, Zenon
  <1>11. \A i, k \in 1..n : batch[i].id = batch[k].id => i = k
    BY <1>1, <1>8
  <1> QED
    BY <1>9, <1>10, <1>11, Zenon

LEMMA Empty == NoRows \in Outcomes /\ DOMAIN NoRows = {} /\ Idle \in Jobs
  <1>1. DOMAIN NoRows = {}
    BY DEF NoRows
  <1>2. NoRows \in [{} -> RowType]
    BY <1>1 DEF NoRows
  <1>3. NoRows \in Outcomes
    BY <1>2 DEF Outcomes
  <1>4. 0 \in 0..MaxFiles
    BY Numbers
  <1> QED
    BY <1>1, <1>3, <1>4 DEF Idle, Jobs, NoRows

LEMMA SealingType ==
    ASSUME TypeInv, NEW fc \in Seq(Forecasts), NEW ch
    PROVE  Sealing(fc, ch) \in Seq(Forecasts)
  BY DEF Sealing, TypeInv, Pasts

LEMMA TypeInit == Init => TypeInv
  <1> SUFFICES ASSUME Init PROVE TypeInv
    OBVIOUS
  <1>1. now \in Instants
    <2>1. \E t \in Instants : \A u \in Instants : t <= u
      BY FirstExists, ForwardAssumption
    <2> QED
      BY <2>1 DEF Init
  <1>2. proxy \subseteq Ended
    BY <1>1, ForwardAssumption DEF Init, Ended
  <1>3. files \in 1..MaxFiles /\ files = 1
    BY Numbers DEF Init
  <1>4. /\ locks \in Seq(Locks) /\ Len(locks) \in 1..(MaxMishaps + 1)
        /\ \A k \in 1..Len(locks) : locks[k].files <= files
    <2>1. locks = <<[at |-> now, files |-> 1]>>
      BY DEF Init
    <2>2. [at |-> now, files |-> 1] \in Locks
      BY <1>1, <1>3 DEF Locks
    <2>3. MaxMishaps \in Nat
      BY Numbers
    <2> QED
      BY <1>3, <2>1, <2>2, <2>3
  <1>5. forecasts \in Seq(Forecasts) /\ chain \in Seq(Seq(Forecasts)) /\ queue = {}
    BY DEF Init
  <1>6. outcomes \in Outcomes /\ job \in Jobs /\ job.pc = "idle"
    BY Empty DEF Init, Idle
  <1>7. past \in Pasts
    BY Empty DEF Init, Pasts
  <1> QED
    BY <1>1, <1>2, <1>3, <1>4, <1>5, <1>6, <1>7 DEF TypeInv

LEMMA ClockMoves ==
    ASSUME TypeInv, Tick
    PROVE  now' \in Instants /\ now < now'
  <1> DEFINE later == {t \in Instants : t > now}
  <1>1. later \in SUBSET Nat /\ later # {}
    BY Numbers DEF Tick
  <1>2. \E t \in later : \A u \in later : t <= u
    <2> HIDE DEF later
    <2> QED
      BY <1>1, FirstExists
  <1>3. \E t \in Instants : t > now /\ \A u \in Instants : u > now => t <= u
    BY <1>2
  <1> QED
    BY <1>3 DEF Tick

LEMMA EditedType == ASSUME past \in Pasts PROVE Edited \in Pasts
  <1>1. /\ past.edits + 1 \in Nat
        /\ past.faults \union {"edited"} \in SUBSET {"gap", "torn", "edited"}
    BY DEF Pasts
  <1> QED
    BY <1>1 DEF Edited, Pasts

LEMMA TypeNext == TypeInv /\ [Next]_vars => TypeInv'
  <1> SUFFICES ASSUME TypeInv, [Next]_vars PROVE TypeInv'
    OBVIOUS
  <1> USE DEF TypeInv
  <1>0. /\ MaxMishaps \in Nat /\ files \in Nat /\ past.crashes \in Nat
        /\ past.edits \in Nat
    BY Numbers DEF Pasts
  <1>1. CASE Tick
    <2>1. now' \in Instants /\ now < now'
      BY <1>1, ClockMoves
    <2>2. Ended \subseteq Ended'
      <3>1. now \in Nat /\ now' \in Nat
        BY <2>1, Numbers
      <3>2. ASSUME NEW d \in Days PROVE PerDay * (d + 1) \in Nat
        <4>1. \A m, n \in Nat : m * n \in Nat
          BY ONLY TRUE
        <4>2. PerDay \in Nat /\ d + 1 \in Nat
          BY ONLY Numbers, d \in Days
        <4> QED
          BY ONLY <4>1, <4>2
      <3> QED
        BY <2>1, <3>1, <3>2 DEF Ended
    <2> QED
      BY <1>1, <2>1, <2>2 DEF Tick
  <1>2. ASSUME NEW s \in Served, Refresh(s)
        PROVE  TypeInv'
    <2>1. s \subseteq Ended /\ Ended' = Ended
      BY <1>2 DEF Served, Refresh, Ended
    <2> QED
      BY <1>2, <2>1 DEF Refresh
  <1>3. CASE TouchLocked
    <2>1. files' = files + 1 /\ files' \in 1..MaxFiles
      BY <1>3, Numbers DEF TouchLocked
    <2>2. \A k \in 1..Len(locks) : locks[k].files \in Nat
      <3>1. \A k \in 1..Len(locks) : locks[k] \in Locks
        OBVIOUS
      <3>2. \A x \in Locks : x.files \in Nat
        BY DEF Locks
      <3> QED
        BY <3>1, <3>2
    <2> QED
      BY <1>0, <1>3, <2>1, <2>2 DEF TouchLocked, Ended
  <1>4. CASE LockAgain
    <2>1. [at |-> now, files |-> files] \in Locks
      BY DEF Locks
    <2>2. Len(locks) < MaxMishaps + 1
      BY <1>0, <1>4 DEF LockAgain, Mishaps
    <2> QED
      BY <1>0, <1>4, <2>1, <2>2 DEF LockAgain, Ended
  <1>5. CASE StartAll
    <2> DEFINE ch == Bootstrapped(forecasts, chain)
    <2>1. ch \in Seq(Seq(Forecasts)) /\ Sealing(forecasts, ch) \in Seq(Forecasts)
      BY BootstrappedType, SealingType
    <2>2. queue' \subseteq EventIds
      BY <1>5 DEF StartAll, QueueFor
    <2>3. chain' \in Seq(Seq(Forecasts)) /\ past' \in Pasts
      BY <1>5, <2>1 DEF StartAll, Pasts
    <2>4. job' \in Jobs /\ (job'.pc = "score" => job'.code \in 1..MaxFiles /\ job'.asOf = now)
      <3>1. job' \in {job, Idle, [Idle EXCEPT !.pc = "score", !.asOf = now,
                                   !.lock = Len(locks), !.code = files]}
        BY <1>5, Zenon DEF StartAll
      <3>2. now \in Nat /\ Len(locks) \in Nat /\ files \in 0..MaxFiles
        BY Numbers
      <3>3. job.pc = "idle"
        BY <1>5 DEF StartAll
      <3> QED
        BY <3>1, <3>2, <3>3, Empty DEF Idle, Jobs
    <2> QED
      BY <1>5, <2>2, <2>3, <2>4 DEF StartAll, Ended
  <1>6. CASE StartResolve
    BY <1>6, Empty DEF StartResolve, Ended, Idle, Jobs
  <1>7. CASE Score
    <2>1. PICK mine \in InOrder({e \in EventIds : Due(e, job.asOf, proxy)}) :
              job' = IF queue = {} THEN [Idle EXCEPT !.pc = "resolve"]
                     ELSE IF CanFit(proxy, job.asOf) /\ Len(locks) = job.lock
                     THEN [Idle EXCEPT
                           !.pc = "append",
                           !.batch = [k \in DOMAIN mine |-> Forecast(mine[k], proxy)]]
                     ELSE Idle
      BY <1>7 DEF Score
    <2> DEFINE batch == [k \in DOMAIN mine |-> Forecast(mine[k], proxy)]
    <2>2. batch \in Seq(Forecasts)
      BY <1>7, ScoredBatch DEF Score
    <2> HIDE DEF batch
    <2>3. job' \in Jobs /\ job'.pc # "score"
      BY <2>1, <2>2, Empty DEF batch, Idle, Jobs
    <2> QED
      BY <1>7, <2>3 DEF Score, Ended
  <1>8. CASE AppendForecasts
    <2> DEFINE ch == Bootstrapped(forecasts, chain)
    <2>1. ch \in Seq(Seq(Forecasts)) /\ Sealing(forecasts, ch) \in Seq(Forecasts)
      BY BootstrappedType, SealingType
    <2>2. chain' \in Seq(Seq(Forecasts)) /\ past' \in Pasts
      BY <1>8, <2>1 DEF AppendForecasts, Pasts
    <2>3. forecasts' \in Seq(Forecasts)
      <3>1. job.batch \in Seq(Forecasts)
        BY DEF Jobs
      <3>2. forecasts' = forecasts \/ forecasts' = forecasts \o job.batch
        BY <1>8, Zenon DEF AppendForecasts
      <3>3. forecasts \o job.batch \in Seq(Forecasts)
        BY <3>1
      <3> QED
        BY <3>2, <3>3, Zenon
    <2>4. job' \in {Idle, [Idle EXCEPT !.pc = "resolve"],
                    [job EXCEPT !.pc = "chain", !.prefix = forecasts]}
      BY <1>8, Zenon DEF AppendForecasts
    <2>5. job' \in Jobs /\ job'.pc # "score"
      BY <2>4, Empty DEF Idle, Jobs
    <2> QED
      BY <1>8, <2>2, <2>3, <2>5 DEF AppendForecasts, Ended
  <1>9. CASE AppendChain
    <2> DEFINE ch == chain \o NewEntries
    <2>1. ch \in Seq(Seq(Forecasts)) /\ Sealing(forecasts, ch) \in Seq(Forecasts)
      BY NewEntriesType, SealingType
    <2>2. chain' \in Seq(Seq(Forecasts)) /\ past' \in Pasts
      BY <1>9, <2>1 DEF AppendChain, Pasts
    <2>3. job' \in Jobs /\ job'.pc # "score"
      BY <1>9, Empty DEF AppendChain, Idle, Jobs
    <2> QED
      BY <1>9, <2>2, <2>3 DEF AppendChain, Ended
  <1>10. CASE OpenOutcomes
    <2>1. NextRows(proxy) \in Outcomes
      BY SeriesHere, NextRowsType
    <2>2. job' \in Jobs /\ job'.pc # "score"
      BY <1>10, <2>1 DEF OpenOutcomes, Jobs
    <2> QED
      BY <1>10, <2>2, Empty DEF OpenOutcomes, Ended
  <1>11. CASE WriteOutcomes
    <2>1. job.rows \in Outcomes /\ past.settled \in Outcomes
      BY DEF Jobs, Pasts
    <2> DEFINE settled == [e \in DOMAIN past.settled \union Resolved(job.rows) |->
                             IF e \in DOMAIN past.settled THEN past.settled[e]
                             ELSE job.rows[e]]
    <2>2. settled \in Outcomes
      <3>1. DOMAIN settled \in SUBSET EventIds
        BY <2>1 DEF Outcomes, Resolved
      <3>2. \A e \in DOMAIN settled : settled[e] \in RowType
        BY <2>1 DEF Outcomes, Resolved
      <3>3. settled \in [DOMAIN settled -> RowType]
        BY <3>2
      <3> QED
        BY <3>1, <3>3, Zenon DEF Outcomes
    <2>3. past' = [past EXCEPT !.settled = settled]
      BY <1>11 DEF WriteOutcomes
    <2> HIDE DEF settled
    <2>4. past' \in Pasts
      BY <2>2, <2>3 DEF Pasts
    <2> QED
      BY <1>11, <2>1, <2>4, Empty DEF WriteOutcomes, Ended, Idle
  <1>12. CASE Crash
    <2>1. past' \in Pasts
      <3> DEFINE faults == past.faults \union
                             {x \in {"gap"} : job.pc = "chain" /\ chain # <<>>}
                             \union {x \in {"torn"} : job.pc = "write"}
      <3>1. faults \in SUBSET {"gap", "torn", "edited"}
        BY DEF Pasts
      <3>2. past' = [past EXCEPT !.crashes = @ + 1, !.faults = faults]
        BY <1>12 DEF Crash
      <3>3. past.crashes + 1 \in Nat
        BY <1>0
      <3> HIDE DEF faults
      <3> QED
        BY <3>1, <3>2, <3>3 DEF Pasts
    <2> QED
      BY <1>12, <2>1, Empty DEF Crash, Ended, Idle
  <1>13. ASSUME NEW k \in DOMAIN forecasts, EditLine(k)
         PROVE  TypeInv'
    <2>1. forecasts' \in Seq(Forecasts)
      <3>1. \A f \in Forecasts : [f EXCEPT !.sign = "negative"] \in Forecasts
        BY DEF Forecasts
      <3>3. forecasts[k] \in Forecasts
        OBVIOUS
      <3>2. forecasts' = [forecasts EXCEPT ![k] = [forecasts[k] EXCEPT !.sign = "negative"]]
        BY <1>13 DEF EditLine
      <3> QED
        BY <3>1, <3>2, <3>3
    <2>2. past' \in Pasts
      BY <1>13, EditedType DEF EditLine
    <2> QED
      BY <1>13, <2>1, <2>2 DEF EditLine, Ended
  <1>14. ASSUME NEW n \in 0..(Len(forecasts) - 1), CutTo(n)
         PROVE  TypeInv'
    <2>1. forecasts' \in Seq(Forecasts)
      BY <1>14, PrefixType DEF CutTo
    <2>2. past' \in Pasts
      BY <1>14, EditedType DEF CutTo
    <2> QED
      BY <1>14, <2>1, <2>2 DEF CutTo, Ended
  <1>15. CASE RepairGap
    <2>1. forecasts' \in Seq(Forecasts)
      BY <1>15, PrefixType DEF RepairGap
    <2>2. past' \in Pasts
      BY <1>15 DEF RepairGap, Pasts
    <2> QED
      BY <1>15, <2>1, <2>2 DEF RepairGap, Ended
  <1>16. CASE UNCHANGED vars
    BY <1>16 DEF vars, Ended
  <1> QED
    BY <1>1, <1>2, <1>3, <1>4, <1>5, <1>6, <1>7, <1>8, <1>9, <1>10, <1>11,
       <1>12, <1>13, <1>14, <1>15, <1>16 DEF Next, JobStep

-----------------------------------------------------------------------------
(***************************************************************************)
(* What was verified stays.  The chain file only grows, and the sealed     *)
(* ledger is what its entry at that length was computed from, so a ledger  *)
(* that verifies against the chain begins with it.                         *)
(***************************************************************************)

SealedInv ==
    /\ Len(past.sealed) <= Len(chain)
    /\ past.sealed # <<>> => chain[Len(past.sealed)] = past.sealed

Extends(ch) == Len(chain) <= Len(ch) /\ \A k \in 1..Len(chain) : ch[k] = chain[k]

LEMMA BootstrappedExtends ==
    ASSUME TypeInv
    PROVE  Extends(Bootstrapped(forecasts, chain))
  <1>1. CASE forecasts # <<>> /\ chain = <<>>
    <2>1. Bootstrapped(forecasts, chain) = ChainOf(forecasts)
      BY <1>1 DEF Bootstrapped
    <2>2. Len(ChainOf(forecasts)) = Len(forecasts) /\ Len(forecasts) \in Nat
      BY ChainOfType DEF TypeInv
    <2> QED
      BY <1>1, <2>1, <2>2 DEF Extends
  <1>2. CASE ~(forecasts # <<>> /\ chain = <<>>)
    <2>1. Bootstrapped(forecasts, chain) = chain
      BY <1>2 DEF Bootstrapped
    <2> QED
      BY <2>1 DEF Extends, TypeInv
  <1> QED
    BY <1>1, <1>2

LEMMA NewEntriesExtend ==
    ASSUME TypeInv
    PROVE  Extends(chain \o NewEntries)
  <1>1. chain \in Seq(Seq(Forecasts)) /\ NewEntries \in Seq(Seq(Forecasts))
    BY NewEntriesType DEF TypeInv
  <1> QED
    BY <1>1 DEF Extends

LEMMA SealStep ==
    ASSUME TypeInv, SealedInv, NEW ch \in Seq(Seq(Forecasts)), Extends(ch),
           NEW s, s = Sealing(forecasts, ch)
    PROVE  /\ Len(s) <= Len(ch) /\ (s # <<>> => ch[Len(s)] = s)
           /\ IsPrefix(past.sealed, s)
  <1> DEFINE n == Len(past.sealed)
  <1>0. /\ past.sealed \in Seq(Forecasts) /\ forecasts \in Seq(Forecasts)
        /\ chain \in Seq(Seq(Forecasts)) /\ n \in Nat
    BY DEF TypeInv, Pasts
  <1>1. n <= Len(ch) /\ (past.sealed # <<>> => ch[n] = past.sealed)
    BY <1>0 DEF SealedInv, Extends
  <1>2. CASE Verified(forecasts, ch)
    <2>1. s = forecasts /\ Len(forecasts) = Len(ch)
      BY <1>2 DEF Sealing, Verified
    <2>2. \A k \in 1..Len(forecasts) : ch[k] = SubSeq(forecasts, 1, k)
      <3>1. DOMAIN forecasts = 1..Len(forecasts)
        BY <1>0
      <3> QED
        BY <1>2, <3>1, Zenon DEF Verified
    <2>3. s # <<>> => ch[Len(s)] = s
      <3>1. SubSeq(forecasts, 1, Len(forecasts)) = forecasts
        BY <1>0
      <3>2. forecasts # <<>> => Len(forecasts) \in 1..Len(forecasts)
        BY <1>0
      <3> QED
        BY <2>1, <2>2, <3>1, <3>2
    <2>4. IsPrefix(past.sealed, s)
      <3>1. CASE past.sealed = <<>>
        BY <3>1, <2>1, <1>0 DEF IsPrefix
      <3>2. CASE past.sealed # <<>>
        <4>1. n \in 1..Len(forecasts)
          BY <1>0, <1>1, <2>1, <3>2
        <4>2. past.sealed = SubSeq(forecasts, 1, n)
          BY <1>1, <2>2, <3>2, <4>1
        <4>3. SubSeq(past.sealed, 1, n) = past.sealed
          BY <1>0
        <4> QED
          BY <2>1, <4>1, <4>2, <4>3 DEF IsPrefix
      <3> QED
        BY <3>1, <3>2
    <2> QED
      BY <1>0, <2>1, <2>3, <2>4
  <1>3. CASE ~Verified(forecasts, ch)
    <2>1. s = past.sealed
      BY <1>3 DEF Sealing
    <2>2. IsPrefix(past.sealed, past.sealed)
      BY <1>0 DEF IsPrefix
    <2> QED
      BY <1>1, <2>1, <2>2
  <1> QED
    BY <1>2, <1>3

LEMMA SealedStep ==
    ASSUME TypeInv, SealedInv, [Next]_vars
    PROVE  SealedInv' /\ IsPrefix(past.sealed, past'.sealed)
  <1>0. past.sealed \in Seq(Forecasts) /\ past \in Pasts /\ IsPrefix(past.sealed, past.sealed)
    BY DEF TypeInv, Pasts, IsPrefix
  <1>1. ASSUME UNCHANGED chain, past'.sealed = past.sealed
        PROVE  SealedInv' /\ IsPrefix(past.sealed, past'.sealed)
    BY <1>0, <1>1 DEF SealedInv
  <1>2. ASSUME NEW ch \in Seq(Seq(Forecasts)), Extends(ch), chain' = ch,
               past'.sealed = Sealing(forecasts, ch)
        PROVE  SealedInv' /\ IsPrefix(past.sealed, past'.sealed)
    BY <1>2, SealStep DEF SealedInv
  <1>3. /\ Bootstrapped(forecasts, chain) \in Seq(Seq(Forecasts))
        /\ Extends(Bootstrapped(forecasts, chain))
    BY BootstrappedType, BootstrappedExtends DEF TypeInv
  <1>4. /\ chain \o NewEntries \in Seq(Seq(Forecasts))
        /\ Extends(chain \o NewEntries)
    BY NewEntriesType, NewEntriesExtend DEF TypeInv
  <1>5. CASE StartAll
    <2>1. CASE LockHolds
      <3>1. /\ chain' = Bootstrapped(forecasts, chain)
            /\ past'.sealed = Sealing(forecasts, Bootstrapped(forecasts, chain))
        BY <1>0, <1>5, <2>1 DEF StartAll, Pasts
      <3> QED
        BY <1>2, <1>3, <3>1
    <2>2. CASE ~LockHolds
      BY <1>1, <1>5, <2>2 DEF StartAll
    <2> QED
      BY <2>1, <2>2
  <1>6. CASE AppendForecasts
    <2>1. /\ chain' = Bootstrapped(forecasts, chain)
          /\ past'.sealed = Sealing(forecasts, Bootstrapped(forecasts, chain))
      BY <1>0, <1>6 DEF AppendForecasts, Pasts
    <2> QED
      BY <1>2, <1>3, <2>1
  <1>7. CASE AppendChain
    <2>1. /\ chain' = chain \o NewEntries
          /\ past'.sealed = Sealing(forecasts, chain \o NewEntries)
      BY <1>0, <1>7 DEF AppendChain, Pasts
    <2> QED
      BY <1>2, <1>4, <2>1
  <1>8. CASE WriteOutcomes
    BY <1>0, <1>1, <1>8 DEF WriteOutcomes, Pasts
  <1>9. CASE Crash
    BY <1>0, <1>1, <1>9 DEF Crash, Pasts
  <1>10. ASSUME NEW k, EditLine(k) PROVE SealedInv' /\ IsPrefix(past.sealed, past'.sealed)
    BY <1>0, <1>1, <1>10 DEF EditLine, Edited, Pasts
  <1>11. ASSUME NEW n, CutTo(n) PROVE SealedInv' /\ IsPrefix(past.sealed, past'.sealed)
    BY <1>0, <1>1, <1>11 DEF CutTo, Edited, Pasts
  <1>12. CASE RepairGap
    BY <1>0, <1>1, <1>12 DEF RepairGap, Pasts
  <1>13. CASE \/ Tick \/ TouchLocked \/ LockAgain \/ StartResolve \/ Score
              \/ OpenOutcomes \/ UNCHANGED vars \/ \E s \in Served : Refresh(s)
    BY <1>1, <1>13 DEF Tick, TouchLocked, LockAgain, StartResolve, Score,
                       OpenOutcomes, vars, Refresh
  <1> QED
    BY <1>5, <1>6, <1>7, <1>8, <1>9, <1>10, <1>11, <1>12, <1>13 DEF Next, JobStep

\* What a run has verified stays: the ledger is never again accepted with a
\* verified line changed or missing, however the file is edited.
THEOREM VerifiedStays == Spec => SealedOnlyGrows
  <1>1. Init => TypeInv /\ SealedInv
    BY TypeInit DEF Init, SealedInv
  <1>2. TypeInv /\ SealedInv /\ [Next]_vars =>
            TypeInv' /\ SealedInv' /\ [IsPrefix(past.sealed, past'.sealed)]_vars
    BY TypeNext, SealedStep
  <1> QED
    BY <1>1, <1>2, PTL DEF Spec, SealedOnlyGrows

\* The types of the variables, and that the local prices are of days that
\* have ended.
THEOREM TypeCorrect == Spec => []TypeOK
  <1>1. TypeInv => TypeOK
    <2> SUFFICES ASSUME TypeInv PROVE TypeOK
      OBVIOUS
    <2>1. \A rows \in Outcomes : RowsType(rows)
      BY DEF Outcomes, RowsType
    <2>2. \A fc \in {forecasts, job.batch, job.prefix} \union Range(chain) :
              Range(fc) \subseteq Forecasts
      <3>1. \A fc \in Seq(Forecasts) : Range(fc) \subseteq Forecasts
        BY DEF Range
      <3>2. Range(chain) \subseteq Seq(Forecasts)
        BY DEF TypeInv, Range
      <3> QED
        BY <3>1, <3>2 DEF TypeInv, Jobs
    <2>3. \A k \in DOMAIN locks : locks[k] \in [at : Instants, files : 1..files]
      <3>1. \A k \in DOMAIN locks : locks[k] \in Locks /\ locks[k].files <= files
        BY DEF TypeInv
      <3>2. files \in Nat
        BY DEF TypeInv
      <3> QED
        BY <3>1, <3>2 DEF Locks
    <2> QED
      BY <2>1, <2>2, <2>3 DEF TypeOK, TypeInv, Jobs, Pasts
  <1> QED
    BY <1>1, TypeInit, TypeNext, PTL DEF Spec

-----------------------------------------------------------------------------
(***************************************************************************)
(* The ledger the job leaves verifies.  Ids are never repeated, because a  *)
(* batch leaves out the ids that are there and nothing is appended between *)
(* the two reads.  Unless the file was edited, the chain is that of the    *)
(* first lines, and it is shorter than the ledger only between the two     *)
(* appends, after a crash there, or where it is missing altogether.        *)
(***************************************************************************)

OnceEach(fc) == \A i, k \in 1..Len(fc) : fc[i].id = fc[k].id => i = k

IdsInv ==
    /\ OnceEach(forecasts)
    /\ job.pc = "append" =>
          /\ OnceEach(job.batch)
          /\ \A i \in 1..Len(job.batch), k \in 1..Len(forecasts) :
                job.batch[i].id # forecasts[k].id

ChainsPrefixes == \A k \in 1..Len(chain) : chain[k] = SubSeq(forecasts, 1, k)

Chained ==
    /\ Len(chain) <= Len(forecasts)
    /\ ChainsPrefixes
    /\ ("gap" \notin past.faults /\ job.pc # "chain") =>
          chain = <<>> \/ Len(chain) = Len(forecasts)
    /\ job.pc = "chain" =>
          forecasts = job.prefix \o job.batch /\ Len(chain) = Len(job.prefix)

ChainInv == "edited" \notin past.faults => Chained

LEMMA IdsInit == Init => IdsInv /\ ChainInv
  BY DEF Init, IdsInv, ChainInv, Chained, ChainsPrefixes, OnceEach, Idle

\* The stage each of the job's steps leaves it in.
LEMMA Stages ==
    ASSUME job \in Jobs
    PROVE  /\ StartAll => job'.pc \in {"idle", "score"}
           /\ Score => job'.pc \in {"resolve", "append", "idle"}
           /\ AppendForecasts => job'.pc \in {"idle", "resolve", "chain"}
           /\ AppendChain => job'.pc \in {"resolve", "idle"}
           /\ StartResolve => job'.pc = "resolve"
           /\ OpenOutcomes => job'.pc = "write"
           /\ WriteOutcomes \/ Crash => job'.pc = "idle"
  <1>1. [job EXCEPT !.pc = "chain", !.prefix = forecasts].pc = "chain"
    BY DEF Jobs
  <1>2. [job EXCEPT !.pc = "write", !.rows = NextRows(proxy)].pc = "write"
    BY DEF Jobs
  <1>3. Idle.pc = "idle" /\ \A p : [Idle EXCEPT !.pc = p].pc = p
    BY DEF Idle
  <1>4. AppendForecasts => job'.pc \in {"idle", "resolve", "chain"}
    <2>1. AppendForecasts =>
            job' \in {Idle, [Idle EXCEPT !.pc = "resolve"],
                     [job EXCEPT !.pc = "chain", !.prefix = forecasts]}
      BY Zenon DEF AppendForecasts
    <2> QED
      BY <1>1, <1>3, <2>1
  <1>5. StartAll => job'.pc \in {"idle", "score"}
    <2>1. StartAll => job' \in {job, Idle, [Idle EXCEPT !.pc = "score", !.asOf = now,
                                             !.lock = Len(locks), !.code = files]}
      BY Zenon DEF StartAll
    <2>2. StartAll => job.pc = "idle"
      BY DEF StartAll
    <2> QED
      BY <1>3, <2>1, <2>2 DEF Idle
  <1>6. Score => job'.pc \in {"resolve", "append", "idle"}
    BY <1>3 DEF Score, Idle
  <1> QED
    BY <1>2, <1>3, <1>4, <1>5, <1>6
       DEF AppendChain, StartResolve, OpenOutcomes, WriteOutcomes, Crash

LEMMA EditKeepsIds ==
    ASSUME forecasts \in Seq(Forecasts), NEW k \in DOMAIN forecasts, EditLine(k)
    PROVE  /\ Len(forecasts') = Len(forecasts)
           /\ \A i \in 1..Len(forecasts) : forecasts'[i].id = forecasts[i].id
  <1>0. \A i \in 1..Len(forecasts) : forecasts[i] \in Forecasts
    OBVIOUS
  <1>1. forecasts' = [forecasts EXCEPT ![k] = [forecasts[k] EXCEPT !.sign = "negative"]]
    BY DEF EditLine
  <1>2. \A f \in Forecasts : [f EXCEPT !.sign = "negative"].id = f.id
    BY DEF Forecasts
  <1>3. k \in 1..Len(forecasts)
    OBVIOUS
  <1> QED
    BY <1>0, <1>1, <1>2, <1>3

LEMMA IdsNext ==
    ASSUME TypeInv, IdsInv, [Next]_vars
    PROVE  IdsInv'
  <1>0. /\ forecasts \in Seq(Forecasts) /\ job \in Jobs /\ job.batch \in Seq(Forecasts)
        /\ \A k \in 1..Len(forecasts) : forecasts[k] \in Forecasts
    BY DEF TypeInv, Jobs
  <1>1. ASSUME UNCHANGED forecasts, job'.pc # "append"
        PROVE  IdsInv'
    BY <1>1 DEF IdsInv, OnceEach
  \* a shorter ledger has no more ids
  <1>2. ASSUME NEW n \in 0..Len(forecasts), forecasts' = SubSeq(forecasts, 1, n),
               UNCHANGED job
        PROVE  IdsInv'
    <2>1. /\ Len(forecasts') = n /\ n <= Len(forecasts)
          /\ \A k \in 1..n : forecasts'[k] = forecasts[k]
      BY <1>0, <1>2, PrefixType
    <2> QED
      BY <1>0, <1>2, <2>1 DEF IdsInv, OnceEach
  <1>3. CASE Score
    <2>1. PICK mine \in InOrder({e \in EventIds : Due(e, job.asOf, proxy)}) :
              job' = IF queue = {} THEN [Idle EXCEPT !.pc = "resolve"]
                     ELSE IF CanFit(proxy, job.asOf) /\ Len(locks) = job.lock
                     THEN [Idle EXCEPT
                           !.pc = "append",
                           !.batch = [k \in DOMAIN mine |-> Forecast(mine[k], proxy)]]
                     ELSE Idle
      BY <1>3 DEF Score
    <2> DEFINE batch == [k \in DOMAIN mine |-> Forecast(mine[k], proxy)]
    <2>2. /\ batch \in Seq(Forecasts) /\ OnceEach(batch)
          /\ \A k \in 1..Len(batch) : Due(batch[k].id, job.asOf, proxy)
      BY <1>3, ScoredBatch DEF Score, OnceEach
    <2> HIDE DEF batch
    <2>3. \A i \in 1..Len(batch), k \in 1..Len(forecasts) :
              batch[i].id # forecasts[k].id
      BY <1>0, <2>2 DEF Due
    <2>4. job'.pc = "append" => job'.batch = batch
      BY <2>1 DEF Idle, batch
    <2>5. UNCHANGED forecasts
      BY <1>3 DEF Score
    <2> QED
      BY <2>2, <2>3, <2>4, <2>5 DEF IdsInv, OnceEach
  <1>4. CASE AppendForecasts
    <2>1. job'.pc # "append"
      BY <1>0, <1>4, Stages
    <2>2. CASE UNCHANGED forecasts
      BY <1>1, <2>1, <2>2
    <2>3. CASE forecasts' = forecasts \o job.batch
      <3>1. job.pc = "append"
        BY <1>4 DEF AppendForecasts
      <3>2. /\ OnceEach(forecasts) /\ OnceEach(job.batch)
            /\ \A i \in 1..Len(job.batch), k \in 1..Len(forecasts) :
                  job.batch[i].id # forecasts[k].id
        BY <3>1 DEF IdsInv
      <3>3. /\ Len(forecasts') = Len(forecasts) + Len(job.batch)
            /\ \A k \in 1..Len(forecasts') :
                  forecasts'[k] = IF k <= Len(forecasts) THEN forecasts[k]
                                  ELSE job.batch[k - Len(forecasts)]
        BY <1>0, <2>3
      <3>4. ASSUME NEW i \in 1..Len(forecasts'), NEW k \in 1..Len(forecasts'),
                   forecasts'[i].id = forecasts'[k].id
            PROVE  i = k
        <4>0. Len(forecasts) \in Nat /\ Len(job.batch) \in Nat
          BY <1>0
        <4>1. CASE i <= Len(forecasts) /\ k <= Len(forecasts)
          BY <3>2, <3>3, <3>4, <4>0, <4>1 DEF OnceEach
        <4>2. CASE i > Len(forecasts) /\ k > Len(forecasts)
          <5>1. i - Len(forecasts) \in 1..Len(job.batch) /\ k - Len(forecasts) \in 1..Len(job.batch)
            BY <3>3, <4>0, <4>2
          <5>2. /\ forecasts'[i] = job.batch[i - Len(forecasts)]
                /\ forecasts'[k] = job.batch[k - Len(forecasts)]
            BY <3>3, <4>0, <4>2
          <5>3. job.batch[i - Len(forecasts)].id = job.batch[k - Len(forecasts)].id
            BY <3>4, <5>2
          <5>4. i - Len(forecasts) = k - Len(forecasts)
            BY <3>2, <5>1, <5>3 DEF OnceEach
          <5> QED
            BY <4>0, <5>4
        <4>3. CASE i <= Len(forecasts) /\ k > Len(forecasts)
          <5>1. i \in 1..Len(forecasts) /\ k - Len(forecasts) \in 1..Len(job.batch)
            BY <3>3, <4>0, <4>3
          <5>2. /\ forecasts'[k] = job.batch[k - Len(forecasts)]
                /\ forecasts'[i] = forecasts[i]
            BY <3>3, <4>0, <4>3
          <5> QED
            BY <3>2, <3>4, <5>1, <5>2
        <4>4. CASE i > Len(forecasts) /\ k <= Len(forecasts)
          <5>1. k \in 1..Len(forecasts) /\ i - Len(forecasts) \in 1..Len(job.batch)
            BY <3>3, <4>0, <4>4
          <5>2. /\ forecasts'[i] = job.batch[i - Len(forecasts)]
                /\ forecasts'[k] = forecasts[k]
            BY <3>3, <4>0, <4>4
          <5> QED
            BY <3>2, <3>4, <5>1, <5>2
        <4> QED
          BY <4>0, <4>1, <4>2, <4>3, <4>4
      <3> QED
        BY <2>1, <3>4 DEF IdsInv, OnceEach
    <2> QED
      BY <1>4, <2>2, <2>3, Zenon DEF AppendForecasts
  <1>5. ASSUME NEW k \in DOMAIN forecasts, EditLine(k)
        PROVE  IdsInv'
    <2>1. /\ Len(forecasts') = Len(forecasts)
          /\ \A i \in 1..Len(forecasts) : forecasts'[i].id = forecasts[i].id
      BY <1>0, <1>5, EditKeepsIds
    <2>2. UNCHANGED job
      BY <1>5 DEF EditLine
    <2> QED
      BY <2>1, <2>2 DEF IdsInv, OnceEach
  <1>6. ASSUME NEW n \in 0..(Len(forecasts) - 1), CutTo(n)
        PROVE  IdsInv'
    BY <1>0, <1>2, <1>6 DEF CutTo
  <1>7. CASE RepairGap
    <2>1. Len(chain) \in 0..Len(forecasts)
      BY <1>7 DEF RepairGap, TypeInv
    <2> QED
      BY <1>2, <1>7, <2>1 DEF RepairGap
  <1>8. CASE \/ StartAll \/ StartResolve \/ AppendChain \/ OpenOutcomes
             \/ WriteOutcomes \/ Crash
    <2>1. UNCHANGED forecasts
      BY <1>8 DEF StartAll, StartResolve, AppendChain, OpenOutcomes,
                  WriteOutcomes, Crash
    <2>2. job'.pc # "append"
      BY <1>0, <1>8, Stages
    <2> QED
      BY <1>1, <2>1, <2>2
  <1>9. CASE \/ Tick \/ TouchLocked \/ LockAgain \/ UNCHANGED vars
             \/ \E s \in Served : Refresh(s)
    <2>1. UNCHANGED <<forecasts, job>>
      BY <1>9 DEF Tick, TouchLocked, LockAgain, vars, Refresh
    <2> QED
      BY <2>1 DEF IdsInv, OnceEach
  <1> QED
    BY <1>3, <1>4, <1>5, <1>6, <1>7, <1>8, <1>9 DEF Next, JobStep

\* A missing chain is built from the ledger; any other is left as it is.
LEMMA BootstrappedChains ==
    ASSUME TypeInv, NEW ch, ch = Bootstrapped(forecasts, chain)
    PROVE  \/ ch = chain
           \/ /\ Len(ch) = Len(forecasts) /\ chain = <<>>
              /\ \A k \in 1..Len(ch) : ch[k] = SubSeq(forecasts, 1, k)
  BY ChainOfType DEF Bootstrapped, TypeInv

LEMMA PrefixOfConcat ==
    ASSUME NEW p \in Seq(Forecasts), NEW b \in Seq(Forecasts)
    PROVE  /\ \A k \in 1..Len(p) : SubSeq(p \o b, 1, k) = SubSeq(p, 1, k)
           /\ \A k \in 1..Len(b) :
                SubSeq(p \o b, 1, Len(p) + k) = p \o SubSeq(b, 1, k)
  <1>1. \A k \in 1..Len(p) : SubSeq(p \o b, 1, k) = SubSeq(p, 1, k)
    OBVIOUS
  <1>2. ASSUME NEW k \in 1..Len(b)
        PROVE  SubSeq(p \o b, 1, Len(p) + k) = p \o SubSeq(b, 1, k)
    <2> DEFINE l == SubSeq(p \o b, 1, Len(p) + k)
               r == p \o SubSeq(b, 1, k)
    <2>1. l \in Seq(Forecasts) /\ r \in Seq(Forecasts)
      OBVIOUS
    <2>2. Len(l) = Len(p) + k /\ Len(r) = Len(p) + k
      OBVIOUS
    <2>3. \A i \in 1..Len(l) : l[i] = r[i]
      <3> SUFFICES ASSUME NEW i \in 1..(Len(p) + k) PROVE l[i] = r[i]
        BY <2>2
      <3>1. l[i] = (p \o b)[i]
        OBVIOUS
      <3>2. CASE i <= Len(p)
        BY <3>1, <3>2
      <3>3. CASE i > Len(p)
        BY <3>1, <3>3
      <3> QED
        BY <3>2, <3>3
    <2> HIDE DEF l, r
    <2> QED
      BY <2>1, <2>2, <2>3, SeqEqual DEF l, r
  <1> QED
    BY <1>1, <1>2

LEMMA ChainVerifies ==
    ASSUME TypeInv, IdsInv, NEW ch, Len(ch) = Len(forecasts),
           \A k \in 1..Len(ch) : ch[k] = SubSeq(forecasts, 1, k)
    PROVE  Verified(forecasts, ch)
  <1>1. DOMAIN forecasts = 1..Len(forecasts)
    BY DEF TypeInv
  <1> QED
    BY <1>1, Zenon DEF Verified, IdsInv, OnceEach

LEMMA ChainNext ==
    ASSUME TypeInv, ChainInv, [Next]_vars
    PROVE  ChainInv'
  <1>0. /\ forecasts \in Seq(Forecasts) /\ chain \in Seq(Seq(Forecasts))
        /\ job \in Jobs /\ past \in Pasts
        /\ job.batch \in Seq(Forecasts) /\ job.prefix \in Seq(Forecasts)
    BY DEF TypeInv, Jobs, Pasts
  <1>1. ASSUME NEW k \in DOMAIN forecasts, EditLine(k)
        PROVE  ChainInv'
    BY <1>0, <1>1 DEF EditLine, Edited, Pasts, ChainInv
  <1>2. ASSUME NEW n \in 0..(Len(forecasts) - 1), CutTo(n)
        PROVE  ChainInv'
    BY <1>0, <1>2 DEF CutTo, Edited, Pasts, ChainInv
  <1>3. CASE StartAll
    <2>1. past'.faults = past.faults /\ UNCHANGED forecasts
      BY <1>0, <1>3 DEF StartAll, Pasts
    <2>2. job'.pc # "chain" /\ job.pc # "chain"
      BY <1>0, <1>3, Stages DEF StartAll
    <2>3. chain' = chain \/ chain' = Bootstrapped(forecasts, chain)
      BY <1>3 DEF StartAll
    <2> SUFFICES ASSUME "edited" \notin past'.faults PROVE Chained'
      BY DEF ChainInv
    <2>4. Chained
      BY <2>1 DEF ChainInv
    <2>5. CASE chain' = chain
      BY <2>1, <2>2, <2>4, <2>5 DEF Chained, ChainsPrefixes
    <2>6. CASE /\ Len(chain') = Len(forecasts)
               /\ \A k \in 1..Len(chain') : chain'[k] = SubSeq(forecasts, 1, k)
      <3>1. Len(forecasts) \in Nat
        BY <1>0
      <3> QED
        <4>1. ChainsPrefixes'
          BY <2>1, <2>6, Zenon DEF ChainsPrefixes
        <4>2. Len(chain') <= Len(forecasts') /\ Len(chain') = Len(forecasts')
          BY <2>1, <2>6, <3>1
        <4> QED
          BY <2>2, <4>1, <4>2, Zenon DEF Chained
    <2> QED
      BY <2>3, <2>5, <2>6, BootstrappedChains
  <1>4. CASE AppendForecasts
    <2> DEFINE ch == Bootstrapped(forecasts, chain)
    <2>1. past'.faults = past.faults /\ chain' = ch /\ job.pc = "append"
      BY <1>0, <1>4 DEF AppendForecasts, Pasts
    <2> SUFFICES ASSUME "edited" \notin past'.faults PROVE Chained'
      BY DEF ChainInv
    <2>2. Chained
      BY <2>1 DEF ChainInv
    <2>3. ch = chain \/ /\ Len(ch) = Len(forecasts) /\ chain = <<>>
                        /\ \A k \in 1..Len(ch) : ch[k] = SubSeq(forecasts, 1, k)
      BY BootstrappedChains
    <2> HIDE DEF ch
    <2>4. CASE UNCHANGED forecasts /\ job' \in {Idle, [Idle EXCEPT !.pc = "resolve"]}
      <3>1. job'.pc # "chain"
        BY <2>4 DEF Idle
      <3>2. CASE chain' = chain
        BY <2>1, <2>2, <2>4, <3>1, <3>2 DEF Chained, ChainsPrefixes
      <3>3. CASE /\ Len(chain') = Len(forecasts)
                 /\ \A k \in 1..Len(chain') : chain'[k] = SubSeq(forecasts, 1, k)
        <4>1. Len(forecasts) \in Nat
          BY <1>0
        <4> QED
          <5>1. ChainsPrefixes'
            BY <2>4, <3>3, Zenon DEF ChainsPrefixes
          <5>2. Len(chain') <= Len(forecasts') /\ Len(chain') = Len(forecasts')
            BY <2>4, <3>3, <4>1
          <5> QED
            BY <3>1, <5>1, <5>2, Zenon DEF Chained
      <3> QED
        BY <2>1, <2>3, <3>2, <3>3
    <2>5. CASE /\ Verified(forecasts, ch)
               /\ forecasts' = forecasts \o job.batch
               /\ job' = [job EXCEPT !.pc = "chain", !.prefix = forecasts]
      <3>1. job'.pc = "chain" /\ job'.batch = job.batch /\ job'.prefix = forecasts
        BY <1>0, <2>5 DEF Jobs
      <3>2. Len(ch) = Len(forecasts)
        BY <2>5 DEF Verified
      <3>3. \A k \in 1..Len(ch) : ch[k] = SubSeq(forecasts, 1, k)
        BY <2>2, <2>3 DEF Chained, ChainsPrefixes
      <3>4. \A k \in 1..Len(forecasts) :
                SubSeq(forecasts', 1, k) = SubSeq(forecasts, 1, k)
        BY <1>0, <2>5, PrefixOfConcat
      <3>5. Len(forecasts) <= Len(forecasts')
        BY <1>0, <2>5
      <3> QED
        BY <2>1, <2>5, <3>1, <3>2, <3>3, <3>4, <3>5 DEF Chained, ChainsPrefixes
    <2> QED
      BY <1>4, <2>4, <2>5, Zenon DEF AppendForecasts, ch
  <1>5. CASE AppendChain
    <2>1. /\ past'.faults = past.faults /\ UNCHANGED forecasts /\ job.pc = "chain"
          /\ chain' = chain \o NewEntries
      BY <1>0, <1>5 DEF AppendChain, Pasts
    <2>2. job'.pc # "chain"
      BY <1>0, <1>5, Stages
    <2> SUFFICES ASSUME "edited" \notin past'.faults PROVE Chained'
      BY DEF ChainInv
    <2>3. /\ forecasts = job.prefix \o job.batch /\ Len(chain) = Len(job.prefix)
          /\ ChainsPrefixes
      BY <2>1 DEF ChainInv, Chained
    <2>4. /\ NewEntries \in Seq(Seq(Forecasts)) /\ Len(NewEntries) = Len(job.batch)
          /\ \A k \in 1..Len(job.batch) :
                NewEntries[k] = SubSeq(forecasts, 1, Len(job.prefix) + k)
      BY <1>0, <2>3, NewEntriesType, PrefixOfConcat
    <2>5. Len(chain') = Len(forecasts)
      <3>1. Len(chain') = Len(chain) + Len(NewEntries)
        <4>1. NewEntries \in Seq(Seq(Forecasts))
          BY <2>4
        <4>2. Len(chain \o NewEntries) = Len(chain) + Len(NewEntries)
          BY <1>0, <4>1, ConcatProperties
        <4> QED
          BY <2>1, <4>2, Zenon
      <3>2. Len(forecasts) = Len(job.prefix) + Len(job.batch)
        BY <1>0, <2>3
      <3> QED
        BY <2>3, <2>4, <3>1, <3>2
    <2>6. ASSUME NEW k \in 1..Len(chain')
          PROVE  chain'[k] = SubSeq(forecasts, 1, k)
      <3>1. CASE k <= Len(chain)
        <4>1. k \in 1..Len(chain)
          BY <1>0, <3>1
        <4>2. chain'[k] = chain[k]
          BY <1>0, <2>1, <2>4, <4>1
        <4> QED
          BY <2>3, <4>1, <4>2 DEF ChainsPrefixes
      <3>2. CASE k > Len(chain)
        <4>1. /\ k - Len(chain) \in 1..Len(job.batch)
              /\ Len(job.prefix) + (k - Len(chain)) = k
          BY <1>0, <2>1, <2>3, <2>4, <3>2
        <4>2. chain'[k] = NewEntries[k - Len(chain)]
          BY <1>0, <2>1, <2>4, <3>2
        <4> QED
          BY <2>4, <4>1, <4>2
      <3> QED
        BY <1>0, <3>1, <3>2
    <2> QED
      <3>1. Len(forecasts) \in Nat
        BY <1>0
      <3> QED
        <4>1. ChainsPrefixes'
          BY <2>1, <2>6, Zenon DEF ChainsPrefixes
        <4>2. Len(chain') <= Len(forecasts') /\ Len(chain') = Len(forecasts')
          BY <2>1, <2>5, <3>1
        <4> QED
          BY <2>2, <4>1, <4>2, Zenon DEF Chained
  <1>6. CASE Crash
    <2>1. UNCHANGED <<forecasts, chain>> /\ job'.pc = "idle"
      BY <1>0, <1>6, Stages DEF Crash
    <2>2. past'.faults = past.faults
             \union {x \in {"gap"} : job.pc = "chain" /\ chain # <<>>}
             \union {x \in {"torn"} : job.pc = "write"}
      BY <1>0, <1>6 DEF Crash, Pasts
    <2> SUFFICES ASSUME "edited" \notin past'.faults PROVE Chained'
      BY DEF ChainInv
    <2>3. Chained
      BY <2>2 DEF ChainInv
    <2> QED
      BY <2>1, <2>2, <2>3 DEF Chained, ChainsPrefixes
  <1>7. CASE RepairGap
    <2>1. /\ forecasts' = SubSeq(forecasts, 1, Len(chain)) /\ UNCHANGED chain
          /\ Len(chain) \in 0..Len(forecasts)
          /\ past'.faults = past.faults \ {"gap"}
          /\ job.pc = "idle" /\ UNCHANGED job
      BY <1>0, <1>7 DEF RepairGap, Pasts
    <2> SUFFICES ASSUME "edited" \notin past'.faults PROVE Chained'
      BY DEF ChainInv
    <2>2. Chained
      BY <2>1 DEF ChainInv
    <2>3. Len(forecasts') = Len(chain)
      BY <1>0, <2>1, PrefixType
    <2>4. \A k \in 1..Len(chain) :
              SubSeq(forecasts', 1, k) = SubSeq(forecasts, 1, k)
      BY <1>0, <2>1
    <2> QED
      <3>1. \A k \in 1..Len(chain') : chain'[k] = SubSeq(forecasts', 1, k)
        BY <2>1, <2>2, <2>4 DEF Chained, ChainsPrefixes
      <3>2. Len(chain') = Len(forecasts') /\ Len(chain') \in Nat
        BY <1>0, <2>1, <2>3
      <3>3. ChainsPrefixes'
        BY <3>1, Zenon DEF ChainsPrefixes
      <3>4. Len(chain') <= Len(forecasts')
        BY <3>2
      <3>5. job'.pc = "idle"
        BY <2>1
      <3> QED
        BY <3>2, <3>3, <3>4, <3>5 DEF Chained
  <1>8. CASE \/ Tick \/ TouchLocked \/ LockAgain \/ UNCHANGED vars
             \/ StartResolve \/ Score \/ OpenOutcomes \/ WriteOutcomes
             \/ \E s \in Served : Refresh(s)
    <2>1. UNCHANGED <<forecasts, chain>> /\ past'.faults = past.faults
      BY <1>0, <1>8 DEF Tick, TouchLocked, LockAgain, vars, Refresh, StartResolve,
                        Score, OpenOutcomes, WriteOutcomes, Pasts
    <2>2. UNCHANGED job \/ (job.pc # "chain" /\ job'.pc # "chain")
      <3>1. CASE StartResolve \/ Score \/ OpenOutcomes \/ WriteOutcomes
        BY <1>0, <3>1, Stages DEF StartResolve, Score, OpenOutcomes, WriteOutcomes, Idle
      <3>2. CASE ~(StartResolve \/ Score \/ OpenOutcomes \/ WriteOutcomes)
        BY <1>8, <3>2 DEF Tick, TouchLocked, LockAgain, vars, Refresh
      <3> QED
        BY <3>1, <3>2
    <2> QED
      BY <2>1, <2>2 DEF ChainInv, Chained, ChainsPrefixes
  <1> QED
    BY <1>1, <1>2, <1>3, <1>4, <1>5, <1>6, <1>7, <1>8 DEF Next, JobStep

\* Left to itself the job never locks itself out of its ledger.
THEOREM LedgerVerifies == Spec => []LedgerStaysUsable
  <1>1. Init => TypeInv /\ IdsInv /\ ChainInv
    BY TypeInit, IdsInit
  <1>2. TypeInv /\ IdsInv /\ ChainInv /\ [Next]_vars =>
            TypeInv' /\ IdsInv' /\ ChainInv'
    BY TypeNext, IdsNext, ChainNext
  <1>3. TypeInv /\ IdsInv /\ ChainInv => LedgerStaysUsable
    <2> SUFFICES ASSUME TypeInv, IdsInv, ChainInv,
                        {"gap", "edited"} \cap past.faults = {}, job.pc # "chain"
                 PROVE  Verified(forecasts, Bootstrapped(forecasts, chain))
      BY DEF LedgerStaysUsable
    <2> DEFINE ch == Bootstrapped(forecasts, chain)
    <2>1. /\ Len(chain) <= Len(forecasts) /\ ChainsPrefixes
          /\ chain = <<>> \/ Len(chain) = Len(forecasts)
      BY DEF ChainInv, Chained
    <2>2. forecasts # <<>> /\ chain = <<>> => ch = ChainOf(forecasts)
      BY DEF Bootstrapped
    <2>3. ~(forecasts # <<>> /\ chain = <<>>) => ch = chain
      BY DEF Bootstrapped
    <2>4. forecasts \in Seq(Forecasts)
      BY DEF TypeInv
    <2> HIDE DEF ch
    <2>5. Len(ch) = Len(forecasts) /\ \A k \in 1..Len(ch) : ch[k] = SubSeq(forecasts, 1, k)
      BY <2>1, <2>2, <2>3, <2>4, ChainOfType DEF ChainsPrefixes
    <2>6. Verified(forecasts, ch)
      BY <2>5, ChainVerifies
    <2> QED
      BY <2>6 DEF ch
  <1> QED
    BY <1>1, <1>2, <1>3, PTL DEF Spec

-----------------------------------------------------------------------------
(***************************************************************************)
(* Every line of the ledger is evidence.  A run scores at most MaxLag      *)
(* after a decision and has only the prices of days that have ended, so    *)
(* with a lag shorter than a day its last price is of a day before the     *)
(* decision's row; and the lock it scores under is compared again after    *)
(* the queue and the code were taken from it.                              *)
(***************************************************************************)

\* MAX_SCORING_LAG is 6 hours.
Prompt == MaxLag < PerDay

HonestUnder(f, ls) ==
    /\ PerDay * (f.seen + 1) <= DecisionAt[f.id] + MaxLag
    /\ f.lock \in 1..Len(ls)
    /\ f.code = ls[f.lock].files /\ DecisionAt[f.id] > ls[f.lock].at

AllHonest(fc, ls) == \A k \in 1..Len(fc) : HonestUnder(fc[k], ls)

StartsAfter(rows) == \A e \in Resolved(rows) : DecisionAt[e] <= PerDay * rows[e].start

HonestInv ==
    /\ AllHonest(forecasts, locks) /\ AllHonest(job.batch, locks)
    /\ StartsAfter(outcomes) /\ StartsAfter(job.rows)
    /\ job.pc = "score" =>
          /\ job.lock \in 1..Len(locks) /\ job.code = locks[job.lock].files
          /\ \A e \in queue : DecisionAt[e] > locks[job.lock].at

LEMMA ResolvedRow ==
    ASSUME NEW f \in Forecasts, NEW prices, Series(prices),
           Row(f, prices).status = "resolved"
    PROVE  /\ HasWindow(prices, DecisionAt[f.id])
           /\ Row(f, prices).start \in RowsFrom(prices, DecisionAt[f.id])
           /\ Row(f, prices).end \in RowsFrom(prices, DecisionAt[f.id])
           /\ Row(f, prices).fresh = FreshFeature(prices, DecisionAt[f.id])
  <1> DEFINE t == DecisionAt[f.id]
  <1>1. t \in Nat
    BY Numbers DEF Forecasts
  <1> HIDE DEF t
  <1>2. HasWindow(prices, t)
    <2>1. ~HasWindow(prices, t) => Row(f, prices).status = "waiting"
      BY DEF Row, t
    <2> QED
      BY <2>1
  <1>3. Row(f, prices) =
            [status |-> "resolved", sign |-> f.sign, fresh |-> FreshFeature(prices, t),
             start |-> Anchor(prices, t), end |-> WindowEnd(prices, t)]
    BY <1>2 DEF Row, t
  <1>4. /\ Anchor(prices, t) \in RowsFrom(prices, t)
        /\ WindowEnd(prices, t) \in RowsFrom(prices, t)
    BY <1>1, <1>2, WindowHasAnchor, AnchorIsFirst, WindowEnds
  <1>5. Row(f, prices).fresh = FreshFeature(prices, t)
    <2>1. \A s, g, b, x, y :
              [status |-> s, sign |-> g, fresh |-> b, start |-> x, end |-> y].fresh = b
      OBVIOUS
    <2> DEFINE row == [status |-> "resolved", sign |-> f.sign,
                       fresh |-> FreshFeature(prices, t),
                       start |-> Anchor(prices, t), end |-> WindowEnd(prices, t)]
    <2>2. row.fresh = FreshFeature(prices, t)
      BY ONLY <2>1
    <2> HIDE DEF row
    <2>3. Row(f, prices).fresh = row.fresh
      BY <1>3 DEF row
    <2> QED
      BY <2>2, <2>3, Zenon
  <1> QED
    BY <1>2, <1>3, <1>4, <1>5 DEF t

LEMMA NewRowsStartAfter ==
    ASSUME TypeInv, StartsAfter(outcomes)
    PROVE  StartsAfter(NextRows(proxy))
  <1>1. Series(proxy) /\ forecasts \in Seq(Forecasts) /\ outcomes \in Outcomes
    BY SeriesHere DEF TypeInv
  <1> SUFFICES ASSUME NEW e \in Resolved(NextRows(proxy))
               PROVE  DecisionAt[e] <= PerDay * NextRows(proxy)[e].start
    BY DEF StartsAfter
  <1>2. e \in Ids /\ NextRows(proxy)[e].status = "resolved"
    BY <1>1, NextRowsType DEF Resolved
  <1>3. CASE e \in DOMAIN outcomes /\ outcomes[e].status = "resolved"
    BY <1>1, <1>2, <1>3, NextRowsType DEF StartsAfter, Resolved
  <1>4. CASE ~(e \in DOMAIN outcomes /\ outcomes[e].status = "resolved")
    <2>1. NextRows(proxy)[e] = Row(ForecastOf(e), proxy)
      BY <1>1, <1>2, <1>4, NextRowsType
    <2>2. ForecastOf(e) \in Forecasts /\ ForecastOf(e).id = e
      BY <1>1, <1>2, ForecastIsThere
    <2>3. NextRows(proxy)[e].start \in RowsFrom(proxy, DecisionAt[e])
      BY <1>1, <1>2, <2>1, <2>2, ResolvedRow
    <2> QED
      BY <2>3 DEF RowsFrom
  <1> QED
    BY <1>3, <1>4

LEMMA HonestInit == Init => HonestInv
  <1> SUFFICES ASSUME Init PROVE HonestInv
    OBVIOUS
  <1>1. StartsAfter(NoRows)
    BY Empty DEF StartsAfter, Resolved
  <1> QED
    BY <1>1 DEF Init, HonestInv, AllHonest, Idle, NoRows

LEMMA MoreLocks ==
    ASSUME NEW ls \in Seq(Locks), NEW l \in Locks, NEW f, HonestUnder(f, ls)
    PROVE  HonestUnder(f, Append(ls, l))
  <1>1. Len(Append(ls, l)) = Len(ls) + 1 /\ Len(ls) \in Nat
    OBVIOUS
  <1>2. \A k \in 1..Len(ls) : Append(ls, l)[k] = ls[k]
    OBVIOUS
  <1>3. f.lock \in 1..Len(ls)
    BY DEF HonestUnder
  <1>4. f.lock \in 1..Len(Append(ls, l)) /\ Append(ls, l)[f.lock] = ls[f.lock]
    BY <1>1, <1>2, <1>3
  <1> QED
    BY <1>4, Zenon DEF HonestUnder

LEMMA ScoredIsHonest ==
    ASSUME TypeInv, HonestInv, job.pc = "score", Len(locks) = job.lock,
           NEW mine \in InOrder({e \in EventIds : Due(e, job.asOf, proxy)}),
           NEW batch, batch = [k \in DOMAIN mine |-> Forecast(mine[k], proxy)]
    PROVE  AllHonest(batch, locks)
  <1> SUFFICES ASSUME NEW k \in 1..Len(batch)
               PROVE  HonestUnder(batch[k], locks)
    BY DEF AllHonest
  <1> DEFINE e == batch[k].id
  <1>1. /\ e \in EventIds /\ Due(e, job.asOf, proxy)
        /\ batch[k] = Forecast(e, proxy) /\ batch[k].seen \in proxy
    BY ScoredBatch
  <1>2. batch[k].lock = Len(locks) /\ batch[k].code = job.code
    BY <1>1 DEF Forecast
  <1>3. /\ job.lock \in 1..Len(locks) /\ job.code = locks[job.lock].files
        /\ DecisionAt[e] > locks[job.lock].at
    BY <1>1 DEF HonestInv, Due
  <1>4. PerDay * (batch[k].seen + 1) <= now /\ PerDay * (batch[k].seen + 1) \in Nat
    <2>1. batch[k].seen \in Ended
      BY <1>1 DEF TypeInv
    <2>2. now \in Nat
      BY Numbers DEF TypeInv
    <2>3. batch[k].seen \in Nat /\ PerDay * (batch[k].seen + 1) <= now
      BY <2>1, <2>2, EndedDays
    <2> HIDE DEF e
    <2> QED
      BY <2>3, Numbers
  <1>5. now <= DecisionAt[e] + MaxLag /\ now \in Nat
    BY <1>1, Numbers DEF Due, TypeInv
  <1>6. DecisionAt[e] + MaxLag \in Nat
    BY <1>1, Numbers
  <1>7. PerDay * (batch[k].seen + 1) <= DecisionAt[e] + MaxLag
    BY <1>4, <1>5, <1>6
  <1> QED
    BY <1>2, <1>3, <1>7 DEF HonestUnder

\* A step that takes lines away, or changes one's sign, leaves the rest honest.
LEMMA HonestNext ==
    ASSUME TypeInv, HonestInv, [Next]_vars
    PROVE  HonestInv'
  <1>0. /\ forecasts \in Seq(Forecasts) /\ job \in Jobs
        /\ job.batch \in Seq(Forecasts) /\ locks \in Seq(Locks)
        /\ Len(locks) \in Nat /\ Len(locks) >= 1
    BY DEF TypeInv, Jobs
  <1>1. /\ AllHonest(forecasts, locks) /\ AllHonest(job.batch, locks)
        /\ StartsAfter(outcomes) /\ StartsAfter(job.rows)
    BY DEF HonestInv
  <1>2. /\ AllHonest(<<>>, locks) /\ StartsAfter(NoRows)
        /\ Idle.batch = <<>> /\ Idle.rows = NoRows /\ Idle.pc = "idle"
    BY Empty DEF AllHonest, StartsAfter, Resolved, Idle, NoRows
  \* the parts of the invariant at the next state, apart from a run's start
  <1>3. ASSUME UNCHANGED locks, AllHonest(forecasts', locks),
               AllHonest(job'.batch, locks), StartsAfter(outcomes'),
               StartsAfter(job'.rows), job'.pc # "score"
        PROVE  HonestInv'
    BY <1>3 DEF HonestInv, AllHonest, StartsAfter, Resolved
  <1>4. ASSUME UNCHANGED <<locks, queue, outcomes, job>>, AllHonest(forecasts', locks)
        PROVE  HonestInv'
    BY <1>4 DEF HonestInv, AllHonest, StartsAfter, Resolved
  <1>5. CASE LockAgain
    <2> DEFINE l == [at |-> now, files |-> files]
    <2>1. l \in Locks /\ locks' = Append(locks, l)
      BY <1>5 DEF LockAgain, TypeInv, Locks
    <2> HIDE DEF l
    <2>2. AllHonest(forecasts, locks') /\ AllHonest(job.batch, locks')
      BY <1>0, <1>1, <2>1, MoreLocks DEF AllHonest
    <2>3. UNCHANGED <<queue, forecasts, outcomes, job>>
      BY <1>5 DEF LockAgain
    <2>4. \A k \in 1..Len(locks) : k \in 1..Len(locks') /\ locks'[k] = locks[k]
      BY <1>0, <2>1
    <2> QED
      BY <1>1, <2>2, <2>3, <2>4 DEF HonestInv, AllHonest, StartsAfter, Resolved
  <1>6. CASE StartAll
    <2>1. UNCHANGED <<forecasts, locks, outcomes>> /\ job.pc = "idle"
      BY <1>6 DEF StartAll
    <2>2. CASE job' = job \/ job' = Idle
      BY <1>1, <1>2, <1>3, <2>1, <2>2
    <2>3. CASE /\ job' = [Idle EXCEPT !.pc = "score", !.asOf = now,
                                      !.lock = Len(locks), !.code = files]
               /\ LockHolds /\ queue' = QueueFor(Lock)
      <3>1. /\ job'.batch = <<>> /\ job'.rows = NoRows
            /\ job'.lock = Len(locks) /\ job'.code = locks[Len(locks)].files
        BY <2>3 DEF Idle, LockHolds, Lock, NoRows
      <3>2. \A e \in queue' : DecisionAt[e] > locks[Len(locks)].at
        BY <2>3 DEF QueueFor, Lock
      <3>3. Len(locks) \in 1..Len(locks)
        BY <1>0
      <3> QED
        BY <1>1, <1>2, <2>1, <3>1, <3>2, <3>3
           DEF HonestInv, AllHonest, StartsAfter, Resolved
    <2> QED
      BY <1>6, <2>2, <2>3, Zenon DEF StartAll
  <1>7. CASE Score
    <2>1. PICK mine \in InOrder({e \in EventIds : Due(e, job.asOf, proxy)}) :
              job' = IF queue = {} THEN [Idle EXCEPT !.pc = "resolve"]
                     ELSE IF CanFit(proxy, job.asOf) /\ Len(locks) = job.lock
                     THEN [Idle EXCEPT
                           !.pc = "append",
                           !.batch = [k \in DOMAIN mine |-> Forecast(mine[k], proxy)]]
                     ELSE Idle
      BY <1>7 DEF Score
    <2> DEFINE batch == [k \in DOMAIN mine |-> Forecast(mine[k], proxy)]
    <2>2. UNCHANGED <<locks, forecasts, outcomes>> /\ job.pc = "score"
      BY <1>7 DEF Score
    <2>3. Len(locks) = job.lock => AllHonest(batch, locks)
      BY <2>2, ScoredIsHonest
    <2> HIDE DEF batch
    <2>4. job'.batch = <<>> \/ (Len(locks) = job.lock /\ job'.batch = batch)
      BY <2>1 DEF batch, Idle
    <2>5. job'.rows = NoRows /\ job'.pc # "score"
      BY <2>1 DEF Idle, NoRows
    <2>6. AllHonest(job'.batch, locks)
      BY <1>2, <2>3, <2>4
    <2> QED
      BY <1>1, <1>2, <1>3, <2>2, <2>5, <2>6
  <1>8. CASE AppendForecasts
    <2>1. UNCHANGED <<locks, outcomes>> /\ job'.pc # "score"
      BY <1>0, <1>8, Stages DEF AppendForecasts
    <2>2. job' \in {Idle, [Idle EXCEPT !.pc = "resolve"],
                    [job EXCEPT !.pc = "chain", !.prefix = forecasts]}
      BY <1>8, Zenon DEF AppendForecasts
    <2>3. \/ job'.batch = <<>> /\ job'.rows = NoRows
          \/ job'.batch = job.batch /\ job'.rows = job.rows
      <3>1. /\ [job EXCEPT !.pc = "chain", !.prefix = forecasts].batch = job.batch
            /\ [job EXCEPT !.pc = "chain", !.prefix = forecasts].rows = job.rows
        BY <1>0 DEF Jobs
      <3>2. /\ [Idle EXCEPT !.pc = "resolve"].batch = <<>>
            /\ [Idle EXCEPT !.pc = "resolve"].rows = NoRows
        BY DEF Idle, NoRows
      <3> QED
        BY <1>2, <2>2, <3>1, <3>2, Zenon
    <2>4. AllHonest(job'.batch, locks) /\ StartsAfter(job'.rows)
      BY <1>1, <1>2, <2>3
    <2>5. forecasts' = forecasts \/ forecasts' = forecasts \o job.batch
      BY <1>8, Zenon DEF AppendForecasts
    <2>6. AllHonest(forecasts \o job.batch, locks)
      <3>1. \A k \in 1..Len(forecasts \o job.batch) :
                \/ k \in 1..Len(forecasts) /\ (forecasts \o job.batch)[k] = forecasts[k]
                \/ /\ k - Len(forecasts) \in 1..Len(job.batch)
                   /\ (forecasts \o job.batch)[k] = job.batch[k - Len(forecasts)]
        BY <1>0
      <3> QED
        BY <1>1, <3>1 DEF AllHonest
    <2>7. AllHonest(forecasts', locks)
      BY <1>1, <2>5, <2>6
    <2> QED
      BY <1>1, <1>3, <2>1, <2>4, <2>7
  <1>9. CASE AppendChain \/ StartResolve \/ Crash
    <2>1. UNCHANGED <<locks, outcomes, forecasts>> /\ job'.pc # "score"
      BY <1>0, <1>9, Stages DEF AppendChain, StartResolve, Crash
    <2>2. job'.batch = <<>> /\ job'.rows = NoRows
      BY <1>9 DEF AppendChain, StartResolve, Crash, Idle, NoRows
    <2> QED
      BY <1>1, <1>2, <1>3, <2>1, <2>2
  <1>10. CASE OpenOutcomes
    <2>1. /\ UNCHANGED <<locks, forecasts>> /\ job'.pc # "score"
          /\ outcomes' = NoRows
      BY <1>0, <1>10, Stages DEF OpenOutcomes
    <2>2. job'.batch = job.batch /\ job'.rows = NextRows(proxy)
      BY <1>0, <1>10 DEF OpenOutcomes, Jobs
    <2>3. StartsAfter(NextRows(proxy))
      BY <1>1, NewRowsStartAfter
    <2> QED
      BY <1>1, <1>2, <1>3, <2>1, <2>2, <2>3
  <1>11. CASE WriteOutcomes
    <2>1. UNCHANGED <<locks, forecasts>> /\ job' = Idle /\ outcomes' = job.rows
      BY <1>11 DEF WriteOutcomes
    <2> QED
      BY <1>1, <1>2, <1>3, <2>1
  <1>12. ASSUME NEW k \in DOMAIN forecasts, EditLine(k)
         PROVE  HonestInv'
    <2>1. forecasts' = [forecasts EXCEPT ![k] = [forecasts[k] EXCEPT !.sign = "negative"]]
      BY <1>12 DEF EditLine
    <2>2. \A f \in Forecasts : \A ls :
             HonestUnder(f, ls) => HonestUnder([f EXCEPT !.sign = "negative"], ls)
      BY DEF Forecasts, HonestUnder
    <2>3. /\ Len(forecasts') = Len(forecasts)
          /\ \A i \in 1..Len(forecasts) :
                /\ forecasts[i] \in Forecasts
                /\ forecasts'[i] = IF i = k THEN [forecasts[i] EXCEPT !.sign = "negative"]
                                   ELSE forecasts[i]
      <3>1. DOMAIN forecasts = 1..Len(forecasts) /\ Len(forecasts) \in Nat
        BY <1>0
      <3>2. \A i \in 1..Len(forecasts) : forecasts[i] \in Forecasts
        BY <1>0
      <3>3. DOMAIN forecasts' = 1..Len(forecasts)
        BY <2>1, <3>1
      <3>4. Len(forecasts') = Len(forecasts)
        <4>1. [f \in Forecasts |-> [f EXCEPT !.sign = "negative"]] \in [Forecasts -> Forecasts]
          BY DEF Forecasts
        <4>2. [forecasts[k] EXCEPT !.sign = "negative"] \in Forecasts
          BY <3>2, <3>1, <4>1
        <4>3. forecasts' \in Seq(Forecasts)
          BY <1>0, <2>1, <4>2
        <4> QED
          BY <3>1, <3>3, <4>3
      <3> QED
        BY <2>1, <3>1, <3>2, <3>4
    <2>4. AllHonest(forecasts', locks)
      BY <1>1, <2>2, <2>3 DEF AllHonest
    <2> QED
      BY <1>4, <1>12, <2>4 DEF EditLine
  <1>13. ASSUME NEW n \in 0..Len(forecasts), forecasts' = SubSeq(forecasts, 1, n)
         PROVE  AllHonest(forecasts', locks)
    <2>1. /\ Len(forecasts') = n /\ n <= Len(forecasts)
          /\ \A k \in 1..n : k \in 1..Len(forecasts) /\ forecasts'[k] = forecasts[k]
      BY <1>0, <1>13, PrefixType
    <2> QED
      BY <1>1, <2>1 DEF AllHonest
  <1>14. ASSUME NEW n \in 0..(Len(forecasts) - 1), CutTo(n)
         PROVE  HonestInv'
    <2>1. n \in 0..Len(forecasts)
      BY <1>0
    <2> QED
      BY <1>4, <1>13, <1>14, <2>1 DEF CutTo
  <1>15. CASE RepairGap
    <2>1. Len(chain) \in 0..Len(forecasts)
      BY <1>0, <1>15 DEF RepairGap, TypeInv
    <2> QED
      BY <1>4, <1>13, <1>15, <2>1 DEF RepairGap
  <1>16. CASE \/ Tick \/ TouchLocked \/ UNCHANGED vars \/ \E s \in Served : Refresh(s)
    BY <1>1, <1>4, <1>16 DEF Tick, TouchLocked, vars, Refresh
  <1> QED
    BY <1>5, <1>6, <1>7, <1>8, <1>9, <1>10, <1>11, <1>12, <1>14, <1>15, <1>16
       DEF Next, JobStep

\* Every line of the ledger is evidence: made before its outcome could be
\* known, by the files its lock froze and for an event after it.
THEOREM ForecastsAreEvidence == ASSUME Prompt PROVE Spec => []HoldoutIsHonest
  <1>1. Init => TypeInv /\ HonestInv
    BY TypeInit, HonestInit
  <1>2. TypeInv /\ HonestInv /\ [Next]_vars => TypeInv' /\ HonestInv'
    BY TypeNext, HonestNext
  <1>3. TypeInv /\ HonestInv => HoldoutIsHonest
    <2> SUFFICES ASSUME TypeInv, HonestInv PROVE HoldoutIsHonest
      OBVIOUS
    <2>1. \A k \in DOMAIN forecasts : k \in 1..Len(forecasts) /\ forecasts[k] \in Forecasts
      BY DEF TypeInv
    <2>2. ForecastsUnderTheirLock
      BY <2>1 DEF ForecastsUnderTheirLock, HonestInv, AllHonest, HonestUnder
    <2>3. ASSUME NEW k \in DOMAIN forecasts, forecasts[k].id \in Resolved(outcomes)
          PROVE  forecasts[k].seen < outcomes[forecasts[k].id].start
      <3> DEFINE e == forecasts[k].id
                 seen == forecasts[k].seen
                 start == outcomes[e].start
      <3>1. e \in EventIds /\ seen \in Nat /\ DecisionAt[e] \in Nat
        BY <2>1, Numbers DEF Forecasts
      <3>2. PerDay * (seen + 1) <= DecisionAt[e] + MaxLag
        BY <2>1 DEF HonestInv, AllHonest, HonestUnder
      <3>3. DecisionAt[e] <= PerDay * start
        BY <2>3 DEF HonestInv, StartsAfter
      <3>4. start \in Int
        <4>1. outcomes[e] \in RowType
          BY <2>3 DEF TypeInv, Outcomes, Resolved
        <4>2. Days \subseteq Int
          BY Numbers
        <4>3. outcomes[e].start \in Days \union {-1}
          BY <4>1 DEF RowType
        <4>4. \A x \in Days \union {-1} : x \in Int
          BY <4>2
        <4> QED
          BY <4>3, <4>4, Zenon
      <3> HIDE DEF e, seen, start
      <3>5. PerDay * (seen + 1) < PerDay * (start + 1)
        <4>1. PerDay * (start + 1) = PerDay * start + PerDay
          BY <3>4, Numbers
        <4>2. PerDay * (seen + 1) \in Int /\ PerDay * start \in Int
          BY <3>1, <3>4, Numbers
        <4> QED
          BY <3>1, <3>2, <3>3, <4>1, <4>2, Numbers DEF Prompt
      <3>6. \A p \in Nat, a, b \in Int : p * a < p * b => a < b
        <4> SUFFICES ASSUME NEW p \in Nat, NEW a \in Int, NEW b \in Int, b <= a
                     PROVE  p * b <= p * a
          OBVIOUS
        <4>1. p * a = p * b + p * (a - b) /\ a - b \in Nat
          OBVIOUS
        <4>2. p * (a - b) \in Nat
          BY <4>1
        <4> QED
          BY <4>1, <4>2
      <3>7. seen + 1 < start + 1
        BY <3>1, <3>4, <3>5, <3>6, Numbers
      <3> QED
        BY <3>1, <3>4, <3>7 DEF e, seen, start
    <2> QED
      BY <2>2, <2>3 DEF HoldoutIsHonest, BlindForecasts
  <1> QED
    BY <1>1, <1>2, <1>3, PTL DEF Spec

-----------------------------------------------------------------------------
(***************************************************************************)
(* Outcomes.  An event is settled a day after its decision at the          *)
(* earliest, when no run may score it any more: what is settled is not     *)
(* forecast again, and later prices can only make a fresh feature fresher. *)
(***************************************************************************)

Late(rows) == \A e \in Resolved(rows) : DecisionAt[e] + PerDay <= now
Fresh(rows) == \A e \in Resolved(rows) : rows[e].fresh
AllFresh(fc) == \A k \in 1..Len(fc) : FreshFeature(proxy, DecisionAt[fc[k].id])

RowsInv ==
    /\ AllFresh(forecasts) /\ AllFresh(job.batch)
    /\ Late(outcomes) /\ Late(job.rows)
    /\ Fresh(outcomes) /\ Fresh(job.rows)
    /\ Resolved(past.settled) = DOMAIN past.settled /\ Late(past.settled)

LEMMA FreshGrows ==
    ASSUME NEW s, NEW prices, Series(s), prices \subseteq s, NEW t \in Nat,
           FreshFeature(prices, t)
    PROVE  FreshFeature(s, t)
  <1> DEFINE some == RowsBefore(prices, t)
             more == RowsBefore(s, t)
  <1>1. Series(prices)
    BY SubSeries
  <1>2. some \subseteq more /\ more \subseteq s
    BY DEF RowsBefore
  <1>3. HasFeature(prices, t) /\ FeatureAge(prices, t) <= MaxAge
    BY DEF FreshFeature
  <1>4. IsFiniteSet(more)
    <2>1. PICK n \in Nat : \A x \in s : x <= n
      BY DEF Series
    <2>2. more \in SUBSET Nat /\ \A x \in more : x <= n
      BY <1>2, <2>1, Numbers DEF Series
    <2> HIDE DEF more
    <2> QED
      BY <2>2, FS_BoundedSetOfNaturals
  <1>5. HasFeature(s, t)
    <2> HIDE DEF some, more
    <2>1. Cardinality(some) <= Cardinality(more)
      BY <1>2, <1>4, FS_Subset
    <2>2. Cardinality(some) \in Nat /\ Cardinality(more) \in Nat
      BY <1>2, <1>4, FS_Subset, FS_CardinalityType
    <2>3. Cardinality(some) >= 2
      BY <1>3 DEF HasFeature, some
    <2> QED
      BY <2>1, <2>2, <2>3 DEF HasFeature, more
  <1>6. FeatureRow(prices, t) \in some
    BY <1>1, <1>3, FeatureIsLast
  <1>7. /\ FeatureRow(s, t) \in more
        /\ FeatureRow(prices, t) <= FeatureRow(s, t)
    BY <1>2, <1>5, <1>6, FeatureIsLast
  <1>8. FeatureRow(prices, t) \in Nat /\ FeatureRow(s, t) \in Nat /\ t \div PerDay \in Nat
    <2>1. some \subseteq Nat /\ more \subseteq Nat
      BY <1>2, Numbers DEF Series
    <2>2. \A p \in Nat \ {0} : t \div p \in Nat
      OBVIOUS
    <2> HIDE DEF some, more
    <2> QED
      BY <1>6, <1>7, <2>1, <2>2, Numbers
  <1>9. FeatureAge(s, t) <= MaxAge
    <2>1. t \div PerDay - FeatureRow(s, t) <= t \div PerDay - FeatureRow(prices, t)
      BY <1>7, <1>8
    <2> QED
      BY <1>3, <1>8, <2>1, Numbers DEF FeatureAge
  <1> QED
    BY <1>5, <1>9 DEF FreshFeature

LEMMA NewRowsSettle ==
    ASSUME TypeInv, RowsInv
    PROVE  Late(NextRows(proxy)) /\ Fresh(NextRows(proxy))
  <1>1. Series(proxy) /\ forecasts \in Seq(Forecasts) /\ outcomes \in Outcomes
    BY SeriesHere DEF TypeInv
  <1> SUFFICES ASSUME NEW e \in Resolved(NextRows(proxy))
               PROVE  DecisionAt[e] + PerDay <= now /\ NextRows(proxy)[e].fresh
    BY DEF Late, Fresh
  <1>2. e \in Ids /\ NextRows(proxy)[e].status = "resolved"
    BY <1>1, NextRowsType DEF Resolved
  <1>3. CASE e \in DOMAIN outcomes /\ outcomes[e].status = "resolved"
    <2>1. NextRows(proxy)[e] = outcomes[e]
      BY <1>1, <1>2, <1>3, NextRowsType
    <2>2. e \in Resolved(outcomes)
      BY <1>3 DEF Resolved
    <2>3. DecisionAt[e] + PerDay <= now /\ outcomes[e].fresh
      BY <2>2, Zenon DEF RowsInv, Late, Fresh
    <2> QED
      BY <2>1, <2>3, Zenon
  <1>4. CASE ~(e \in DOMAIN outcomes /\ outcomes[e].status = "resolved")
    <2> DEFINE t == DecisionAt[e]
               f == ForecastOf(e)
    <2>1. NextRows(proxy)[e] = Row(f, proxy)
      BY <1>1, <1>2, <1>4, NextRowsType
    <2>2. f \in Forecasts /\ f.id = e /\ \E k \in 1..Len(forecasts) : f = forecasts[k]
      BY <1>1, <1>2, ForecastIsThere
    <2> HIDE DEF f
    <2>3. /\ Row(f, proxy).end \in RowsFrom(proxy, t)
          /\ Row(f, proxy).fresh = FreshFeature(proxy, t)
      BY <1>1, <1>2, <2>1, <2>2, ResolvedRow
    <2>4. FreshFeature(proxy, t)
      BY <2>2, Zenon DEF RowsInv, AllFresh
    <2>5. NextRows(proxy)[e].fresh
      BY <2>1, <2>3, <2>4, Zenon
    <2> DEFINE d == Row(f, proxy).end
    <2>6. d \in Ended /\ t <= PerDay * d
      BY <2>3 DEF RowsFrom, TypeInv
    <2>7. d \in Nat /\ PerDay * (d + 1) <= now
      BY <2>6, EndedDays, Numbers DEF TypeInv
    <2>8. t \in Nat
      BY <2>2, Numbers DEF Forecasts
    <2> HIDE DEF d, t
    <2>9. t + PerDay <= now
      <3>1. PerDay * (d + 1) = PerDay * d + PerDay /\ PerDay * d \in Nat
        BY <2>7, Numbers
      <3>2. now \in Nat /\ PerDay \in Nat
        BY Numbers DEF TypeInv
      <3> QED
        BY <2>6, <2>7, <2>8, <3>1, <3>2
    <2> QED
      BY <2>5, <2>9 DEF t
  <1> QED
    BY <1>3, <1>4

LEMMA RowsInit == Init => RowsInv
  <1> SUFFICES ASSUME Init PROVE RowsInv
    OBVIOUS
  <1>1. Late(NoRows) /\ Fresh(NoRows) /\ Resolved(NoRows) = DOMAIN NoRows
    BY Empty DEF Late, Fresh, Resolved
  <1>2. AllFresh(<<>>)
    BY DEF AllFresh
  <1> QED
    BY <1>1, <1>2 DEF Init, RowsInv, Idle, NoRows

LEMMA TimeAndPrices ==
    ASSUME TypeInv, [Next]_vars
    PROVE  /\ now \in Nat /\ now' \in Nat /\ now <= now'
           /\ proxy \subseteq proxy' /\ Series(proxy')
  <1>1. now \in Nat /\ now' \in Nat
    BY TypeNext, Numbers DEF TypeInv
  <1>2. now <= now'
    <2>1. CASE Tick
      BY <1>1, <2>1, ClockMoves
    <2>2. CASE ~Tick
      <3>1. now' = now
        BY <2>2 DEF Next, JobStep, vars, Refresh, TouchLocked, LockAgain, StartAll,
           StartResolve, Score, AppendForecasts, AppendChain, OpenOutcomes,
           WriteOutcomes, Crash, RepairGap, EditLine, CutTo
      <3> QED
        BY <1>1, <3>1
    <2> QED
      BY <2>1, <2>2
  <1>3. proxy \subseteq proxy'
    BY DEF Next, JobStep, vars, Tick, Refresh, Served, TouchLocked, LockAgain,
       StartAll, StartResolve, Score, AppendForecasts, AppendChain, OpenOutcomes,
       WriteOutcomes, Crash, RepairGap, EditLine, CutTo
  <1>4. Series(proxy')
    <2>1. proxy' \subseteq Ended' /\ TypeInv'
      BY TypeNext DEF TypeInv
    <2>2. Ended' = {d \in Days : PerDay * (d + 1) <= now'}
      BY DEF Ended
    <2>3. \A p \in Nat \ {0}, m \in Nat : m <= p * m
      OBVIOUS
    <2>4. \A d \in proxy' : d \in Days /\ d <= now'
      <3> TAKE d \in proxy'
      <3>1. d \in Days /\ PerDay * (d + 1) <= now'
        BY <2>1, <2>2
      <3>2. d \in Nat /\ d + 1 \in Nat /\ PerDay \in Nat \ {0}
        BY <3>1, Numbers
      <3>3. d + 1 <= PerDay * (d + 1)
        BY <2>3, <3>2
      <3>4. PerDay * (d + 1) \in Nat
        BY <3>2
      <3> QED
        BY <1>1, <3>1, <3>2, <3>3, <3>4
    <2> QED
      BY <1>1, <2>4 DEF Series
  <1> QED
    BY <1>1, <1>2, <1>3, <1>4

LEMMA RowsNext ==
    ASSUME TypeInv, RowsInv, [Next]_vars
    PROVE  RowsInv'
  <1> DEFINE LateThen(rows) == \A e \in Resolved(rows) : DecisionAt[e] + PerDay <= now'
             FreshThen(fc) ==
                \A k \in 1..Len(fc) : FreshFeature(proxy', DecisionAt[fc[k].id])
  <1>0. /\ forecasts \in Seq(Forecasts) /\ job \in Jobs /\ past \in Pasts
        /\ job.batch \in Seq(Forecasts)
        /\ outcomes \in Outcomes /\ job.rows \in Outcomes /\ past.settled \in Outcomes
    BY DEF TypeInv, Jobs, Pasts
  <1>1. \A rows \in Outcomes : Late(rows) => LateThen(rows)
    <2> SUFFICES ASSUME NEW rows \in Outcomes, NEW e \in Resolved(rows),
                        DecisionAt[e] + PerDay <= now
                 PROVE  DecisionAt[e] + PerDay <= now'
      BY DEF Late
    <2>1. e \in EventIds
      BY DEF Outcomes, Resolved
    <2>2. DecisionAt[e] + PerDay \in Nat
      BY <2>1, Numbers
    <2> QED
      BY <2>2, TimeAndPrices
  <1>2. \A fc \in Seq(Forecasts) : AllFresh(fc) => FreshThen(fc)
    <2> SUFFICES ASSUME NEW fc \in Seq(Forecasts), AllFresh(fc),
                        NEW k \in 1..Len(fc)
                 PROVE  FreshFeature(proxy', DecisionAt[fc[k].id])
      OBVIOUS
    <2>1. fc[k] \in Forecasts
      OBVIOUS
    <2>2. DecisionAt[fc[k].id] \in Nat
      BY <2>1, Numbers DEF Forecasts
    <2>3. FreshFeature(proxy, DecisionAt[fc[k].id])
      BY Zenon DEF AllFresh
    <2> QED
      BY <2>2, <2>3, TimeAndPrices, FreshGrows
  <1>3. /\ FreshThen(forecasts) /\ FreshThen(job.batch)
        /\ LateThen(outcomes) /\ LateThen(job.rows) /\ LateThen(past.settled)
        /\ Fresh(outcomes) /\ Fresh(job.rows)
        /\ Resolved(past.settled) = DOMAIN past.settled
    BY <1>0, <1>1, <1>2 DEF RowsInv
  <1>4. /\ FreshThen(<<>>) /\ LateThen(NoRows) /\ Fresh(NoRows)
        /\ Idle.batch = <<>> /\ Idle.rows = NoRows
    BY Empty DEF Fresh, Resolved, Idle, NoRows
  <1>5. ASSUME FreshThen(forecasts'), FreshThen(job'.batch),
               LateThen(outcomes'), LateThen(job'.rows),
               Fresh(outcomes'), Fresh(job'.rows),
               Resolved(past'.settled) = DOMAIN past'.settled, LateThen(past'.settled)
        PROVE  RowsInv'
    <2>1. AllFresh(forecasts)' /\ AllFresh(job.batch)'
      BY <1>5 DEF AllFresh
    <2>2. Late(outcomes)' /\ Late(job.rows)' /\ Late(past.settled)'
      BY <1>5 DEF Late, Resolved
    <2>3. Fresh(outcomes)' /\ Fresh(job.rows)'
      BY <1>5, Zenon DEF Fresh, Resolved
    <2>4. (Resolved(past.settled) = DOMAIN past.settled)'
      BY <1>5, Zenon DEF Resolved
    <2> QED
      BY <2>1, <2>2, <2>3, <2>4, Zenon DEF RowsInv
  <1>6. CASE Score
    <2>1. PICK mine \in InOrder({e \in EventIds : Due(e, job.asOf, proxy)}) :
              job' = IF queue = {} THEN [Idle EXCEPT !.pc = "resolve"]
                     ELSE IF CanFit(proxy, job.asOf) /\ Len(locks) = job.lock
                     THEN [Idle EXCEPT
                           !.pc = "append",
                           !.batch = [k \in DOMAIN mine |-> Forecast(mine[k], proxy)]]
                     ELSE Idle
      BY <1>6 DEF Score
    <2> DEFINE batch == [k \in DOMAIN mine |-> Forecast(mine[k], proxy)]
    <2>2. UNCHANGED <<forecasts, outcomes, past>> /\ job.pc = "score"
      BY <1>6 DEF Score
    <2>3. batch \in Seq(Forecasts) /\ \A k \in 1..Len(batch) : Due(batch[k].id, job.asOf, proxy)
      BY <2>2, ScoredBatch
    <2> HIDE DEF batch
    <2>4. AllFresh(batch)
      BY <2>3, Zenon DEF Due, AllFresh
    <2>5. FreshThen(batch)
      BY <1>2, <2>3, <2>4, Zenon
    <2>6. (job'.batch = <<>> \/ job'.batch = batch) /\ job'.rows = NoRows
      BY <2>1 DEF batch, Idle, NoRows
    <2> HIDE DEF LateThen, FreshThen
    <2> QED
      BY <1>3, <1>4, <1>5, <2>2, <2>5, <2>6, Zenon
  <1>7. CASE AppendForecasts
    <2>1. UNCHANGED outcomes /\ past'.settled = past.settled
      BY <1>0, <1>7 DEF AppendForecasts, Pasts
    <2>2. job' \in {Idle, [Idle EXCEPT !.pc = "resolve"],
                    [job EXCEPT !.pc = "chain", !.prefix = forecasts]}
      BY <1>7, Zenon DEF AppendForecasts
    <2>3. \/ job'.batch = <<>> /\ job'.rows = NoRows
          \/ job'.batch = job.batch /\ job'.rows = job.rows
      <3>1. /\ [job EXCEPT !.pc = "chain", !.prefix = forecasts].batch = job.batch
            /\ [job EXCEPT !.pc = "chain", !.prefix = forecasts].rows = job.rows
        BY <1>0 DEF Jobs
      <3>2. /\ [Idle EXCEPT !.pc = "resolve"].batch = <<>>
            /\ [Idle EXCEPT !.pc = "resolve"].rows = NoRows
        BY DEF Idle, NoRows
      <3> QED
        BY <1>4, <2>2, <3>1, <3>2, Zenon
    <2>4. forecasts' = forecasts \/ forecasts' = forecasts \o job.batch
      BY <1>7, Zenon DEF AppendForecasts
    <2>5. FreshThen(forecasts \o job.batch)
      <3>1. \A k \in 1..Len(forecasts \o job.batch) :
                \/ k \in 1..Len(forecasts) /\ (forecasts \o job.batch)[k] = forecasts[k]
                \/ /\ k - Len(forecasts) \in 1..Len(job.batch)
                   /\ (forecasts \o job.batch)[k] = job.batch[k - Len(forecasts)]
        BY <1>0
      <3> QED
        BY <1>3, <3>1, Zenon
    <2> HIDE DEF LateThen, FreshThen
    <2> QED
      BY <1>3, <1>4, <1>5, <2>1, <2>3, <2>4, <2>5, Zenon
  <1>8. CASE OpenOutcomes
    <2>1. UNCHANGED <<forecasts, past>> /\ outcomes' = NoRows
      BY <1>8 DEF OpenOutcomes
    <2>2. job'.batch = job.batch /\ job'.rows = NextRows(proxy)
      BY <1>0, <1>8 DEF OpenOutcomes, Jobs
    <2>3. NextRows(proxy) \in Outcomes
      BY <1>0, SeriesHere, NextRowsType DEF TypeInv
    <2>4. LateThen(NextRows(proxy)) /\ Fresh(NextRows(proxy))
      BY <1>1, <2>3, NewRowsSettle
    <2> HIDE DEF LateThen, FreshThen
    <2> QED
      BY <1>3, <1>4, <1>5, <2>1, <2>2, <2>4, Zenon
  <1>9. CASE WriteOutcomes
    <2> DEFINE settled == [e \in DOMAIN past.settled \union Resolved(job.rows) |->
                             IF e \in DOMAIN past.settled THEN past.settled[e]
                             ELSE job.rows[e]]
    <2>1. UNCHANGED forecasts /\ job' = Idle /\ outcomes' = job.rows
      BY <1>9 DEF WriteOutcomes
    <2>2. past'.settled = settled
      BY <1>0, <1>9 DEF WriteOutcomes, Pasts
    <2>3. Resolved(settled) = DOMAIN settled
      BY <1>3 DEF Resolved
    <2>4. LateThen(settled)
      BY <1>3, <2>3
    <2> HIDE DEF settled, LateThen, FreshThen
    <2> QED
      BY <1>3, <1>4, <1>5, <2>1, <2>2, <2>3, <2>4, Zenon
  <1>10. ASSUME NEW k \in DOMAIN forecasts, EditLine(k)
         PROVE  RowsInv'
    <2>1. /\ Len(forecasts') = Len(forecasts)
          /\ \A i \in 1..Len(forecasts) : forecasts'[i].id = forecasts[i].id
      BY <1>0, <1>10, EditKeepsIds
    <2>2. UNCHANGED <<job, outcomes>> /\ past'.settled = past.settled
      BY <1>0, <1>10 DEF EditLine, Edited, Pasts
    <2>3. FreshThen(forecasts')
      BY <1>3, <2>1, Zenon
    <2> HIDE DEF LateThen, FreshThen
    <2> QED
      BY <1>3, <1>5, <2>2, <2>3, Zenon
  <1>11. ASSUME NEW n \in 0..Len(forecasts), forecasts' = SubSeq(forecasts, 1, n),
                UNCHANGED <<job, outcomes>>, past'.settled = past.settled
         PROVE  RowsInv'
    <2>1. /\ Len(forecasts') = n /\ n <= Len(forecasts)
          /\ \A k \in 1..n : k \in 1..Len(forecasts) /\ forecasts'[k] = forecasts[k]
      BY <1>0, <1>11, PrefixType
    <2>2. FreshThen(forecasts')
      BY <1>3, <2>1, Zenon
    <2> HIDE DEF LateThen, FreshThen
    <2> QED
      BY <1>3, <1>5, <1>11, <2>2, Zenon
  <1>12. ASSUME NEW n \in 0..(Len(forecasts) - 1), CutTo(n)
         PROVE  RowsInv'
    <2>1. n \in 0..Len(forecasts)
      BY <1>0
    <2>2. /\ forecasts' = SubSeq(forecasts, 1, n) /\ UNCHANGED <<job, outcomes>>
          /\ past'.settled = past.settled
      BY <1>0, <1>12 DEF CutTo, Edited, Pasts
    <2> QED
      BY <1>11, <2>1, <2>2
  <1>13. CASE RepairGap
    <2>1. Len(chain) \in 0..Len(forecasts)
      BY <1>0, <1>13 DEF RepairGap, TypeInv
    <2>2. /\ forecasts' = SubSeq(forecasts, 1, Len(chain)) /\ UNCHANGED <<job, outcomes>>
          /\ past'.settled = past.settled
      BY <1>0, <1>13 DEF RepairGap, Pasts
    <2> QED
      BY <1>11, <2>1, <2>2
  <1>14. CASE \/ Tick \/ TouchLocked \/ LockAgain \/ UNCHANGED vars
              \/ StartAll \/ StartResolve \/ AppendChain \/ Crash
              \/ \E s \in Served : Refresh(s)
    <2>1. UNCHANGED <<forecasts, outcomes>> /\ past'.settled = past.settled
      BY <1>0, <1>14 DEF Tick, TouchLocked, LockAgain, vars, Refresh, StartAll,
                         StartResolve, AppendChain, Crash, Pasts
    <2>2. job' = job \/ (job'.batch = <<>> /\ job'.rows = NoRows)
      <3>1. StartAll => job' \in {job, Idle, [Idle EXCEPT !.pc = "score", !.asOf = now,
                                               !.lock = Len(locks), !.code = files]}
        BY Zenon DEF StartAll
      <3>2. ASSUME job' = [Idle EXCEPT !.pc = "score", !.asOf = now,
                                       !.lock = Len(locks), !.code = files]
            PROVE  job'.batch = <<>> /\ job'.rows = NoRows
        BY <3>2 DEF Idle, NoRows
      <3>3. StartAll => job' = job \/ (job'.batch = <<>> /\ job'.rows = NoRows)
        BY <1>4, <3>1, <3>2, Zenon
      <3>4. StartResolve \/ AppendChain \/ Crash =>
                job'.batch = <<>> /\ job'.rows = NoRows
        BY DEF StartResolve, AppendChain, Crash, Idle, NoRows
      <3> QED
        BY <1>14, <3>3, <3>4 DEF Tick, TouchLocked, LockAgain, vars, Refresh
    <2> HIDE DEF LateThen, FreshThen
    <2> QED
      BY <1>3, <1>4, <1>5, <2>1, <2>2, Zenon
  <1> QED
    BY <1>6, <1>7, <1>8, <1>9, <1>10, <1>12, <1>13, <1>14 DEF Next, JobStep

\* The rows the settled ones are in: on disk, or in the hands of the job that
\* is writing them.
Rows == IF job.pc = "write" THEN job.rows ELSE outcomes

Agree(rows) ==
    \A e \in DOMAIN past.settled :
        e \in Ids => e \in DOMAIN rows /\ rows[e] = past.settled[e]

FinalInv ==
    /\ "torn" \notin past.faults => Agree(Rows)
    /\ job.pc = "append" =>
          \A k \in 1..Len(job.batch) : job.batch[k].id \notin DOMAIN past.settled

LEMMA FinalInit == Init => FinalInv
  <1> SUFFICES ASSUME Init PROVE FinalInv
    OBVIOUS
  <1>1. DOMAIN past.settled = {} /\ job.pc = "idle"
    BY Empty DEF Init, Idle
  <1> QED
    BY <1>1 DEF FinalInv, Agree

LEMMA FinalNext ==
    ASSUME Prompt, TypeInv, RowsInv, FinalInv, [Next]_vars
    PROVE  FinalInv'
  <1>0. /\ forecasts \in Seq(Forecasts) /\ job \in Jobs /\ past \in Pasts
        /\ job.batch \in Seq(Forecasts)
        /\ outcomes \in Outcomes /\ job.rows \in Outcomes /\ past.settled \in Outcomes
    BY DEF TypeInv, Jobs, Pasts
  <1>1. Ids = {forecasts[k].id : k \in 1..Len(forecasts)}
    BY <1>0 DEF Ids
  \* a step that brings no id and settles nothing
  <1>2. ASSUME Ids' \subseteq Ids, past'.settled = past.settled,
               past.faults \subseteq past'.faults,
               "torn" \notin past'.faults => Rows' = Rows,
               job'.pc # "append" \/ UNCHANGED job
        PROVE  FinalInv'
    <2>1. "torn" \notin past'.faults => Agree(Rows)'
      <3> SUFFICES ASSUME "torn" \notin past'.faults,
                          NEW e \in DOMAIN past.settled, e \in Ids'
                   PROVE  e \in DOMAIN Rows' /\ Rows'[e] = past'.settled[e]
        BY <1>2, Zenon DEF Agree
      <3>1. "torn" \notin past.faults /\ Rows' = Rows /\ e \in Ids
        BY <1>2
      <3>2. Agree(Rows)
        BY <3>1 DEF FinalInv
      <3> QED
        BY <1>2, <3>1, <3>2, Zenon DEF Agree
    <2>2. job'.pc = "append" =>
            \A k \in 1..Len(job'.batch) : job'.batch[k].id \notin DOMAIN past'.settled
      BY <1>2, Zenon DEF FinalInv
    <2> QED
      BY <2>1, <2>2, Zenon DEF FinalInv
  <1>3. CASE Score
    <2>1. PICK mine \in InOrder({e \in EventIds : Due(e, job.asOf, proxy)}) :
              job' = IF queue = {} THEN [Idle EXCEPT !.pc = "resolve"]
                     ELSE IF CanFit(proxy, job.asOf) /\ Len(locks) = job.lock
                     THEN [Idle EXCEPT
                           !.pc = "append",
                           !.batch = [k \in DOMAIN mine |-> Forecast(mine[k], proxy)]]
                     ELSE Idle
      BY <1>3 DEF Score
    <2> DEFINE batch == [k \in DOMAIN mine |-> Forecast(mine[k], proxy)]
    <2>2. UNCHANGED <<forecasts, outcomes, past>> /\ job.pc = "score"
      BY <1>3 DEF Score
    <2>3. \A k \in 1..Len(batch) :
              batch[k].id \in EventIds /\ Due(batch[k].id, job.asOf, proxy)
      BY <2>2, ScoredBatch
    <2> HIDE DEF batch
    <2>4. job'.pc = "append" => job'.batch = batch
      BY <2>1 DEF Idle, batch
    <2>5. ASSUME NEW k \in 1..Len(batch)
          PROVE  batch[k].id \notin DOMAIN past.settled
      <3> DEFINE e == batch[k].id
      <3> SUFFICES ASSUME e \in DOMAIN past.settled PROVE FALSE
        OBVIOUS
      <3>1. DecisionAt[e] + PerDay <= now
        BY DEF RowsInv, Late
      <3>2. now <= DecisionAt[e] + MaxLag
        BY <2>2, <2>3 DEF Due, TypeInv
      <3>3. DecisionAt[e] \in Nat
        BY <2>3, Numbers
      <3>4. now \in Nat /\ PerDay \in Nat /\ MaxLag \in Nat /\ MaxLag < PerDay
        BY Numbers DEF TypeInv, Prompt
      <3> HIDE DEF e
      <3> QED
        BY <3>1, <3>2, <3>3, <3>4
    <2>6. Ids' = Ids /\ job'.pc # "write"
      BY <1>0, <1>3, <2>2, Stages DEF Ids
    <2>7. Rows' = Rows
      BY <2>2, <2>6 DEF Rows
    <2>8. "torn" \notin past'.faults => Agree(Rows)'
      <3>1. "torn" \notin past.faults => Agree(Rows)
        BY DEF FinalInv
      <3> QED
        BY <2>2, <2>6, <2>7, <3>1, Zenon DEF Agree
    <2> QED
      BY <2>2, <2>4, <2>5, <2>8, Zenon DEF FinalInv
  <1>4. CASE AppendForecasts
    <2>1. /\ UNCHANGED outcomes /\ past'.settled = past.settled
          /\ past'.faults = past.faults
      BY <1>0, <1>4 DEF AppendForecasts, Pasts
    <2>2. job'.pc \notin {"append", "write"} /\ job.pc = "append"
      BY <1>0, <1>4, Stages DEF AppendForecasts
    <2>3. Rows' = outcomes /\ Rows = outcomes
      BY <2>1, <2>2 DEF Rows
    <2>4. CASE UNCHANGED forecasts
      <3>1. Ids' = Ids
        BY <2>4 DEF Ids
      <3> QED
        BY <1>2, <2>1, <2>2, <2>3, <3>1
    <2>5. CASE forecasts' = forecasts \o job.batch
      <3>1. \A e \in Ids' : e \in Ids \/ \E k \in 1..Len(job.batch) : job.batch[k].id = e
        <4>1. Ids' = {forecasts'[k].id : k \in DOMAIN forecasts'}
          BY DEF Ids
        <4>2. DOMAIN forecasts' = 1..Len(forecasts \o job.batch)
          BY <1>0, <2>5
        <4>3. \A k \in 1..Len(forecasts \o job.batch) :
                \/ k \in 1..Len(forecasts) /\ forecasts'[k] = forecasts[k]
                \/ /\ k - Len(forecasts) \in 1..Len(job.batch)
                   /\ forecasts'[k] = job.batch[k - Len(forecasts)]
          BY <1>0, <2>5
        <4> QED
          BY <1>1, <4>1, <4>2, <4>3
      <3>2. \A k \in 1..Len(job.batch) : job.batch[k].id \notin DOMAIN past.settled
        BY <2>2 DEF FinalInv
      <3>3. "torn" \notin past.faults => Agree(outcomes)
        BY <2>3 DEF FinalInv
      <3>4. "torn" \notin past'.faults => Agree(Rows)'
        BY <2>1, <2>3, <3>1, <3>2, <3>3, Zenon DEF Agree
      <3> QED
        BY <2>2, <3>4 DEF FinalInv
    <2> QED
      BY <1>4, <2>4, <2>5, Zenon DEF AppendForecasts
  <1>5. CASE OpenOutcomes
    <2>1. UNCHANGED <<forecasts, past>> /\ job.pc = "resolve"
      BY <1>5 DEF OpenOutcomes
    <2>2. job'.pc = "write" /\ job'.rows = NextRows(proxy)
      BY <1>0, <1>5 DEF OpenOutcomes, Jobs
    <2>3. Rows' = NextRows(proxy) /\ Rows = outcomes /\ Ids' = Ids
      BY <2>1, <2>2 DEF Rows, Ids
    <2>4. ASSUME "torn" \notin past.faults, NEW e \in DOMAIN past.settled, e \in Ids
          PROVE  e \in DOMAIN NextRows(proxy) /\ NextRows(proxy)[e] = past.settled[e]
      <3>1. e \in DOMAIN outcomes /\ outcomes[e] = past.settled[e]
        BY <2>3, <2>4 DEF FinalInv, Agree
      <3>2. outcomes[e].status = "resolved"
        BY <3>1 DEF RowsInv, Resolved
      <3>3. e \in DOMAIN NextRows(proxy) /\ NextRows(proxy)[e] = outcomes[e]
        BY <1>0, <2>4, <3>1, <3>2, SeriesHere, NextRowsType DEF TypeInv
      <3> QED
        BY <3>1, <3>3
    <2>5. "torn" \notin past'.faults => Agree(Rows)'
      BY <2>1, <2>3, <2>4, Zenon DEF Agree
    <2> QED
      BY <2>2, <2>5 DEF FinalInv
  <1>6. CASE WriteOutcomes
    <2> DEFINE settled == [e \in DOMAIN past.settled \union Resolved(job.rows) |->
                             IF e \in DOMAIN past.settled THEN past.settled[e]
                             ELSE job.rows[e]]
    <2>1. /\ UNCHANGED forecasts /\ job.pc = "write" /\ job'.pc = "idle"
          /\ outcomes' = job.rows
      BY <1>6 DEF WriteOutcomes, Idle
    <2>2. past'.settled = settled /\ past'.faults = past.faults
      BY <1>0, <1>6 DEF WriteOutcomes, Pasts
    <2>3. Rows' = job.rows /\ Rows = job.rows /\ Ids' = Ids
      BY <2>1 DEF Rows, Ids
    <2>4. ASSUME "torn" \notin past.faults, NEW e \in DOMAIN settled, e \in Ids
          PROVE  e \in DOMAIN job.rows /\ job.rows[e] = settled[e]
      <3>1. CASE e \in DOMAIN past.settled
        BY <2>3, <2>4, <3>1 DEF FinalInv, Agree
      <3>2. CASE e \notin DOMAIN past.settled
        BY <3>2 DEF Resolved
      <3> QED
        BY <3>1, <3>2
    <2> HIDE DEF settled
    <2>5. "torn" \notin past'.faults => Agree(Rows)'
      BY <2>2, <2>3, <2>4, Zenon DEF Agree
    <2> QED
      BY <2>1, <2>5 DEF FinalInv
  <1>7. CASE Crash
    <2>1. UNCHANGED <<forecasts, outcomes>> /\ job'.pc = "idle"
      BY <1>0, <1>7, Stages DEF Crash
    <2>2. /\ past'.settled = past.settled /\ past.faults \subseteq past'.faults
          /\ job.pc = "write" => "torn" \in past'.faults
      BY <1>0, <1>7 DEF Crash, Pasts
    <2>3. Ids' = Ids /\ (job.pc # "write" => Rows' = Rows)
      BY <2>1 DEF Ids, Rows
    <2> QED
      BY <1>2, <2>1, <2>2, <2>3
  <1>8. ASSUME NEW k \in DOMAIN forecasts, EditLine(k)
        PROVE  FinalInv'
    <2>1. UNCHANGED <<job, outcomes>> /\ past'.settled = past.settled
      BY <1>0, <1>8 DEF EditLine, Edited, Pasts
    <2>2. past.faults \subseteq past'.faults
      BY <1>0, <1>8 DEF EditLine, Edited, Pasts
    <2>3. Rows' = Rows
      BY <2>1 DEF Rows
    <2>4. /\ DOMAIN forecasts' = 1..Len(forecasts) /\ DOMAIN forecasts = 1..Len(forecasts)
          /\ \A i \in 1..Len(forecasts) : forecasts'[i].id = forecasts[i].id
      <3>1. DOMAIN forecasts' = DOMAIN forecasts
        BY <1>8 DEF EditLine
      <3> QED
        BY <1>0, <1>8, <3>1, EditKeepsIds
    <2>5. Ids' \subseteq Ids
      BY <2>4 DEF Ids
    <2> QED
      BY <1>2, <2>1, <2>2, <2>3, <2>5
  <1>9. ASSUME NEW n \in 0..Len(forecasts), forecasts' = SubSeq(forecasts, 1, n)
        PROVE  Ids' \subseteq Ids
    <2>1. /\ DOMAIN forecasts' = 1..n
          /\ \A k \in 1..n : k \in 1..Len(forecasts) /\ forecasts'[k] = forecasts[k]
      BY <1>0, <1>9, PrefixType
    <2> QED
      BY <1>1, <2>1 DEF Ids
  <1>10. ASSUME NEW n \in 0..(Len(forecasts) - 1), CutTo(n)
         PROVE  FinalInv'
    <2>1. UNCHANGED <<job, outcomes>> /\ past'.settled = past.settled
      BY <1>0, <1>10 DEF CutTo, Edited, Pasts
    <2>2. past.faults \subseteq past'.faults
      BY <1>0, <1>10 DEF CutTo, Edited, Pasts
    <2>3. Rows' = Rows
      BY <2>1 DEF Rows
    <2>4. Ids' \subseteq Ids
      <3>1. n \in 0..Len(forecasts)
        BY <1>0
      <3> QED
        BY <1>9, <1>10, <3>1 DEF CutTo
    <2> QED
      BY <1>2, <2>1, <2>2, <2>3, <2>4
  <1>11. CASE RepairGap
    <2>1. /\ UNCHANGED <<job, outcomes>> /\ past'.settled = past.settled
          /\ past'.faults = past.faults \ {"gap"}
      BY <1>0, <1>11 DEF RepairGap, Pasts
    <2>2. Rows' = Rows
      BY <2>1 DEF Rows
    <2>3. Ids' \subseteq Ids
      <3>1. Len(chain) \in 0..Len(forecasts)
        BY <1>0, <1>11 DEF RepairGap, TypeInv
      <3> QED
        BY <1>9, <1>11, <3>1 DEF RepairGap
    <2>4. "torn" \notin past'.faults => "torn" \notin past.faults
      BY <2>1
    <2>5. "torn" \notin past.faults => Agree(Rows)
      BY DEF FinalInv
    <2>6. "torn" \notin past'.faults => Agree(Rows)'
      BY <2>1, <2>2, <2>3, <2>4, <2>5, Zenon DEF Agree
    <2>7. job'.pc = "append" =>
            \A k \in 1..Len(job'.batch) : job'.batch[k].id \notin DOMAIN past'.settled
      BY <2>1, Zenon DEF FinalInv
    <2> QED
      BY <2>6, <2>7, Zenon DEF FinalInv
  <1>12. CASE \/ Tick \/ TouchLocked \/ LockAgain \/ UNCHANGED vars
              \/ StartAll \/ StartResolve \/ AppendChain
              \/ \E s \in Served : Refresh(s)
    <2>1. /\ UNCHANGED <<forecasts, outcomes>> /\ past'.settled = past.settled
          /\ past'.faults = past.faults
      BY <1>0, <1>12 DEF Tick, TouchLocked, LockAgain, vars, Refresh, StartAll,
                         StartResolve, AppendChain, Pasts
    <2>2. \/ UNCHANGED job
          \/ job.pc \in {"idle", "chain"} /\ job'.pc \notin {"append", "write"}
      <3>1. CASE StartAll \/ StartResolve \/ AppendChain
        BY <1>0, <3>1, Stages DEF StartAll, StartResolve, AppendChain
      <3>2. CASE ~(StartAll \/ StartResolve \/ AppendChain)
        BY <1>12, <3>2 DEF Tick, TouchLocked, LockAgain, vars, Refresh
      <3> QED
        BY <3>1, <3>2
    <2>3. Rows' = Rows /\ Ids' = Ids
      BY <2>1, <2>2 DEF Rows, Ids
    <2> QED
      BY <1>2, <2>1, <2>2, <2>3
  <1> QED
    BY <1>3, <1>4, <1>5, <1>6, <1>7, <1>8, <1>10, <1>11, <1>12 DEF Next, JobStep

\* What was settled and scored does not move when prices arrive late.
THEOREM OutcomesAreFinal == ASSUME Prompt PROVE Spec => []OutcomesStand
  <1>1. Init => TypeInv /\ RowsInv /\ FinalInv
    BY TypeInit, RowsInit, FinalInit
  <1>2. TypeInv /\ RowsInv /\ FinalInv /\ [Next]_vars =>
            TypeInv' /\ RowsInv' /\ FinalInv'
    BY TypeNext, RowsNext, FinalNext
  <1>3. TypeInv /\ RowsInv /\ FinalInv => OutcomesStand
    <2> SUFFICES ASSUME TypeInv, RowsInv, FinalInv PROVE OutcomesStand
      OBVIOUS
    <2>1. SettledCounts
      <3>1. \A e \in Resolved(outcomes) : outcomes[e].fresh
        BY Zenon DEF RowsInv, Fresh
      <3> QED
        BY <3>1, Zenon DEF SettledCounts, Counted
    <2>2. SettledIsFinal
      BY Zenon DEF SettledIsFinal, FinalInv, Agree, Rows, Ids
    <2> QED
      BY <2>1, <2>2 DEF OutcomesStand
  <1> QED
    BY <1>1, <1>2, <1>3, PTL DEF Spec

-----------------------------------------------------------------------------
(***************************************************************************)
(* Thinning.  The recursion exists, and a later day never has an earlier   *)
(* last kept day; so the days kept are apart, and mapping a day to the     *)
(* last kept one loses none of any other choice of days apart.             *)
(***************************************************************************)

Bounded(days) == days \in SUBSET Nat /\ \E n \in Nat : \A x \in days : x <= n
Apart(S) == \A a, b \in S : a < b => b - a > Gap

\* One pass over the days up to k, each looking at the one before.
Pass(days, f, k) ==
    [d \in -1..k |->
        IF d < 0 THEN -Gap - 1
        ELSE LET before == f[d - 1]
             IN  IF d \in days /\ d > before + Gap THEN d ELSE before]
LastKept(days) == CHOOSE f : f = Pass(days, f, Newest(days))

\* Such a pass exists however far it goes.
LEMMA PassExists ==
    ASSUME NEW days
    PROVE  \A k \in Nat : \E f : f = Pass(days, f, k)
  <1> DEFINE Bad == {k \in Nat : ~ \E f : f = Pass(days, f, k - 1)}
  <1>1. Bad = {}
    <2> SUFFICES ASSUME Bad # {} PROVE FALSE
      OBVIOUS
    <2>1. PICK k \in Bad : \A m \in Bad : k <= m
      <3>1. Bad \in SUBSET Nat
        OBVIOUS
      <3> HIDE DEF Bad
      <3> QED
        BY <3>1, FirstExists
    <2>2. k # 0
      <3> DEFINE e == [d \in -1..-1 |-> -Gap - 1]
      <3>1. e = Pass(days, e, 0 - 1)
        <4>1. \A d \in -1..-1 : d < 0
          OBVIOUS
        <4>2. 0 - 1 = -1
          OBVIOUS
        <4> QED
          BY <4>1, <4>2 DEF Pass
      <3> QED
        BY <2>1, <3>1
    <2>3. PICK f : f = Pass(days, f, (k - 1) - 1)
      <3>1. k \in Nat /\ k - 1 \in Nat /\ ~(k <= k - 1)
        BY <2>2
      <3> QED
        BY <2>1, <3>1
    <2> DEFINE g == Pass(days, f, k - 1)
    <2>4. \A d \in -1..((k - 1) - 1) : g[d] = f[d]
      <3> TAKE d \in -1..((k - 1) - 1)
      <3>1. f[d] = Pass(days, f, (k - 1) - 1)[d]
        BY <2>3
      <3>2. d \in -1..(k - 1)
        BY <2>2
      <3> QED
        BY <3>1, <3>2 DEF Pass
    <2>5. g = Pass(days, g, k - 1)
      <3>1. \A d \in -1..(k - 1) : ~(d < 0) => d - 1 \in -1..((k - 1) - 1)
        OBVIOUS
      <3>2. \A d \in -1..(k - 1) : ~(d < 0) => g[d - 1] = f[d - 1]
        BY <2>4, <3>1
      <3> QED
        BY <3>2 DEF Pass
    <2> QED
      BY <2>1, <2>5
  <1>2. \A k \in Nat : k + 1 \in Nat /\ (k + 1) - 1 = k
    OBVIOUS
  <1> QED
    BY <1>1, <1>2

\* What the last kept days are.
LEMMA LastKeptIs ==
    ASSUME NEW days, Bounded(days)
    PROVE  LET n == Newest(days)
               L == LastKept(days)
           IN  /\ n \in Nat /\ \A x \in days : x \in 0..n
               /\ Kept(days) = {d \in days : L[d] = d}
               /\ L[-1] = -Gap - 1
               /\ \A d \in 0..n : L[d] = IF d \in days /\ d > L[d - 1] + Gap THEN d ELSE L[d - 1]
  <1> DEFINE n == Newest(days)
             L == LastKept(days)
  <1>1. n \in Nat /\ \A x \in days : x <= n
    <2>1. CASE days = {}
      BY <2>1 DEF Newest
    <2>2. CASE days # {}
      <3>1. \E d \in days : \A x \in days : x <= d
        BY <2>2, LastExists DEF Bounded
      <3> QED
        BY <2>2, <3>1 DEF Newest, Bounded
    <2> QED
      BY <2>1, <2>2
  <1>2. \A x \in days : x \in 0..n
    BY <1>1 DEF Bounded
  <1>3. Kept(days) = {d \in days : L[d] = d}
    BY DEF Kept, LastKept, Pass
  <1>4. L = Pass(days, L, n)
    BY <1>1, PassExists DEF LastKept
  <1> HIDE DEF L, n
  <1>5. L[-1] = -Gap - 1 /\ \A d \in 0..n :
            L[d] = IF d \in days /\ d > L[d - 1] + Gap THEN d ELSE L[d - 1]
    <2>1. -1 \in -1..n /\ \A d \in 0..n : d \in -1..n /\ ~(d < 0)
      BY <1>1
    <2>2. L[-1] = Pass(days, L, n)[-1] /\ \A d \in 0..n : L[d] = Pass(days, L, n)[d]
      BY <1>4
    <2>3. Pass(days, L, n)[-1] = -Gap - 1
      BY <2>1 DEF Pass
    <2>4. \A d \in 0..n : Pass(days, L, n)[d]
                              = IF d \in days /\ d > L[d - 1] + Gap THEN d ELSE L[d - 1]
      BY <2>1 DEF Pass
    <2> QED
      BY <2>2, <2>3, <2>4
  <1> QED
    BY <1>1, <1>2, <1>3, <1>5 DEF L, n

\* The last kept day is behind, and it is a kept one if there is any.
LEMMA LastKeptBehind ==
    ASSUME NEW days, Bounded(days)
    PROVE  LET n == Newest(days)
               L == LastKept(days)
           IN  \A d \in -1..n : /\ L[d] \in Int /\ L[d] <= d
                                /\ L[d] = -Gap - 1 \/ L[d] \in Kept(days)
                                /\ d # -1 => L[d - 1] <= L[d]
  <1> DEFINE n == Newest(days)
             L == LastKept(days)
             Good(d) == L[d] \in Int /\ L[d] <= d /\ (L[d] = -Gap - 1 \/ L[d] \in Kept(days))
             Bad == {k \in 0..(n + 1) : ~ Good(k - 1)}
  <1>1. /\ n \in Nat /\ Gap \in Nat /\ \A x \in days : x \in 0..n
        /\ Kept(days) = {d \in days : L[d] = d} /\ L[-1] = -Gap - 1
        /\ \A d \in 0..n : L[d] = IF d \in days /\ d > L[d - 1] + Gap THEN d ELSE L[d - 1]
    BY LastKeptIs, ForwardAssumption
  <1> HIDE DEF n, L
  <1>2. Bad = {}
    <2> SUFFICES ASSUME Bad # {} PROVE FALSE
      OBVIOUS
    <2>1. PICK k \in Bad : \A m \in Bad : k <= m
      <3>1. Bad \in SUBSET Nat
        BY <1>1
      <3> HIDE DEF Bad
      <3> QED
        BY <3>1, FirstExists
    <2>2. k # 0
      BY <1>1, <2>1
    <2>3. k - 1 \in 0..n /\ k - 1 \in 0..(n + 1) /\ ~(k <= k - 1)
      BY <1>1, <2>2
    <2>4. Good((k - 1) - 1)
      BY <2>1, <2>3
    <2>5. Good(k - 1)
      <3> DEFINE d == k - 1
      <3>1. d \in 0..n /\ Good(d - 1)
        BY <2>3, <2>4
      <3>2. (L[d] = d /\ d \in days) \/ L[d] = L[d - 1]
        BY <1>1, <3>1
      <3> HIDE DEF d
      <3>3. Good(d)
        BY <1>1, <3>1, <3>2
      <3> QED
        BY <3>3 DEF d
    <2> QED
      BY <2>1, <2>5
  <1>3. \A d \in -1..n : Good(d)
    <2> TAKE d \in -1..n
    <2>1. d + 1 \in 0..(n + 1) /\ (d + 1) - 1 = d
      BY <1>1
    <2> QED
      BY <1>2, <2>1
  <1>4. ASSUME NEW d \in -1..n, d # -1
        PROVE  L[d - 1] <= L[d]
    <2>1. d \in 0..n /\ d - 1 \in -1..n
      BY <1>1, <1>4
    <2>2. L[d - 1] \in Int
      BY <1>3, <2>1
    <2> QED
      BY <1>1, <2>1, <2>2
  <1> QED
    BY <1>3, <1>4 DEF n, L

\* Later days have later last kept ones.
LEMMA LastKeptGrows ==
    ASSUME NEW days, Bounded(days), NEW a \in -1..Newest(days), NEW b \in -1..Newest(days), a <= b
    PROVE  LastKept(days)[a] <= LastKept(days)[b]
  <1> DEFINE n == Newest(days)
             L == LastKept(days)
             Bad == {k \in Nat : a + k <= n /\ ~(L[a] <= L[a + k])}
  <1>1. n \in Nat /\ \A d \in -1..n : L[d] \in Int /\ (d # -1 => L[d - 1] <= L[d])
    BY LastKeptIs, LastKeptBehind
  <1> HIDE DEF n, L
  <1>2. Bad = {}
    <2> SUFFICES ASSUME Bad # {} PROVE FALSE
      OBVIOUS
    <2>1. PICK k \in Bad : \A m \in Bad : k <= m
      <3>1. Bad \in SUBSET Nat
        OBVIOUS
      <3> HIDE DEF Bad
      <3> QED
        BY <3>1, FirstExists
    <2>2. a \in -1..n /\ L[a] \in Int
      BY <1>1 DEF n
    <2>3. k # 0
      BY <2>1, <2>2
    <2>4. k - 1 \in Nat /\ ~(k <= k - 1) /\ a + k \in -1..n /\ a + k # -1
          /\ a + (k - 1) = (a + k) - 1 /\ a + (k - 1) \in -1..n /\ a + (k - 1) <= n
      BY <1>1, <2>1, <2>2, <2>3
    <2>5. L[a] <= L[a + (k - 1)]
      BY <2>1, <2>4
    <2>6. L[a + (k - 1)] <= L[a + k] /\ L[a + (k - 1)] \in Int /\ L[a + k] \in Int
      BY <1>1, <2>4
    <2> QED
      BY <2>1, <2>2, <2>5, <2>6
  <1>3. b - a \in Nat /\ a + (b - a) = b /\ b <= n
    BY DEF n
  <1> QED
    BY <1>2, <1>3 DEF L, n

\* Thinning keeps days apart, and as many as can be.
LEMMA KeptIsBest ==
    ASSUME NEW days, Bounded(days)
    PROVE  /\ Kept(days) \subseteq days /\ IsFiniteSet(days) /\ Apart(Kept(days))
           /\ \A S \in SUBSET days : Apart(S) => Cardinality(S) <= Cardinality(Kept(days))
  <1> DEFINE n == Newest(days)
             L == LastKept(days)
  <1>1. /\ n \in Nat /\ Gap \in Nat /\ \A x \in days : x \in 0..n
        /\ Kept(days) = {d \in days : L[d] = d}
        /\ \A d \in 0..n : L[d] = IF d \in days /\ d > L[d - 1] + Gap THEN d ELSE L[d - 1]
    BY LastKeptIs, ForwardAssumption
  <1>2. \A d \in -1..n : L[d] \in Int /\ L[d] <= d /\ (L[d] = -Gap - 1 \/ L[d] \in Kept(days))
    BY LastKeptBehind
  <1>3. \A a, b \in -1..n : a <= b => L[a] <= L[b]
    BY LastKeptGrows
  <1>4. IsFiniteSet(days)
    <2>1. IsFiniteSet(0..n)
      BY <1>1, FS_Interval
    <2> QED
      BY <1>1, <2>1, FS_Subset
  <1>5. Kept(days) \subseteq days /\ IsFiniteSet(Kept(days))
    BY <1>1, <1>4, FS_Subset
  <1> HIDE DEF n, L
  <1>6. Apart(Kept(days))
    <2> SUFFICES ASSUME NEW a \in Kept(days), NEW b \in Kept(days), a < b
                 PROVE  b - a > Gap
      BY DEF Apart
    <2>1. a \in 0..n /\ b \in 0..n /\ L[a] = a /\ L[b] = b
      BY <1>1
    <2>2. b - 1 \in -1..n /\ a \in -1..n /\ a <= b - 1
      BY <1>1, <2>1
    <2>3. L[b - 1] \in Int /\ L[b - 1] <= b - 1 /\ a <= L[b - 1]
      BY <1>2, <1>3, <2>1, <2>2
    <2>4. b > L[b - 1] + Gap
      BY <1>1, <2>1, <2>3
    <2> QED
      BY <1>1, <2>1, <2>3, <2>4
  <1>7. ASSUME NEW S \in SUBSET days, Apart(S)
        PROVE  Cardinality(S) <= Cardinality(Kept(days))
    <2> DEFINE f == [s \in S |-> L[s]]
    <2>1. \A s \in S : s \in 0..n /\ L[s] \in Int /\ L[s] <= s /\ s <= L[s] + Gap
                       /\ L[s] \in Kept(days)
      <3> TAKE s \in S
      <3>1. s \in 0..n /\ s - 1 \in -1..n /\ s \in -1..n /\ s \in days
        BY <1>1
      <3>2. L[s] \in Int /\ L[s] <= s /\ L[s - 1] \in Int
            /\ (L[s] = -Gap - 1 \/ L[s] \in Kept(days))
        BY <1>2, <3>1
      <3>3. s <= L[s] + Gap
        BY <1>1, <3>1, <3>2
      <3> QED
        BY <1>1, <3>1, <3>2, <3>3
    <2>2. ASSUME NEW s \in S, NEW r \in S, s < r
          PROVE  L[s] # L[r]
      <3>1. r - s > Gap
        BY <1>7, <2>2 DEF Apart
      <3> QED
        BY <1>1, <2>1, <3>1
    <2>3. f \in Injection(S, Kept(days))
      <3>1. f \in [S -> Kept(days)]
        BY <2>1
      <3>2. \A s, r \in S : f[s] = f[r] => s = r
        <4> TAKE s, r \in S
        <4>1. s \in Int /\ r \in Int
          BY <1>1, <2>1
        <4>2. s < r \/ r < s \/ s = r
          BY <4>1
        <4> QED
          BY <2>2, <4>2
      <3> HIDE DEF f
      <3> QED
        BY <3>1, <3>2 DEF Injection, IsInjective
    <2> HIDE DEF f
    <2> QED
      BY <1>5, <2>3, FS_Injection
  <1> QED
    BY <1>4, <1>5, <1>6, <1>7

\* More days are never thinned to fewer.
LEMMA KeptGrows ==
    ASSUME NEW few, NEW days, few \subseteq days, Bounded(days)
    PROVE  /\ Cardinality(Kept(few)) \in Nat /\ Cardinality(Kept(days)) \in Nat
           /\ Cardinality(Kept(few)) <= Cardinality(Kept(days))
  <1>1. Bounded(few)
    BY DEF Bounded
  <1>2. Kept(few) \in SUBSET days /\ Apart(Kept(few)) /\ IsFiniteSet(Kept(few))
    BY <1>1, KeptIsBest, FS_Subset
  <1>3. IsFiniteSet(Kept(days))
    BY KeptIsBest, FS_Subset
  <1> QED
    BY <1>2, <1>3, KeptIsBest, FS_CardinalityType

\* An observation is a row of the series.
LEMMA ObservationsAreRows ==
    ASSUME NEW times \in SUBSET Nat, NEW prices, Series(prices)
    PROVE  Observations(times, prices) \subseteq prices
  <1>1. ASSUME NEW t \in times, HasWindow(prices, t)
        PROVE  Anchor(prices, t) \in prices
    <2>1. HasAnchor(prices, t) /\ t \in Nat
      BY <1>1, WindowHasAnchor
    <2> QED
      BY <2>1, AnchorIsFirst DEF RowsFrom
  <1> QED
    BY <1>1 DEF Observations

\* A part of the price series ends.
LEMMA SeriesIsBounded ==
    ASSUME NEW prices, Series(prices), NEW s, s \subseteq prices
    PROVE  Bounded(s)
  BY ForwardAssumption DEF Series, Bounded

\* Both hold of any state with a price series.
LEMMA ThriftyHere ==
    ASSUME TypeInv
    PROVE  ThinningIsThrifty
  <1>1. Series(proxy)
    BY SeriesHere DEF TypeInv
  <1>2. TrainsOnTheMost
    <2> DEFINE anchors == PastAnchors(proxy, job.asOf)
    <2>1. PastTimes \cup Range(DecisionAt) \in SUBSET Nat
      BY ForwardAssumption DEF Range
    <2>2. Bounded(anchors)
      BY <1>1, <2>1, ObservationsAreRows, SeriesIsBounded DEF PastAnchors
    <2> HIDE DEF anchors
    <2>3. /\ \A a, b \in Kept(anchors) : a < b => b - a > Gap
          /\ \A S \in SUBSET anchors : (\A a, b \in S : a < b => b - a > Gap)
                => Cardinality(S) <= Cardinality(Kept(anchors))
      BY <2>2, KeptIsBest DEF Apart
    <2> QED
      BY <2>3 DEF TrainsOnTheMost, anchors
  <1>3. AddingNeverTakesAway
    <2> SUFFICES ASSUME NEW times \in [{"base", "added"} -> SUBSET PastTimes],
                        NEW quality \in [{"base", "added"} ->
                                {"true_first_release", "latest_snapshot_not_pit"}]
                 PROVE  AdditiveDelta({"base"}, "added", times, quality, proxy) >= 0
      BY DEF AddingNeverTakesAway
    <2> DEFINE Seen(fs) == UNION {Observations(times[f], proxy) : f \in Admissible(fs, quality)}
    <2>1. Seen({"base"}) \subseteq Seen({"base"} \union {"added"})
      BY DEF Admissible
    <2>2. Bounded(Seen({"base"} \union {"added"}))
      <3>1. \A f \in {"base", "added"} : Observations(times[f], proxy) \subseteq proxy
        <4> TAKE f \in {"base", "added"}
        <4>1. times[f] \in SUBSET Nat
          BY ForwardAssumption
        <4> QED
          BY <1>1, <4>1, ObservationsAreRows
      <3>2. Seen({"base"} \union {"added"}) \subseteq proxy
        BY <3>1 DEF Admissible
      <3> QED
        BY <1>1, <3>2, SeriesIsBounded
    <2>3. AdditiveDelta({"base"}, "added", times, quality, proxy)
            = Cardinality(Kept(Seen({"base"} \union {"added"})))
                - Cardinality(Kept(Seen({"base"})))
      BY DEF AdditiveDelta, FamilyN
    <2> HIDE DEF Seen
    <2> QED
      BY <2>1, <2>2, <2>3, KeptGrows
  <1> QED
    BY <1>2, <1>3 DEF ThinningIsThrifty

\* What a job trains on (kept_decision_ts) is as many anchors more than Gap
\* days apart as there can be, and a family never takes observations away
\* from those before it, so reject_non_additive never rejects.
THEOREM ThinningWastesNothing == Spec => []ThinningIsThrifty
  <1>1. Spec => []TypeInv
    BY TypeInit, TypeNext, PTL DEF Spec
  <1> QED
    BY <1>1, ThriftyHere, PTL

=============================================================================
