---------------------------- MODULE IngestProofs ----------------------------
(***************************************************************************)
(* What holds of an ingestion run for every plan, every publisher and      *)
(* every way requests fail: types, that a feature view can be built again, *)
(* and that the store says what the publisher last said.                   *)
(***************************************************************************)
EXTENDS Ingest, TLAPS, FiniteSetTheorems, WellFoundedInduction

-----------------------------------------------------------------------------
(***************************************************************************)
(* The requests of an ingester.                                            *)
(***************************************************************************)
DataRequest(q) == q.what \in {"item", "fallback"}
RequestType == [what : {"item", "fallback", "meta", "index", "issue"}, item : 0..2]

\* Every request is for an item of the ingester's or leads to one that is;
\* items are asked for in ascending order.
LEMMA RequestFacts ==
    ASSUME NEW kind \in Kinds
    PROVE  /\ Requests(kind) \in Seq(RequestType)
           /\ Len(Requests(kind)) <= 5
           /\ Requests(kind) = <<>> <=> kind \in Calendars \cup {"cboe"}
           /\ \A j \in 1..Len(Requests(kind)) :
                 LET q == Requests(kind)[j] IN
                 /\ DataRequest(q) \/ q.what = "meta" => q.item \in Items
                 /\ ~ DataRequest(q) => j + 1 <= Len(Requests(kind))
                 /\ q.what = "meta" => kind = "fred" /\ Requests(kind)[j + 1] = Get("item", q.item)
                 /\ kind = "fred" => q.what \in {"item", "meta"}
                 /\ q.what = "index" => kind \in {"wpsr", "steo"} /\ j = 1
           /\ \A i, j \in 1..Len(Requests(kind)) :
                 /\ i < j /\ kind \notin {"wti", "cl_front"}
                      /\ DataRequest(Requests(kind)[i]) /\ DataRequest(Requests(kind)[j])
                       => Requests(kind)[i].item < Requests(kind)[j].item
           /\ kind = "fred" => /\ Requests(kind)[1].what = "meta"
                               /\ \A j \in 1..Len(Requests(kind)) - 1 :
                                     Requests(kind)[j].what = "item"
                                       => Requests(kind)[j + 1].what = "meta"
  <1> USE DEF DataRequest, Get, Items, Calendars, RequestType
  <1>1. CASE kind = "eia"
    BY <1>1 DEF Requests, EIARequests
  <1>2. CASE kind = "fred"
    BY <1>2 DEF Requests, FREDRequests
  <1>3. CASE kind = "cftc"
    BY <1>3 DEF Requests, CFTCRequests
  <1>4. CASE kind = "wpsr"
    BY <1>4 DEF Requests, WPSRRequests
  <1>5. CASE kind = "steo"
    BY <1>5 DEF Requests, STEORequests
  <1>6. CASE kind \in {"wti", "cl_front"}
    <2>1. kind \notin Calendars \cup {"cboe"} /\ kind # "fred" /\ kind \in {"wti", "cl_front"}
      BY <1>6
    <2>2. Requests(kind) = <<Get("item", 1), Get("fallback", 1)>>
      BY <1>6, Zenon DEF Requests, WTIRequests
    <2> HIDE DEF Calendars
    <2> QED
      BY <2>1, <2>2
  <1>7. CASE kind = "stooq"
    BY <1>7 DEF Requests, StooqRequests
  <1>8. CASE kind = "baker"
    BY <1>8 DEF Requests, BakerRequests
  <1>9. CASE kind = "cme"
    BY <1>9 DEF Requests, CMERequests
  <1>10. CASE kind = "cboe"
    BY <1>10 DEF Requests, CboeRequests
  <1>11. CASE kind \in Calendars
    BY <1>11 DEF Requests
  <1> QED
    BY <1>1, <1>2, <1>3, <1>4, <1>5, <1>6, <1>7, <1>8, <1>9, <1>10, <1>11 DEF Kinds

\* A run under way writes its results in order of their items, and what it has
\* fetched is behind what it will still ask for.
RunInv ==
    /\ feed = 0 => results = <<>>
    /\ \A n \in DOMAIN results : results[n].key \in Keys /\ results[n].key.kind = Kind
    /\ \A m, n \in DOMAIN results : m < n => results[m].key.item < results[n].key.item
    /\ feed > 0 /\ ~writing =>
          \A n \in DOMAIN results, j \in DOMAIN Requests(Kind) :
             j >= req /\ DataRequest(Requests(Kind)[j])
                => results[n].key.item < Requests(Kind)[j].item

\* The publisher's log: payloads are numbered in the order of publication.
LogOf(k) == {e \in log : e.key = k}
PublisherInv ==
    /\ IsFiniteSet(log)
    /\ \A e \in log : e.at <= now /\ e.payload \in 1..Cardinality(LogOf(e.key))
    /\ \A k \in Keys : /\ pub[k].release \in 1..now
                       /\ pub[k].payload \in 1..Cardinality(LogOf(k))
                       /\ k.kind \in Calendars => pub[k].payload = 1
    /\ meta.release <= now

\* Keys the run under way may still write.
Pending(k) ==
    /\ feed > 0
    /\ \E i \in feed..Len(plan) :
          /\ plan[i] = k.kind
          /\ i = feed /\ writing => \E n \in DOMAIN results : results[n].key = k

\* Nothing is stored from the future but calendar dates.
DatedInv ==
    /\ \A n \in DOMAIN results : Kind \notin Calendars => results[n].release <= now
    /\ \A r \in store : r.revision <= now /\ (r.key.kind \notin Calendars => r.release <= now)

\* A key that is still to be written has no row of this moment.
ClockInv ==
    \A r \in store : r.key.kind \notin Calendars /\ Pending(r.key)
                        => r.release < now /\ r.revision < now

\* A release is stored before its revisions.
SlotInv ==
    \A r \in store : \E q \in store : q.key = r.key /\ q.release = r.release /\ q.revision = 0

\* Feature views were built between runs, over the plan's features.
ViewInv ==
    /\ \A v \in views : /\ DOMAIN v.features = {s \in Specs : s.kind \in Range(plan)}
                        /\ \A s \in DOMAIN v.features : v.features[s] \subseteq RowType
                        /\ feed > 0 => v.at < now
    /\ ViewReplays

\* Where a payload was published before it is known by.
Said(k, payload, by) == \E e \in log : e.key = k /\ e.payload = payload /\ e.at <= by
SelfDating == Kinds \ (Corrects \cup {"fred"})
OriginInv ==
    /\ \A k \in Keys : Said(k, 1, 1)
    /\ \A n \in DOMAIN results : Kind \in Calendars => results[n].payload = 1
    /\ \A k \in Keys : k.kind \in SelfDating => Said(k, pub[k].payload, pub[k].release)
    /\ \A n \in DOMAIN results : Kind \in SelfDating =>
          Said(results[n].key, results[n].payload, results[n].release)
    /\ \A r \in store : r.key.kind \in SelfDating => Said(r.key, r.payload, KnownBy(r))

\* The rows of a key that as_of prefers to all others of it.
RowsOf(k) == {r \in store : r.key = k}
Top(r) == \A s \in RowsOf(r.key) :
             s.release < r.release \/ (s.release = r.release /\ KnownBy(s) <= KnownBy(r))
\* The release at which FRED's next observations will be stored.
Announced(k) == /\ feed > 0 /\ ~writing /\ k.kind = "fred" /\ Kind = "fred"
                /\ Request = Get("item", k.item)
Behind(k, payload, release) == \A r \in RowsOf(k) : r.payload < payload => r.release <= release

\* What was written last is the newest content, and the rows it has to be
\* preferred to are not released after it.
ServeInv ==
    /\ \A k \in Keys : last[k] <= pub[k].payload
    /\ \A r \in store : 1 <= r.payload /\ r.payload <= last[r.key]
    /\ \A r \in store : r.key.kind \in Calendars => r.payload = 1
    /\ \A r \in store : r.key.kind \notin Calendars /\ Top(r) => r.payload = last[r.key]
    /\ \A k \in Keys : k.kind \notin Calendars =>
          /\ Behind(k, pub[k].payload, pub[k].release)
          /\ k.kind \notin Undated => \A r \in RowsOf(k) : r.release <= pub[k].release
          /\ Announced(k) => /\ \A r \in RowsOf(k) : r.release <= meta.release
                             /\ meta.release <= pub[k].release
    /\ \A n \in DOMAIN results :
          LET f == results[n] IN
          /\ last[f.key] <= f.payload /\ 1 <= f.payload /\ f.payload <= pub[f.key].payload
          /\ Kind \notin Calendars =>
                /\ Behind(f.key, f.payload, f.release)
                /\ f.payload < pub[f.key].payload \/ Kind \notin Undated
                      => f.release <= pub[f.key].release

\* The plan registers each ingester once: the scheduler's report is kept by
\* the ingester's name.
OnceEach == \A p \in Plans : \A i, j \in DOMAIN p : p[i] = p[j] => i = j

-----------------------------------------------------------------------------
(***************************************************************************)
(* Steps, by what they do to the run.                                      *)
(***************************************************************************)
world == <<now, pub, log, plan, store, views, last>>

LEMMA Plans0 ==
    ASSUME plan \in Plans
    PROVE  /\ plan \in Seq(Kinds) /\ Len(plan) \in Nat \ {0}
           /\ \A i \in 1..Len(plan) : plan[i] \in Kinds /\ plan[i] \in Range(plan)
  BY IngestAssumption DEF Range

LEMMA KindOf ==
    ASSUME TypeOK, feed > 0
    PROVE  Kind \in Kinds /\ Kind \in Range(plan) /\ feed \in 1..Len(plan)
  BY Plans0 DEF TypeOK, Kind

LEMMA TypeFacts ==
    ASSUME TypeOK
    PROVE  /\ now \in Nat
           /\ \A r \in store : /\ r.release \in Nat /\ r.revision \in Nat /\ r.payload \in Nat
                               /\ r.key \in Keys
           /\ \A n \in DOMAIN results : /\ results[n] \in FetchType /\ results[n].key \in Keys
                                        /\ results[n].release \in Nat /\ results[n].payload \in Nat
           /\ \A k \in Keys : /\ last[k] \in Nat /\ pub[k].payload \in Nat
                              /\ pub[k].release \in Nat
           /\ meta.release \in Nat
  <1>1. now \in Nat /\ meta.release \in Nat
    BY DEF TypeOK
  <1>2. \A r \in store : /\ r.release \in Nat /\ r.revision \in Nat /\ r.payload \in Nat
                         /\ r.key \in Keys
    BY DEF TypeOK, RowType
  <1>3. ASSUME NEW n \in DOMAIN results
        PROVE  /\ results[n] \in FetchType /\ results[n].key \in Keys
               /\ results[n].release \in Nat /\ results[n].payload \in Nat
    <2>1. results[n] \in FetchType
      BY <1>3 DEF TypeOK
    <2> QED
      BY <2>1 DEF FetchType
  <1>4. \A k \in Keys : /\ last[k] \in Nat /\ pub[k].payload \in Nat
                        /\ pub[k].release \in Nat
    BY DEF TypeOK
  <1> QED
    BY <1>1, <1>2, <1>3, <1>4

LEMMA KeysAre ==
    /\ plan \in Plans => Keys \subseteq Key
    /\ \A k \in Keys : k = [kind |-> k.kind, item |-> k.item]
    /\ \A kind \in Range(plan), i \in Items :
          i \in ItemsOf(kind) => [kind |-> kind, item |-> i] \in Keys
  BY Plans0 DEF Keys, Key, Range

\* A request that is answered with data or announces it is for a key.
LEMMA RequestKey ==
    ASSUME TypeOK, feed > 0, ~writing, req <= Len(Requests(Kind)),
           DataRequest(Request) \/ Request.what = "meta"
    PROVE  /\ Request.item \in Items /\ [kind |-> Kind, item |-> Request.item] \in Keys
           /\ req \in 1..Len(Requests(Kind))
  <1>1. Kind \in Kinds /\ Kind \in Range(plan)
    BY KindOf
  <1>2. req \in 1..Len(Requests(Kind)) /\ Requests(Kind) \in Seq(RequestType)
    BY <1>1, RequestFacts DEF TypeOK
  <1>3. Request.item \in Items
    BY <1>1, <1>2, RequestFacts DEF Request
  <1>4. Request.item \in ItemsOf(Kind)
    <2>1. Requests(Kind) # <<>>
      BY <1>2
    <2>2. Request.item \in {r.item : r \in Range(Requests(Kind))} /\ Request.item # 0
      BY <1>2, <1>3 DEF Request, Range, Items
    <2> QED
      BY <2>1, <2>2 DEF ItemsOf
  <1> QED
    BY <1>1, <1>2, <1>3, <1>4, KeysAre

LEMMA FetchedType ==
    ASSUME TypeOK, feed > 0, ~writing, req <= Len(Requests(Kind)), DataRequest(Request),
           NEW dated \in BOOLEAN
    PROVE  LET k == [kind |-> Kind, item |-> Request.item]
               f == Fetched(dated)
           IN  /\ k \in Keys /\ f \in FetchType /\ f.key = k /\ f.payload = pub[k].payload
               /\ f.release = ReleaseOf(dated)
               /\ f.release = IF ~dated THEN now
                              ELSE IF Kind = "fred" THEN meta.release ELSE pub[k].release
  <1>1. PICK k : k = [kind |-> Kind, item |-> Request.item]
    OBVIOUS
  <1>2. k \in Keys /\ k \in Key
    BY <1>1, RequestKey, KeysAre DEF TypeOK
  <1>3. ReleaseOf(dated) = IF ~dated THEN now
                           ELSE IF Kind = "fred" THEN meta.release ELSE pub[k].release
    BY <1>1 DEF ReleaseOf
  <1>4. pub[k].release \in Nat /\ pub[k].payload \in Nat /\ meta.release \in Nat /\ now \in Nat
    BY <1>2 DEF TypeOK
  <1>5. ReleaseOf(dated) \in Nat
    BY <1>3, <1>4
  <1>6. PICK st \in Nat : st = IF Kind \in Stamped THEN now ELSE 0
    BY <1>4
  <1>7. Fetched(dated) = [key |-> k, release |-> ReleaseOf(dated), payload |-> pub[k].payload,
                          stamp |-> st]
    BY <1>1, <1>6 DEF Fetched
  <1> QED
    BY <1>1, <1>2, <1>3, <1>4, <1>5, <1>6, <1>7 DEF FetchType

\* What the encoded calendars announce.
LEMMA CalendarFacts ==
    ASSUME TypeOK, feed > 0, Kind \in Calendars
    PROVE  /\ CalendarResults \in Seq(FetchType)
           /\ \A n \in DOMAIN CalendarResults :
                 /\ CalendarResults[n].key = [kind |-> Kind, item |-> n] /\ n \in Items
                 /\ CalendarResults[n].key \in Keys
                 /\ CalendarResults[n].payload = 1 /\ CalendarResults[n].release >= 1
  <1>1. PICK c : c = CalendarEvents(Kind, now)
    OBVIOUS
  <1>2. c \in {<<1, 2>>, <<1>>}
    <2>1. UpToToday(now) \in {<<1, 2>>, <<1>>}
      BY DEF UpToToday
    <2>2. CASE Kind = "fomc"
      BY <1>1, <2>2, Zenon DEF CalendarEvents, FOMCEvents
    <2>3. CASE Kind = "opec"
      BY <1>1, <2>3 DEF CalendarEvents, OPECEvents
    <2>4. CASE Kind = "steo_calendar"
      BY <1>1, <2>1, <2>4 DEF CalendarEvents, STEOEvents
    <2>5. CASE Kind = "psm"
      BY <1>1, <2>1, <2>5 DEF CalendarEvents, PSMEvents
    <2>6. CASE Kind = "gpr"
      BY <1>1, <2>1, <2>6 DEF CalendarEvents, GPREvents
    <2> QED
      BY <2>2, <2>3, <2>4, <2>5, <2>6 DEF Calendars
  <1>3. \A n \in DOMAIN c : n \in Items /\ c[n] = n
    BY <1>2 DEF Items
  <1>4. CalendarResults = [n \in DOMAIN c |-> [key |-> [kind |-> Kind, item |-> n],
                              release |-> Scheduled[n], payload |-> 1, stamp |-> 0]]
    BY <1>1, <1>3 DEF CalendarResults
  <1>5. \A n \in Items : Scheduled[n] \in Nat /\ Scheduled[n] >= 1
    BY IngestAssumption DEF Scheduled, Items
  <1>6. \A n \in Items : /\ [kind |-> Kind, item |-> n] \in Keys
                         /\ [kind |-> Kind, item |-> n] \in Key
    <2>1. Kind \in Kinds /\ Kind \in Range(plan) /\ Requests(Kind) = <<>>
      BY KindOf, RequestFacts
    <2>2. ItemsOf(Kind) = Items
      BY <2>1 DEF ItemsOf
    <2> QED
      BY <2>1, <2>2, KeysAre DEF TypeOK
  <1>7. \A n \in DOMAIN c : [key |-> [kind |-> Kind, item |-> n],
                              release |-> Scheduled[n], payload |-> 1, stamp |-> 0] \in FetchType
    BY <1>3, <1>5, <1>6 DEF FetchType
  <1>8. DOMAIN c = 1..Len(c) /\ Len(c) \in Nat
    BY <1>2
  <1>9. CalendarResults \in Seq(FetchType)
    BY <1>4, <1>7, <1>8
  <1> QED
    BY <1>3, <1>4, <1>5, <1>6, <1>9

\* What a step of a fetch does to the run: it reads a page that leads to an
\* item, goes on with a later request, is done, or makes way for the next.
Gets(rs) ==
    /\ ~writing /\ req <= Len(Requests(Kind)) /\ DataRequest(Request)
    /\ \E dated \in BOOLEAN : (dated \/ Kind \in Undated) /\ rs = Append(results, Fetched(dated))
Reads ==
    /\ ~writing /\ req < Len(Requests(Kind)) /\ ~ DataRequest(Request)
    /\ meta' = IF Request.what = "meta" THEN pub[[kind |-> Kind, item |-> Request.item]]
                                        ELSE meta
    /\ req' = req + 1
    /\ UNCHANGED <<feed, results, writing>>
Goes ==
    /\ ~writing /\ req <= Len(Requests(Kind))
    /\ req' \in (req + 1)..Len(Requests(Kind))
    /\ \/ results' = results /\ Kind # "fred"
       \/ Gets(results') /\ Kind \notin {"wti", "cl_front"} /\ req' = req + 1
    /\ UNCHANGED <<feed, meta, writing>>
Done ==
    /\ ~writing /\ writing' = TRUE
    /\ \/ results' = results
       \/ Gets(results')
       \/ Kind \in Calendars /\ results' = CalendarResults
       \/ results' = <<>>
    /\ UNCHANGED <<feed, req, meta>>
Ends == \E i \in {0} \cup ((feed + 1)..Len(plan)) : StartFetch(i)
Stays == UNCHANGED <<feed, req, meta, results, writing>>

Counters ==
    /\ attempt' \in 0..MaxRetries /\ report' \in [Range(plan) -> {"none", "ok", "error"}]
    /\ faults' \in 0..MaxFaults /\ crashes' \in 0..MaxCrash

LEMMA NextItemIs ==
    ASSUME TypeOK, feed > 0, ~writing, req <= Len(Requests(Kind))
    PROVE  NextItem \in (req + 1)..(Len(Requests(Kind)) + 1)
  <1>1. req \in Nat \ {0} /\ Requests(Kind) \in Seq(RequestType) /\ Len(Requests(Kind)) <= 5
    BY KindOf, RequestFacts DEF TypeOK
  <1> DEFINE later == {r \in DOMAIN Requests(Kind) : r > req /\ Requests(Kind)[r].item # Request.item}
  <1>2. \A S : S # {} /\ S \subseteq 1..5 => \E x \in S : \A y \in S : x <= y
    <2> SUFFICES ASSUME NEW S, S # {}, S \subseteq 1..5 PROVE \E x \in S : \A y \in S : x <= y
      OBVIOUS
    <2>1. CASE 1 \in S
      BY <2>1
    <2>2. CASE 1 \notin S /\ 2 \in S
      BY <2>2
    <2>3. CASE 1 \notin S /\ 2 \notin S /\ 3 \in S
      BY <2>3
    <2>4. CASE 1 \notin S /\ 2 \notin S /\ 3 \notin S /\ 4 \in S
      BY <2>4
    <2>5. CASE 1 \notin S /\ 2 \notin S /\ 3 \notin S /\ 4 \notin S
      <3>1. \A y \in S : y = 5
        BY <2>5
      <3>2. PICK x \in S : x = 5
        BY <3>1
      <3> QED
        BY <3>1, <3>2
    <2> QED
      BY <2>1, <2>2, <2>3, <2>4, <2>5
  <1>3. later \subseteq (req + 1)..Len(Requests(Kind)) /\ later \subseteq 1..5
    BY <1>1
  <1>4. later # {} => Min(later) \in later
    BY <1>2, <1>3 DEF Min
  <1>5. NextItem = IF Request.what = "index" \/ later = {} THEN Len(Requests(Kind)) + 1
                                                           ELSE Min(later)
    BY DEF NextItem
  <1> HIDE DEF later
  <1> QED
    BY <1>1, <1>3, <1>4, <1>5

LEMMA GoesOn ==
    ASSUME TypeOK, feed > 0, ReportAndGoOn("ok") \/ ReportAndGoOn("error")
    PROVE  Ends /\ attempt' = 0 /\ report' \in [Range(plan) -> {"none", "ok", "error"}]
  <1>1. feed \in 1..Len(plan) /\ Len(plan) \in Nat /\ Kind \in Range(plan)
    BY KindOf, Plans0 DEF TypeOK
  <1>2. (IF feed < Len(plan) THEN feed + 1 ELSE 0) \in {0} \cup ((feed + 1)..Len(plan))
    BY <1>1
  <1>3. StartFetch(IF feed < Len(plan) THEN feed + 1 ELSE 0) /\ attempt' = 0
    BY DEF ReportAndGoOn, StartFetch
  <1>4. report' \in [Range(plan) -> {"none", "ok", "error"}]
    BY DEF ReportAndGoOn, TypeOK
  <1> QED
    BY <1>2, <1>3, <1>4 DEF Ends

LEMMA FetchShape ==
    ASSUME TypeOK, Answered \/ Failed \/ Encoded \/ NotPrimary \/ Written \/ Retry \/ Crash
    PROVE  /\ feed > 0 /\ UNCHANGED world /\ Counters
           /\ Reads \/ Goes \/ Done \/ Ends \/ Stays
  <1>0. /\ feed > 0 => Kind \in Kinds /\ Requests(Kind) \in Seq(RequestType)
        /\ attempt \in 0..MaxRetries /\ report \in [Range(plan) -> {"none", "ok", "error"}]
        /\ faults \in 0..MaxFaults /\ crashes \in 0..MaxCrash /\ req \in Nat \ {0}
    BY KindOf, RequestFacts DEF TypeOK
  <1>z. 0 \in 0..MaxRetries
    BY IngestAssumption
  <1>a. ASSUME NEW r \in (req + 1)..(Len(Requests(Kind)) + 1), NEW rs, GoTo(r, rs),
               feed > 0, ~writing, req <= Len(Requests(Kind)),
               \/ rs = results /\ Kind # "fred"
               \/ Gets(rs) /\ Kind \notin {"wti", "cl_front"} /\ r = req + 1
        PROVE  /\ attempt' \in 0..MaxRetries /\ report' = report
               /\ Goes \/ Done
    <2>1. CASE r > Len(Requests(Kind))
      BY <1>0, <1>a, <2>1 DEF GoTo, FetchDone, Done
    <2>2. CASE ~ (r > Len(Requests(Kind)))
      <3>1. r \in (req + 1)..Len(Requests(Kind))
        BY <1>0, <1>a, <2>2
      <3> QED
        BY <1>0, <1>a, <1>z, <2>2, <3>1 DEF GoTo, Goes
    <2> QED
      BY <2>1, <2>2
  <1>1. CASE Answered
    <2>1. /\ feed > 0 /\ ~writing /\ req <= Len(Requests(Kind)) /\ UNCHANGED <<faults, crashes>>
          /\ UNCHANGED world
      BY <1>1 DEF Answered, world
    <2>2. PICK dated \in BOOLEAN :
          /\ dated \/ Kind \in Undated
          /\ IF Request.what \in {"item", "fallback"}
             THEN LET rs == Append(results, Fetched(dated)) IN
                  IF Kind \in {"wti", "cl_front"} THEN FetchDone(rs) ELSE GoTo(req + 1, rs)
             ELSE /\ meta' = IF Request.what = "meta"
                             THEN pub[[kind |-> Kind, item |-> Request.item]] ELSE meta
                  /\ req' = req + 1 /\ attempt' = 0
                  /\ UNCHANGED <<feed, results, writing, report>>
      BY <1>1 DEF Answered
    <2>3. CASE DataRequest(Request)
      <3>1. PICK rs : rs = Append(results, Fetched(dated))
        OBVIOUS
      <3>2. Gets(rs)
        BY <2>1, <2>2, <2>3, <3>1 DEF Gets
      <3>3. CASE Kind \in {"wti", "cl_front"}
        <4>1. FetchDone(rs)
          BY <2>2, <2>3, <3>1, <3>3 DEF DataRequest
        <4> QED
          BY <1>0, <2>1, <3>2, <4>1 DEF FetchDone, Done, Counters
      <3>4. CASE Kind \notin {"wti", "cl_front"}
        <4>1. GoTo(req + 1, rs)
          BY <2>2, <2>3, <3>1, <3>4 DEF DataRequest
        <4>2. req + 1 \in (req + 1)..(Len(Requests(Kind)) + 1)
          BY <1>0, <2>1
        <4> QED
          BY <1>0, <1>a, <2>1, <3>2, <3>4, <4>1, <4>2 DEF Counters
      <3> QED
        BY <3>3, <3>4
    <2>4. CASE ~ DataRequest(Request)
      <3>1. req < Len(Requests(Kind))
        <4>1. req \in 1..Len(Requests(Kind))
          BY <1>0, <2>1
        <4>2. req + 1 <= Len(Requests(Kind))
          BY <1>0, <2>1, <2>4, <4>1, RequestFacts DEF Request
        <4> QED
          BY <1>0, <2>1, <4>2
      <3> QED
        BY <1>0, <1>z, <2>1, <2>2, <2>4, <3>1 DEF Reads, Counters, DataRequest
    <2> QED
      BY <2>3, <2>4
  <1>2. CASE Failed
    <2>1. /\ feed > 0 /\ ~writing /\ req <= Len(Requests(Kind)) /\ UNCHANGED world
          /\ faults' \in 0..MaxFaults /\ crashes' = crashes
      <3>1. /\ feed > 0 /\ ~writing /\ req <= Len(Requests(Kind)) /\ UNCHANGED world
            /\ faults < MaxFaults /\ faults' = faults + 1 /\ crashes' = crashes
        BY <1>2, Zenon DEF Failed, world
      <3> QED
        BY <1>0, <3>1, IngestAssumption
    <2>2. PICK a \in Failures :
             LET reaction == Reaction(Kind, Request.what, a) IN
             CASE reaction = "skip" -> GoTo(NextItem, results)
               [] reaction = "next" /\ req < Len(Requests(Kind)) -> GoTo(req + 1, results)
               [] OTHER -> ReportAndGoOn("error")
      BY <1>2 DEF Failed
    <2>3. PICK reaction : reaction = Reaction(Kind, Request.what, a)
      OBVIOUS
    <2>4. Kind = "fred" => reaction = "raise"
      BY <2>3 DEF Reaction, FREDReaction
    <2>5. CASE reaction = "skip"
      <3>1. GoTo(NextItem, results) /\ Kind # "fred"
        BY <2>2, <2>3, <2>4, <2>5
      <3> QED
        BY <1>0, <1>a, <2>1, <3>1, NextItemIs DEF Counters
    <2>6. CASE reaction = "next" /\ req < Len(Requests(Kind))
      <3>1. GoTo(req + 1, results) /\ Kind # "fred"
        BY <2>2, <2>3, <2>4, <2>6
      <3>2. req + 1 \in (req + 1)..(Len(Requests(Kind)) + 1)
        BY <1>0, <2>1
      <3> QED
        BY <1>0, <1>a, <2>1, <3>1, <3>2 DEF Counters
    <2>7. CASE ~ (reaction = "skip") /\ ~ (reaction = "next" /\ req < Len(Requests(Kind)))
      <3>1. ReportAndGoOn("error")
        BY <2>2, <2>3, <2>7
      <3> QED
        BY <1>0, <1>z, <2>1, <3>1, GoesOn DEF Counters
    <2> QED
      BY <2>5, <2>6, <2>7
  <1>3. CASE Encoded
    BY <1>0, <1>3 DEF Encoded, FetchDone, Done, world, Counters
  <1>4. CASE NotPrimary
    BY <1>0, <1>4 DEF NotPrimary, FetchDone, Done, world, Counters
  <1>5. CASE Written
    <2>1. feed > 0 /\ ReportAndGoOn("ok") /\ UNCHANGED <<faults, crashes>> /\ UNCHANGED world
      BY <1>5 DEF Written, world, TypeOK
    <2> QED
      BY <1>0, <1>z, <2>1, GoesOn DEF Counters
  <1>6. CASE Retry
    BY <1>0, <1>6, IngestAssumption DEF Retry, Stays, world, Counters
  <1>7. CASE Crash
    <2>1. /\ feed > 0 /\ UNCHANGED world /\ StartFetch(0) /\ attempt' = 0
          /\ crashes' \in 0..MaxCrash /\ faults' = faults
      BY <1>0, <1>7, IngestAssumption DEF Crash, world, StartFetch
    <2>2. report' \in [Range(plan) -> {"none", "ok", "error"}]
      BY <1>0, <1>7 DEF Crash
    <2> QED
      BY <1>0, <1>z, <2>1, <2>2 DEF Counters, Ends
  <1> QED
    BY <1>1, <1>2, <1>3, <1>4, <1>5, <1>6, <1>7

-----------------------------------------------------------------------------
(***************************************************************************)
(* Types.                                                                  *)
(***************************************************************************)
LEMMA StoredIs ==
    ASSUME NEW f
    PROVE  \/ Stored(f) = store
              /\ \E r \in store : /\ r.key = f.key /\ r.release = f.release /\ r.revision = 0
                                  /\ r.payload = f.payload
           \/ Slot(f) = {} /\ Stored(f) = store \cup {Row(f, 0)}
           \/ Slot(f) # {} /\ Stored(f) = store \cup {Row(f, now)}
  BY DEF Stored, Slot

LEMMA RowIs ==
    ASSUME plan \in Plans, NEW f \in FetchType, NEW revision \in Nat
    PROVE  /\ Row(f, revision) \in RowType
           /\ Row(f, revision).key = f.key /\ Row(f, revision).release = f.release
           /\ Row(f, revision).revision = revision /\ Row(f, revision).payload = f.payload
           /\ KnownBy(Row(f, revision)) = IF revision = 0 THEN f.release ELSE revision
  <1>1. PICK q \in {"snapshot", "revision_unknown", "first"} :
           q = Quality(f.key.kind, f.release < now - 1)
    BY Zenon DEF Quality
  <1>2. Row(f, revision) = [key |-> f.key, release |-> f.release, revision |-> revision,
                            payload |-> f.payload, stamp |-> f.stamp, quality |-> q]
    BY <1>1 DEF Row
  <1> QED
    BY <1>2, KeysAre DEF FetchType, RowType, KnownBy

LEMMA TypeInit == Init => TypeOK
  <1> SUFFICES ASSUME Init PROVE TypeOK
    OBVIOUS
  <1>1. now = 1 /\ 1 \in 1..MaxTime /\ 0 \in 0..MaxRetries /\ 0 \in 0..MaxFaults /\ 0 \in 0..MaxCrash
    BY IngestAssumption DEF Init
  <1>2. plan \in Plans /\ feed = 0 /\ 0 \in 0..Len(plan) /\ req = 1 /\ writing = FALSE
    BY Plans0 DEF Init
  <1>3. pub \in [Keys -> [release : Nat, payload : Nat]] /\ last \in [Keys -> Nat]
    BY DEF Init
  <1>4. log \subseteq [key : Keys, payload : Nat, at : Nat]
    BY DEF Init
  <1>5. meta \in [release : Nat, payload : Nat] /\ results \in Seq(FetchType)
    BY DEF Init, NoMeta
  <1>6. report \in [Range(plan) -> {"none", "ok", "error"}] /\ store = {} /\ views = {}
        /\ attempt = 0 /\ faults = 0 /\ crashes = 0
    BY DEF Init
  <1>7. /\ now \in 1..MaxTime /\ plan \in Plans
        /\ feed \in 0..Len(plan) /\ writing \in BOOLEAN /\ (feed = 0 => ~writing)
        /\ req \in Nat \ {0} /\ ~ (feed > 0)
    <2>1. writing \in BOOLEAN /\ ~writing
      BY <1>2, Zenon
    <2>2. ~ (feed > 0) /\ feed \in 0..Len(plan)
      BY <1>2
    <2>3. now \in 1..MaxTime /\ req \in Nat \ {0}
      BY <1>1, <1>2
    <2> QED
      BY <1>2, <2>1, <2>2, <2>3
  <1>8. store \subseteq RowType /\ (\A r \in store : r.key \in Keys)
        /\ \A v \in views : v.at \in 1..now
    BY <1>6
  <1> QED
    BY <1>1, <1>3, <1>4, <1>5, <1>6, <1>7, <1>8, Zenon DEF TypeOK

\* The publisher's step.
LEMMA PublishIs ==
    ASSUME TypeOK, IsFiniteSet(log), NewRelease \/ Correct
    PROVE  /\ UNCHANGED <<run, report, store, views, last, faults, crashes>>
           /\ now' = now + 1 /\ now' \in 1..MaxTime
           /\ \E k \in Keys, release \in Nat, payload \in Nat :
                 /\ \/ /\ release = now + 1 /\ payload = NextPayload(k)
                       /\ k.kind \notin Calendars
                    \/ /\ release = pub[k].release /\ k.kind \in Corrects
                       /\ \/ payload = NextPayload(k)
                          \/ Reverts /\ \E e \in log : e.key = k /\ e.payload = payload
                 /\ pub' = [pub EXCEPT ![k] = [release |-> release, payload |-> payload]]
                 /\ log' = log \cup {[key |-> k, payload |-> payload, at |-> now + 1]}

  <1>1. \A k : NextPayload(k) \in Nat
    <2> TAKE k
    <2>1. IsFiniteSet({e \in log : e.key = k})
      BY FS_Subset
    <2> QED
      BY <2>1, FS_CardinalityType DEF NextPayload
  <1>2. now \in Nat /\ now + 1 \in Nat
    BY DEF TypeOK
  <1>a. ASSUME NEW k \in Keys, NEW release \in Nat, NEW payload \in Nat,
               Publish(k, release, payload)
        PROVE  /\ UNCHANGED <<run, report, store, views, last, faults, crashes>>
               /\ now' = now + 1 /\ now' \in 1..MaxTime
               /\ pub' = [pub EXCEPT ![k] = [release |-> release, payload |-> payload]]
               /\ log' = log \cup {[key |-> k, payload |-> payload, at |-> now + 1]}
    BY <1>a, IngestAssumption DEF Publish, TypeOK
  <1>3. CASE NewRelease
    <2>1. PICK k \in Keys : /\ k.kind \notin Calendars
                            /\ Publish(k, now + 1, NextPayload(k))
      BY <1>3 DEF NewRelease, TypeOK
    <2> QED
      BY <1>1, <1>2, <1>a, <2>1
  <1>4. CASE Correct
    <2>1. PICK k \in Keys : /\ k.kind \in Corrects
            /\ \E p \in {NextPayload(k)} \cup
                     (IF Reverts THEN {e.payload : e \in {f \in log : f.key = k}} ELSE {}) :
                  Publish(k, pub[k].release, p)
      BY <1>4 DEF Correct, TypeOK
    <2>2. PICK p : /\ p \in {NextPayload(k)} \cup
                        (IF Reverts THEN {e.payload : e \in {f \in log : f.key = k}} ELSE {})
                   /\ Publish(k, pub[k].release, p)
      BY <2>1
    <2>3. p = NextPayload(k) \/ (Reverts /\ \E e \in log : e.key = k /\ e.payload = p)
      BY <2>2
    <2>4. p \in Nat /\ pub[k].release \in Nat
      BY <1>1, <2>3 DEF TypeOK
    <2> QED
      BY <1>a, <2>1, <2>2, <2>3, <2>4
  <1> QED
    BY <1>3, <1>4

TypeInv == TypeOK /\ IsFiniteSet(log)

LEMMA StepIs ==
    ASSUME [Next]_vars
    PROVE  \/ NewRelease \/ Correct \/ StartRun \/ Write \/ BuildView \/ UNCHANGED vars
           \/ (Answered \/ Failed \/ Encoded \/ NotPrimary \/ Written \/ Retry \/ Crash)
  BY DEF Next, Work

\* After a step of a fetch the run is well-formed.
LEMMA FetchType1 ==
    ASSUME TypeOK, feed > 0, UNCHANGED world, Counters, Reads \/ Goes \/ Done \/ Ends \/ Stays
    PROVE  TypeOK'
  <1>1. /\ Kind \in Kinds /\ Requests(Kind) \in Seq(RequestType) /\ plan' = plan
        /\ feed \in 1..Len(plan) /\ Len(plan) \in Nat
    BY KindOf, RequestFacts, Plans0 DEF world, TypeOK
  <1>2. Keys' = Keys /\ FetchType' = FetchType
    BY <1>1 DEF Keys, FetchType
  <1>g. ASSUME NEW rs, Gets(rs) PROVE rs \in Seq(FetchType)
    <2>1. PICK dated \in BOOLEAN : rs = Append(results, Fetched(dated))
      BY <1>g DEF Gets
    <2>2. Fetched(dated) \in FetchType
      BY <1>g, FetchedType DEF Gets
    <2> QED
      BY <2>1, <2>2 DEF TypeOK
  <1>3. /\ feed' \in 0..Len(plan) /\ writing' \in BOOLEAN /\ (feed' = 0 => ~writing')
        /\ req' \in Nat \ {0} /\ meta' \in [release : Nat, payload : Nat]
        /\ results' \in Seq(FetchType)
        /\ feed' > 0 /\ ~writing' =>
              Requests(plan[feed']) = <<>> \/ req' <= Len(Requests(plan[feed']))
    <2>1. CASE Reads
      <3>1. Request.what = "meta" => pub[[kind |-> Kind, item |-> Request.item]]
                                        \in [release : Nat, payload : Nat]
        <4> SUFFICES ASSUME Request.what = "meta"
                     PROVE  pub[[kind |-> Kind, item |-> Request.item]]
                               \in [release : Nat, payload : Nat]
          OBVIOUS
        <4>1. ~writing /\ req <= Len(Requests(Kind))
          <5>1. req \in Nat /\ Len(Requests(Kind)) \in Nat
            BY <1>1 DEF TypeOK
          <5> QED
            BY <2>1, <5>1 DEF Reads
        <4>2. [kind |-> Kind, item |-> Request.item] \in Keys
          BY <4>1, RequestKey
        <4>3. pub \in [Keys -> [release : Nat, payload : Nat]]
          BY DEF TypeOK
        <4> QED
          BY <4>2, <4>3
      <3> QED
        BY <1>1, <2>1, <3>1 DEF Reads, TypeOK, Kind
    <2>2. CASE Goes
      <3>1. results' \in Seq(FetchType)
        BY <1>g, <2>2 DEF Goes, TypeOK
      <3> QED
        BY <1>1, <2>2, <3>1 DEF Goes, TypeOK, Kind
    <2>3. CASE Done
      <3>1. results' \in Seq(FetchType)
        <4>1. CASE Kind \in Calendars /\ results' = CalendarResults
          BY <4>1, CalendarFacts
        <4>2. CASE results' = results
          BY <4>2 DEF TypeOK
        <4>3. CASE Gets(results')
          BY <1>g, <4>3
        <4>4. CASE results' = <<>>
          BY <4>4
        <4> QED
          BY <2>3, <4>1, <4>2, <4>3, <4>4 DEF Done
      <3> QED
        BY <1>1, <2>3, <3>1 DEF Done, TypeOK
    <2>4. CASE Ends
      <3>1. PICK i \in {0} \cup ((feed + 1)..Len(plan)) : StartFetch(i)
        BY <2>4 DEF Ends
      <3>2. i \in 0..Len(plan) /\ (i > 0 => plan[i] \in Kinds)
        BY <1>1, <3>1, Plans0 DEF TypeOK
      <3>3. i > 0 => Requests(plan[i]) = <<>> \/ 1 <= Len(Requests(plan[i]))
        <4>1. i > 0 => Requests(plan[i]) \in Seq(RequestType)
          BY <3>2, RequestFacts
        <4> QED
          BY <4>1
      <3>4. feed' = i /\ req' = 1 /\ writing' = FALSE /\ results' = <<>> /\ meta' = NoMeta
        BY <3>1 DEF StartFetch
      <3>5. writing' \in BOOLEAN /\ ~writing'
        BY <3>4, Zenon
      <3> QED
        BY <3>2, <3>3, <3>4, <3>5 DEF NoMeta
    <2>5. CASE Stays
      BY <1>1, <2>5 DEF Stays, TypeOK, Kind
    <2> QED
      BY <2>1, <2>2, <2>3, <2>4, <2>5
  <1>4. /\ now' \in 1..MaxTime /\ plan' \in Plans
        /\ pub' \in [Keys' -> [release : Nat, payload : Nat]]
        /\ log' \subseteq [key : Keys', payload : Nat, at : Nat]
        /\ store' \subseteq RowType /\ (\A r \in store' : r.key \in Keys')
        /\ (\A v \in views' : v.at \in 1..now')
        /\ last' \in [Keys' -> Nat]
    BY <1>2 DEF TypeOK, world
  <1>5. /\ attempt' \in 0..MaxRetries /\ report' \in [Range(plan') -> {"none", "ok", "error"}]
        /\ faults' \in 0..MaxFaults /\ crashes' \in 0..MaxCrash
    BY <1>1 DEF Counters
  <1> QED
    BY <1>1, <1>2, <1>3, <1>4, <1>5 DEF TypeOK, Kind

LEMMA TypeNext == TypeInv /\ [Next]_vars => TypeInv'
  <1> SUFFICES ASSUME TypeOK, IsFiniteSet(log), [Next]_vars PROVE TypeInv'
    BY DEF TypeInv
  <1>0. plan \in Plans /\ Keys \subseteq Key
    BY KeysAre DEF TypeOK
  <1>1. CASE NewRelease \/ Correct
    <2>1. /\ UNCHANGED <<run, report, store, views, last, faults, crashes>>
          /\ now' = now + 1 /\ now' \in 1..MaxTime
      BY <1>1, PublishIs
    <2>2. PICK k \in Keys, release \in Nat, payload \in Nat :
                 /\ pub' = [pub EXCEPT ![k] = [release |-> release, payload |-> payload]]
                 /\ log' = log \cup {[key |-> k, payload |-> payload, at |-> now + 1]}
      BY <1>1, PublishIs
    <2>3. plan' = plan /\ Keys' = Keys /\ FetchType' = FetchType
      BY <2>1 DEF run, Keys, FetchType
    <2>4. now \in Nat
      BY DEF TypeOK
    <2>5. pub' \in [Keys' -> [release : Nat, payload : Nat]]
      BY <2>2, <2>3 DEF TypeOK
    <2>6. log' \subseteq [key : Keys', payload : Nat, at : Nat]
      BY <2>2, <2>3, <2>4 DEF TypeOK
    <2>7. \A v \in views' : v.at \in 1..now'
      BY <2>1, <2>4 DEF TypeOK
    <2>8. IsFiniteSet(log')
      BY <2>2, FS_AddElement
    <2> QED
      BY <2>1, <2>3, <2>5, <2>6, <2>7, <2>8 DEF TypeInv, TypeOK, run, Kind
  <1>2. CASE StartRun
    <2>1. /\ feed = 0 /\ StartFetch(1) /\ now' = now + 1 /\ now' \in 1..MaxTime /\ attempt' = 0
          /\ UNCHANGED <<pub, log, plan, store, views, last, faults, crashes>>
      BY <1>2, IngestAssumption DEF StartRun, StartFetch, TypeOK
    <2>2. report' \in [Range(plan) -> {"none", "ok", "error"}]
      BY <1>2 DEF StartRun, TypeOK
    <2>3. Keys' = Keys /\ FetchType' = FetchType
      BY <2>1 DEF Keys, FetchType
    <2>4. 1 \in 0..Len(plan) /\ plan[1] \in Kinds
      BY <1>0, Plans0
    <2>5. Requests(plan[1]) = <<>> \/ 1 <= Len(Requests(plan[1]))
      BY <2>4, RequestFacts
    <2>6. feed' = 1 /\ req' = 1 /\ writing' = FALSE /\ results' = <<>> /\ meta' = NoMeta
      BY <2>1 DEF StartFetch
    <2>7. writing' \in BOOLEAN /\ ~writing'
      BY <2>6, Zenon
    <2>8. \A v \in views' : v.at \in 1..now'
      BY <2>1 DEF TypeOK
    <2>9. 0 \in 0..MaxRetries
      BY IngestAssumption
    <2>10. meta' \in [release : Nat, payload : Nat] /\ results' \in Seq(FetchType')
      BY <2>6 DEF NoMeta
    <2>11. /\ plan' \in Plans /\ pub' \in [Keys' -> [release : Nat, payload : Nat]]
           /\ log' \subseteq [key : Keys', payload : Nat, at : Nat]
           /\ store' \subseteq RowType /\ (\A r \in store' : r.key \in Keys')
           /\ last' \in [Keys' -> Nat]
           /\ faults' \in 0..MaxFaults /\ crashes' \in 0..MaxCrash
           /\ IsFiniteSet(log')
      BY <2>1, <2>3 DEF TypeOK
    <2> QED
      BY <2>1, <2>2, <2>4, <2>5, <2>6, <2>7, <2>8, <2>9, <2>10, <2>11 DEF TypeInv, TypeOK, Kind
  <1>3. CASE Answered \/ Failed \/ Encoded \/ NotPrimary \/ Written \/ Retry \/ Crash
    <2>1. TypeOK'
      BY <1>3, FetchShape, FetchType1
    <2>2. log' = log
      BY <1>3, FetchShape DEF world
    <2> QED
      BY <2>1, <2>2 DEF TypeInv
  <1>4. CASE Write
    <2>1. /\ writing /\ results # <<>> /\ store' = Stored(Head(results))
          /\ last' = [last EXCEPT ![Head(results).key] = Head(results).payload]
          /\ results' = Tail(results)
          /\ UNCHANGED <<now, pub, log, plan, feed, req, attempt, meta, writing, report, views,
                   faults, crashes>>
      BY <1>4 DEF Write
    <2>2. PICK f \in FetchType : f = Head(results)
      BY <2>1 DEF TypeOK
    <2>3. /\ Keys' = Keys /\ FetchType' = FetchType
          /\ Tail(results) \in Seq(FetchType) /\ now \in Nat
      BY <2>1 DEF Keys, FetchType, TypeOK
    <2>4. f.key \in Keys /\ f.payload \in Nat
      BY <2>2 DEF FetchType
    <2>5. last' \in [Keys -> Nat]
      BY <2>1, <2>2, <2>4 DEF TypeOK
    <2>6. store' \subseteq RowType /\ \A r \in store' : r.key \in Keys
      <3>1. /\ Row(f, 0) \in RowType /\ Row(f, 0).key = f.key
            /\ Row(f, now) \in RowType /\ Row(f, now).key = f.key
        BY <1>0, <2>3, RowIs
      <3>2. store' \subseteq store \cup {Row(f, 0), Row(f, now)}
        BY <2>1, <2>2, StoredIs
      <3> QED
        BY <2>4, <3>1, <3>2 DEF TypeOK
    <2> QED
      BY <2>1, <2>3, <2>5, <2>6 DEF TypeInv, TypeOK, Kind
  <1>5. CASE BuildView
    <2>1. /\ UNCHANGED <<now, pub, log, run, report, store, last, faults, crashes>>
          /\ views' = views \cup {[at |-> now, features |-> Features(store, now)]}
      BY <1>5 DEF BuildView
    <2>2. Keys' = Keys /\ FetchType' = FetchType
      BY <2>1 DEF run, Keys, FetchType
    <2>3. now \in 1..now
      BY DEF TypeOK
    <2>4. \A v \in views' : v.at \in 1..now'
      BY <2>1, <2>3 DEF TypeOK
    <2> QED
      BY <2>1, <2>2, <2>4 DEF TypeInv, TypeOK, run, Kind
  <1>6. CASE UNCHANGED vars
    BY <1>6 DEF TypeInv, TypeOK, vars, run, Keys, Kind, FetchType
  <1> QED
    BY <1>1, <1>2, <1>3, <1>4, <1>5, <1>6, StepIs

-----------------------------------------------------------------------------
(***************************************************************************)
(* The run under way.                                                      *)
(***************************************************************************)
\* What a step may get keeps the results in order and behind what follows.
LEMMA GetsInOrder ==
    ASSUME TypeOK, RunInv, feed > 0, NEW rs, Gets(rs)
    PROVE  /\ Len(rs) = Len(results) + 1 /\ DOMAIN rs = 1..Len(results) + 1
           /\ DOMAIN results = 1..Len(results) /\ Len(results) \in Nat
           /\ \A n \in DOMAIN results : rs[n] = results[n]
           /\ \E dated \in BOOLEAN : (dated \/ Kind \in Undated)
                                      /\ rs[Len(results) + 1] = Fetched(dated)
           /\ rs[Len(results) + 1].key = [kind |-> Kind, item |-> Request.item]
           /\ rs[Len(results) + 1].key \in Keys
           /\ \A m, n \in DOMAIN rs : m < n => rs[m].key.item < rs[n].key.item
  <1>1. PICK dated \in BOOLEAN : (dated \/ Kind \in Undated)
                                   /\ rs = Append(results, Fetched(dated))
    BY DEF Gets
  <1>2. PICK f : f = Fetched(dated)
    OBVIOUS
  <1>3. /\ f.key = [kind |-> Kind, item |-> Request.item] /\ f.key \in Keys
        /\ f.key.item = Request.item
    BY <1>2, FetchedType DEF Gets
  <1>4. results \in Seq(FetchType) /\ rs = Append(results, f)
    BY <1>1, <1>2 DEF TypeOK
  <1>5. /\ Len(rs) = Len(results) + 1 /\ DOMAIN rs = 1..Len(results) + 1
        /\ DOMAIN results = 1..Len(results) /\ Len(results) \in Nat
        /\ rs[Len(results) + 1] = f
        /\ \A n \in DOMAIN results : rs[n] = results[n]
    BY <1>4
  <1>6. \A n \in DOMAIN results : results[n].key.item < Request.item
    <2>1. req \in DOMAIN Requests(Kind) /\ req >= req
      BY RequestKey, KindOf, RequestFacts DEF Gets
    <2> QED
      BY <2>1 DEF RunInv, Gets, Request
  <1>7. ASSUME NEW m \in DOMAIN rs, NEW n \in DOMAIN rs, m < n
        PROVE  rs[m].key.item < rs[n].key.item
    <2>1. m \in DOMAIN results
      BY <1>5, <1>7
    <2>2. CASE n \in DOMAIN results
      BY <1>5, <1>7, <2>1, <2>2 DEF RunInv
    <2>3. CASE n \notin DOMAIN results
      <3>1. n = Len(results) + 1
        BY <1>5, <2>3
      <3> QED
        BY <1>3, <1>5, <1>6, <2>1, <3>1
    <2> QED
      BY <2>2, <2>3
  <1> QED
    BY <1>1, <1>2, <1>3, <1>5, <1>7

LEMMA RunFetch ==
    ASSUME TypeOK, RunInv, feed > 0, UNCHANGED world, Reads \/ Goes \/ Done \/ Ends \/ Stays
    PROVE  RunInv'
  <1>1. /\ Kind \in Kinds /\ plan' = plan /\ Keys' = Keys /\ feed \in Nat
        /\ Requests(Kind) \in Seq(RequestType) /\ req \in Nat
        /\ DOMAIN Requests(Kind) = 1..Len(Requests(Kind))
    BY KindOf, RequestFacts DEF world, Keys, TypeOK
  <1>g. ASSUME NEW rs, Gets(rs)
        PROVE  /\ \A n \in DOMAIN rs : rs[n].key \in Keys /\ rs[n].key.kind = Kind
               /\ \A m, n \in DOMAIN rs : m < n => rs[m].key.item < rs[n].key.item
               /\ \A n \in DOMAIN rs : rs[n].key.item <= Request.item
    <2>1. ASSUME NEW n \in DOMAIN rs
          PROVE  /\ rs[n].key \in Keys /\ rs[n].key.kind = Kind
                 /\ n = Len(results) + 1 \/ n \in DOMAIN results
                 /\ n = Len(results) + 1 => rs[n].key.item = Request.item
      BY <1>g, <2>1, GetsInOrder DEF RunInv
    <2>2. Request.item \in Int
      BY <1>g, RequestKey DEF Gets, Items
    <2>3. \A n \in DOMAIN rs : rs[n].key \in Key
      BY <2>1, KeysAre DEF TypeOK
    <2>4. \A m, n \in DOMAIN rs : m < n => rs[m].key.item < rs[n].key.item
      BY <1>g, GetsInOrder
    <2>5. ASSUME NEW n \in DOMAIN rs PROVE rs[n].key.item <= Request.item
      <3>1. CASE n = Len(results) + 1
        BY <2>1, <2>2, <3>1
      <3>2. CASE n \in DOMAIN results
        <4>1. Len(results) + 1 \in DOMAIN rs /\ n < Len(results) + 1
          BY <1>g, <3>2, GetsInOrder
        <4>2. rs[n].key.item < rs[Len(results) + 1].key.item
          BY <2>4, <2>5, <4>1
        <4> QED
          BY <2>1, <2>2, <2>3, <2>5, <4>1, <4>2 DEF Key, Items
      <3> QED
        BY <2>1, <2>5, <3>1, <3>2
    <2> QED
      BY <2>1, <2>4, <2>5
  <1>2. CASE Reads
    <2>1. /\ results' = results /\ feed' = feed /\ writing' = writing /\ req' = req + 1
          /\ Kind' = Kind
      BY <1>1, <1>2 DEF Reads, Kind
    <2> QED
      BY <1>1, <2>1 DEF RunInv
  <1>3. CASE Goes
    <2>1. /\ feed' = feed /\ writing' = writing /\ req' > req /\ Kind' = Kind /\ req' \in Nat
      BY <1>1, <1>3 DEF Goes, Kind
    <2>2. CASE results' = results
      BY <1>1, <2>1, <2>2 DEF RunInv
    <2>3. CASE Gets(results') /\ Kind \notin {"wti", "cl_front"} /\ req' = req + 1
      <3>1. PICK rs : rs = results'
        OBVIOUS
      <3>2. /\ \A n \in DOMAIN rs : rs[n].key \in Keys /\ rs[n].key.kind = Kind
            /\ \A m, n \in DOMAIN rs : m < n => rs[m].key.item < rs[n].key.item
            /\ \A n \in DOMAIN rs : rs[n].key.item <= Request.item
        BY <1>g, <2>3, <3>1
      <3>3. ASSUME NEW n \in DOMAIN rs, NEW j \in DOMAIN Requests(Kind), j >= req + 1,
                   DataRequest(Requests(Kind)[j])
            PROVE  rs[n].key.item < Requests(Kind)[j].item
        <4>1. req \in DOMAIN Requests(Kind) /\ DataRequest(Requests(Kind)[req])
          BY <1>1, <2>3, RequestKey DEF Gets, Request
        <4>2. Requests(Kind)[req].item < Requests(Kind)[j].item
          BY <1>1, <2>3, <3>3, <4>1, RequestFacts
        <4>3. /\ Requests(Kind)[req].item \in Int /\ Requests(Kind)[j].item \in Int
              /\ rs[n].key.item \in Int
          <5>1. Requests(Kind)[req] \in RequestType /\ Requests(Kind)[j] \in RequestType
            BY <1>1, <4>1
          <5>2. rs[n].key \in Key
            BY <3>2, KeysAre DEF TypeOK
          <5> QED
            BY <5>1, <5>2 DEF RequestType, Key, Items
        <4> QED
          BY <3>2, <3>3, <4>2, <4>3 DEF Request
      <3> QED
        BY <1>1, <2>1, <2>3, <3>1, <3>2, <3>3 DEF RunInv
    <2> QED
      BY <1>3, <2>2, <2>3 DEF Goes
  <1>4. CASE Done
    <2>1. feed' = feed /\ writing' = TRUE /\ Kind' = Kind
      BY <1>1, <1>4 DEF Done, Kind
    <2>2. writing'
      BY <2>1, Zenon
    <2>3. /\ \A n \in DOMAIN results' : results'[n].key \in Keys /\ results'[n].key.kind = Kind
          /\ \A m, n \in DOMAIN results' : m < n => results'[m].key.item < results'[n].key.item
      <3>1. CASE results' = results
        BY <3>1 DEF RunInv
      <3>2. CASE Gets(results')
        BY <1>g, <3>2
      <3>3. CASE Kind \in Calendars /\ results' = CalendarResults
        <4>1. PICK rs : rs = CalendarResults
          OBVIOUS
        <4>2. \A n \in DOMAIN rs : rs[n].key \in Keys /\ rs[n].key = [kind |-> Kind, item |-> n]
          BY <3>3, <4>1, CalendarFacts
        <4>3. ASSUME NEW n \in DOMAIN rs PROVE rs[n].key.kind = Kind /\ rs[n].key.item = n
          <5>1. PICK k : k = [kind |-> Kind, item |-> n]
            OBVIOUS
          <5>2. k.kind = Kind /\ k.item = n
            BY <5>1
          <5> QED
            BY <4>2, <4>3, <5>1, <5>2
        <4> QED
          BY <3>3, <4>1, <4>2, <4>3
      <3>4. CASE results' = <<>>
        BY <3>4
      <3> QED
        BY <1>4, <3>1, <3>2, <3>3, <3>4 DEF Done
    <2> QED
      BY <1>1, <2>1, <2>2, <2>3 DEF RunInv
  <1>5. CASE Ends
    <2>1. results' = <<>>
      BY <1>5 DEF Ends, StartFetch
    <2> QED
      BY <2>1 DEF RunInv
  <1>6. CASE Stays
    BY <1>1, <1>6 DEF Stays, RunInv, Kind
  <1> QED
    BY <1>2, <1>3, <1>4, <1>5, <1>6

\* Writing takes the first of the results.
LEMMA WriteIs ==
    ASSUME TypeOK, RunInv, Write
    PROVE  /\ feed > 0 /\ writing /\ feed' = feed /\ writing' = writing
           /\ UNCHANGED <<now, pub, log, plan, req, meta, views>>
           /\ results[1] \in FetchType /\ results[1].key \in Keys /\ results[1].key.kind = Kind
           /\ 1 \in DOMAIN results
           /\ store' = Stored(results[1])
           /\ last' = [last EXCEPT ![results[1].key] = results[1].payload]
           /\ \A n \in DOMAIN results' : n + 1 \in DOMAIN results /\ results'[n] = results[n + 1]
           /\ \A n \in DOMAIN results' : results'[n].key # results[1].key
           /\ Keys' = Keys /\ Kind' = Kind
  <1>1. /\ writing /\ results # <<>> /\ store' = Stored(Head(results))
        /\ last' = [last EXCEPT ![Head(results).key] = Head(results).payload]
        /\ results' = Tail(results)
        /\ UNCHANGED <<now, pub, log, plan, feed, req, meta, writing, views>>
    BY DEF Write
  <1>2. results \in Seq(FetchType) /\ feed > 0
    BY <1>1 DEF TypeOK
  <1>3. /\ Head(results) = results[1] /\ 1 \in DOMAIN results
        /\ \A n \in DOMAIN results' : n + 1 \in DOMAIN results /\ results'[n] = results[n + 1]
                                      /\ 1 < n + 1
    BY <1>1, <1>2
  <1>4. results[1] \in FetchType
    BY <1>2, <1>3
  <1>5. results[1].key \in Keys /\ results[1].key.kind = Kind
    BY <1>3 DEF RunInv
  <1>6. \A n \in DOMAIN results : results[n].key \in Key
    BY KeysAre DEF RunInv, TypeOK
  <1>7. \A n \in DOMAIN results' : results'[n].key # results[1].key
    <2> SUFFICES ASSUME NEW n \in DOMAIN results' PROVE results'[n].key # results[1].key
      OBVIOUS
    <2>1. results[1].key.item < results[n + 1].key.item
      BY <1>3 DEF RunInv
    <2>2. results[1].key.item \in Int /\ results[n + 1].key.item \in Int
      BY <1>3, <1>6 DEF Key, Items
    <2> QED
      BY <1>3, <2>1, <2>2
  <1> QED
    BY <1>1, <1>2, <1>3, <1>4, <1>5, <1>7 DEF Keys, Kind

LEMMA RunNext == TypeInv /\ RunInv /\ [Next]_vars => RunInv'
  <1> SUFFICES ASSUME TypeOK, IsFiniteSet(log), RunInv, [Next]_vars PROVE RunInv'
    BY DEF TypeInv
  <1>1. CASE NewRelease \/ Correct
    <2>1. UNCHANGED run
      BY <1>1, PublishIs
    <2> QED
      BY <2>1 DEF RunInv, run, Keys, Kind
  <1>2. CASE StartRun
    <2>1. results' = <<>>
      BY <1>2 DEF StartRun, StartFetch
    <2> QED
      BY <2>1 DEF RunInv
  <1>3. CASE Answered \/ Failed \/ Encoded \/ NotPrimary \/ Written \/ Retry \/ Crash
    BY <1>3, FetchShape, RunFetch
  <1>4. CASE Write
    <2>1. /\ feed' = feed /\ feed > 0 /\ writing' /\ Kind' = Kind /\ Keys' = Keys
          /\ \A n \in DOMAIN results' : n + 1 \in DOMAIN results /\ results'[n] = results[n + 1]
      BY <1>4, WriteIs
    <2>2. results' \in Seq(FetchType)
      BY <1>4 DEF Write, TypeOK
    <2>3. \A m, n \in DOMAIN results' : m < n => m + 1 < n + 1
      BY <2>2
    <2>4. feed # 0
      BY <2>1
    <2> QED
      BY <2>1, <2>3, <2>4 DEF RunInv
  <1>5. CASE BuildView
    BY <1>5 DEF BuildView, run, RunInv, Keys, Kind
  <1>6. CASE UNCHANGED vars
    BY <1>6 DEF vars, run, RunInv, Keys, Kind
  <1> QED
    BY <1>1, <1>2, <1>3, <1>4, <1>5, <1>6, StepIs

-----------------------------------------------------------------------------
(***************************************************************************)
(* The publisher.                                                          *)
(***************************************************************************)
LEMMA LogCount ==
    ASSUME IsFiniteSet(log), NEW k
    PROVE  IsFiniteSet(LogOf(k)) /\ Cardinality(LogOf(k)) \in Nat
  BY FS_Subset, FS_CardinalityType DEF LogOf

\* A publication is one more entry of its key and of no other.
LEMMA LogGrows ==
    ASSUME TypeOK, PublisherInv, NewRelease \/ Correct
    PROVE  \E k \in Keys, release \in 1..(now + 1), payload \in Nat \ {0} :
              /\ pub' = [pub EXCEPT ![k] = [release |-> release, payload |-> payload]]
              /\ log' = log \cup {[key |-> k, payload |-> payload, at |-> now + 1]}
              /\ k.kind \notin Calendars /\ release >= pub[k].release
              /\ payload <= Cardinality(LogOf(k)) + 1
              /\ ~Reverts => payload = Cardinality(LogOf(k)) + 1
              /\ k.kind \notin Corrects => release = now + 1
              /\ Cardinality(LogOf(k)') = Cardinality(LogOf(k)) + 1
              /\ \A j : j # k => LogOf(j)' = LogOf(j)
  <1>0. now \in Nat /\ IsFiniteSet(log)
    BY DEF TypeOK, PublisherInv
  <1>1. PICK k \in Keys, release \in Nat, payload \in Nat :
          /\ \/ /\ release = now + 1 /\ payload = NextPayload(k)
                /\ k.kind \notin Calendars
             \/ /\ release = pub[k].release /\ k.kind \in Corrects
                /\ \/ payload = NextPayload(k)
                   \/ Reverts /\ \E e \in log : e.key = k /\ e.payload = payload
          /\ pub' = [pub EXCEPT ![k] = [release |-> release, payload |-> payload]]
          /\ log' = log \cup {[key |-> k, payload |-> payload, at |-> now + 1]}
    BY <1>0, PublishIs
  <1>2. PICK c \in Nat : c = Cardinality(LogOf(k))
    BY <1>0, LogCount
  <1>3. NextPayload(k) = c + 1
    BY <1>2 DEF NextPayload, LogOf
  <1>4. PICK x : x = [key |-> k, payload |-> payload, at |-> now + 1]
    OBVIOUS
  <1>5. x \notin LogOf(k)
    <2>1. x.at = now + 1 /\ ~ (x.at <= now)
      BY <1>0, <1>4
    <2>2. x \notin log
      BY <2>1 DEF PublisherInv
    <2> QED
      BY <2>2 DEF LogOf
  <1>6. LogOf(k)' = LogOf(k) \cup {x}
    BY <1>1, <1>4 DEF LogOf
  <1>7. Cardinality(LogOf(k) \cup {x}) = c + 1
    BY <1>0, <1>2, <1>5, LogCount, FS_AddElement
  <1>8. \A j : j # k => LogOf(j)' = LogOf(j)
    BY <1>1 DEF LogOf
  <1>9. pub[k].release \in 1..now
    BY DEF PublisherInv
  <1>10. payload \in 1..(c + 1) /\ (~Reverts => payload = c + 1)
    <2>1. CASE payload = NextPayload(k)
      BY <1>2, <1>3, <2>1
    <2>2. CASE Reverts /\ \E e \in log : e.key = k /\ e.payload = payload
      <3>1. payload \in 1..c
        BY <1>2, <2>2 DEF PublisherInv
      <3> QED
        BY <1>2, <2>2, <3>1
    <2> QED
      BY <1>1, <2>1, <2>2
  <1>11. Corrects \cap Calendars = {}
    BY DEF Corrects, Calendars
  <1>12. /\ release \in 1..(now + 1) /\ release >= pub[k].release /\ k.kind \notin Calendars
         /\ (k.kind \notin Corrects => release = now + 1)
    BY <1>0, <1>1, <1>9, <1>11
  <1>13. Cardinality(LogOf(k)') = c + 1
    BY <1>6, <1>7
  <1>14. payload \in Nat \ {0} /\ payload <= c + 1
    BY <1>2, <1>10
  <1> QED
    BY <1>1, <1>2, <1>8, <1>10, <1>12, <1>13, <1>14

LEMMA PublisherInit == Init => PublisherInv
  <1> SUFFICES ASSUME Init PROVE PublisherInv
    OBVIOUS
  <1>1. /\ now = 1 /\ pub = [k \in Keys |-> [release |-> 1, payload |-> 1]]
        /\ log = {[key |-> k, payload |-> 1, at |-> 1] : k \in Keys} /\ meta = NoMeta
        /\ plan \in Plans
    BY DEF Init
  <1>2. IsFiniteSet(log)
    <2> DEFINE key(p) == [kind |-> plan[p[1]], item |-> p[2]]
               D == {p \in (1..Len(plan)) \X Items : key(p) \in Keys}
               f == [p \in D |-> [key |-> key(p), payload |-> 1, at |-> 1]]
    <2>1. IsFiniteSet((1..Len(plan)) \X Items)
      <3>1. IsFiniteSet(1..Len(plan))
        BY <1>1, Plans0, FS_Interval
      <3>2. IsFiniteSet(Items)
        <4>1. IsFiniteSet({1} \cup {2})
          BY FS_Singleton, FS_AddElement
        <4>2. Items = {1} \cup {2}
          BY DEF Items
        <4> QED
          BY <4>1, <4>2
      <3> QED
        BY <3>1, <3>2, FS_Product
    <2>2. IsFiniteSet(D)
      BY <2>1, FS_Subset
    <2>3. \A k \in Keys : \E p \in D : key(p) = k
      <3> SUFFICES ASSUME NEW k \in Keys PROVE \E p \in D : key(p) = k
        OBVIOUS
      <3>1. k.kind \in Range(plan) /\ k.item \in Items /\ k = [kind |-> k.kind, item |-> k.item]
        BY DEF Keys
      <3>2. PICK i \in 1..Len(plan) : plan[i] = k.kind
        BY <1>1, <3>1, Plans0 DEF Range
      <3>3. <<i, k.item>> \in (1..Len(plan)) \X Items /\ key(<<i, k.item>>) = k
        BY <3>1, <3>2
      <3> QED
        BY <3>3
    <2>4. f \in Surjection(D, log)
      <3>1. f \in [D -> log]
        BY <1>1
      <3>2. \A e \in log : \E p \in D : f[p] = e
        BY <1>1, <2>3
      <3> QED
        BY <3>1, <3>2 DEF Surjection
    <2> HIDE DEF D, f
    <2> QED
      BY <2>2, <2>4, FS_Surjection
  <1>3. ASSUME NEW k \in Keys PROVE Cardinality(LogOf(k)) = 1
    <2>1. LogOf(k) = {[key |-> k, payload |-> 1, at |-> 1]}
      BY <1>1 DEF LogOf
    <2> QED
      BY <2>1, FS_Singleton
  <1> QED
    BY <1>1, <1>2, <1>3 DEF PublisherInv, NoMeta

LEMMA PublisherNext == TypeInv /\ PublisherInv /\ [Next]_vars => PublisherInv'
  <1> SUFFICES ASSUME TypeOK, PublisherInv, [Next]_vars PROVE PublisherInv'
    BY DEF TypeInv
  <1>0. IsFiniteSet(log) /\ now \in Nat
    BY DEF PublisherInv, TypeOK
  <1>1. CASE NewRelease \/ Correct
    <2>1. PICK k \in Keys, release \in 1..(now + 1), payload \in Nat \ {0} :
              /\ pub' = [pub EXCEPT ![k] = [release |-> release, payload |-> payload]]
              /\ log' = log \cup {[key |-> k, payload |-> payload, at |-> now + 1]}
              /\ k.kind \notin Calendars
              /\ payload <= Cardinality(LogOf(k)) + 1
              /\ Cardinality(LogOf(k)') = Cardinality(LogOf(k)) + 1
              /\ \A j : j # k => LogOf(j)' = LogOf(j)
      BY <1>1, LogGrows
    <2>2. now' = now + 1 /\ meta' = meta /\ plan' = plan /\ Keys' = Keys
      BY <1>0, <1>1, PublishIs DEF run, Keys
    <2>3. IsFiniteSet(log')
      BY <1>0, <2>1, FS_AddElement
    <2>4. \A j : Cardinality(LogOf(j)) \in Nat
      BY <1>0, LogCount
    <2>5. \A j : Cardinality(LogOf(j)) <= Cardinality(LogOf(j)')
      BY <2>1, <2>4
    <2>6. \A j : Cardinality(LogOf(j)') \in Nat
      BY <2>1, <2>4
    <2>7. ASSUME NEW e \in log'
          PROVE  e.at <= now' /\ e.payload \in 1..Cardinality(LogOf(e.key)')
      <3>1. CASE e \in log
        <4>1. e.at <= now /\ e.payload \in 1..Cardinality(LogOf(e.key)) /\ e.at \in Nat
          BY <3>1 DEF PublisherInv, TypeOK
        <4> QED
          BY <1>0, <2>2, <2>4, <2>5, <2>6, <4>1
      <3>2. CASE e = [key |-> k, payload |-> payload, at |-> now + 1]
        BY <1>0, <2>1, <2>2, <2>4, <3>2
      <3> QED
        BY <2>1, <3>1, <3>2
    <2>8. ASSUME NEW j \in Keys
          PROVE  /\ pub'[j].release \in 1..now'
                 /\ pub'[j].payload \in 1..Cardinality(LogOf(j)')
                 /\ j.kind \in Calendars => pub'[j].payload = 1
      <3>1. CASE j = k
        <4>1. pub'[j] = [release |-> release, payload |-> payload]
          BY <2>1, <3>1 DEF TypeOK
        <4> QED
          BY <1>0, <2>1, <2>2, <2>4, <3>1, <4>1
      <3>2. CASE j # k
        <4>1. pub'[j] = pub[j]
          BY <2>1, <3>2 DEF TypeOK
        <4>2. /\ pub[j].release \in 1..now /\ pub[j].payload \in 1..Cardinality(LogOf(j))
              /\ (j.kind \in Calendars => pub[j].payload = 1)
          BY DEF PublisherInv
        <4> QED
          BY <1>0, <2>1, <2>2, <2>4, <3>2, <4>1, <4>2
      <3> QED
        BY <3>1, <3>2
    <2>9. meta'.release <= now'
      BY <1>0, <2>2 DEF PublisherInv, TypeOK
    <2> QED
      BY <2>2, <2>3, <2>7, <2>8, <2>9 DEF PublisherInv
  <1>2. CASE ~ (NewRelease \/ Correct)
    <2>1. log' = log /\ pub' = pub /\ now' \in {now, now + 1} /\ plan' = plan
      BY <1>2, StepIs, FetchShape, WriteIs DEF StartRun, BuildView, vars, world, Write, run
    <2>2. meta'.release <= now
      <3>1. CASE StartRun
        BY <1>0, <3>1 DEF StartRun, StartFetch, NoMeta
      <3>2. CASE Answered \/ Failed \/ Encoded \/ NotPrimary \/ Written \/ Retry \/ Crash
        <4>0. feed > 0 /\ (Reads \/ Goes \/ Done \/ Ends \/ Stays)
          BY <3>2, FetchShape
        <4>1. CASE Reads
          <5>1. CASE Request.what = "meta"
            <6>1. [kind |-> Kind, item |-> Request.item] \in Keys
              <7>1. Requests(Kind) \in Seq(RequestType) /\ req \in Nat
                BY <4>0, KindOf, RequestFacts DEF TypeOK
              <7>2. ~writing /\ req <= Len(Requests(Kind))
                BY <4>1, <7>1 DEF Reads
              <7> QED
                BY <4>0, <5>1, <7>2, RequestKey
            <6>2. pub[[kind |-> Kind, item |-> Request.item]].release \in 1..now
              BY <6>1 DEF PublisherInv
            <6> QED
              BY <1>0, <4>1, <5>1, <6>2 DEF Reads
          <5> QED
            BY <4>1, <5>1 DEF Reads, PublisherInv
        <4>2. CASE Goes \/ Done \/ Stays
          BY <4>2 DEF Goes, Done, Stays, PublisherInv
        <4>3. CASE Ends
          BY <1>0, <4>3 DEF Ends, StartFetch, NoMeta
        <4> QED
          BY <4>0, <4>1, <4>2, <4>3
      <3>3. CASE Write \/ BuildView \/ UNCHANGED vars
        BY <3>3 DEF Write, BuildView, vars, run, PublisherInv
      <3> QED
        BY <1>2, <3>1, <3>2, <3>3, StepIs
    <2>3. \A j : LogOf(j)' = LogOf(j)
      BY <2>1 DEF LogOf
    <2>4. Keys' = Keys
      BY <2>1 DEF Keys
    <2>5. /\ \A e \in log : e.at <= now' /\ e.payload \in 1..Cardinality(LogOf(e.key))
          /\ \A k \in Keys : pub[k].release \in 1..now'
          /\ meta'.release <= now'
      <3>1. meta'.release \in Nat
        BY TypeNext, <1>0 DEF TypeInv, TypeOK
      <3>2. \A e \in log : e.at \in Nat
        BY DEF TypeOK
      <3> QED
        BY <1>0, <2>1, <2>2, <3>1, <3>2 DEF PublisherInv
    <2> QED
      BY <1>0, <2>1, <2>3, <2>4, <2>5 DEF PublisherInv
  <1> QED
    BY <1>1, <1>2

-----------------------------------------------------------------------------
(***************************************************************************)
(* The clock: what a run may still write has no row of this moment.        *)
(***************************************************************************)
\* No step but the start of a run adds to what may still be written, and what
\* has been written is not written again.
LEMMA PendingNext ==
    ASSUME TypeOK, RunInv, [Next]_vars, ~StartRun, NEW k, Pending(k)'
    PROVE  Pending(k)
  <1>1. CASE NewRelease \/ Correct
    <2>1. IsFiniteSet(log) => UNCHANGED run
      BY <1>1, PublishIs
    <2>2. UNCHANGED run
      BY <1>1 DEF NewRelease, Correct, Publish
    <2> QED
      BY <2>2 DEF Pending, run
  <1>2. CASE Answered \/ Failed \/ Encoded \/ NotPrimary \/ Written \/ Retry \/ Crash
    <2>1. feed > 0 /\ plan' = plan /\ feed \in Nat /\ Len(plan) \in Nat
      BY <1>2, FetchShape, KindOf, Plans0 DEF world, TypeOK
    <2>2. CASE (Reads \/ Goes \/ Done) \/ Stays
      BY <2>1, <2>2 DEF Reads, Goes, Done, Stays, Pending
    <2>3. CASE Ends
      <3>1. PICK i \in {0} \cup ((feed + 1)..Len(plan)) : feed' = i
        BY <2>3 DEF Ends, StartFetch
      <3>2. i > 0 /\ \E j \in i..Len(plan) : plan[j] = k.kind
        BY <2>1, <3>1 DEF Pending
      <3>3. PICK j \in i..Len(plan) : plan[j] = k.kind
        BY <3>2
      <3>4. j \in feed..Len(plan) /\ j # feed
        BY <2>1, <3>1, <3>2
      <3> QED
        BY <2>1, <3>3, <3>4 DEF Pending
    <2> QED
      BY <1>2, <2>2, <2>3, FetchShape
  <1>3. CASE Write
    <2>1. /\ feed > 0 /\ writing /\ feed' = feed /\ plan' = plan /\ writing' = writing
          /\ \A n \in DOMAIN results' : n + 1 \in DOMAIN results /\ results'[n] = results[n + 1]
      BY <1>3, WriteIs
    <2>2. PICK i \in feed..Len(plan) :
             /\ plan[i] = k.kind
             /\ i = feed /\ writing => \E n \in DOMAIN results' : results'[n].key = k
      BY <2>1 DEF Pending
    <2>3. i = feed /\ writing => \E n \in DOMAIN results : results[n].key = k
      BY <2>1, <2>2
    <2> QED
      BY <2>1, <2>2, <2>3 DEF Pending
  <1>4. CASE BuildView \/ UNCHANGED vars
    BY <1>4 DEF BuildView, vars, run, Pending
  <1> QED
    BY <1>1, <1>2, <1>3, <1>4, StepIs

LEMMA WrittenOnce ==
    ASSUME OnceEach, TypeOK, RunInv, Write, NEW k, k = results[1].key
    PROVE  ~ Pending(k)'
  <1>2. /\ feed > 0 /\ writing /\ feed' = feed /\ plan' = plan /\ writing'
        /\ k.kind = Kind /\ \A n \in DOMAIN results' : results'[n].key # k
    BY WriteIs
  <1>3. \A i \in feed..Len(plan) : plan[i] = Kind => i = feed
    <2>1. feed \in 1..Len(plan) /\ DOMAIN plan = 1..Len(plan) /\ plan \in Plans
      BY <1>2, KindOf, Plans0 DEF TypeOK
    <2> QED
      BY <2>1 DEF OnceEach, Kind
  <1> QED
    BY <1>2, <1>3 DEF Pending

\* What a request gets is dated now or before.
LEMMA FetchedBy ==
    ASSUME TypeOK, PublisherInv, feed > 0, ~writing, req <= Len(Requests(Kind)),
           DataRequest(Request), NEW dated \in BOOLEAN
    PROVE  Fetched(dated).release <= now
  <1>1. PICK k \in Keys : k = [kind |-> Kind, item |-> Request.item]
    BY FetchedType
  <1>2. /\ Fetched(dated).release = IF ~dated THEN now
                              ELSE IF Kind = "fred" THEN meta.release ELSE pub[k].release
        /\ now \in Nat
    <2>1. Fetched(dated).release = ReleaseOf(dated) /\ now \in Nat
      BY FetchedType DEF TypeOK
    <2> QED
      BY <1>1, <2>1 DEF ReleaseOf
  <1>3. pub[k].release \in 1..now /\ meta.release <= now
    BY <1>1 DEF PublisherInv
  <1> QED
    BY <1>2, <1>3

LEMMA DatedNext ==
    ASSUME TypeInv, RunInv, PublisherInv, DatedInv, [Next]_vars
    PROVE  DatedInv'
  <1>0. TypeOK /\ now \in Nat /\ IsFiniteSet(log)
    BY TypeFacts DEF TypeInv
  <1>a. /\ \A r \in store : r.release \in Nat /\ r.revision \in Nat
        /\ \A n \in DOMAIN results : results[n].release \in Nat
    BY <1>0, TypeFacts
  <1>1. CASE NewRelease \/ Correct
    <2>1. now' = now + 1 /\ store' = store /\ results' = results /\ Kind' = Kind
      BY <1>0, <1>1, PublishIs DEF run, Kind
    <2> QED
      BY <1>0, <1>a, <2>1 DEF DatedInv
  <1>2. CASE StartRun
    <2>1. now' = now + 1 /\ store' = store /\ results' = <<>>
      BY <1>2 DEF StartRun, StartFetch
    <2> QED
      BY <1>0, <1>a, <2>1 DEF DatedInv
  <1>3. CASE Answered \/ Failed \/ Encoded \/ NotPrimary \/ Written \/ Retry \/ Crash
    <2>1. feed > 0 /\ UNCHANGED world /\ (Reads \/ Goes \/ Done \/ Ends \/ Stays)
      BY <1>0, <1>3, FetchShape
    <2>2. ASSUME NEW rs, Gets(rs)
          PROVE  \A n \in DOMAIN rs : Kind \notin Calendars => rs[n].release <= now
      <3>1. /\ \A n \in DOMAIN rs : n \in DOMAIN results \/ n = Len(results) + 1
            /\ \A n \in DOMAIN results : rs[n] = results[n]
            /\ \E dated \in BOOLEAN : rs[Len(results) + 1] = Fetched(dated)
        BY <1>0, <2>1, <2>2, GetsInOrder
      <3>2. \A dated \in BOOLEAN : Fetched(dated).release <= now
        BY <1>0, <2>1, <2>2, FetchedBy DEF Gets
      <3> QED
        BY <3>1, <3>2 DEF DatedInv
    <2>3. CASE Reads \/ Stays
      BY <2>1, <2>3 DEF Reads, Stays, DatedInv, Kind, world
    <2>4. CASE Goes
      <3>1. Kind' = Kind /\ now' = now /\ store' = store
        BY <2>1, <2>4 DEF Goes, Kind, world
      <3> QED
        BY <2>2, <2>4, <3>1 DEF Goes, DatedInv
    <2>5. CASE Done
      <3>1. Kind' = Kind /\ now' = now /\ store' = store
        BY <2>1, <2>5 DEF Done, Kind, world
      <3>2. ASSUME results' = <<>> PROVE DOMAIN results' = {}
        BY <3>2
      <3> QED
        BY <2>2, <2>5, <3>1, <3>2 DEF Done, DatedInv
    <2>6. CASE Ends
      BY <2>1, <2>6 DEF Ends, StartFetch, DatedInv, world
    <2> QED
      BY <2>1, <2>3, <2>4, <2>5, <2>6
  <1>4. CASE Write
    <2>1. /\ now' = now /\ Kind' = Kind /\ 1 \in DOMAIN results
          /\ store' = Stored(results[1])
          /\ \A n \in DOMAIN results' : n + 1 \in DOMAIN results /\ results'[n] = results[n + 1]
      BY <1>0, <1>4, WriteIs
    <2>2. PICK f \in FetchType : f = results[1] /\ f.key.kind = Kind
      BY <1>0, <1>4, WriteIs
    <2>3. Kind \notin Calendars => f.release <= now
      BY <2>1, <2>2 DEF DatedInv
    <2>4. ASSUME NEW r \in store', r \notin store
          PROVE  r.key = f.key /\ r.release = f.release /\ r.revision \in {0, now}
      <3>1. r = Row(f, 0) \/ r = Row(f, now)
        BY <2>1, <2>2, <2>4, StoredIs
      <3> QED
        BY <1>0, <3>1, RowIs DEF TypeOK
    <2>5. \A r \in store' : r.revision <= now /\ (r.key.kind \notin Calendars => r.release <= now)
      BY <1>0, <2>2, <2>3, <2>4 DEF DatedInv
    <2> QED
      BY <2>1, <2>5 DEF DatedInv
  <1>5. CASE BuildView \/ UNCHANGED vars
    BY <1>5 DEF BuildView, vars, run, DatedInv, Kind
  <1> QED
    BY <1>1, <1>2, <1>3, <1>4, <1>5, StepIs

LEMMA ClockNext ==
    ASSUME OnceEach, TypeInv, RunInv, DatedInv, ClockInv, [Next]_vars
    PROVE  ClockInv'
  <1>0. /\ TypeOK /\ now \in Nat /\ IsFiniteSet(log)
        /\ \A r \in store : r.release \in Nat /\ r.revision \in Nat /\ r.key \in Keys
    BY TypeFacts DEF TypeInv
  <1>1. CASE NewRelease \/ Correct \/ StartRun
    <2>1. now' = now + 1 /\ store' = store
      BY <1>0, <1>1, PublishIs DEF StartRun
    <2> QED
      BY <1>0, <2>1 DEF ClockInv, DatedInv
  <1>2. CASE ~ (NewRelease \/ Correct \/ StartRun)
    <2>1. now' = now /\ \A k : Pending(k)' => Pending(k)
      BY <1>0, <1>2, StepIs, FetchShape, PendingNext DEF Write, BuildView, vars, world
    <2>2. CASE Write
      <3>1. PICK f \in FetchType : f = results[1] /\ store' = Stored(f)
        BY <1>0, <2>2, WriteIs
      <3>2. PICK k : k = f.key /\ ~ Pending(k)'
        BY <1>0, <2>2, <3>1, WrittenOnce
      <3>3. ASSUME NEW r \in store' PROVE r \in store \/ r.key = k
        <4>1. r \in store \/ r = Row(f, 0) \/ r = Row(f, now)
          BY <3>1, <3>3, StoredIs
        <4> QED
          BY <1>0, <3>2, <4>1, RowIs DEF TypeOK
      <3> QED
        BY <2>1, <3>2, <3>3 DEF ClockInv
    <2>3. CASE ~Write
      <3>1. store' = store
        BY <1>0, <1>2, <2>3, StepIs, FetchShape DEF BuildView, vars, world
      <3> QED
        BY <2>1, <3>1 DEF ClockInv
    <2> QED
      BY <2>2, <2>3
  <1> QED
    BY <1>1, <1>2

-----------------------------------------------------------------------------
(***************************************************************************)
(* The store and the feature views.                                        *)
(***************************************************************************)
LEMMA SlotNext == TypeInv /\ RunInv /\ SlotInv /\ [Next]_vars => SlotInv'
  <1> SUFFICES ASSUME TypeInv, RunInv, SlotInv, [Next]_vars PROVE SlotInv'
    OBVIOUS
  <1>0. TypeOK /\ IsFiniteSet(log)
    BY DEF TypeInv
  <1>1. CASE Write
    <2>1. PICK f \in FetchType : f = results[1] /\ store' = Stored(f)
      BY <1>0, <1>1, WriteIs
    <2>2. CASE store' = store
      BY <2>2 DEF SlotInv
    <2>3. CASE store' = store \cup {Row(f, 0)}
      <3>1. Row(f, 0).revision = 0
        BY <1>0, RowIs DEF TypeOK
      <3> QED
        BY <2>3, <3>1 DEF SlotInv
    <2>4. CASE Slot(f) # {} /\ store' = store \cup {Row(f, now)}
      <3>1. Row(f, now).key = f.key /\ Row(f, now).release = f.release
        BY <1>0, RowIs DEF TypeOK
      <3>2. \E q \in store : q.key = f.key /\ q.release = f.release /\ q.revision = 0
        BY <2>4 DEF Slot
      <3> QED
        BY <2>4, <3>1, <3>2 DEF SlotInv
    <2> QED
      BY <2>1, <2>2, <2>3, <2>4, StoredIs
  <1>2. CASE ~Write
    <2>1. store' = store
      BY <1>0, <1>2, StepIs, FetchShape, PublishIs DEF StartRun, BuildView, vars, world
    <2> QED
      BY <2>1 DEF SlotInv
  <1> QED
    BY <1>1, <1>2

LEMMA AsOfIs ==
    ASSUME NEW rows, NEW k, NEW t
    PROVE  /\ AsOf(rows, k, t) \subseteq Eligible(rows, k, t)
           /\ \A r \in AsOf(rows, k, t), s \in Eligible(rows, k, t) :
                 s.release < r.release \/ (s.release = r.release /\ KnownBy(s) <= KnownBy(r))
  <1> DEFINE best == {r \in Eligible(rows, k, t) : \A s \in Eligible(rows, k, t) :
                    s.release < r.release \/ (s.release = r.release /\ KnownBy(s) <= KnownBy(r))}
  <1>1. AsOf(rows, k, t) = IF best = {} THEN {} ELSE {CHOOSE r \in best : TRUE}
    BY DEF AsOf
  <1>2. AsOf(rows, k, t) \subseteq best
    <2> HIDE DEF best
    <2>1. best # {} => (CHOOSE r \in best : TRUE) \in best
      OBVIOUS
    <2> QED
      BY <1>1, <2>1
  <1> QED
    BY <1>2

LEMMA SameAsOf ==
    ASSUME NEW rows, NEW more, NEW k, NEW t, Eligible(more, k, t) = Eligible(rows, k, t)
    PROVE  AsOf(more, k, t) = AsOf(rows, k, t)
  BY DEF AsOf

\* A first release that joins the store is the one as_of serves when it is the
\* newest, and changes nothing when it is not.
LEMMA FirstReleaseJoins ==
    ASSUME NEW rows, rows \subseteq RowType, NEW x \in RowType, x.revision = 0,
           NEW k, NEW t,
           \A r \in rows : r.key = x.key => r.release # x.release
    PROVE  \/ AsOf(rows \cup {x}, k, t) = AsOf(rows, k, t)
           \/ /\ AsOf(rows \cup {x}, k, t) = {x}
              /\ \A r \in Eligible(rows, k, t) : r.release < x.release
  <1> DEFINE old == Eligible(rows, k, t)
             new == Eligible(rows \cup {x}, k, t)
             Best(S) == {r \in S : \A s \in S :
                          s.release < r.release \/ (s.release = r.release /\ KnownBy(s) <= KnownBy(r))}
  <1>1. CASE ~ (x.key = k /\ x.release <= t)
    <2>1. new = old
      BY <1>1 DEF Eligible
    <2> QED
      BY <2>1, SameAsOf
  <1>2. CASE x.key = k /\ x.release <= t
    <2>1. new = old \cup {x} /\ old \subseteq rows
      BY <1>2 DEF Eligible, KnownBy
    <2>2. \A r \in old : r.release # x.release /\ r.release \in Nat /\ x.release \in Nat
      BY <1>2 DEF Eligible, RowType
    <2>3. x \notin old
      BY <2>2
    <2>4. /\ AsOf(rows, k, t) = IF Best(old) = {} THEN {} ELSE {CHOOSE r \in Best(old) : TRUE}
          /\ AsOf(rows \cup {x}, k, t)
                = IF Best(new) = {} THEN {} ELSE {CHOOSE r \in Best(new) : TRUE}
      BY DEF AsOf
    <2>5. CASE \E s \in old : x.release < s.release
      <3>1. PICK s \in old : x.release < s.release
        BY <2>5
      <3>2. x \notin Best(new)
        <4>1. s.release \in Nat /\ x.release \in Nat /\ s \in new
          BY <2>1, <2>2
        <4>2. ~ (s.release < x.release) /\ s.release # x.release
          BY <3>1, <4>1
        <4> QED
          BY <4>1, <4>2
      <3>3. ASSUME NEW r \in Best(old) PROVE r \in Best(new)
        <4>1. s.release < r.release \/ s.release = r.release
          OBVIOUS
        <4>2. x.release < r.release
          BY <2>2, <3>1, <4>1
        <4> QED
          BY <2>1, <4>2
      <3>4. Best(new) = Best(old)
        BY <2>1, <3>2, <3>3
      <3> QED
        BY <2>4, <3>4
    <2>6. CASE \A s \in old : ~ (x.release < s.release)
      <3>1. \A s \in old : s.release < x.release
        BY <2>2, <2>6
      <3>2. Best(new) = {x}
        <4>1. x \in Best(new)
          <5>1. x.release = x.release /\ KnownBy(x) <= KnownBy(x)
            BY DEF KnownBy, RowType
          <5> QED
            BY <2>1, <3>1, <5>1
        <4>2. ASSUME NEW r \in old PROVE r \notin Best(new)
          BY <2>1, <2>2, <3>1, <4>2
        <4> QED
          BY <2>1, <4>1, <4>2
      <3>3. (CHOOSE r \in {x} : TRUE) = x
        OBVIOUS
      <3> HIDE DEF Best, new, old
      <3>4. AsOf(rows \cup {x}, k, t) = {x}
        BY <2>4, <3>2, <3>3
      <3> QED
        BY <3>1, <3>4 DEF old
    <2> QED
      BY <2>5, <2>6
  <1> QED
    BY <1>1, <1>2

LEMMA FeaturesAre ==
    ASSUME NEW rows, NEW t
    PROVE  /\ DOMAIN Features(rows, t) = {s \in Specs : s.kind \in Range(plan)}
           /\ \A s \in {s \in Specs : s.kind \in Range(plan)} :
                 Features(rows, t)[s] = AsOf(rows, [kind |-> s.kind, item |-> s.item], t)
  BY DEF Features

\* What was said of a past moment is said again after a write, or is followed
\* by a first release.
LEMMA WriteReplays ==
    ASSUME TypeOK, SlotInv, NEW f \in FetchType,
           NEW k, NEW t \in Nat, t < now,
           NEW said \in SUBSET RowType,
           \/ AsOf(store, k, t) = said
           \/ \E r \in AsOf(store, k, t) : r.revision = 0 /\ \A q \in said : q.release < r.release
    PROVE  \/ AsOf(Stored(f), k, t) = said
           \/ \E r \in AsOf(Stored(f), k, t) :
                 r.revision = 0 /\ \A q \in said : q.release < r.release
  <1>0. plan \in Plans /\ now \in Nat /\ store \subseteq RowType
    BY DEF TypeOK
  <1>1. CASE Stored(f) = store
    BY <1>1
  <1>2. CASE Slot(f) # {} /\ Stored(f) = store \cup {Row(f, now)}
    <2>1. KnownBy(Row(f, now)) = now
      BY <1>0, RowIs
    <2>2. ~ (KnownBy(Row(f, now)) <= t)
      BY <1>0, <2>1
    <2>3. Eligible(Stored(f), k, t) = Eligible(store, k, t)
      BY <1>2, <2>2 DEF Eligible
    <2> QED
      BY <2>3, SameAsOf
  <1>3. CASE Slot(f) = {} /\ Stored(f) = store \cup {Row(f, 0)}
    <2>1. PICK x \in RowType : x = Row(f, 0) /\ x.revision = 0 /\ x.key = f.key /\ x.release = f.release
      BY <1>0, RowIs
    <2>2. \A r \in store : r.key = x.key => r.release # x.release
      BY <1>3, <2>1 DEF SlotInv, Slot
    <2>3. \/ AsOf(store \cup {x}, k, t) = AsOf(store, k, t)
          \/ /\ AsOf(store \cup {x}, k, t) = {x}
             /\ \A r \in Eligible(store, k, t) : r.release < x.release
      BY <1>0, <2>1, <2>2, FirstReleaseJoins
    <2>4. CASE AsOf(store \cup {x}, k, t) = AsOf(store, k, t)
      BY <1>3, <2>1, <2>4
    <2>5. CASE /\ AsOf(store \cup {x}, k, t) = {x}
               /\ \A r \in Eligible(store, k, t) : r.release < x.release
      <3>1. AsOf(store, k, t) \subseteq Eligible(store, k, t)
        BY AsOfIs
      <3>2. \A q \in said : q.release < x.release
        <4>1. CASE AsOf(store, k, t) = said
          BY <2>5, <3>1, <4>1
        <4>2. CASE \E r \in AsOf(store, k, t) : r.revision = 0 /\ \A q \in said : q.release < r.release
          <5>1. PICK r \in AsOf(store, k, t) : \A q \in said : q.release < r.release
            BY <4>2
          <5>2. r.release < x.release /\ r \in store
            BY <2>5, <3>1 DEF Eligible
          <5>3. r.release \in Nat /\ x.release \in Nat /\ \A q \in said : q.release \in Nat
            BY <1>0, <5>2 DEF RowType
          <5> QED
            BY <5>1, <5>2, <5>3
        <4> QED
          BY <4>1, <4>2
      <3> QED
        BY <1>3, <2>1, <2>5, <3>2
    <2> QED
      BY <2>3, <2>4, <2>5
  <1> QED
    BY <1>1, <1>2, <1>3, StoredIs

LEMMA ViewNext == TypeInv /\ RunInv /\ SlotInv /\ ViewInv /\ [Next]_vars => ViewInv'
  <1> SUFFICES ASSUME TypeInv, RunInv, SlotInv, ViewInv, [Next]_vars PROVE ViewInv'
    OBVIOUS
  <1>0. TypeOK /\ IsFiniteSet(log) /\ now \in Nat /\ feed \in Nat
    BY Plans0 DEF TypeInv, TypeOK
  <1>a. \A v \in views : v.at \in Nat /\ v.at <= now
    BY <1>0 DEF TypeOK
  <1>1. CASE NewRelease \/ Correct
    <2>1. now' = now + 1 /\ store' = store /\ views' = views /\ UNCHANGED run
      BY <1>0, <1>1, PublishIs
    <2>2. \A v \in views' : feed' > 0 => v.at < now'
      BY <1>0, <1>a, <2>1
    <2> QED
      BY <2>1, <2>2 DEF ViewInv, ViewReplays, Features, run
  <1>2. CASE StartRun
    <2>1. now' = now + 1 /\ store' = store /\ views' = views /\ plan' = plan
      BY <1>2 DEF StartRun
    <2>2. \A v \in views' : feed' > 0 => v.at < now'
      BY <1>0, <1>a, <2>1
    <2> QED
      BY <2>1, <2>2 DEF ViewInv, ViewReplays, Features
  <1>3. CASE Answered \/ Failed \/ Encoded \/ NotPrimary \/ Written \/ Retry \/ Crash
    <2>1. now' = now /\ store' = store /\ views' = views /\ plan' = plan /\ feed > 0
      BY <1>0, <1>3, FetchShape DEF world
    <2> QED
      BY <2>1 DEF ViewInv, ViewReplays, Features
  <1>4. CASE Write
    <2>1. /\ now' = now /\ views' = views /\ plan' = plan /\ feed > 0 /\ feed' = feed
          /\ results[1] \in FetchType /\ store' = Stored(results[1])
      BY <1>0, <1>4, WriteIs
    <2>2. PICK f \in FetchType : f = results[1]
      BY <2>1
    <2>3. ASSUME NEW v \in views, NEW s \in DOMAIN v.features
          PROVE  LET again == Features(store', v.at)[s] IN
                    \/ again = v.features[s]
                    \/ \E r \in again : r.revision = 0 /\ \A q \in v.features[s] : q.release < r.release
      <3>1. PICK k : k = [kind |-> s.kind, item |-> s.item]
        OBVIOUS
      <3>2. s \in {x \in Specs : x.kind \in Range(plan)} /\ v.at < now /\ v.at \in Nat
        BY <1>a, <2>1 DEF ViewInv
      <3>3. /\ Features(store, v.at)[s] = AsOf(store, k, v.at)
            /\ Features(Stored(f), v.at)[s] = AsOf(Stored(f), k, v.at)
        BY <3>1, <3>2, FeaturesAre
      <3>4. PICK said \in SUBSET RowType : said = v.features[s]
        BY <2>3 DEF ViewInv
      <3>5. \/ AsOf(store, k, v.at) = said
            \/ \E r \in AsOf(store, k, v.at) : r.revision = 0 /\ \A q \in said : q.release < r.release
        BY <2>3, <3>3, <3>4 DEF ViewInv, ViewReplays
      <3>6. \/ AsOf(Stored(f), k, v.at) = said
            \/ \E r \in AsOf(Stored(f), k, v.at) :
                  r.revision = 0 /\ \A q \in said : q.release < r.release
        BY <1>0, <3>2, <3>5, WriteReplays
      <3> QED
        BY <2>1, <2>2, <3>3, <3>4, <3>6
    <2>4. ViewReplays'
      <3> SUFFICES ASSUME NEW v \in views, NEW s \in DOMAIN v.features
                   PROVE  LET again == Features(store, v.at)'[s] IN
                    \/ again = v.features[s]
                    \/ \E r \in again : r.revision = 0 /\ \A q \in v.features[s] : q.release < r.release
        BY <2>1 DEF ViewReplays
      <3>1. Features(store, v.at)' = Features(store', v.at)
        BY <2>1 DEF Features
      <3> QED
        BY <2>3, <3>1
    <2> QED
      BY <2>1, <2>4 DEF ViewInv
  <1>5. CASE BuildView
    <2>1. /\ feed = 0 /\ UNCHANGED <<now, run, store>>
          /\ views' = views \cup {[at |-> now, features |-> Features(store, now)]}
      BY <1>5 DEF BuildView
    <2>2. PICK w : w = [at |-> now, features |-> Features(store, now)]
      OBVIOUS
    <2>3. /\ DOMAIN w.features = {s \in Specs : s.kind \in Range(plan)}
          /\ \A s \in DOMAIN w.features : /\ w.features[s] \subseteq RowType
                                          /\ Features(store, w.at)[s] = w.features[s]
      <3>1. \A s \in {s \in Specs : s.kind \in Range(plan)} :
               w.features[s] = AsOf(store, [kind |-> s.kind, item |-> s.item], now)
        BY <2>2, FeaturesAre
      <3>2. \A k : AsOf(store, k, now) \subseteq RowType
        BY <1>0, AsOfIs DEF Eligible, TypeOK
      <3>3. w.features = Features(store, now) /\ w.at = now
        BY <2>2
      <3>4. DOMAIN w.features = {s \in Specs : s.kind \in Range(plan)}
        <4>1. DOMAIN Features(store, now) = {s \in Specs : s.kind \in Range(plan)}
          BY FeaturesAre
        <4> QED
          BY <3>3, <4>1, Zenon
      <3>5. \A s \in DOMAIN w.features : w.features[s] \subseteq RowType
        BY <3>1, <3>2, <3>4
      <3>6. Features(store, w.at) = w.features
        BY <3>3
      <3> QED
        BY <3>4, <3>5, <3>6
    <2>4. feed' = 0 /\ plan' = plan /\ store' = store
      BY <2>1 DEF run
    <2>5. ASSUME NEW v \in views'
          PROVE  /\ DOMAIN v.features = {s \in Specs : s.kind \in Range(plan)}
                 /\ \A s \in DOMAIN v.features :
                       /\ v.features[s] \subseteq RowType
                       /\ \/ Features(store, v.at)[s] = v.features[s]
                          \/ \E r \in Features(store, v.at)[s] :
                                r.revision = 0 /\ \A q \in v.features[s] : q.release < r.release
      <3>1. CASE v \in views
        BY <3>1 DEF ViewInv, ViewReplays
      <3>2. CASE v = w
        BY <2>3, <3>2
      <3> QED
        BY <2>1, <2>2, <3>1, <3>2
    <2>6. \A t : Features(store, t)' = Features(store, t)
      BY <2>4 DEF Features
    <2>7. ~ (feed' > 0)
      BY <2>4
    <2> QED
      BY <2>4, <2>5, <2>6, <2>7 DEF ViewInv, ViewReplays
  <1>6. CASE UNCHANGED vars
    BY <1>6 DEF vars, run, ViewInv, ViewReplays, Features
  <1> QED
    BY <1>1, <1>2, <1>3, <1>4, <1>5, <1>6, StepIs

-----------------------------------------------------------------------------
(***************************************************************************)
(* Where what is stored comes from.                                        *)
(***************************************************************************)
LEMMA SaidLater ==
    ASSUME TypeOK, NEW k, NEW payload, NEW by \in Nat, NEW later \in Nat, by <= later,
           Said(k, payload, by)
    PROVE  Said(k, payload, later)
  <1>1. PICK e \in log : e.key = k /\ e.payload = payload /\ e.at <= by
    BY DEF Said
  <1>2. e.at \in Nat
    BY DEF TypeOK
  <1> QED
    BY <1>1, <1>2 DEF Said

LEMMA OriginInit == Init => OriginInv
  <1> SUFFICES ASSUME Init PROVE OriginInv
    OBVIOUS
  <1>1. /\ pub = [k \in Keys |-> [release |-> 1, payload |-> 1]]
        /\ log = {[key |-> k, payload |-> 1, at |-> 1] : k \in Keys}
        /\ results = <<>> /\ store = {}
    BY DEF Init
  <1>2. \A k \in Keys : Said(k, 1, 1)
    <2> SUFFICES ASSUME NEW k \in Keys PROVE Said(k, 1, 1)
      OBVIOUS
    <2>1. PICK e \in log : e = [key |-> k, payload |-> 1, at |-> 1]
      BY <1>1
    <2> QED
      BY <2>1 DEF Said
  <1>3. \A k \in Keys : pub[k].release = 1 /\ pub[k].payload = 1
    BY <1>1
  <1> QED
    BY <1>1, <1>2, <1>3 DEF OriginInv

LEMMA OriginNext ==
    ASSUME TypeInv, RunInv, PublisherInv, DatedInv, OriginInv, [Next]_vars
    PROVE  OriginInv'
  <1>0. TypeOK /\ now \in Nat /\ IsFiniteSet(log) /\ now >= 1
    BY TypeFacts DEF TypeInv, TypeOK
  <1>a. ASSUME NEW k, NEW payload, NEW by, log \subseteq log', Said(k, payload, by)
        PROVE  Said(k, payload, by)'
    BY <1>a DEF Said
  <1>b. SelfDating \cap (Corrects \cup {"fred"}) = {}
    BY DEF SelfDating
  <1>1. CASE NewRelease \/ Correct
    <2>1. PICK k \in Keys, release \in 1..(now + 1), payload \in Nat \ {0} :
              /\ pub' = [pub EXCEPT ![k] = [release |-> release, payload |-> payload]]
              /\ log' = log \cup {[key |-> k, payload |-> payload, at |-> now + 1]}
              /\ k.kind \notin Corrects => release = now + 1
      BY <1>0, <1>1, LogGrows
    <2>2. /\ store' = store /\ results' = results /\ plan' = plan /\ Kind' = Kind
          /\ Keys' = Keys
      BY <1>0, <1>1, PublishIs DEF run, Kind, Keys
    <2>3. log \subseteq log'
      BY <2>1
    <2>4. ASSUME NEW j \in Keys, j.kind \in SelfDating
          PROVE  \E e \in log' : /\ e.key = j /\ e.payload = pub'[j].payload
                                 /\ e.at <= pub'[j].release
      <3>1. CASE j = k
        <4>1. pub'[j].payload = payload /\ pub'[j].release = now + 1
          BY <1>b, <2>1, <2>4, <3>1 DEF TypeOK, TypeInv
        <4>2. PICK e \in log' : e = [key |-> k, payload |-> payload, at |-> now + 1]
          BY <2>1
        <4>3. e.key = j /\ e.payload = payload /\ e.at <= now + 1
          BY <1>0, <3>1, <4>2
        <4> QED
          BY <4>1, <4>3
      <3>2. CASE j # k
        <4>1. pub'[j] = pub[j]
          BY <1>0, <2>1, <3>2 DEF TypeOK
        <4>2. Said(j, pub[j].payload, pub[j].release)
          BY <2>4 DEF OriginInv
        <4> QED
          BY <2>3, <4>1, <4>2 DEF Said
      <3> QED
        BY <3>1, <3>2
    <2>5. \A j, p, t : Said(j, p, t) => Said(j, p, t)'
      BY <1>a, <2>3
    <2>6. \A j \in Keys : j.kind \in SelfDating => Said(j, pub[j].payload, pub[j].release)'
      BY <2>4 DEF Said
    <2>7. \A r : KnownBy(r)' = KnownBy(r)
      BY DEF KnownBy
    <2>8. \A n \in DOMAIN results : Kind \in SelfDating =>
             Said(results[n].key, results[n].payload, results[n].release)'
      BY <2>2, <2>3 DEF OriginInv, Said
    <2>9. \A r \in store : r.key.kind \in SelfDating => Said(r.key, r.payload, KnownBy(r))'
      BY <2>3 DEF OriginInv, Said, KnownBy
    <2> QED
      BY <2>2, <2>5, <2>6, <2>7, <2>8, <2>9 DEF OriginInv
  <1>2. CASE ~ (NewRelease \/ Correct)
    <2>1. log' = log /\ pub' = pub /\ plan' = plan
      BY <1>0, <1>2, StepIs, FetchShape DEF StartRun, BuildView, vars, world, Write, run
    <2>2. \A j, p, t : Said(j, p, t)' = Said(j, p, t)
      BY <2>1 DEF Said
    <2>3. Keys' = Keys
      BY <2>1 DEF Keys
    <2>4. CASE StartRun \/ BuildView \/ UNCHANGED vars
      <3>1. store' = store /\ (results' = <<>> \/ (results' = results /\ Kind' = Kind))
        BY <2>1, <2>4 DEF StartRun, StartFetch, BuildView, vars, run, Kind
      <3>2. results' = <<>> => DOMAIN results' = {}
        OBVIOUS
      <3> QED
        BY <2>1, <2>2, <2>3, <3>1, <3>2 DEF OriginInv, KnownBy
    <2>5. CASE Answered \/ Failed \/ Encoded \/ NotPrimary \/ Written \/ Retry \/ Crash
      <3>1. feed > 0 /\ store' = store /\ (Reads \/ Goes \/ Done \/ Ends \/ Stays)
        BY <1>0, <2>5, FetchShape DEF world
      <3>2. ASSUME NEW rs, Gets(rs), NEW n \in DOMAIN rs
            PROVE  /\ Kind \in Calendars => rs[n].payload = 1
                   /\ Kind \in SelfDating => Said(rs[n].key, rs[n].payload, rs[n].release)
        <4>1. CASE n \in DOMAIN results
          <5>1. rs[n] = results[n]
            BY <1>0, <3>1, <3>2, <4>1, GetsInOrder
          <5> QED
            BY <4>1, <5>1 DEF OriginInv
        <4>2. CASE n \notin DOMAIN results
          <5>1. PICK dated \in BOOLEAN : /\ dated \/ Kind \in Undated
                                         /\ rs[n] = Fetched(dated)
            BY <1>0, <3>1, <3>2, <4>2, GetsInOrder
          <5>2. ~writing /\ req <= Len(Requests(Kind)) /\ DataRequest(Request)
            BY <3>2 DEF Gets
          <5>3. PICK k \in Keys : k = [kind |-> Kind, item |-> Request.item]
            BY <1>0, <3>1, <5>2, FetchedType
          <5>4. k.kind = Kind
            BY <5>3
          <5>5. rs[n].key = k /\ rs[n].payload = pub[k].payload /\ rs[n].release = ReleaseOf(dated)
            BY <1>0, <3>1, <5>1, <5>2, <5>3, FetchedType
          <5>6. Kind \in SelfDating => Said(k, pub[k].payload, ReleaseOf(dated))
            <6> SUFFICES ASSUME Kind \in SelfDating
                         PROVE  Said(k, pub[k].payload, ReleaseOf(dated))
              OBVIOUS
            <6>1. Said(k, pub[k].payload, pub[k].release)
              BY <5>4 DEF OriginInv
            <6>2. pub[k].release \in 1..now /\ Kind # "fred"
              BY <1>b DEF PublisherInv
            <6>3. ReleaseOf(dated) = now \/ ReleaseOf(dated) = pub[k].release
              BY <5>3, <6>2 DEF ReleaseOf
            <6> QED
              BY <1>0, <6>1, <6>2, <6>3, SaidLater
          <5> QED
            BY <5>4, <5>5, <5>6 DEF PublisherInv
        <4> QED
          BY <4>1, <4>2
      <3>3. \A n \in DOMAIN results' :
               /\ Kind' \in Calendars => results'[n].payload = 1
               /\ Kind' \in SelfDating => Said(results'[n].key, results'[n].payload, results'[n].release)
        <4>1. CASE Reads \/ Stays
          BY <2>1, <4>1 DEF Reads, Stays, OriginInv, Kind
        <4>2. CASE Goes
          <5>1. Kind' = Kind
            BY <2>1, <4>2 DEF Goes, Kind
          <5> QED
            BY <3>2, <4>2, <5>1 DEF Goes, OriginInv
        <4>3. CASE Done
          <5>1. Kind' = Kind
            BY <2>1, <4>3 DEF Done, Kind
          <5>2. CASE results' = <<>>
            BY <5>2
          <5>3. CASE Kind \in Calendars /\ results' = CalendarResults
            <6> SUFFICES ASSUME NEW n \in DOMAIN CalendarResults
                         PROVE  /\ CalendarResults[n].payload = 1
                                /\ Said(CalendarResults[n].key, CalendarResults[n].payload,
                                        CalendarResults[n].release)
              BY <5>1, <5>3
            <6>1. PICK k \in Keys : k = CalendarResults[n].key
              BY <1>0, <3>1, <5>3, CalendarFacts
            <6>2. PICK t : t = CalendarResults[n].release
              OBVIOUS
            <6>3. t \in Nat /\ t >= 1
              <7>1. CalendarResults[n] \in FetchType
                BY <1>0, <3>1, <5>3, CalendarFacts
              <7>2. CalendarResults[n].release >= 1
                BY <1>0, <3>1, <5>3, CalendarFacts
              <7> QED
                BY <6>2, <7>1, <7>2 DEF FetchType
            <6>4. Said(k, 1, 1)
              BY DEF OriginInv
            <6>5. Said(k, 1, t)
              BY <1>0, <6>3, <6>4, SaidLater
            <6> QED
              BY <1>0, <3>1, <5>3, <6>1, <6>2, <6>5, CalendarFacts
          <5> QED
            BY <3>2, <4>3, <5>1, <5>2, <5>3 DEF Done, OriginInv
        <4>4. CASE Ends
          BY <4>4 DEF Ends, StartFetch
        <4> QED
          BY <3>1, <4>1, <4>2, <4>3, <4>4
      <3> QED
        BY <2>1, <2>2, <2>3, <3>1, <3>3 DEF OriginInv, KnownBy
    <2>6. CASE Write
      <3>1. /\ Kind' = Kind /\ 1 \in DOMAIN results
            /\ \A n \in DOMAIN results' : n + 1 \in DOMAIN results /\ results'[n] = results[n + 1]
        BY <1>0, <2>6, WriteIs
      <3>2. PICK f \in FetchType : /\ f = results[1] /\ f.key.kind = Kind /\ f.key \in Keys
                                   /\ store' = Stored(f)
        BY <1>0, <2>6, WriteIs
      <3>3. /\ Kind \in Calendars => f.payload = 1
            /\ Kind \in SelfDating => Said(f.key, f.payload, f.release)
            /\ Kind \notin Calendars => f.release <= now
            /\ f.release \in Nat
        BY <3>1, <3>2 DEF OriginInv, DatedInv, FetchType
      <3>4. Kind \in SelfDating => Said(f.key, f.payload, now)
        <4>1. CASE Kind \in Calendars
          <5>1. Said(f.key, 1, 1)
            BY <3>2 DEF OriginInv
          <5> QED
            BY <1>0, <3>3, <4>1, <5>1, SaidLater
        <4>2. CASE Kind \notin Calendars
          BY <1>0, <3>3, <4>2, SaidLater
        <4> QED
          BY <4>1, <4>2
      <3>5. ASSUME NEW r \in store', r.key.kind \in SelfDating
            PROVE  Said(r.key, r.payload, KnownBy(r))
        <4>1. CASE r \in store
          BY <3>5, <4>1 DEF OriginInv
        <4>2. CASE r = Row(f, 0)
          <5>1. r.key = f.key /\ r.payload = f.payload /\ KnownBy(r) = f.release
            BY <1>0, <4>2, RowIs DEF TypeOK
          <5> QED
            BY <3>2, <3>3, <3>5, <5>1
        <4>3. CASE r = Row(f, now)
          <5>1. r.key = f.key /\ r.payload = f.payload /\ KnownBy(r) = now
            BY <1>0, <4>3, RowIs DEF TypeOK
          <5> QED
            BY <3>2, <3>4, <3>5, <5>1
        <4> QED
          BY <3>2, <4>1, <4>2, <4>3, StoredIs
      <3> QED
        BY <2>1, <2>2, <2>3, <3>1, <3>5 DEF OriginInv, KnownBy
    <2> QED
      BY <1>2, <2>4, <2>5, <2>6, StepIs
  <1> QED
    BY <1>1, <1>2

-----------------------------------------------------------------------------
(***************************************************************************)
(* What the store serves.                                                  *)
(***************************************************************************)
\* What a fetch gets is the publisher's last word, dated no earlier than what
\* it replaces.
GoodResult(f) ==
    /\ last[f.key] <= f.payload /\ 1 <= f.payload /\ f.payload <= pub[f.key].payload
    /\ Kind \notin Calendars =>
          /\ Behind(f.key, f.payload, f.release)
          /\ f.payload < pub[f.key].payload \/ Kind \notin Undated
                => f.release <= pub[f.key].release

LEMMA FetchedIsGood ==
    ASSUME TypeOK, PublisherInv, DatedInv, ServeInv, feed > 0, ~writing,
           req <= Len(Requests(Kind)), DataRequest(Request),
           NEW dated \in BOOLEAN, dated \/ Kind \in Undated
    PROVE  GoodResult(Fetched(dated))
  <1>1. PICK k \in Keys : k = [kind |-> Kind, item |-> Request.item]
    BY FetchedType
  <1>2. PICK f \in FetchType : /\ f = Fetched(dated) /\ f.key = k /\ f.payload = pub[k].payload
                               /\ f.release = ReleaseOf(dated)
    BY <1>1, FetchedType
  <1>3. /\ pub[k].payload \in Nat /\ pub[k].payload >= 1 /\ last[k] <= pub[k].payload
        /\ pub[k].release \in 1..now /\ now \in Nat
    <2>1. pub[k].payload \in 1..Cardinality(LogOf(k)) /\ Cardinality(LogOf(k)) \in Nat
      BY LogCount DEF PublisherInv
    <2>2. last[k] <= pub[k].payload
      BY DEF ServeInv
    <2>3. pub[k].release \in 1..now
      BY DEF PublisherInv
    <2> QED
      BY <2>1, <2>2, <2>3, TypeFacts
  <1>4. k.kind = Kind /\ Kind \in Kinds /\ Kind \notin Calendars
    <2>1. Requests(Kind) # <<>> /\ Kind \in Kinds
      BY RequestKey, KindOf
    <2> QED
      BY <1>1, <2>1, RequestFacts
  <1>5. CASE ~dated
    <2>1. f.release = now /\ Kind \in Undated
      BY <1>2, <1>5 DEF ReleaseOf
    <2>2. \A r \in RowsOf(k) : r.release <= now
      BY <1>4 DEF RowsOf, DatedInv
    <2> QED
      BY <1>2, <1>3, <2>1, <2>2 DEF GoodResult, Behind
  <1>6. CASE dated /\ Kind = "fred"
    <2>1. f.release = meta.release
      BY <1>2, <1>6 DEF ReleaseOf
    <2>2. Announced(k)
      <3>1. Request = Get("item", k.item)
        <4>1. Request \in RequestType /\ Request.what = "item"
          <5>1. req \in 1..Len(Requests(Kind)) /\ Requests(Kind) \in Seq(RequestType)
            BY <1>4, RequestKey, RequestFacts
          <5>2. Request.what \in {"item", "meta"}
            BY <1>4, <1>6, <5>1, RequestFacts DEF Request
          <5> QED
            BY <5>1, <5>2 DEF Request, DataRequest
        <4>2. k.item = Request.item
          BY <1>1
        <4> QED
          BY <4>1, <4>2 DEF RequestType, Get
      <3> QED
        BY <1>4, <1>6, <3>1 DEF Announced
    <2>3. (\A r \in RowsOf(k) : r.release <= meta.release) /\ meta.release <= pub[k].release
      BY <1>4, <2>2 DEF ServeInv
    <2> QED
      BY <1>2, <1>3, <2>1, <2>3 DEF GoodResult, Behind
  <1>7. CASE dated /\ Kind # "fred"
    <2>1. f.release = pub[k].release
      BY <1>1, <1>2, <1>7 DEF ReleaseOf
    <2>2. Behind(k, pub[k].payload, pub[k].release)
      BY <1>4 DEF ServeInv
    <2> QED
      BY <1>2, <1>3, <2>1, <2>2 DEF GoodResult, Behind
  <1> QED
    BY <1>5, <1>6, <1>7

LEMMA CalendarIsGood ==
    ASSUME TypeOK, PublisherInv, ServeInv, feed > 0, Kind \in Calendars,
           NEW n \in DOMAIN CalendarResults
    PROVE  GoodResult(CalendarResults[n])
  <1>1. PICK f : f = CalendarResults[n] /\ f.key \in Keys /\ f.payload = 1 /\ f.key.kind = Kind
    <2>1. /\ CalendarResults[n].key = [kind |-> Kind, item |-> n]
          /\ CalendarResults[n].key \in Keys /\ CalendarResults[n].payload = 1
      BY CalendarFacts
    <2>2. CalendarResults[n].key.kind = Kind
      BY <2>1
    <2> QED
      BY <2>1, <2>2
  <1>2. pub[f.key].payload = 1 /\ last[f.key] <= pub[f.key].payload
    BY <1>1 DEF PublisherInv, ServeInv
  <1> QED
    BY <1>1, <1>2 DEF GoodResult

\* A fetch's steps change neither the store nor what was written.
LEMMA ServeFetch ==
    ASSUME TypeOK, RunInv, PublisherInv, DatedInv, ServeInv, feed > 0, UNCHANGED world,
           Reads \/ Goes \/ Done \/ Ends \/ Stays
    PROVE  ServeInv'
  <1>1. /\ Kind \in Kinds /\ Kind \in Range(plan) /\ feed \in 1..Len(plan)
        /\ Requests(Kind) \in Seq(RequestType) /\ Len(plan) \in Nat
        /\ plan \in Plans /\ Keys' = Keys
    BY KindOf, RequestFacts, Plans0 DEF TypeOK, world, Keys
  <1>2. ASSUME NEW rs, Gets(rs), NEW n \in DOMAIN rs PROVE GoodResult(rs[n])
    <2>1. CASE n \in DOMAIN results
      BY <1>2, <2>1, GetsInOrder DEF ServeInv, GoodResult
    <2>2. CASE n \notin DOMAIN results
      <3>1. PICK dated \in BOOLEAN : (dated \/ Kind \in Undated) /\ rs[n] = Fetched(dated)
        BY <1>2, <2>2, GetsInOrder
      <3> QED
        BY <1>2, <3>1, FetchedIsGood DEF Gets
    <2> QED
      BY <2>1, <2>2
  <1>3. \A n \in DOMAIN results' : Kind' = Kind /\ GoodResult(results'[n])
    <2>1. CASE Reads \/ Stays
      BY <2>1 DEF Reads, Stays, ServeInv, GoodResult, Kind, world
    <2>2. CASE Goes
      <3>1. Kind' = Kind
        BY <2>2 DEF Goes, Kind, world
      <3> QED
        BY <1>2, <2>2, <3>1 DEF Goes, ServeInv, GoodResult
    <2>3. CASE Done
      <3>1. Kind' = Kind
        BY <2>3 DEF Done, Kind, world
      <3>2. CASE results' = <<>>
        BY <3>2
      <3>3. CASE Kind \in Calendars /\ results' = CalendarResults
        BY <3>1, <3>3, CalendarIsGood
      <3>4. CASE results' = results
        BY <3>1, <3>4 DEF ServeInv, GoodResult
      <3> QED
        BY <1>2, <2>3, <3>1, <3>2, <3>3, <3>4 DEF Done
    <2>4. CASE Ends
      BY <2>4 DEF Ends, StartFetch
    <2> QED
      BY <2>1, <2>2, <2>3, <2>4
  <1>4. ASSUME NEW k \in Keys, k.kind \notin Calendars, Announced(k)'
        PROVE  (\A r \in RowsOf(k) : r.release <= meta'.release) /\ meta'.release <= pub[k].release
    <2>0. /\ feed' > 0 /\ ~writing' /\ k.kind = "fred" /\ plan[feed'] = "fred"
          /\ Requests("fred")[req'] = Get("item", k.item)
      BY <1>4 DEF Announced, Kind, Request, world
    <2>1. CASE Reads
      <3>1. /\ Kind = "fred" /\ req' = req + 1 /\ ~ DataRequest(Request)
            /\ ~writing /\ req < Len(Requests(Kind))
        BY <2>0, <2>1 DEF Reads, Kind
      <3>2. req \in 1..Len(Requests(Kind)) /\ req <= Len(Requests(Kind))
        BY <1>1, <3>1 DEF TypeOK
      <3>3. Request.what = "meta"
        BY <1>1, <3>1, <3>2, RequestFacts DEF Request, DataRequest
      <3>4. Get("item", k.item) = Get("item", Request.item)
        BY <1>1, <2>0, <3>1, <3>2, <3>3, RequestFacts DEF Request
      <3>5. k.item = Request.item
        BY <3>4 DEF Get
      <3>6. k = [kind |-> Kind, item |-> Request.item]
        BY <2>0, <3>1, <3>5, KeysAre
      <3>7. meta' = pub[k]
        BY <2>1, <3>3, <3>6 DEF Reads
      <3>8. \A r \in RowsOf(k) : r.release <= pub[k].release
        BY <1>4, <2>0 DEF ServeInv, Undated
      <3> QED
        BY <3>7, <3>8, TypeFacts
    <2>2. CASE Goes
      <3>1. Kind = "fred" /\ Gets(results') /\ req' = req + 1 /\ req + 1 <= Len(Requests(Kind))
        BY <2>0, <2>2 DEF Goes, Kind
      <3>2. req \in 1..Len(Requests(Kind)) - 1 /\ DataRequest(Request)
        BY <1>1, <3>1 DEF TypeOK, Gets
      <3>3. Request.what = "item"
        BY <1>1, <3>1, <3>2, RequestFacts DEF Request, DataRequest
      <3>4. Requests(Kind)[req + 1].what = "meta"
        BY <1>1, <3>1, <3>2, <3>3, RequestFacts DEF Request
      <3> QED
        BY <2>0, <3>1, <3>4 DEF Get
    <2>3. CASE Done
      <3>1. writing' = TRUE
        BY <2>3 DEF Done
      <3>2. writing'
        BY <3>1, Zenon
      <3> QED
        BY <2>0, <3>2
    <2>4. CASE Ends
      <3>1. req' = 1 /\ "fred" \in Kinds
        BY <2>4 DEF Ends, StartFetch, Kinds
      <3>2. Requests("fred")[1].what = "meta"
        BY <3>1, RequestFacts
      <3> QED
        BY <2>0, <3>1, <3>2 DEF Get
    <2>5. CASE Stays
      <3>1. Announced(k) /\ meta' = meta
        BY <1>4, <2>5 DEF Stays, Announced, Kind, Request, world
      <3> QED
        BY <1>4, <3>1 DEF ServeInv
    <2> QED
      BY <2>1, <2>2, <2>3, <2>4, <2>5
  <1>5. store' = store /\ last' = last /\ pub' = pub
    BY DEF world
  <1>6. \A k : RowsOf(k)' = RowsOf(k)
    BY <1>5 DEF RowsOf
  <1>7. \A r : Top(r)' = Top(r)
    BY <1>5 DEF Top, RowsOf, KnownBy
  <1>8. \A k, p, t : Behind(k, p, t)' = Behind(k, p, t)
    BY <1>6 DEF Behind
  <1>9. \A n \in DOMAIN results' :
          LET f == results'[n] IN
          /\ last[f.key] <= f.payload /\ 1 <= f.payload /\ f.payload <= pub[f.key].payload
          /\ Kind' \notin Calendars =>
                /\ \A r \in RowsOf(f.key) : r.payload < f.payload => r.release <= f.release
                /\ f.payload < pub[f.key].payload \/ Kind' \notin Undated
                      => f.release <= pub[f.key].release
    BY <1>3 DEF GoodResult, Behind
  <1> QED
    BY <1>1, <1>4, <1>5, <1>6, <1>7, <1>8, <1>9 DEF ServeInv, Behind

\* What is published next is newer than all that was stored or fetched, and is
\* not dated before it.
LEMMA ServePublish ==
    ASSUME ~Reverts, TypeOK, RunInv, PublisherInv, DatedInv, ServeInv, NewRelease \/ Correct
    PROVE  ServeInv'
  <1>1. PICK k \in Keys, release \in 1..(now + 1), payload \in Nat \ {0} :
          /\ pub' = [pub EXCEPT ![k] = [release |-> release, payload |-> payload]]
          /\ k.kind \notin Calendars /\ release >= pub[k].release
          /\ payload = Cardinality(LogOf(k)) + 1
          /\ k.kind \notin Corrects => release = now + 1
    BY LogGrows
  <1>2. /\ store' = store /\ last' = last /\ Kind' = Kind /\ results' = results
        /\ feed' = feed /\ meta' = meta /\ writing' = writing /\ req' = req
        /\ Keys' = Keys
    BY PublishIs DEF run, Kind, Keys, PublisherInv
  <1>3. /\ \A j \in Keys : j # k => pub'[j] = pub[j]
        /\ pub'[k].release = release /\ pub'[k].payload = payload
    BY <1>1 DEF TypeOK
  <1>4. /\ now \in Nat /\ pub[k].payload \in Nat /\ pub[k].release \in Nat
        /\ release \in Nat /\ release <= now + 1 /\ payload \in Nat
    BY <1>1, TypeFacts
  <1>5. pub[k].payload < payload
    <2>1. pub[k].payload \in 1..Cardinality(LogOf(k)) /\ Cardinality(LogOf(k)) \in Nat
      BY LogCount DEF PublisherInv
    <2> QED
      BY <1>1, <2>1
  <1>6. \A r \in RowsOf(k) : r.release <= release
    <2> SUFFICES ASSUME NEW r \in RowsOf(k) PROVE r.release <= release
      OBVIOUS
    <2>1. r \in store /\ r.key = k /\ r.release \in Nat
      BY TypeFacts DEF RowsOf
    <2>2. CASE k.kind \in Corrects
      <3>1. k.kind \notin Undated
        BY <2>2 DEF Corrects, Undated
      <3>2. r.release <= pub[k].release
        BY <1>1, <3>1 DEF ServeInv
      <3> QED
        BY <1>1, <1>4, <2>1, <3>2
    <2>3. CASE k.kind \notin Corrects
      <3>1. r.release <= now
        BY <1>1, <2>1 DEF DatedInv
      <3> QED
        BY <1>1, <1>4, <2>1, <2>3, <3>1
    <2> QED
      BY <2>2, <2>3
  <1>7. \A j \in Keys : last[j] <= pub'[j].payload
    <2>1. \A j \in Keys : last[j] <= pub[j].payload /\ last[j] \in Nat
      BY TypeFacts DEF ServeInv
    <2> QED
      BY <1>3, <1>4, <1>5, <2>1
  <1>8. ASSUME NEW j \in Keys, j.kind \notin Calendars
        PROVE  /\ Behind(j, pub'[j].payload, pub'[j].release)
               /\ j.kind \notin Undated => \A r \in RowsOf(j) : r.release <= pub'[j].release
               /\ Announced(j) => /\ \A r \in RowsOf(j) : r.release <= meta.release
                                  /\ meta.release <= pub'[j].release
    <2>1. /\ Behind(j, pub[j].payload, pub[j].release)
          /\ j.kind \notin Undated => \A r \in RowsOf(j) : r.release <= pub[j].release
          /\ Announced(j) => /\ \A r \in RowsOf(j) : r.release <= meta.release
                             /\ meta.release <= pub[j].release
      BY <1>8 DEF ServeInv
    <2>2. CASE j # k
      BY <1>3, <2>1, <2>2
    <2>3. CASE j = k
      <3>1. Announced(j) => meta.release <= release
        BY <1>1, <1>4, <2>1, <2>3, TypeFacts
      <3> QED
        BY <1>3, <1>6, <2>1, <2>3, <3>1 DEF Behind
    <2> QED
      BY <2>2, <2>3
  <1>9. ASSUME NEW n \in DOMAIN results, NEW f, f = results[n]
        PROVE  /\ last[f.key] <= f.payload /\ 1 <= f.payload /\ f.payload <= pub'[f.key].payload
               /\ Kind \notin Calendars =>
                    /\ Behind(f.key, f.payload, f.release)
                    /\ f.payload < pub'[f.key].payload \/ Kind \notin Undated
                          => f.release <= pub'[f.key].release
    <2>1. /\ last[f.key] <= f.payload /\ 1 <= f.payload /\ f.payload <= pub[f.key].payload
          /\ Kind \notin Calendars =>
                    /\ Behind(f.key, f.payload, f.release)
                    /\ f.payload < pub[f.key].payload \/ Kind \notin Undated
                          => f.release <= pub[f.key].release
      BY <1>9 DEF ServeInv
    <2>2. f.key \in Keys /\ f.key.kind = Kind /\ f.payload \in Nat /\ f.release \in Nat
      BY <1>9, TypeFacts DEF RunInv
    <2>3. CASE f.key # k
      BY <1>3, <2>1, <2>2, <2>3
    <2>4. CASE f.key = k
      <3>1. f.release <= release
        <4>1. CASE k.kind \in Corrects
          <5>1. Kind \notin Undated
            BY <2>2, <2>4, <4>1 DEF Corrects, Undated
          <5>2. f.release <= pub[k].release
            BY <1>1, <2>1, <2>2, <2>4, <5>1
          <5> QED
            BY <1>1, <1>4, <2>2, <5>2
        <4>2. CASE k.kind \notin Corrects
          <5>1. f.release <= now
            BY <1>1, <1>9, <2>2, <2>4 DEF DatedInv
          <5> QED
            BY <1>1, <1>4, <2>2, <4>2, <5>1
        <4> QED
          BY <4>1, <4>2
      <3>2. f.payload <= payload
        BY <1>4, <1>5, <2>1, <2>2, <2>4
      <3> QED
        BY <1>3, <2>1, <2>4, <3>1, <3>2
    <2> QED
      BY <2>3, <2>4
  <1>10. \A j : RowsOf(j)' = RowsOf(j)
    BY <1>2 DEF RowsOf
  <1>11. \A r : Top(r)' = Top(r)
    BY <1>2 DEF Top, RowsOf, KnownBy
  <1>12. \A j : Announced(j)' = Announced(j)
    BY <1>2 DEF Announced, Request
  <1> QED
    BY <1>2, <1>7, <1>8, <1>9, <1>10, <1>11, <1>12 DEF ServeInv, Behind

\* A write makes its payload the one served: as a newer release, or as the
\* newest revision of the release it belongs to.
LEMMA ServeWrite ==
    ASSUME OnceEach, TypeOK, RunInv, PublisherInv, DatedInv, ClockInv, SlotInv, OriginInv, ServeInv,
           Write
    PROVE  ServeInv'
  <1>1. /\ feed > 0 /\ writing /\ feed' = feed /\ writing' = writing /\ plan' = plan
        /\ pub' = pub /\ meta' = meta /\ now' = now /\ req' = req
        /\ 1 \in DOMAIN results
        /\ \A n \in DOMAIN results' : n + 1 \in DOMAIN results /\ results'[n] = results[n + 1]
        /\ Keys' = Keys /\ Kind' = Kind
    BY WriteIs
  <1>2. PICK f \in FetchType :
          /\ f = results[1] /\ f.key \in Keys /\ f.key.kind = Kind
          /\ store' = Stored(f)
          /\ last' = [last EXCEPT ![f.key] = f.payload]
          /\ \A n \in DOMAIN results' : results'[n].key # f.key
    BY WriteIs
  <1>3. PICK k \in Keys : k = f.key
    BY <1>2
  <1>4. /\ last[k] <= f.payload /\ 1 <= f.payload /\ f.payload <= pub[k].payload
        /\ k.kind \notin Calendars =>
              /\ Behind(k, f.payload, f.release)
              /\ f.payload < pub[k].payload \/ k.kind \notin Undated => f.release <= pub[k].release
    BY <1>1, <1>2, <1>3 DEF ServeInv
  <1>5. /\ now \in Nat /\ f.payload \in Nat /\ f.release \in Nat /\ last[k] \in Nat
        /\ pub[k].payload \in Nat /\ pub[k].release \in Nat
        /\ \A r \in store : r.release \in Nat /\ r.revision \in Nat /\ r.payload \in Nat
                            /\ r.key \in Keys
    BY TypeFacts DEF FetchType
  <1>6. /\ last'[k] = f.payload /\ \A j \in Keys : j # k => last'[j] = last[j]
    BY <1>2, <1>3 DEF TypeOK
  <1>7. /\ Row(f, 0).key = k /\ Row(f, 0).release = f.release /\ Row(f, 0).payload = f.payload
        /\ Row(f, now).key = k /\ Row(f, now).release = f.release /\ Row(f, now).payload = f.payload
        /\ KnownBy(Row(f, now)) = now \/ now = 0
    BY <1>3, <1>5, RowIs DEF TypeOK
  <1>8. /\ store \subseteq store' /\ \A r \in store' : r \in store \/
              (r.key = k /\ r.release = f.release /\ r.payload = f.payload)
    BY <1>2, <1>7, StoredIs
  <1>9. \A r \in store' : 1 <= r.payload /\ r.payload <= last'[r.key]
    <2> SUFFICES ASSUME NEW r \in store' PROVE 1 <= r.payload /\ r.payload <= last'[r.key]
      OBVIOUS
    <2>1. CASE r \in store
      <3>1. 1 <= r.payload /\ r.payload <= last[r.key] /\ r.payload \in Nat /\ r.key \in Keys
        BY <1>5, <2>1 DEF ServeInv
      <3> QED
        BY <1>4, <1>5, <1>6, <3>1
    <2>2. CASE r.key = k /\ r.release = f.release /\ r.payload = f.payload
      BY <1>4, <1>5, <1>6, <2>2
    <2> QED
      BY <1>8, <2>1, <2>2
  <1>10. \A r \in store' : r.key.kind \in Calendars => r.payload = 1
    <2>1. k.kind \in Calendars => f.payload = 1
      BY <1>1, <1>2, <1>3 DEF OriginInv
    <2> QED
      BY <1>8, <2>1 DEF ServeInv
  <1>11. ASSUME NEW r \in store', r.key.kind \notin Calendars, Top(r)'
         PROVE  r.payload = last'[r.key]
    <2>0. \A s \in store' : s.key = r.key =>
             s.release < r.release \/ (s.release = r.release /\ KnownBy(s) <= KnownBy(r))
      BY <1>11 DEF Top, RowsOf, KnownBy
    <2>1. CASE r.key # k
      <3>1. r \in store /\ Top(r)
        BY <1>8, <2>0, <2>1 DEF Top, RowsOf
      <3>2. r.payload = last[r.key] /\ r.key \in Keys
        BY <1>5, <1>11, <3>1 DEF ServeInv
      <3> QED
        BY <1>6, <2>1, <3>2
    <2>2. CASE r.key = k /\ r \notin store
      BY <1>6, <1>8, <2>2
    <2>3. CASE r.key = k /\ r \in store
      <3>1. r.payload <= last[k] /\ r.payload \in Nat /\ r.release \in Nat
        BY <1>5, <2>3 DEF ServeInv
      <3>2. Behind(k, f.payload, f.release)
        BY <1>4, <1>11, <2>3
      <3>3. f.release < r.release => r.payload = f.payload
        <4>1. r.payload < f.payload => r.release <= f.release
          BY <2>3, <3>2 DEF Behind, RowsOf
        <4> QED
          BY <1>4, <1>5, <3>1, <4>1
      <3>4. CASE /\ Stored(f) = store
                 /\ \E q \in store : /\ q.key = f.key /\ q.release = f.release
                                     /\ q.revision = 0 /\ q.payload = f.payload
        <4>1. f.payload <= last[k]
          BY <1>3, <3>4 DEF ServeInv
        <4>2. Top(r)
          BY <1>2, <2>0, <3>4 DEF Top, RowsOf
        <4>3. r.payload = last[k]
          BY <1>11, <2>3, <4>2 DEF ServeInv
        <4> QED
          BY <1>4, <1>5, <1>6, <2>3, <4>1, <4>3
      <3>5. CASE Slot(f) = {} /\ Stored(f) = store \cup {Row(f, 0)}
        <4>1. Row(f, 0) \in store'
          BY <1>2, <3>5
        <4>2. f.release < r.release \/ f.release = r.release
          BY <1>7, <2>0, <2>3, <4>1
        <4>3. f.release # r.release
          BY <1>3, <2>3, <3>5 DEF Slot, SlotInv
        <4> QED
          BY <1>6, <2>3, <3>3, <4>2, <4>3
      <3>6. CASE Slot(f) # {} /\ Stored(f) = store \cup {Row(f, now)}
        <4>1. Row(f, now) \in store'
          BY <1>2, <3>6
        <4>2. f.release < r.release \/ (f.release = r.release /\ KnownBy(Row(f, now)) <= KnownBy(r))
          BY <1>7, <2>0, <2>3, <4>1
        <4>3. ~ (KnownBy(Row(f, now)) <= KnownBy(r))
          <5>1. Pending(k)
            <6>1. feed \in feed..Len(plan) /\ plan[feed] = k.kind
              BY <1>1, <1>2, <1>3, KindOf, Plans0 DEF Kind, TypeOK
            <6> QED
              BY <1>1, <1>2, <1>3, <6>1 DEF Pending
          <5>2. r.release < now /\ r.revision < now
            BY <1>11, <2>3, <5>1 DEF ClockInv
          <5>3. KnownBy(r) \in Nat /\ KnownBy(r) < now
            BY <1>5, <2>3, <5>2 DEF KnownBy
          <5>4. now # 0
            BY <1>5, <3>1, <5>2
          <5> QED
            BY <1>5, <1>7, <5>3, <5>4
        <4> QED
          BY <1>6, <2>3, <3>3, <4>2, <4>3
      <3> QED
        BY <3>4, <3>5, <3>6, StoredIs
    <2> QED
      BY <2>1, <2>2, <2>3
  <1>12. \A j \in Keys : last'[j] <= pub[j].payload
    BY <1>4, <1>6 DEF ServeInv
  <1>13. \A j : j # k => RowsOf(j)' = RowsOf(j)
    BY <1>8 DEF RowsOf
  <1>14. ASSUME NEW j \in Keys, j.kind \notin Calendars
         PROVE  /\ \A r \in RowsOf(j)' : r.payload < pub[j].payload => r.release <= pub[j].release
                /\ j.kind \notin Undated => \A r \in RowsOf(j)' : r.release <= pub[j].release
    <2>1. /\ Behind(j, pub[j].payload, pub[j].release)
          /\ j.kind \notin Undated => \A r \in RowsOf(j) : r.release <= pub[j].release
      BY <1>14 DEF ServeInv
    <2>2. CASE j # k
      BY <1>13, <2>1, <2>2 DEF Behind
    <2>3. CASE j = k
      <3>1. \A r \in RowsOf(j)' : r \in RowsOf(j) \/ (r.release = f.release /\ r.payload = f.payload)
        BY <1>8 DEF RowsOf
      <3> QED
        BY <1>4, <1>14, <2>1, <2>3, <3>1 DEF Behind
    <2> QED
      BY <2>2, <2>3
  <1>15. \A j : ~ Announced(j)'
    BY <1>1 DEF Announced
  <1>16. ASSUME NEW n \in DOMAIN results', NEW g, g = results'[n]
         PROVE  /\ last'[g.key] <= g.payload /\ 1 <= g.payload /\ g.payload <= pub[g.key].payload
                /\ Kind \notin Calendars =>
                     /\ \A r \in RowsOf(g.key)' : r.payload < g.payload => r.release <= g.release
                     /\ g.payload < pub[g.key].payload \/ Kind \notin Undated
                           => g.release <= pub[g.key].release
    <2>1. g = results[n + 1] /\ n + 1 \in DOMAIN results /\ g.key # k
      BY <1>1, <1>2, <1>3, <1>16
    <2>2. g.key \in Keys
      BY <2>1, TypeFacts
    <2>3. /\ last[g.key] <= g.payload /\ 1 <= g.payload /\ g.payload <= pub[g.key].payload
          /\ Kind \notin Calendars =>
                /\ Behind(g.key, g.payload, g.release)
                /\ g.payload < pub[g.key].payload \/ Kind \notin Undated
                      => g.release <= pub[g.key].release
      BY <2>1 DEF ServeInv
    <2>4. {r \in store' : r.key = g.key} = RowsOf(g.key)
      BY <1>8, <2>1 DEF RowsOf
    <2> QED
      BY <1>6, <2>1, <2>2, <2>3, <2>4 DEF Behind, RowsOf
  <1> QED
    BY <1>1, <1>9, <1>10, <1>11, <1>12, <1>14, <1>15, <1>16 DEF ServeInv, Behind

LEMMA ServeInit == Init => ServeInv
  <1> SUFFICES ASSUME Init PROVE ServeInv
    OBVIOUS
  <1>1. /\ pub = [k \in Keys |-> [release |-> 1, payload |-> 1]] /\ last = [k \in Keys |-> 0]
        /\ results = <<>> /\ store = {} /\ feed = 0
    BY DEF Init
  <1>2. \A k : RowsOf(k) = {} /\ ~ Announced(k)
    BY <1>1 DEF RowsOf, Announced
  <1>3. \A k \in Keys : pub[k].payload = 1 /\ last[k] = 0
    BY <1>1
  <1> QED
    BY <1>1, <1>2, <1>3 DEF ServeInv, Behind

LEMMA ServeNext ==
    ASSUME OnceEach, ~Reverts, TypeInv, RunInv, PublisherInv, DatedInv, ClockInv, SlotInv, OriginInv,
           ServeInv, [Next]_vars
    PROVE  ServeInv'
  <1>0. TypeOK
    BY DEF TypeInv
  <1>1. CASE NewRelease \/ Correct
    BY <1>0, <1>1, ServePublish
  <1>2. CASE StartRun
    <2>1. /\ store' = store /\ last' = last /\ pub' = pub /\ plan' = plan /\ results' = <<>>
          /\ feed' = 1 /\ req' = 1
      BY <1>2 DEF StartRun, StartFetch
    <2>2. \A k : RowsOf(k)' = RowsOf(k)
      BY <2>1 DEF RowsOf
    <2>3. \A r : Top(r)' = Top(r)
      BY <2>1 DEF Top, RowsOf, KnownBy
    <2>4. \A k : ~ Announced(k)'
      <3>1. "fred" \in Kinds
        BY DEF Kinds
      <3>2. Requests("fred")[1].what = "meta"
        BY <3>1, RequestFacts
      <3> QED
        BY <2>1, <3>2 DEF Announced, Request, Kind, Get
    <2>5. Keys' = Keys /\ DOMAIN results' = {}
      BY <2>1 DEF Keys
    <2> QED
      BY <2>1, <2>2, <2>3, <2>4, <2>5 DEF ServeInv, Behind
  <1>3. CASE Answered \/ Failed \/ Encoded \/ NotPrimary \/ Written \/ Retry \/ Crash
    BY <1>0, <1>3, FetchShape, ServeFetch
  <1>4. CASE Write
    BY <1>0, <1>4, ServeWrite
  <1>5. CASE BuildView \/ UNCHANGED vars
    <2>1. /\ store' = store /\ last' = last /\ pub' = pub /\ plan' = plan /\ results' = results
          /\ feed' = feed /\ req' = req /\ writing' = writing /\ meta' = meta
      BY <1>5 DEF BuildView, vars, run
    <2>2. \A k : RowsOf(k)' = RowsOf(k)
      BY <2>1 DEF RowsOf
    <2>3. \A r : Top(r)' = Top(r)
      BY <2>1 DEF Top, RowsOf, KnownBy
    <2>4. \A k : Announced(k)' = Announced(k)
      BY <2>1 DEF Announced, Request, Kind
    <2>5. Keys' = Keys /\ Kind' = Kind
      BY <2>1 DEF Keys, Kind
    <2> QED
      BY <2>1, <2>2, <2>3, <2>4, <2>5 DEF ServeInv, Behind
  <1> QED
    BY <1>1, <1>2, <1>3, <1>4, <1>5, StepIs

LEMMA MaxExists ==
    ASSUME NEW S \in SUBSET Nat, S # {}, NEW b \in Nat, \A x \in S : x <= b
    PROVE  \E m \in S : \A x \in S : x <= m
  <1> DEFINE gaps == {b - x : x \in S}
  <1>1. gaps \subseteq Nat /\ gaps # {}
    <2>1. \A x \in S : b - x \in Nat
      OBVIOUS
    <2> QED
      BY <2>1
  <1>2. PICK g \in gaps : \A h \in gaps : <<h, g>> \notin OpToRel(<, Nat)
    <2> HIDE DEF gaps
    <2> QED
      BY <1>1, NatLessThanWellFounded, WFMin
  <1>3. \A h \in gaps : ~ (h < g)
    BY <1>1, <1>2 DEF OpToRel
  <1>4. PICK m \in S : g = b - m
    BY <1>2
  <1>5. \A x \in S : b - x \in gaps
    OBVIOUS
  <1>6. \A x \in S : ~ (b - x < b - m)
    BY <1>3, <1>4, <1>5
  <1> QED
    BY <1>4, <1>6

\* Where anything is known by the moment asked for, something is served.
LEMMA SomethingServed ==
    ASSUME NEW rows \in SUBSET RowType, NEW k, NEW t \in Nat, Eligible(rows, k, t) # {}
    PROVE  AsOf(rows, k, t) # {}
  <1> DEFINE E == Eligible(rows, k, t)
             best == {r \in E : \A s \in E :
                    s.release < r.release \/ (s.release = r.release /\ KnownBy(s) <= KnownBy(r))}
  <1>1. \A r \in E : /\ r.release \in Nat /\ r.release <= t
                     /\ KnownBy(r) \in Nat /\ KnownBy(r) <= t
    BY DEF Eligible, KnownBy, RowType
  <1>2. AsOf(rows, k, t) = IF best = {} THEN {} ELSE {CHOOSE r \in best : TRUE}
    BY DEF AsOf
  <1> HIDE DEF E
  <1>3. PICK m \in {r.release : r \in E} : \A x \in {r.release : r \in E} : x <= m
    <2>1. {r.release : r \in E} \in SUBSET Nat /\ {r.release : r \in E} # {}
      BY <1>1 DEF E
    <2>2. \A x \in {r.release : r \in E} : x <= t
      BY <1>1
    <2> QED
      BY <2>1, <2>2, MaxExists
  <1> DEFINE L == {r \in E : r.release = m}
  <1>4. PICK n \in {KnownBy(r) : r \in L} : \A x \in {KnownBy(r) : r \in L} : x <= n
    <2>1. {KnownBy(r) : r \in L} \in SUBSET Nat /\ {KnownBy(r) : r \in L} # {}
      BY <1>1, <1>3
    <2>2. \A x \in {KnownBy(r) : r \in L} : x <= t
      BY <1>1
    <2> QED
      BY <2>1, <2>2, MaxExists
  <1>5. PICK r \in E : r.release = m /\ KnownBy(r) = n
    BY <1>4
  <1>6. ASSUME NEW s \in E
        PROVE  s.release < r.release \/ (s.release = r.release /\ KnownBy(s) <= KnownBy(r))
    <2>1. s.release <= m /\ s.release \in Nat /\ m \in Nat
      BY <1>1, <1>3, <1>6
    <2>2. s.release = m => KnownBy(s) <= n
      BY <1>4, <1>6
    <2> QED
      BY <1>5, <2>1, <2>2
  <1>7. r \in best
    BY <1>5, <1>6
  <1> QED
    BY <1>2, <1>7

LEMMA LatestIsServed ==
    ASSUME TypeOK, PublisherInv, DatedInv, ServeInv
    PROVE  ServesLatest
  <1> SUFFICES ASSUME NEW k \in Keys, last[k] # 0, Eligible(store, k, now) # {}
               PROVE  \E r \in AsOf(store, k, now) : r.payload = last[k]
    BY DEF ServesLatest, TypeOK
  <1>1. PICK r \in AsOf(store, k, now) : TRUE
    <2>1. store \in SUBSET RowType /\ now \in Nat
      BY TypeFacts DEF TypeOK
    <2>2. AsOf(store, k, now) # {}
      BY <2>1, SomethingServed
    <2> QED
      BY <2>2
  <1>2. /\ r \in store /\ r.key = k
        /\ \A s \in Eligible(store, k, now) :
              s.release < r.release \/ (s.release = r.release /\ KnownBy(s) <= KnownBy(r))
    BY <1>1, AsOfIs DEF Eligible
  <1>3. CASE k.kind \in Calendars
    <2>1. r.payload = 1 /\ pub[k].payload = 1 /\ 1 <= last[k] /\ last[k] <= pub[k].payload
      BY <1>2, <1>3 DEF ServeInv, PublisherInv
    <2>2. last[k] = 1
      BY <2>1, TypeFacts
    <2> QED
      BY <1>1, <2>1, <2>2
  <1>4. CASE k.kind \notin Calendars
    <2>1. RowsOf(k) \subseteq Eligible(store, k, now)
      <3>1. \A s \in store : s.key = k => s.release <= now /\ s.revision <= now
        BY <1>4 DEF DatedInv
      <3> QED
        BY <3>1 DEF RowsOf, Eligible, KnownBy
    <2>2. Top(r)
      BY <1>2, <2>1 DEF Top
    <2>3. r.payload = last[k]
      BY <1>2, <1>4, <2>2 DEF ServeInv
    <2> QED
      BY <1>1, <2>3
  <1> QED
    BY <1>3, <1>4

-----------------------------------------------------------------------------
(***************************************************************************)
(* The theorems.                                                           *)
(***************************************************************************)
LEMMA FirstState ==
    ASSUME Init
    PROVE  TypeInv /\ RunInv /\ PublisherInv /\ DatedInv /\ ClockInv /\ SlotInv /\ ViewInv
  <1>1. TypeOK /\ PublisherInv
    BY TypeInit, PublisherInit
  <1>2. feed = 0 /\ results = <<>> /\ store = {} /\ views = {}
    BY DEF Init
  <1>3. TypeInv
    BY <1>1 DEF TypeInv, PublisherInv
  <1>4. DOMAIN results = {}
    BY <1>2
  <1> QED
    BY <1>1, <1>2, <1>3, <1>4
       DEF RunInv, DatedInv, ClockInv, SlotInv, ViewInv, ViewReplays

\* The clock, the publisher, the run under way, the manifest and the feature
\* views stay well-formed: what is fetched and stored is of the registered
\* ingesters, whatever requests fail and whenever the process dies.
THEOREM IngestTypeCorrect == Spec => []TypeOK
  <1>1. Init => TypeInv
    BY FirstState
  <1>2. TypeInv => TypeOK
    BY DEF TypeInv
  <1> QED
    BY <1>1, <1>2, TypeNext, PTL DEF Spec

\* build_feature_view called again for a past moment returns the inputs it
\* returned then, unless a release that was not stored yet has come in: no
\* revision, crash, re-run or write under way rewrites what was known.
THEOREM ViewsReplay == Spec => []ViewReplays
  <1> DEFINE Inv == TypeInv /\ RunInv /\ SlotInv /\ ViewInv
  <1>1. Init => Inv
    BY FirstState
  <1>2. Inv /\ [Next]_vars => Inv'
    BY TypeNext, RunNext, SlotNext, ViewNext
  <1>3. Inv => ViewReplays
    BY DEF ViewInv
  <1> HIDE DEF Inv
  <1> QED
    BY <1>1, <1>2, <1>3, PTL DEF Spec

\* The rows of an ingester that dates its own changes are never known earlier
\* than the publisher published what they hold.
THEOREM NeverBackdated == Spec => []NotBackdated
  <1> DEFINE Inv == TypeInv /\ RunInv /\ PublisherInv /\ DatedInv /\ OriginInv
  <1>1. Init => Inv
    BY FirstState, OriginInit
  <1>2. Inv /\ [Next]_vars => Inv'
    BY TypeNext, RunNext, PublisherNext, DatedNext, OriginNext
  <1>3. Inv => NotBackdated
    <2> SUFFICES ASSUME Inv, NEW r \in store, r.key.kind \notin Corrects \cup {"fred"}
                 PROVE  \E e \in log : e.key = r.key /\ e.payload = r.payload /\ e.at <= KnownBy(r)
      BY DEF NotBackdated
    <2>1. r.key.kind \in Kinds
      BY KeysAre DEF TypeInv, TypeOK, Key
    <2> QED
      BY <2>1 DEF OriginInv, Said, SelfDating
  <1> HIDE DEF Inv
  <1> QED
    BY <1>1, <1>2, <1>3, PTL DEF Spec

\* PITReader.as_of serves what was written last and the store backdates
\* nothing, provided that the registry holds each ingester once and that no
\* correction is withdrawn.
THEOREM StoreFollows ==
    ASSUME OnceEach, ~Reverts
    PROVE  Spec => []StoreFollowsPublisher
  <1> DEFINE Inv == /\ TypeInv /\ RunInv /\ PublisherInv /\ DatedInv /\ ClockInv /\ SlotInv
                    /\ OriginInv /\ ServeInv
  <1>1. Init => Inv
    BY FirstState, OriginInit, ServeInit
  <1>2. Inv /\ [Next]_vars => Inv'
    BY OnceEach, ~Reverts, TypeNext, RunNext, PublisherNext, DatedNext, ClockNext, SlotNext,
       OriginNext, ServeNext
  <1>3. Inv => ServesLatest
    BY LatestIsServed DEF TypeInv
  <1> HIDE DEF Inv
  <1>4. Spec => []ServesLatest
    BY <1>1, <1>2, <1>3, PTL DEF Spec
  <1> QED
    BY <1>4, NeverBackdated, PTL DEF StoreFollowsPublisher

\* The ingesters a run has behind it have been told of.
ReportInv == \A i \in 1..(feed - 1) : report[plan[i]] # "none"

\* A step that is not the end of an ingester's turn or of the process leaves
\* the report as it is.
LEMMA TurnsAre ==
    ASSUME TypeOK, Answered \/ Failed \/ Encoded \/ NotPrimary \/ Written \/ Retry
    PROVE  /\ feed > 0 /\ plan' = plan
           /\ \/ feed' = feed /\ report' = report
              \/ ReportAndGoOn("ok") \/ ReportAndGoOn("error")
  <1>a. ASSUME NEW r, NEW rs, GoTo(r, rs) PROVE feed' = feed /\ report' = report
    BY <1>a DEF GoTo, FetchDone
  <1>1. CASE Answered
    <2>1. PICK dated \in BOOLEAN :
             IF Request.what \in {"item", "fallback"}
             THEN LET rs == Append(results, Fetched(dated)) IN
                  IF Kind \in {"wti", "cl_front"} THEN FetchDone(rs) ELSE GoTo(req + 1, rs)
             ELSE UNCHANGED <<feed, report>>
      BY <1>1 DEF Answered
    <2> QED
      BY <1>1, <1>a, <2>1 DEF Answered, FetchDone
  <1>2. CASE Failed
    <2>1. PICK a \in Failures :
             LET reaction == Reaction(Kind, Request.what, a) IN
             CASE reaction = "skip" -> GoTo(NextItem, results)
               [] reaction = "next" /\ req < Len(Requests(Kind)) -> GoTo(req + 1, results)
               [] OTHER -> ReportAndGoOn("error")
      BY <1>2 DEF Failed
    <2>2. PICK reaction : reaction = Reaction(Kind, Request.what, a)
      OBVIOUS
    <2>3. CASE reaction = "skip"
      BY <1>2, <1>a, <2>1, <2>2, <2>3 DEF Failed
    <2>4. CASE reaction = "next" /\ req < Len(Requests(Kind))
      BY <1>2, <1>a, <2>1, <2>2, <2>4 DEF Failed
    <2>5. CASE ~ (reaction = "skip") /\ ~ (reaction = "next" /\ req < Len(Requests(Kind)))
      BY <1>2, <2>1, <2>2, <2>5 DEF Failed
    <2> QED
      BY <2>3, <2>4, <2>5
  <1>3. CASE Encoded \/ NotPrimary
    BY <1>3 DEF Encoded, NotPrimary, FetchDone
  <1>4. CASE Written
    BY <1>4 DEF Written, TypeOK
  <1>5. CASE Retry
    BY <1>5 DEF Retry
  <1> QED
    BY <1>1, <1>2, <1>3, <1>4, <1>5

\* An ingester's turn ends with a word about it.
LEMMA TurnEnds ==
    ASSUME TypeOK, ReportInv, feed > 0, plan' = plan,
           ReportAndGoOn("ok") \/ ReportAndGoOn("error")
    PROVE  /\ \A i \in 1..feed : report'[plan[i]] # "none"
           /\ feed' \in {0, feed + 1} /\ (feed' = 0 => feed = Len(plan))
  <1>1. feed \in 1..Len(plan) /\ Len(plan) \in Nat /\ \A i \in 1..Len(plan) : plan[i] \in Range(plan)
    BY KindOf, Plans0 DEF TypeOK
  <1>2. feed' = (IF feed < Len(plan) THEN feed + 1 ELSE 0)
    BY DEF ReportAndGoOn, StartFetch
  <1>3. PICK verdict \in {"ok", "error"} : report' = [report EXCEPT ![plan[feed]] = verdict]
    BY DEF ReportAndGoOn, Kind
  <1>4. ASSUME NEW i \in 1..feed PROVE report'[plan[i]] # "none"
    <2>1. plan[i] \in DOMAIN report
      BY <1>1, <1>4 DEF TypeOK
    <2>2. CASE plan[i] = plan[feed]
      BY <1>3, <2>1, <2>2
    <2>3. CASE plan[i] # plan[feed]
      <3>1. i \in 1..(feed - 1)
        BY <1>1, <1>4, <2>3
      <3> QED
        BY <1>3, <2>1, <2>3, <3>1 DEF ReportInv
    <2> QED
      BY <2>2, <2>3
  <1> QED
    BY <1>1, <1>2, <1>4

LEMMA ReportNext ==
    ASSUME TypeInv, ReportInv, [Next]_vars
    PROVE  /\ ReportInv'
           /\ [feed > 0 /\ feed' = 0 /\ crashes' = crashes =>
                  \A k \in Range(plan) : report'[k] # "none"]_vars
  <1>0. TypeOK /\ IsFiniteSet(log) /\ feed \in Nat /\ crashes \in Nat
    BY IngestAssumption, Plans0 DEF TypeInv, TypeOK
  <1>1. CASE NewRelease \/ Correct \/ Write \/ BuildView \/ UNCHANGED vars
    <2>1. feed' = feed /\ report' = report /\ plan' = plan
      BY <1>0, <1>1, PublishIs DEF Write, BuildView, vars, run
    <2> QED
      BY <1>0, <2>1 DEF ReportInv
  <1>2. CASE StartRun
    <2>1. feed = 0 /\ feed' = 1
      BY <1>2 DEF StartRun, StartFetch
    <2>2. 1..(feed' - 1) = {}
      BY <2>1
    <2> QED
      BY <2>1, <2>2 DEF ReportInv
  <1>3. CASE Crash
    <2>1. feed' = 0 /\ crashes' # crashes
      BY <1>0, <1>3 DEF Crash, StartFetch
    <2>2. 1..(feed' - 1) = {}
      BY <2>1
    <2> QED
      BY <2>1, <2>2 DEF ReportInv
  <1>4. CASE Answered \/ Failed \/ Encoded \/ NotPrimary \/ Written \/ Retry
    <2>1. /\ feed > 0 /\ plan' = plan
          /\ \/ feed' = feed /\ report' = report
             \/ ReportAndGoOn("ok") \/ ReportAndGoOn("error")
      BY <1>0, <1>4, TurnsAre
    <2>2. CASE feed' = feed /\ report' = report
      BY <1>0, <2>1, <2>2 DEF ReportInv
    <2>3. CASE ReportAndGoOn("ok") \/ ReportAndGoOn("error")
      <3>1. /\ \A i \in 1..feed : report'[plan[i]] # "none"
            /\ feed' \in {0, feed + 1} /\ (feed' = 0 => feed = Len(plan))
        BY <1>0, <2>1, <2>3, TurnEnds
      <3>2. ReportInv'
        <4>1. CASE feed' = 0
          <5>1. 1..(feed' - 1) = {}
            BY <4>1
          <5> QED
            BY <5>1 DEF ReportInv
        <4>2. CASE feed' = feed + 1
          <5>1. feed' - 1 = feed
            BY <1>0, <4>2
          <5> QED
            BY <2>1, <3>1, <5>1 DEF ReportInv
        <4> QED
          BY <3>1, <4>1, <4>2
      <3>3. feed' = 0 => \A k \in Range(plan) : report'[k] # "none"
        <4> SUFFICES ASSUME feed' = 0, NEW k \in Range(plan) PROVE report'[k] # "none"
          OBVIOUS
        <4>1. plan \in Seq(Kinds)
          BY <1>0, Plans0 DEF TypeOK
        <4>2. PICK i \in 1..Len(plan) : plan[i] = k
          BY <4>1 DEF Range
        <4> QED
          BY <3>1, <4>2
      <3> QED
        BY <3>2, <3>3
    <2> QED
      BY <2>1, <2>2, <2>3
  <1> QED
    BY <1>1, <1>2, <1>3, <1>4, StepIs

\* No ingester's failure hides another: a run that comes to its end has said
\* "ok" or "error" of every registered ingester, whatever failed on the way.
THEOREM EveryIngesterIsReported == Spec => RunReportsAll
  <1> DEFINE Inv == TypeInv /\ ReportInv
             Act == [feed > 0 /\ feed' = 0 /\ crashes' = crashes =>
                        \A k \in Range(plan) : report'[k] # "none"]_vars
  <1>1. Init => Inv
    <2> SUFFICES ASSUME Init PROVE Inv
      OBVIOUS
    <2>1. feed = 0
      BY DEF Init
    <2>2. 1..(feed - 1) = {}
      BY <2>1
    <2> QED
      BY <2>2, FirstState DEF ReportInv
  <1>2. Inv /\ [Next]_vars => Inv' /\ Act
    BY TypeNext, ReportNext
  <1> HIDE DEF Inv
  <1> QED
    BY <1>1, <1>2, PTL DEF Spec, RunReportsAll

=============================================================================
