------------------------------- MODULE Ingest -------------------------------
(***************************************************************************)
(* Public-data ingestion: one scheduler run (v2/ingest/scheduler.py) takes *)
(* the registered ingesters in turn, each fetching its items over HTTP     *)
(* with retries (_http.py) and then writing every result to the            *)
(* point-in-time store (base.py); feature views (v2/feature_view) are      *)
(* built from the store at any time.  The publisher goes on publishing     *)
(* and correcting, and the process may die, between any two requests.      *)
(*                                                                         *)
(* An item is a series, a report year or an archive issue.  A payload is   *)
(* a number naming a content; a fetched frame that carries its retrieval   *)
(* time has that in `stamp'.  The writer and reader are PitStore's, cut    *)
(* down to one period per release and no latency guard.                    *)
(***************************************************************************)
EXTENDS Integers, Sequences, SequencesExt, FiniteSets, FiniteSetsExt

CONSTANTS
    Plans,          \* possible registrations: sequences of ingester kinds
    Specs,          \* feature specs: records [kind, item, use]
    MaxRetries,     \* HTTPClient max_retries
    MaxTime,        \* bound: clock
    MaxPublish,     \* bound: publisher events
    MaxFaults,      \* bound: requests that go wrong
    MaxCrash,       \* bound: process deaths
    Reverts         \* may a correction be withdrawn, restoring the earlier content?

Items == {1, 2}
Calendars == {"fomc", "opec", "steo_calendar", "psm", "gpr"}
Kinds == {"eia", "fred", "cftc", "wpsr", "steo", "wti", "cl_front", "stooq",
          "baker", "cme", "cboe"} \cup Calendars

ASSUME IngestAssumption ==
    /\ MaxRetries \in Nat /\ MaxTime \in Nat \ {0} /\ MaxPublish \in Nat
    /\ MaxFaults \in Nat /\ MaxCrash \in Nat /\ Reverts \in BOOLEAN
    /\ Plans \subseteq Seq(Kinds) \ {<<>>}

Undated == {"eia", "cboe", "cme"}    \* fall back to the wall clock
Stamped == {"eia", "baker", "cme"}   \* frames with a retrieved_at_utc column

-----------------------------------------------------------------------------
\* What each fetch() asks for, in order: [what, item].

Get(what, item) == [what |-> what, item |-> item]
EIARequests == <<Get("item", 1), Get("item", 2)>>          \* one per series id
CFTCRequests == <<Get("item", 1), Get("item", 2)>>         \* one per report year
FREDRequests == <<Get("meta", 1), Get("item", 1), Get("meta", 2), Get("item", 2)>>
WPSRRequests == <<Get("index", 0), Get("issue", 1), Get("item", 1), Get("issue", 2), Get("item", 2)>>
STEORequests == <<Get("index", 0), Get("item", 1), Get("item", 2)>>
WTIRequests == <<Get("item", 1), Get("fallback", 1)>>      \* source_priority
StooqRequests == <<Get("item", 1)>>
BakerRequests == <<Get("item", 1)>>
CMERequests == <<Get("item", 1), Get("item", 2)>>          \* specification and expiry pages
CboeRequests == <<>>                                       \* unless forced
Requests(kind) ==
    CASE kind = "eia" -> EIARequests
      [] kind = "cftc" -> CFTCRequests
      [] kind = "fred" -> FREDRequests
      [] kind = "wpsr" -> WPSRRequests
      [] kind = "steo" -> STEORequests
      [] kind \in {"wti", "cl_front"} -> WTIRequests
      [] kind = "stooq" -> StooqRequests
      [] kind = "baker" -> BakerRequests
      [] kind = "cme" -> CMERequests
      [] kind = "cboe" -> CboeRequests
      [] kind \in Calendars -> <<>>
ItemsOf(kind) == IF Requests(kind) = <<>> THEN Items
                 ELSE {r.item : r \in Range(Requests(kind))} \ {0}

\* What can come back instead of the data: RetryExhaustedError; a timeout, which
\* the client does not catch; a status below or from 500; a body without rows
\* or without structure.
Failures == {"exhausted", "timeout", "status4xx", "status5xx", "empty", "garbled"}

\* How fetch() takes a failure: "skip" goes on with the next item, "next" with
\* the next source, "raise" gives up the whole fetch.
EIAReaction(what, a) == "skip"
FREDReaction(what, a) == "raise"
CFTCReaction(what, a) == IF a \in {"status4xx", "status5xx", "empty"} THEN "skip" ELSE "raise"
WPSRReaction(what, a) ==
    IF what = "index" /\ a \notin {"empty", "garbled"} THEN "raise" ELSE "skip"
STEOReaction(what, a) ==
    IF what = "index" /\ a \in {"status4xx", "status5xx", "garbled"} THEN "skip" ELSE "raise"
WTIReaction(what, a) ==
    IF \/ a \in {"exhausted", "empty"}
       \/ what = "fallback" /\ a # "timeout"
    THEN "next" ELSE "raise"
Reaction(kind, what, a) ==
    CASE kind = "eia" -> EIAReaction(what, a)
      [] kind = "fred" -> FREDReaction(what, a)
      [] kind = "cftc" -> CFTCReaction(what, a)
      [] kind = "wpsr" -> WPSRReaction(what, a)
      [] kind = "steo" -> STEOReaction(what, a)
      [] kind \in {"wti", "cl_front"} -> WTIReaction(what, a)
      [] kind \in {"stooq", "baker", "cme"} -> "raise"

\* Vintage quality a fetch declares; late says that the newest bar is older
\* than a day.
Quality(kind, late) ==
    CASE kind = "eia" -> "snapshot"
      [] kind \in {"opec", "steo_calendar", "psm", "gpr"} -> "revision_unknown"
      [] kind \in {"cl_front", "stooq"} -> IF late THEN "revision_unknown" ELSE "first"
      [] OTHER -> "first"

\* all_events of the calendar ingesters: two scheduled dates, the later one at
\* the end of the clock.  FOMC and OPEC encode their dates, future ones too;
\* the others compute them up to today.
Scheduled == <<1, MaxTime>>
UpToToday(now) == IF Scheduled[2] <= now THEN <<1, 2>> ELSE <<1>>
FOMCEvents(now) == <<1, 2>>
OPECEvents(now) == <<1, 2>>
STEOEvents(now) == UpToToday(now)
PSMEvents(now) == UpToToday(now)
GPREvents(now) == UpToToday(now)
CalendarEvents(kind, now) ==
    CASE kind = "fomc" -> FOMCEvents(now)
      [] kind = "opec" -> OPECEvents(now)
      [] kind = "steo_calendar" -> STEOEvents(now)
      [] kind = "psm" -> PSMEvents(now)
      [] kind = "gpr" -> GPREvents(now)

-----------------------------------------------------------------------------
VARIABLES
    now, pub, log,      \* clock; the publisher's current [release, payload]; all it published
    plan, feed,         \* registered ingesters and the one running, 0 between runs
    req, attempt,       \* request of the running fetch and retries made
    meta,               \* last_updated read by FRED's first request
    results,            \* FetchResults not yet written
    writing,            \* fetch is done, writes are under way
    report,             \* IngestReport: what the run said of each ingester
    store,              \* manifest rows
    views,              \* feature views built: as-of time and content
    last,               \* payload of the last completed write of an item
    faults, crashes

run == <<plan, feed, req, attempt, meta, results, writing>>
vars == <<now, pub, log, run, report, store, views, last, faults, crashes>>

Keys == {k \in [kind : Range(plan), item : Items] : k.item \in ItemsOf(k.kind)}
NoMeta == [release |-> 0, payload |-> 0]
Kind == plan[feed]
Request == Requests(Kind)[req]

Init ==
    /\ now = 1 /\ plan \in Plans
    /\ pub = [k \in Keys |-> [release |-> 1, payload |-> 1]]
    /\ log = {[key |-> k, payload |-> 1, at |-> 1] : k \in Keys}
    /\ feed = 0 /\ req = 1 /\ attempt = 0 /\ meta = NoMeta /\ results = <<>> /\ writing = FALSE
    /\ report = [k \in Range(plan) |-> "none"] /\ store = {} /\ views = {}
    /\ last = [k \in Keys |-> 0]
    /\ faults = 0 /\ crashes = 0

-----------------------------------------------------------------------------
\* The publisher.  Feeds that date every change have no silent corrections.
Corrects == {"cftc", "wpsr", "steo", "wti", "cl_front", "stooq", "baker"}
NextPayload(k) == 1 + Cardinality({e \in log : e.key = k})

Publish(k, release, payload) ==
    /\ now < MaxTime /\ Cardinality(log) < Cardinality(DOMAIN pub) + MaxPublish
    /\ now' = now + 1
    /\ pub' = [pub EXCEPT ![k] = [release |-> release, payload |-> payload]]
    /\ log' = log \cup {[key |-> k, payload |-> payload, at |-> now + 1]}
    /\ UNCHANGED <<run, report, store, views, last, faults, crashes>>
NewRelease ==
    \E k \in DOMAIN pub : k.kind \notin {"wpsr", "steo"} \cup Calendars
                          /\ Publish(k, now + 1, NextPayload(k))
Correct ==
    \E k \in DOMAIN pub : k.kind \in Corrects
        /\ \E p \in {NextPayload(k)} \cup (IF Reverts THEN {e.payload : e \in {f \in log : f.key = k}}
                                                    ELSE {}) :
              p # pub[k].payload /\ Publish(k, pub[k].release, p)
-----------------------------------------------------------------------------
\* IngestScheduler.run

StartFetch(i) ==
    /\ feed' = i /\ req' = 1 /\ attempt' = 0 /\ meta' = NoMeta /\ writing' = FALSE
    /\ results' = <<>>

StartRun ==
    /\ feed = 0 /\ StartFetch(1)
    /\ now < MaxTime /\ now' = now + 1      \* no two runs at one instant
    /\ report' = [k \in DOMAIN report |-> "none"]
    /\ UNCHANGED <<pub, log, plan, store, views, last, faults, crashes>>

\* Mutant: an ingester's exception ends the run.
ReportAndStop(verdict) ==
    /\ report' = [report EXCEPT ![Kind] = verdict]
    /\ IF verdict = "ok" /\ feed < Len(plan) THEN StartFetch(feed + 1) ELSE StartFetch(0)
\* The entry's verdict, and on to the next registered ingester
ReportAndGoOn(verdict) ==
    /\ report' = [report EXCEPT ![Kind] = verdict]
    /\ StartFetch(IF feed < Len(plan) THEN feed + 1 ELSE 0)

\* BaseIngester.ingest: fetch has returned its list, the writes begin.
FetchDone(rs) == writing' = TRUE /\ results' = rs /\ UNCHANGED <<feed, req, attempt, meta, report>>
GoTo(r, rs) ==
    IF r > Len(Requests(Kind)) THEN FetchDone(rs)
    ELSE /\ req' = r /\ attempt' = 0 /\ results' = rs
         /\ UNCHANGED <<feed, meta, writing, report>>

\* The request after the running one's item, or after everything when the
\* index was the one that failed.
NextItem ==
    LET later == {r \in DOMAIN Requests(Kind) : r > req /\ Requests(Kind)[r].item # Request.item}
    IN  IF Request.what = "index" \/ later = {} THEN Len(Requests(Kind)) + 1 ELSE Min(later)

ReleaseOf(dated) ==
    IF ~dated THEN now
    ELSE IF Kind = "fred" THEN meta.release
    ELSE pub[[kind |-> Kind, item |-> Request.item]].release

Fetched(dated) ==
    LET k == [kind |-> Kind, item |-> Request.item] IN
    [key |-> k, release |-> ReleaseOf(dated), payload |-> pub[k].payload,
     stamp |-> IF Kind \in Stamped THEN now ELSE 0]

\* The data came back.
Answered ==
    /\ feed > 0 /\ ~writing /\ req <= Len(Requests(Kind))
    /\ \E dated \in BOOLEAN :
          /\ dated \/ Kind \in Undated
          /\ IF Request.what \in {"item", "fallback"}
             THEN LET rs == Append(results, Fetched(dated)) IN
                  IF Kind \in {"wti", "cl_front"} THEN FetchDone(rs) ELSE GoTo(req + 1, rs)
             ELSE /\ meta' = IF Request.what = "meta"
                             THEN pub[[kind |-> Kind, item |-> Request.item]] ELSE meta
                  /\ req' = req + 1 /\ attempt' = 0
                  /\ UNCHANGED <<feed, results, writing, report>>
    /\ UNCHANGED <<now, pub, log, plan, store, views, last, faults, crashes>>

\* HTTPClient.get: connect errors and 5xx are retried, up to max_retries times.
Retry ==
    /\ feed > 0 /\ ~writing /\ req <= Len(Requests(Kind)) /\ attempt < MaxRetries
    /\ faults < MaxFaults /\ faults' = faults + 1
    /\ attempt' = attempt + 1
    /\ UNCHANGED <<now, pub, log, plan, feed, req, meta, results, writing, report,
                   store, views, last, crashes>>

\* A failure that reaches the ingester: retries used up, or not of a retried
\* kind.  The last 5xx is handed over as a response.
Failed ==
    /\ feed > 0 /\ ~writing /\ req <= Len(Requests(Kind))
    /\ faults < MaxFaults /\ faults' = faults + 1
    /\ \E a \in Failures :
          /\ a \in {"exhausted", "status5xx"} => attempt = MaxRetries
          /\ LET reaction == Reaction(Kind, Request.what, a) IN
             CASE reaction = "skip" -> GoTo(NextItem, results)
               [] reaction = "next" /\ req < Len(Requests(Kind)) -> GoTo(req + 1, results)
               [] OTHER -> ReportAndGoOn("error")
    /\ UNCHANGED <<now, pub, log, plan, store, views, last, crashes>>

\* Ingesters that ask nobody: the encoded calendars, and cboe_vix, which
\* returns an empty list unless forced to fetch.
CalendarResults ==
    [n \in DOMAIN CalendarEvents(Kind, now) |->
        LET i == CalendarEvents(Kind, now)[n] IN
        [key |-> [kind |-> Kind, item |-> i], release |-> Scheduled[i],
         payload |-> 1, stamp |-> 0]]
Encoded ==
    /\ feed > 0 /\ ~writing /\ Kind \in Calendars
    /\ FetchDone(CalendarResults)
    /\ UNCHANGED <<now, pub, log, plan, store, views, last, faults, crashes>>
NotPrimary ==
    /\ feed > 0 /\ ~writing /\ Kind = "cboe"
    /\ FetchDone(<<>>)
    /\ UNCHANGED <<now, pub, log, plan, store, views, last, faults, crashes>>

\* write_vintage without a revision stamp: a first release, nothing when its
\* content is stored already, otherwise a revision known from now on.
Slot(f) == {r \in store : r.key = f.key /\ r.release = f.release /\ r.revision = 0}
Row(f, revision) ==
    [key |-> f.key, release |-> f.release, revision |-> revision, payload |-> f.payload,
     stamp |-> f.stamp, quality |-> Quality(f.key.kind, f.release < now - 1)]
\* Mutant: a changed frame replaces the stored release.
Replace(f) == (store \ Slot(f)) \cup {Row(f, 0)}
\* Mutant: an item that has a release is taken to be stored.
KeepFirst(f) == IF Slot(f) = {} THEN store \cup {Row(f, 0)} ELSE store
Stored(f) ==
    IF Slot(f) = {} THEN store \cup {Row(f, 0)}
    ELSE IF \E r \in Slot(f) : r.payload = f.payload /\ r.stamp = f.stamp THEN store
    ELSE store \cup {Row(f, now)}
Write ==
    /\ writing /\ results # <<>>
    /\ store' = Stored(Head(results))
    /\ last' = [last EXCEPT ![Head(results).key] = Head(results).payload]
    /\ results' = Tail(results)
    /\ UNCHANGED <<now, pub, log, plan, feed, req, attempt, meta, writing, report, views,
                   faults, crashes>>
Written ==
    /\ writing /\ results = <<>>
    /\ ReportAndGoOn("ok")
    /\ UNCHANGED <<now, pub, log, plan, store, views, last, faults, crashes>>

\* The process dies; what was stored stays, the fetch and the report are gone.
Crash ==
    /\ feed > 0 /\ crashes < MaxCrash /\ crashes' = crashes + 1
    /\ StartFetch(0) /\ report' = [k \in DOMAIN report |-> "none"]
    /\ UNCHANGED <<now, pub, log, plan, store, views, last, faults>>

-----------------------------------------------------------------------------
\* Feature views.

KnownBy(r) == IF r.revision = 0 THEN r.release ELSE r.revision
\* PITReader.as_of: the newest release known at t, its newest revision
Eligible(rows, k, t) == {r \in rows : r.key = k /\ r.release <= t /\ KnownBy(r) <= t}
AsOf(rows, k, t) ==
    LET best == {r \in Eligible(rows, k, t) : \A s \in Eligible(rows, k, t) :
                    s.release < r.release \/ (s.release = r.release /\ KnownBy(s) <= KnownBy(r))}
    IN  IF best = {} THEN {} ELSE {CHOOSE r \in best : TRUE}

\* enforce_feature_admissibility
Admissible(spec, r) ==
    /\ r.quality # "snapshot"
    /\ r.quality = "revision_unknown" => spec.use # "stock_change"

Features(rows, t) ==
    [s \in {s \in Specs : s.kind \in Range(plan)} |->
        AsOf(rows, [kind |-> s.kind, item |-> s.item], t)]
\* build_feature_view, which raises when an input is not admissible; the
\* manifest's DuckDB file belongs to one process at a time
BuildView ==
    /\ feed = 0 /\ DOMAIN Features(store, now) # {}
    /\ \A v \in views : v.at # now
    /\ \A s \in DOMAIN Features(store, now) :
          \A r \in Features(store, now)[s] : Admissible(s, r)
    /\ views' = views \cup {[at |-> now, features |-> Features(store, now)]}
    /\ UNCHANGED <<now, pub, log, run, report, store, last, faults, crashes>>

Work == \/ Answered \/ Failed \/ Encoded \/ NotPrimary \/ Write \/ Written
Next == NewRelease \/ Correct \/ StartRun \/ Work \/ Retry \/ Crash \/ BuildView
\* The scheduler is one thread that is always runnable: every request ends in
\* an answer, an error or the client's 30 s timeout.
Spec == Init /\ [][Next]_vars /\ WF_vars(Work)
-----------------------------------------------------------------------------
\* Properties.

Key == [kind : Kinds, item : Items]
RowType == [key : Key, release : Nat, revision : Nat, payload : Nat, stamp : Nat,
            quality : {"snapshot", "revision_unknown", "first"}]
FetchType == [key : Keys, release : Nat, payload : Nat, stamp : Nat]

\* The clock, the publisher, the run, the store and the views are well-formed:
\* what is fetched and what is stored is of the running plan's ingesters.
TypeOK ==
    /\ now \in 1..MaxTime /\ plan \in Plans
    /\ pub \in [Keys -> [release : Nat, payload : Nat]]
    /\ log \subseteq [key : Keys, payload : Nat, at : Nat]
    /\ feed \in 0..Len(plan) /\ writing \in BOOLEAN /\ (feed = 0 => ~writing)
    /\ req \in Nat \ {0}
    /\ feed > 0 /\ ~writing => Requests(Kind) = <<>> \/ req <= Len(Requests(Kind))
    /\ attempt \in 0..MaxRetries /\ meta \in [release : Nat, payload : Nat]
    /\ results \in Seq(FetchType)
    /\ report \in [Range(plan) -> {"none", "ok", "error"}]
    /\ store \subseteq RowType /\ \A r \in store : r.key \in Keys
    /\ \A v \in views : v.at \in 1..now
    /\ last \in [Keys -> Nat]
    /\ faults \in 0..MaxFaults /\ crashes \in 0..MaxCrash

\* After a write the store serves what was written, whatever was stored before:
\* a correction, a re-fetch after a crash or a late retry is not hidden by an
\* older row.  (A withdrawn correction is: see Reverts.)
ServesLatest ==
    \A k \in DOMAIN last : last[k] # 0 /\ Eligible(store, k, now) # {} =>
        \E r \in AsOf(store, k, now) : r.payload = last[k]

\* A feature view can be replayed: built again for the same moment it has the
\* same inputs, except where a first release arrived late.
ViewReplays ==
    \A v \in views : \A s \in DOMAIN v.features :
        LET again == Features(store, v.at)[s] IN
           \/ again = v.features[s]
           \/ \E r \in again : r.revision = 0 /\ \A q \in v.features[s] : q.release < r.release

\* A feed that dates its own changes is never stored as known before it
\* published them, retries, undated answers and crashes included.
NotBackdated ==
    \A r \in store : r.key.kind \notin Corrects \cup {"fred"} =>
        \E e \in log : e.key = r.key /\ e.payload = r.payload /\ e.at <= KnownBy(r)

\* What the store says of a series is what its publisher last said, and no earlier.
StoreFollowsPublisher == ServesLatest /\ NotBackdated

\* No ingester's failure hides another: a run that comes to its end has said
\* "ok" or "error" of every registered ingester.
RunReportsAll == [][feed > 0 /\ feed' = 0 /\ crashes' = crashes =>
                       \A k \in Range(plan) : report'[k] # "none"]_vars

\* Every run ends, however the requests are answered.
RunEnds == (feed > 0) ~> (feed = 0)

\* Every run ends and has told of every ingester.
RunsComplete == RunReportsAll /\ RunEnds
=============================================================================
