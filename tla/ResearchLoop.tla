---------------------------- MODULE ResearchLoop ----------------------------
(***************************************************************************)
(* The feed-reliability learning loop of the v1 system: the scheduler's    *)
(* checks of late and missing releases (scheduler/calendar.py), the        *)
(* Page-Hinkley detector (research_loop/feed_latency_monitor.py), the      *)
(* event queue and its dispatcher (dispatcher.py), the handlers            *)
(* (handlers.py) with the rules of feed_reliability.py, the registry of    *)
(* feed incidents (persistence/db.py) and the weights they write.          *)
(*                                                                         *)
(* One thread runs all of it, on a database that commits every statement:  *)
(* what interleaves is the order in which the caller makes its checks, the *)
(* publishers' releases, and the death of the process between two writes.  *)
(***************************************************************************)
EXTENDS WeightTable, Integers, FiniteSets

CONSTANTS
    FeedOrder,      \* feed_names as a review lists them
    Consumers,      \* consumed_by: the desks of a feed
    Firings,        \* the times a feed is scheduled to release at
    Tolerance,      \* tolerance_minutes
    MissWindow,     \* how far back a check looks at firings (14 days)
    Lookback,       \* lookback_days of a review
    Threshold,      \* retirement_threshold of a review
    Recovery,       \* recovery_days of a review
    Delta,          \* allowed drift per observation
    Lambda,         \* detection threshold
    MaxTime,        \* bound: last tick of the clock
    MaxPending,     \* bound: events in the queue
    MaxRequests,    \* bound: checks for misses and events submitted by others
    MaxCrashes      \* bound: deaths of the process

ASSUME LoopAssumption ==
    /\ FeedOrder \in Seq(Feeds) /\ ToSet(FeedOrder) = Feeds
    /\ Consumers \in [Feeds -> SUBSET Desks]
    /\ Firings \in [Feeds -> SUBSET Nat]
    /\ {Tolerance, MissWindow, Lookback, Threshold, Recovery, Delta, Lambda} \subseteq Nat
    /\ {MaxTime, MaxPending, MaxRequests, MaxCrashes} \subseteq Nat

NULL == -1
Time == 0..MaxTime

\* research_loop_events and their default priorities
Priority == [gate_failure |-> 0, regime_transition |-> 1,
             data_ingestion_failure |-> 1, feed_reliability_review |-> 2]
\* what an event is about: a release <<feed, scheduled time>>, a key of the
\* weight table, or a regime; a review is about every feed
Release == Feeds \X Nat
Subject == Release \cup Keys \cup {<<r>> : r \in Regimes} \cup {<<>>}
Event == [type : DOMAIN Priority, at : Time, subject : Subject]

Incident == [feed : Feeds, opened : Time, closed : Time \cup {NULL}, cause : Release]

VARIABLES
    now,        \* the clock
    prints,     \* actual_prints_per_feed: when each feed's releases arrived
    incidents,  \* table feed_incidents, in insertion order
    ph,         \* table feed_latency_state: drift statistic and latch
    pending,    \* research_loop_events not completed, in the dispatcher's order
    weights,    \* table signal_weights
    pc,         \* the dispatcher's run: "idle", "next", "retire", "write", "mark"
    batch,      \* events the run has still to process
    todo,       \* rows the handler has still to write
    cut,        \* history: feeds whose detector update a crash cut short
    requests,   \* checks and submissions made so far
    crashes

vars == <<now, prints, incidents, ph, pending, weights, pc, batch, todo, cut, requests, crashes>>
feedState == <<incidents, ph, cut>>
runState == <<pc, batch, todo>>

Init ==
    /\ now = 0
    /\ prints = [f \in Feeds |-> {}]
    /\ incidents = <<>>
    /\ ph = [f \in Feeds |-> [drift |-> 0, tripped |-> FALSE]]
    /\ pending = <<>>
    /\ weights = SeedColdStart(0)
    /\ pc = "idle" /\ batch = <<>> /\ todo = {}
    /\ cut = {} /\ requests = 0 /\ crashes = 0

-----------------------------------------------------------------------------
\* The registry of incidents.

IsOpen(i) == incidents[i].closed = NULL
OpenIncidents(f) == {i \in DOMAIN incidents : incidents[i].feed = f /\ IsOpen(i)}
\* count_feed_incidents_in_window
CountInWindow(f, from, to) ==
    Cardinality({i \in DOMAIN incidents :
                   incidents[i].feed = f /\ incidents[i].opened \in from..to})

\* open_feed_incident: an open incident of the feed is kept as it is
OpenFeedIncident(e) ==
    LET f == e.subject[1] IN
    incidents' = IF OpenIncidents(f) # {} THEN incidents
                 ELSE Append(incidents, [feed |-> f, opened |-> e.at, closed |-> NULL,
                                         cause |-> e.subject])

-----------------------------------------------------------------------------
\* The queue: (priority, triggered_at), ties by a random event_id.

Precedes(a, b) == \/ Priority[a.type] < Priority[b.type]
                  \/ Priority[a.type] = Priority[b.type] /\ a.at < b.at
\* every queue that publishing the events of a set may leave: the old events
\* in their order, each new one anywhere among its equals
Merged(r, q, es) ==
    \E at \in [1..Len(q) -> DOMAIN r] :
        /\ \A i, j \in 1..Len(q) : i < j => at[i] < at[j]
        /\ \A i \in 1..Len(q) : r[at[i]] = q[i]
        /\ es = {r[k] : k \in DOMAIN r \ {at[i] : i \in 1..Len(q)}}
Queues(q, es) ==
    {r \in [1..(Len(q) + Cardinality(es)) -> ToSet(q) \cup es] :
        Merged(r, q, es) /\ \A i, j \in DOMAIN r : i < j => ~Precedes(r[j], r[i])}

Failure(f, s) == [type |-> "data_ingestion_failure", at |-> now,
                  subject |-> <<f, s>>]

-----------------------------------------------------------------------------
\* The scheduler.

Distance(a, b) == IF a >= b THEN a - b ELSE b - a
\* firings_between: the interval is open on the left
FiringsBetween(f, from, to) == {s \in Firings[f] : from < s /\ s <= to}
OnTime(f, s) == {p \in prints[f] : Distance(p, s) <= Tolerance}
Missed(f) == {s \in FiringsBetween(f, now - MissWindow, now) :
                 now >= s + Tolerance /\ OnTime(f, s) = {}}

\* check_ingestion_misses: one event per missed firing, at every call
CheckIngestionMisses ==
    LET misses == UNION {{Failure(f, s) : s \in Missed(f)} : f \in Feeds} IN
    /\ pc = "idle" /\ misses # {} /\ requests < MaxRequests
    /\ Len(pending) + Cardinality(misses) <= MaxPending
    /\ pending' \in Queues(pending, misses)
    /\ requests' = requests + 1
    /\ UNCHANGED <<now, prints, feedState, weights, runState, crashes>>

\* The latency observed for a firing: of the nearest release in tolerance,
\* or the time waited so far.
Latency(f, s) ==
    LET arrival == IF OnTime(f, s) = {} THEN now
                   ELSE CHOOSE p \in OnTime(f, s) :
                          \A q \in OnTime(f, s) : Distance(p, s) <= Distance(q, s)
    IN  IF arrival > s THEN arrival - s ELSE 0

\* update_page_hinkley.  drift is cumulative_sum - min_cumulative; past
\* Lambda only the latch matters.
UpdatePageHinkley(d, latency) ==
    LET moved == d.drift + latency - Delta
        drift == IF moved < 0 THEN 0 ELSE IF moved > Lambda THEN Lambda + 1 ELSE moved
    IN  [drift |-> drift, tripped |-> d.tripped \/ drift > Lambda]

\* check_latency_drift for one firing: observe, persist, and report a
\* detector that trips while no incident is open.
ObserveLatency(f) ==
    \E s \in FiringsBetween(f, now - MissWindow, now) :
        LET d == UpdatePageHinkley(ph[f], Latency(f, s))
            report == d.tripped /\ ~ph[f].tripped /\ OpenIncidents(f) = {}
        IN  /\ pc = "idle"
            /\ d # ph[f]
            /\ ph' = [ph EXCEPT ![f] = d]
            /\ \/ /\ report /\ Len(pending) < MaxPending
                  /\ pending' \in Queues(pending, {Failure(f, s)})
                  /\ UNCHANGED <<cut, crashes>>
               \/ ~report /\ UNCHANGED <<pending, cut, crashes>>
               \/ \* the process dies after the upsert and before the event
                  /\ report /\ crashes < MaxCrashes
                  /\ crashes' = crashes + 1 /\ cut' = cut \cup {f}
                  /\ UNCHANGED pending
            /\ UNCHANGED <<now, prints, incidents, weights, runState, requests>>

\* Mutant: the statistic is reset and the latch is not.
ResetKeepsLatch == [drift |-> 0, tripped |-> TRUE]
ResetForFeed == [drift |-> 0, tripped |-> FALSE]
Recovered(i) == \E s \in FiringsBetween(incidents[i].feed, incidents[i].opened, now) :
                    OnTime(incidents[i].feed, s) # {}

\* check_incident_recoveries for one incident: close it, then reset the
\* detector; the process may die in between.
CheckIncidentRecoveries ==
    \E i \in DOMAIN incidents :
        LET f == incidents[i].feed IN
        /\ pc = "idle" /\ IsOpen(i) /\ Recovered(i)
        /\ incidents' = [incidents EXCEPT ![i].closed = now]
        /\ \/ /\ ph' = [ph EXCEPT ![f] = ResetForFeed]
              /\ cut' = cut \ {f}
              /\ UNCHANGED crashes
           \/ /\ crashes < MaxCrashes
              /\ crashes' = crashes + 1 /\ cut' = cut \cup {f}
              /\ UNCHANGED ph
        /\ UNCHANGED <<now, prints, pending, weights, runState, requests>>

-----------------------------------------------------------------------------
\* Events submitted by the weekly cadence, the gates and the classifier.

Submit(type, subject) ==
    /\ pc = "idle" /\ requests < MaxRequests /\ Len(pending) < MaxPending
    /\ pending' \in Queues(pending, {[type |-> type, at |-> now, subject |-> subject]})
    /\ requests' = requests + 1
    /\ UNCHANGED <<now, prints, feedState, weights, runState, crashes>>

SubmitFeedReliabilityReview == Submit("feed_reliability_review", <<>>)
SubmitGateFailure == \E k \in Keys : Submit("gate_failure", k)
SubmitRegimeTransition == \E r \in Regimes : Submit("regime_transition", <<r>>)

-----------------------------------------------------------------------------
\* The dispatcher and the handlers.

\* feeds_meeting_retirement_criteria
Unreliable(f, t) == /\ CountInWindow(f, t - Lookback, t) >= Threshold
                    /\ OpenIncidents(f) # {}
\* feeds_eligible_for_reinstatement
Eligible(f, t) == OpenIncidents(f) = {} /\ CountInWindow(f, t - Recovery, t) = 0

\* A desk of several unreliable feeds is retired for the first one listed:
\* for the others it has no weight left.
FirstUnreliable(d, t) ==
    {i \in DOMAIN FeedOrder :
        /\ Unreliable(FeedOrder[i], t) /\ d \in Consumers[FeedOrder[i]]
        /\ \A j \in 1..(i - 1) : ~(Unreliable(FeedOrder[j], t) /\ d \in Consumers[FeedOrder[j]])}
RetirementWrites(t) ==
    UNION {RetireForAllRegimes(weights, x[1], FeedOrder[x[2]], t) :
             x \in {y \in Desks \X DOMAIN FeedOrder : y[2] \in FirstUnreliable(y[1], t)}}
ReinstatementWrites(t) ==
    UNION {ReinstateForFeed(weights, f, t) : f \in {g \in Feeds : Eligible(g, t)}}

BeginRun ==
    /\ pc = "idle" /\ pending # <<>>
    /\ pc' = "next" /\ batch' = pending
    /\ UNCHANGED <<now, prints, feedState, pending, weights, todo, requests, crashes>>

EndRun ==
    /\ pc = "next" /\ batch = <<>>
    /\ pc' = "idle"
    /\ UNCHANGED <<now, prints, feedState, pending, weights, batch, todo, requests, crashes>>

Handling(type) == pc = "next" /\ batch # <<>> /\ Head(batch).type = type

DataIngestionFailureHandler ==
    /\ Handling("data_ingestion_failure")
    /\ OpenFeedIncident(Head(batch))
    /\ pc' = "mark"
    /\ UNCHANGED <<now, prints, ph, cut, pending, weights, batch, todo, requests, crashes>>

FeedReliabilityReviewHandler ==
    /\ Handling("feed_reliability_review")
    /\ todo' = RetirementWrites(Head(batch).at)
    /\ pc' = "retire"
    /\ UNCHANGED <<now, prints, feedState, pending, weights, batch, requests, crashes>>

\* Harmful failures retire the desk at the wall clock; others are logged.
GateFailureHandler ==
    /\ Handling("gate_failure")
    /\ todo' \in {RetireForRegime(Head(batch).subject, now), {}}
    /\ pc' = "write"
    /\ UNCHANGED <<now, prints, feedState, pending, weights, batch, requests, crashes>>

\* Too little history or no margin: nothing is written.  Otherwise the
\* regime's weights go to the desks with positive Shapley value.
RegimeTransitionHandler ==
    /\ Handling("regime_transition")
    /\ todo' \in {{}} \cup {ProposeFromShapley(Head(batch).subject[1], S, Head(batch).at) :
                               S \in (SUBSET Desks) \ {{}}}
    /\ pc' = "write"
    /\ UNCHANGED <<now, prints, feedState, pending, weights, batch, requests, crashes>>

WriteRow ==
    /\ pc \in {"retire", "write"}
    /\ \E w \in todo :
          /\ weights' \in InsertSignalWeight(weights, w.key, w.row)
          /\ todo' = todo \ {w}
    /\ UNCHANGED <<now, prints, feedState, pending, pc, batch, requests, crashes>>

\* The review goes on to reinstatement with what the table now holds.
Reinstate ==
    /\ pc = "retire" /\ todo = {}
    /\ todo' = ReinstatementWrites(Head(batch).at)
    /\ pc' = "write"
    /\ UNCHANGED <<now, prints, feedState, pending, weights, batch, requests, crashes>>

HandlerReturns ==
    /\ pc = "write" /\ todo = {}
    /\ pc' = "mark"
    /\ UNCHANGED <<now, prints, feedState, pending, weights, batch, todo, requests, crashes>>

\* Mutant: the update matches no row.
MarkNothing ==
    /\ pc = "mark"
    /\ batch' = Tail(batch) /\ pc' = "next"
    /\ UNCHANGED <<now, prints, feedState, pending, weights, todo, requests, crashes>>
MarkCompleted ==
    /\ pc = "mark"
    /\ pending' = RemoveFirst(pending, Head(batch))
    /\ batch' = Tail(batch) /\ pc' = "next"
    /\ UNCHANGED <<now, prints, feedState, weights, todo, requests, crashes>>

Crash ==
    /\ pc # "idle" /\ crashes < MaxCrashes
    /\ crashes' = crashes + 1
    /\ pc' = "idle" /\ batch' = <<>> /\ todo' = {}
    /\ UNCHANGED <<now, prints, feedState, pending, weights, requests>>

-----------------------------------------------------------------------------
\* The environment.

Tick ==
    /\ pc = "idle" /\ now < MaxTime
    /\ now' = now + 1
    /\ UNCHANGED <<prints, feedState, pending, weights, runState, requests, crashes>>

ReleaseArrives ==
    /\ pc = "idle"
    /\ \E f \in Feeds :
          /\ now \notin prints[f]
          /\ \E s \in Firings[f] : s <= now
          /\ prints' = [prints EXCEPT ![f] = @ \cup {now}]
    /\ UNCHANGED <<now, feedState, pending, weights, runState, requests, crashes>>

Handlers == \/ DataIngestionFailureHandler \/ FeedReliabilityReviewHandler
            \/ GateFailureHandler \/ RegimeTransitionHandler
Dispatch == \/ BeginRun \/ Handlers \/ WriteRow \/ Reinstate \/ HandlerReturns
            \/ MarkCompleted \/ EndRun
Next ==
    \/ Dispatch
    \/ CheckIngestionMisses \/ CheckIncidentRecoveries
    \/ \E f \in Feeds : ObserveLatency(f)
    \/ SubmitFeedReliabilityReview \/ SubmitGateFailure \/ SubmitRegimeTransition
    \/ Crash \/ Tick \/ ReleaseArrives

\* The long-running process keeps calling the dispatcher; nobody promises
\* that a publisher releases or that a review is submitted.
Spec == Init /\ [][Next]_vars /\ WF_vars(Dispatch)
-----------------------------------------------------------------------------
\* Properties.

\* Rows, events, incidents and the run under way stay well-formed, and every
\* key's rows stay in the order get_latest_signal_weights ranks them in.
TypeOK ==
    /\ now \in Time
    /\ prints \in [Feeds -> SUBSET Time]
    /\ incidents \in Seq(Incident)
    /\ ph \in [Feeds -> [drift : 0..(Lambda + 1), tripped : BOOLEAN]]
    /\ pending \in Seq(Event) /\ batch \in Seq(Event)
    /\ weights \in [Keys -> Seq(SignalWeight)]
    /\ \A k \in Keys : \A i, j \in DOMAIN weights[k] :
           i < j => weights[k][i].ts <= weights[k][j].ts
    /\ pc \in {"idle", "next", "retire", "write", "mark"}
    /\ todo \subseteq Write
    /\ cut \subseteq Feeds
    /\ requests \in 0..MaxRequests /\ crashes \in 0..MaxCrashes

\* However the two detection paths, repeated checks, crashes and re-runs of a
\* handler overlap, a feed never has two open incidents (the promise of
\* open_feed_incident that check_latency_drift relies on).
OneOpenIncident == \A f \in Feeds : Cardinality(OpenIncidents(f)) <= 1

\* A tripped detector stays silent until it is reset, so it must have told
\* somebody: an incident is open or an event for it is queued, unless the
\* process died between the detector's row and the event or the reset.
TrippedIsReported ==
    \A f \in Feeds :
        ph[f].tripped /\ f \notin cut =>
            \/ OpenIncidents(f) # {}
            \/ \E i \in DOMAIN pending :
                  pending[i].type = "data_ingestion_failure" /\ pending[i].subject[1] = f

\* A miss or a drift is on record once, and nothing that is tripped is silent.
ReportedOnce == OneOpenIncident /\ TrippedIsReported

ReviewDone == pc = "mark" /\ Head(batch).type = "feed_reliability_review"

\* When a review completes, no desk of an unreliable feed has weight in any
\* regime, except through a row stamped no earlier than the review: a review
\* handled late writes rows that a younger promotion outranks.
ReviewRetires ==
    ReviewDone =>
        \A f \in Feeds : Unreliable(f, Head(batch).at) =>
            \A k \in Keys : k[2] \in Consumers[f] =>
                \/ ~Active(weights, k)
                \/ LatestWeight(weights, k).ts >= Head(batch).at

\* When a review completes, no desk is still retired for a feed that has
\* recovered, except by a row stamped no earlier than the review.
ReviewReinstates ==
    ReviewDone =>
        \A f \in Feeds : Eligible(f, Head(batch).at) =>
            \A k \in RetiredForFeed(weights, f) :
                LatestWeight(weights, k).ts >= Head(batch).at

\* What a review decides about a feed holds for every desk of it and every regime.
ReviewTakesEffect == ReviewRetires /\ ReviewReinstates

\* Feed recovery gives weight back only to desks retired for that feed while
\* it has no open incident; a desk retired as harmful comes back only through
\* a validated promotion.
ComesBack(k) == ~Active(weights, k) /\ Active(weights, k)'
RecoveryIsSelective ==
    [][\A k \in Keys : ComesBack(k) =>
         LET old == LatestWeight(weights, k).tag
             new == LatestWeight(weights, k)'.tag
         IN  \/ new = <<"auto">>
             \/ \E f \in Feeds : /\ old = <<"unreliable", f>> /\ new = <<"reinstate", f>>
                                 /\ OpenIncidents(f) = {}]_vars

\* Every queued event is completed in the end: each run processes all that
\* was pending when it began, and a run that dies is begun again.
QueueDrains == (pending # <<>>) ~> (pending = <<>>)

=============================================================================
