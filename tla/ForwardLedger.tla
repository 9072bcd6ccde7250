------------------------- MODULE ForwardLedger -------------------------
(***************************************************************************)
(* The forward holdout of the one-day WTI candidate: the frozen lock, the  *)
(* event queue, the forecast ledger with its hash chain, and the outcomes  *)
(* (feasibility/scripts/forward_wti_lag_1d.py, lock_wti_lag_1d.py,         *)
(* refresh_wti_spot_proxy.py).                                             *)
(*                                                                         *)
(* One job runs at a time: launchd's daily `all`, or a `resolve` by hand.  *)
(* Between its steps the clock moves, prices arrive, an operator edits a   *)
(* locked file, locks again or edits the ledger, and the job may die.      *)
(* A hash is what it covers: chain entry k is the forecasts 1..k it was    *)
(* computed from.                                                          *)
(***************************************************************************)
EXTENDS Tractability

CONSTANTS
    Events,         \* the calendar events, in the order of their decisions
    DecisionAt,     \* [event -> tick]
    PastTimes,      \* the times of the store's older events, which train
    Price,          \* [day -> price], what FRED publishes for the day
    PastDays,       \* the days in the CSV at the start
    LateDays,       \* days FRED may publish after later ones
    Instants,       \* the ticks the clock stops at (a bound)
    MaxLag,         \* MAX_SCORING_LAG, in ticks
    MaxAge,         \* MAX_FEATURE_PRICE_AGE_DAYS
    MinTrain,       \* MIN_TRAIN_EVENTS
    MaxFiles, MaxMishaps    \* bounds: versions of the locked files, and new
                            \* versions, new locks, crashes and ledger edits
                            \* together

Days == DOMAIN Price
EventIds == Range(Events)

ASSUME ForwardAssumption ==
    /\ PerDay \in Nat \ {0} /\ Horizon \in Nat \ {0} /\ Gap \in Nat
    /\ Events \in Seq(EventIds) /\ DecisionAt \in [EventIds -> Nat]
    /\ PastTimes \subseteq Nat /\ Instants \subseteq Nat /\ Instants # {}
    /\ Days \subseteq Nat /\ PastDays \subseteq Days /\ LateDays \subseteq Days
    /\ \A d \in PastDays, t \in Instants : PerDay * (d + 1) <= t
    /\ {MaxLag, MaxAge, MinTrain, MaxMishaps} \subseteq Nat
    /\ MaxFiles \in Nat \ {0}

VARIABLES
    now,
    proxy,      \* the days in the local CSV
    files,      \* the version of the locked files on disk
    locks,      \* every lock.json so far; the last one is on disk
    queue,      \* event_queue.csv
    forecasts, chain, outcomes,     \* the three ledger files
    job,        \* the running process
    past        \* history: sealed, settled, faults, crashes, edits

vars == <<now, proxy, files, locks, queue, forecasts, chain, outcomes,
          job, past>>

Lock == locks[Len(locks)]
Idle == [pc |-> "idle", asOf |-> 0, lock |-> 0, code |-> 0, batch |-> <<>>,
         prefix |-> <<>>, rows |-> <<>>]
NoRows == <<>>     \* the function with no event
Mishaps == past.crashes + past.edits + (Len(locks) - 1) + (files - 1)

-----------------------------------------------------------------------------
(* The queue is rebuilt from the lock on disk: the events after it.          *)
QueueFor(lock) == {e \in EventIds : DecisionAt[e] > lock.at}

LockHolds == files = Lock.files         \* verify_lock_integrity

ChainOf(fc) == [k \in DOMAIN fc |-> SubSeq(fc, 1, k)]

ReChained(fc, ch) ==    \* a mutant: any chain of another length is rebuilt
    IF fc # <<>> /\ Len(ch) # Len(fc) THEN ChainOf(fc) ELSE ch

(* A chain that is missing beside existing forecasts is built from them.     *)
Bootstrapped(fc, ch) == IF fc # <<>> /\ ch = <<>> THEN ChainOf(fc) ELSE ch

Verified(fc, ch) ==     \* verify_forecast_chain
    /\ Len(fc) = Len(ch)
    /\ \A k \in DOMAIN fc : ch[k] = SubSeq(fc, 1, k)
    /\ \A i, k \in DOMAIN fc : fc[i].id = fc[k].id => i = k

-----------------------------------------------------------------------------
(* Training: one row per kept anchor before as_of that has a feature.        *)
PastAnchors(prices, asOf) ==
    {a \in Observations(PastTimes \union Range(DecisionAt), prices) :
        PerDay * a < asOf}
TrainRows(prices, asOf) ==
    {d \in Kept(PastAnchors(prices, asOf)) : HasFeature(prices, PerDay * d)}

Rises(prices, t) == Price[WindowEnd(prices, t)] > Price[Anchor(prices, t)]

CanFit(prices, asOf) ==
    LET rows == TrainRows(prices, asOf)
    IN  /\ Cardinality(rows) >= MinTrain
        /\ {Rises(prices, PerDay * d) : d \in rows} = BOOLEAN

FreshFeature(prices, t) ==
    HasFeature(prices, t) /\ FeatureAge(prices, t) <= MaxAge

NoDeadline(e, asOf, prices) ==      \* a mutant: a late answer still counts
    /\ e \in queue /\ \A k \in DOMAIN forecasts : forecasts[k].id # e
    /\ DecisionAt[e] <= asOf
    /\ FreshFeature(prices, DecisionAt[e])

Due(e, asOf, prices) ==
    /\ e \in queue
    /\ \A k \in DOMAIN forecasts : forecasts[k].id # e
    /\ DecisionAt[e] <= asOf /\ asOf <= DecisionAt[e] + MaxLag
    /\ FreshFeature(prices, DecisionAt[e])

(* The order of the queue's rows, which is the order of the calendar.        *)
Before(d, e) == \E i, k \in DOMAIN Events : i < k /\ Events[i] = d /\ Events[k] = e
InOrder(due) == {mine \in SetToSeqs(due) :
                    \A i, k \in DOMAIN mine : i < k => Before(mine[i], mine[k])}

(* `sign` is the model's prediction; `seen`, the last price of the scoring   *)
(* run, and `code`, the version of the locked files that ran, are history.   *)
Forecast(e, prices) ==
    [id |-> e, lock |-> Len(locks), sign |-> "positive", code |-> job.code,
     seen |-> CHOOSE d \in prices : \A x \in prices : x <= d]

-----------------------------------------------------------------------------
Row(f, prices) ==
    LET t == DecisionAt[f.id]
        fresh == FreshFeature(prices, t)
    IN  IF HasWindow(prices, t)
        THEN [status |-> "resolved", sign |-> f.sign, fresh |-> fresh,
              start |-> Anchor(prices, t), end |-> WindowEnd(prices, t)]
        ELSE [status |-> "waiting", sign |-> f.sign, fresh |-> fresh,
              start |-> IF HasAnchor(prices, t) THEN Anchor(prices, t) ELSE -1,
              end |-> -1]

ForecastOf(e) == forecasts[CHOOSE k \in DOMAIN forecasts : forecasts[k].id = e]

RowsRecomputed(prices) ==       \* a mutant: resolved rows are computed again
    [e \in {forecasts[k].id : k \in DOMAIN forecasts} |->
        Row(ForecastOf(e), prices)]

(* One row per forecast; a resolved row is carried over as it is.            *)
NextRows(prices) ==
    [e \in {forecasts[k].id : k \in DOMAIN forecasts} |->
        IF e \in DOMAIN outcomes /\ outcomes[e].status = "resolved"
        THEN outcomes[e]
        ELSE Row(ForecastOf(e), prices)]

Resolved(rows) == {e \in DOMAIN rows : rows[e].status = "resolved"}
Counted(rows) == {e \in Resolved(rows) : rows[e].fresh}

-----------------------------------------------------------------------------
Init ==
    /\ now = CHOOSE t \in Instants : \A u \in Instants : t <= u
    /\ proxy = PastDays
    /\ files = 1 /\ locks = <<[at |-> now, files |-> 1]>>
    /\ queue = {}
    /\ forecasts = <<>> /\ chain = <<>> /\ outcomes = NoRows
    /\ job = Idle
    /\ past = [sealed |-> <<>>, settled |-> NoRows, faults |-> {},
               crashes |-> 0, edits |-> 0]

(* A job reads its prices in the tick it took as_of in: a machine put to     *)
(* sleep between the two is left out (a bound).                              *)
Tick ==
    /\ job.pc # "score"
    /\ \E t \in Instants : t > now
    /\ now' = CHOOSE t \in Instants :
                 t > now /\ \A u \in Instants : u > now => t <= u
    /\ UNCHANGED <<proxy, files, locks, queue, forecasts, chain,
                   outcomes, job, past>>

(* What FRED may serve: prices of days that have ended, all it served before *)
(* and none after a missing day that is not a late one.                      *)
Ended == {d \in Days : PerDay * (d + 1) <= now}
Served == {s \in SUBSET Ended :
            /\ proxy \subseteq s
            /\ \A d \in s, x \in Days \ LateDays : x < d => x \in s}

(* refresh_wti_spot_proxy: the CSV is replaced at once, and only if the      *)
(* newest price is fresh; a failed refresh leaves it alone.                  *)
Refresh(s) ==
    /\ \E d \in s : now \div PerDay - d <= MaxAge
    /\ proxy' = s
    /\ UNCHANGED <<now, files, locks, queue, forecasts, chain, outcomes, job, past>>

(* The operator: an edit to a locked file, and lock_wti_lag_1d.py.           *)
TouchLocked ==
    /\ files < MaxFiles /\ Mishaps < MaxMishaps
    /\ files' = files + 1
    /\ UNCHANGED <<now, proxy, locks, queue, forecasts, chain, outcomes,
                   job, past>>

LockAgain ==
    /\ Mishaps < MaxMishaps
    /\ locks' = Append(locks, [at |-> now, files |-> files])
    /\ UNCHANGED <<now, proxy, files, queue, forecasts, chain, outcomes,
                   job, past>>

-----------------------------------------------------------------------------
Sealing(fc, ch) == IF Verified(fc, ch) THEN fc ELSE past.sealed

(* run_all up to the end of the checks of score_due_events: write_queue,     *)
(* verify_lock_integrity, verify_forecast_chain.                             *)
StartAll ==
    /\ job.pc = "idle"
    /\ queue' = QueueFor(Lock)
    /\ IF ~LockHolds
       THEN UNCHANGED <<chain, job, past>>
       ELSE LET ch == Bootstrapped(forecasts, chain)
            IN  /\ chain' = ch
                /\ past' = [past EXCEPT !.sealed = Sealing(forecasts, ch)]
                /\ job' = IF Verified(forecasts, ch)
                          THEN [Idle EXCEPT !.pc = "score", !.asOf = now,
                                            !.lock = Len(locks), !.code = files]
                          ELSE Idle
    /\ UNCHANGED <<now, proxy, files, locks, forecasts, outcomes>>

(* Load the prices, fit, load the lock again and compare its id, forecast    *)
(* every due event of the queue.  Too little to train on, or another lock,   *)
(* raises; an empty queue goes straight to the outcomes.                     *)
Score ==
    /\ job.pc = "score"
    /\ \E mine \in InOrder({e \in EventIds : Due(e, job.asOf, proxy)}) :
        job' = IF queue = {} THEN [Idle EXCEPT !.pc = "resolve"]
                ELSE IF CanFit(proxy, job.asOf) /\ Len(locks) = job.lock
                THEN [Idle EXCEPT
                      !.pc = "append",
                      !.batch = [k \in DOMAIN mine |-> Forecast(mine[k], proxy)]]
                ELSE Idle
    /\ UNCHANGED <<now, proxy, files, locks, queue, forecasts, chain,
                   outcomes, past>>

AppendOrStop ==      \* a mutant: the job ends when nothing is due
    /\ job.pc = "append"
    /\ LET ch == Bootstrapped(forecasts, chain)
       IN  /\ chain' = ch
           /\ past' = [past EXCEPT !.sealed = Sealing(forecasts, ch)]
           /\ IF ~Verified(forecasts, ch)
              THEN job' = Idle /\ UNCHANGED forecasts
              ELSE IF job.batch = <<>>
              THEN job' = Idle /\ UNCHANGED forecasts
              ELSE /\ forecasts' = forecasts \o job.batch
                   /\ job' = [job EXCEPT !.pc = "chain", !.prefix = forecasts]
    /\ UNCHANGED <<now, proxy, files, locks, queue, outcomes>>

(* _append_forecasts verifies once more and writes the forecast lines ...    *)
AppendForecasts ==
    /\ job.pc = "append"
    /\ LET ch == Bootstrapped(forecasts, chain)
       IN  /\ chain' = ch
           /\ past' = [past EXCEPT !.sealed = Sealing(forecasts, ch)]
           /\ IF ~Verified(forecasts, ch)
              THEN job' = Idle /\ UNCHANGED forecasts
              ELSE IF job.batch = <<>>
              THEN job' = [Idle EXCEPT !.pc = "resolve"] /\ UNCHANGED forecasts
              ELSE /\ forecasts' = forecasts \o job.batch
                   /\ job' = [job EXCEPT !.pc = "chain", !.prefix = forecasts]
    /\ UNCHANGED <<now, proxy, files, locks, queue, outcomes>>

EntriesFromGenesis ==   \* a mutant: the batch is chained from the start
    ChainOf(job.batch)

(* ... then their chain entries, linked to the last hash it verified ...     *)
NewEntries ==
    [k \in DOMAIN job.batch |-> job.prefix \o SubSeq(job.batch, 1, k)]

(* ... and verifies the result.                                              *)
AppendChain ==
    /\ job.pc = "chain"
    /\ LET ch == chain \o NewEntries
       IN  /\ chain' = ch
           /\ past' = [past EXCEPT !.sealed = Sealing(forecasts, ch)]
           /\ job' = [Idle EXCEPT !.pc = IF Verified(forecasts, ch)
                                         THEN "resolve" ELSE "idle"]
    /\ UNCHANGED <<now, proxy, files, locks, queue, forecasts, outcomes>>

(* The `resolve` command: no lock and no chain is checked.                   *)
StartResolve ==
    /\ job.pc = "idle"
    /\ job' = [Idle EXCEPT !.pc = "resolve"]
    /\ UNCHANGED <<now, proxy, files, locks, queue, forecasts, chain,
                   outcomes, past>>

(* resolve_outcomes rewrites its file in place: opening it empties it ...    *)
OpenOutcomes ==
    /\ job.pc = "resolve"
    /\ job' = [job EXCEPT !.pc = "write", !.rows = NextRows(proxy)]
    /\ outcomes' = NoRows
    /\ UNCHANGED <<now, proxy, files, locks, queue, forecasts, chain, past>>

(* ... and the rows follow.  The reports after it only read.                 *)
WriteOutcomes ==
    /\ job.pc = "write"
    /\ outcomes' = job.rows
    /\ past' = [past EXCEPT !.settled =
                  [e \in DOMAIN @ \union Resolved(job.rows) |->
                      IF e \in DOMAIN @ THEN @[e] ELSE job.rows[e]]]
    /\ job' = Idle
    /\ UNCHANGED <<now, proxy, files, locks, queue, forecasts, chain>>

-----------------------------------------------------------------------------
(* The process dies.  Between the two appends it leaves forecasts without    *)
(* entries ("gap"; a first batch is chained by the next run), and inside     *)
(* the rewrite an empty outcomes file ("torn").                              *)
Crash ==
    /\ job.pc # "idle" /\ Mishaps < MaxMishaps
    /\ job' = Idle
    /\ past' = [past EXCEPT
                  !.crashes = @ + 1,
                  !.faults = @ \union
                     {x \in {"gap"} : job.pc = "chain" /\ chain # <<>>} \union
                     {x \in {"torn"} : job.pc = "write"}]
    /\ UNCHANGED <<now, proxy, files, locks, queue, forecasts, chain, outcomes>>

(* Somebody edits forecasts.jsonl: a line is changed, or the tail is cut.    *)
Edited == [past EXCEPT !.edits = @ + 1, !.faults = @ \union {"edited"}]

EditLine(k) ==
    /\ Mishaps < MaxMishaps
    /\ forecasts' = [forecasts EXCEPT ![k].sign = "negative"]
    /\ past' = Edited
    /\ UNCHANGED <<now, proxy, files, locks, queue, chain, outcomes, job>>

CutTo(n) ==
    /\ Mishaps < MaxMishaps
    /\ forecasts' = SubSeq(forecasts, 1, n)
    /\ past' = Edited
    /\ UNCHANGED <<now, proxy, files, locks, queue, chain, outcomes, job>>

(* The only repair of a gap: the unchained lines are taken out by hand.      *)
RepairGap ==
    /\ job.pc = "idle" /\ "gap" \in past.faults
    /\ Len(chain) < Len(forecasts)
    /\ forecasts' = SubSeq(forecasts, 1, Len(chain))
    /\ past' = [past EXCEPT !.faults = @ \ {"gap"}]
    /\ UNCHANGED <<now, proxy, files, locks, queue, chain, outcomes, job>>

JobStep == \/ Score \/ AppendForecasts \/ AppendChain
           \/ OpenOutcomes \/ WriteOutcomes

Next ==
    \/ Tick \/ \E s \in Served : Refresh(s)
    \/ TouchLocked \/ LockAgain
    \/ StartAll \/ StartResolve \/ JobStep
    \/ Crash \/ RepairGap
    \/ \E k \in DOMAIN forecasts : EditLine(k)
    \/ \E n \in 0..(Len(forecasts) - 1) : CutTo(n)

Spec == Init /\ [][Next]_vars

(* launchd starts the job every day and the job runs to its end; time        *)
(* passes, and a refresh finds every ended day published in the end.         *)
Fairness ==
    /\ SF_vars(Tick) /\ WF_vars(Refresh(Ended))
    /\ WF_vars(StartAll) /\ WF_vars(JobStep)

FairSpec == Spec /\ Fairness

-----------------------------------------------------------------------------
Forecasts == [id : EventIds, lock : 1..(MaxMishaps + 1), sign : {"positive", "negative"},
              code : 1..MaxFiles, seen : Days]
RowType == [status : {"resolved", "waiting"}, sign : {"positive", "negative"},
            fresh : BOOLEAN, start : Days \union {-1}, end : Days \union {-1}]
RowsType(rows) == DOMAIN rows \subseteq EventIds
                    /\ \A e \in DOMAIN rows : rows[e] \in RowType

(* Types, and that the local prices are of days that have ended.             *)
TypeOK ==
    /\ now \in Instants
    /\ proxy \subseteq Ended
    /\ files \in 1..MaxFiles /\ Len(locks) \in 1..(MaxMishaps + 1)
    /\ \A k \in DOMAIN locks : locks[k] \in [at : Instants, files : 1..files]
    /\ queue \subseteq EventIds
    /\ \A fc \in {forecasts, job.batch, job.prefix} \union Range(chain) :
            Range(fc) \subseteq Forecasts
    /\ RowsType(outcomes) /\ RowsType(job.rows) /\ RowsType(past.settled)
    /\ job.pc \in {"idle", "score", "append", "chain", "resolve", "write"}
    /\ past.faults \subseteq {"gap", "torn", "edited"}

(* The holdout is blind: both prices of the window that settles a forecast   *)
(* come after every price its scoring run had (MAX_SCORING_LAG, the row at   *)
(* or after the decision, and FRED's end-of-day rows together).              *)
BlindForecasts ==
    \A k \in DOMAIN forecasts :
        forecasts[k].id \in Resolved(outcomes)
            => forecasts[k].seen < outcomes[forecasts[k].id].start

(* A forecast stamped with a lock was computed by the files that lock froze  *)
(* and is for an event after it, although the files and the lock can change  *)
(* while the job runs (verify_lock_integrity, the second look at lock_id,    *)
(* build_queue's start).                                                     *)
ForecastsUnderTheirLock ==
    \A k \in DOMAIN forecasts :
        LET f == forecasts[k]
        IN  /\ f.code = locks[f.lock].files
            /\ DecisionAt[f.id] > locks[f.lock].at

(* Every line of the ledger is evidence: made before its outcome could be    *)
(* known, by what its lock froze.                                            *)
HoldoutIsHonest == BlindForecasts /\ ForecastsUnderTheirLock

(* Left to itself the job never locks itself out: unless a crash fell        *)
(* between the two appends or somebody edited the file, the ledger verifies  *)
(* at the next start, after any number of runs, crashes and new locks.       *)
LedgerStaysUsable ==
    ({"gap", "edited"} \cap past.faults = {} /\ job.pc # "chain")
        => Verified(forecasts, Bootstrapped(forecasts, chain))

(* What a run has verified stays: the ledger is never again accepted with a  *)
(* verified line changed or missing, whoever edits forecasts.jsonl and       *)
(* whenever (the chain file itself is left alone).                           *)
SealedOnlyGrows == [][IsPrefix(past.sealed, past'.sealed)]_vars

(* A settled outcome is final, although FRED's late days move the window a   *)
(* later computation would use; only a crash inside the rewrite undoes it.   *)
SettledIsFinal ==
    ("torn" \notin past.faults /\ job.pc # "write") =>
        \A e \in DOMAIN past.settled :
            (\E k \in DOMAIN forecasts : forecasts[k].id = e)
                => e \in DOMAIN outcomes /\ outcomes[e] = past.settled[e]

(* A forecast made on a fresh price counts in the scores once it settles:    *)
(* the freshness the resolver works out again from the later series agrees.  *)
SettledCounts == Counted(outcomes) = Resolved(outcomes)

(* What was settled and scored does not move when prices arrive late.        *)
OutcomesStand == SettledIsFinal /\ SettledCounts

(* Every forecast settles, or the job is stopped by a ledger that does not   *)
(* verify or a lock that does not hold, or the line was taken out.           *)
ForecastsSettle ==
    \A e \in EventIds :
        (\E k \in DOMAIN forecasts : forecasts[k].id = e) ~>
            \/ e \in Resolved(outcomes)
            \/ ~LockHolds
            \/ ~Verified(forecasts, Bootstrapped(forecasts, chain))
            \/ \A k \in DOMAIN forecasts : forecasts[k].id # e

(* What a job trains on: anchors more than Gap days apart, and as many of    *)
(* them as any such choice would give (kept_decision_ts, and effective_n     *)
(* that counts them).                                                        *)
TrainsOnTheMost ==
    job.pc = "score" =>
        LET anchors == PastAnchors(proxy, job.asOf)
            Apart(S) == \A a, b \in S : a < b => b - a > Gap
        IN  /\ Apart(Kept(anchors))
            /\ \A S \in SUBSET anchors :
                    Apart(S) => Cardinality(S) <= Cardinality(Kept(anchors))

(* A family, whatever its events and its quality, never takes observations   *)
(* away from the families before it, so the guard against one that does      *)
(* (run_tractability_v1 with reject_non_additive) never rejects.  The guard  *)
(* is asked before the holdout starts.                                       *)
AddingNeverTakesAway ==
    (queue = {} /\ now = locks[1].at) =>
        \A times \in [{"base", "added"} -> SUBSET PastTimes],
           quality \in [{"base", "added"} ->
                            {"true_first_release", "latest_snapshot_not_pit"}] :
            AdditiveDelta({"base"}, "added", times, quality, proxy) >= 0

(* Thinning wastes no observation, for one family or for several.            *)
ThinningIsThrifty == TrainsOnTheMost /\ AddingNeverTakesAway
=======================================================================
