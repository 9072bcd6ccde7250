# Verification of the multi-desk trading system

TLA+ models of the parts of this repository that decide, record, restrict and
judge trading. TLC checks them on small instances, and TLAPS proves for every
size what the runs check: of the parts that keep state over crashes and restarts
(the kill switch, the point-in-time store and the ingestion that fills it, the
paper-live loop with its restore, the recorded replay, the research loop, the
soak and the forward holdout), of the controller with its attribution and its
gate, and of the calculations (the roll and the fills of S4, the scores, gates and
grades of the validation, the thinning of events). Section 6 ends with what is only
model-checked.

Paths below are relative to the repository's root. `PROJECT.json` has the same
project in a form for tools: components, runs, mutants, the source lines of
every definition, hazards and theorems.

## 1. Inventory

The repository has two generations and a research annex. The v2 tree (`v2/`) is
the runtime that takes decisions. The v1 tree (`bus`, `controller`, `desks`,
`grading`, `attribution`, `research_loop`, `scheduler`, `persistence`, `soak`,
`eval`, `sim*`) is a research system around one database. `feasibility/` holds
studies of candidate signals, and one of them runs daily as a forward holdout.

| component | state | operations | interacts with | hard behaviour | correct when |
|---|---|---|---|---|---|
| kill switch (`v2/runtime/killctl.py`, `kill_switch.py`) | `kill_switch.yaml`, `incidents.jsonl` | isolate, freeze, halt, clear; load | files shared by operators and the loop | overlapping commands, torn files, crashes, ids by second | an acknowledged restriction is in force until cleared, and on record |
| paper-live loop (`v2/paper_live/loop.py`) | exposure, prior lots | tick, restart | kill switch, desks, ladder, ledger | crash between writes, retries, late ticks | rows of a tick agree; positions chain |
| degradation ladder (`v2/execution/degradation.py`) | target, last valid target, counter | step | loop | long sequences | abstention holds, then decays, never adds risk |
| ledger (`v2/execution/simulator.py`), receipts (`v2/runtime/replay.py`) | two tables, receipt files | record, write and verify | loop, restore | non-atomic writes, back-fill | receipts keep verifying |
| restore, dry run (`v2/runtime/restore.py`, `dry_run.py`) | a second root | copy up to a receipt, verify, reopen | ledger, loop | partial copies, overwrite | what verifies is whole |
| synthesiser, control law, adapter (`v2/synthesiser`, `v2/execution`) | none | check, weight, pool, size, round | desks, loop | ties, disjoint distributions, abstention, rounding | the family says no more than its desks |
| point-in-time store (`v2/pit_store`), audit (`v2/audit`) | parquet files, manifest | write_vintage, as_of | ingesters, views | crash between file, row and supersession; revisions | rows read back; the past is not rewritten |
| ingestion (`v2/ingest`) | none of its own | scheduler run, fetch, retry, batch write | publishers, store | failures of one of many, retries, updates between requests | every ingester is reported; the store has what the publisher said |
| feature views (`v2/feature_view`) | none | build as of a time | store, desks | revisions after the fact | a view built again is the same |
| recorded replay (`v2/s4_0`) | an evidence root, a runtime root | preflight, normalise, tick, verify, restore, seal | loop, killctl | order, crashes, restarts, a switch in mid-run | green is earned; one attempt per root |
| S4 diagnostics (`v2/s4_0`) | none | roll, fill, queue, hidden liquidity, P&L | replay | holidays, limits, empty levels | nothing appears or vanishes |
| v2 evaluation, v1 gates, grading (`v2/eval`, `eval`, `grading`) | none | split, walk forward, score, gate, grade | desks, prints | leakage, ties, missing outcomes | no row sees its future; no side is favoured |
| bus, persistence (`bus`, `persistence`) | subscribers, tables | publish, insert, latest row | every v1 part | a subscriber that raises, equal timestamps | a stored event is the one delivered |
| controller (`controller`) | weights, parameters, decisions | cold start, decide, promote | bus, research loop | partial seeding, stale desks | a decision can be replayed |
| attribution, hot swap (`attribution`, `eval/hot_swap.py`) | none | leave-one-out, Shapley, gate | controller's tables | weights that moved | the parts add up to the decision |
| scheduler, research loop (`scheduler`, `research_loop`) | event queue, feed incidents, latch, weights | check, dispatch, handle, recover | persistence | re-firing, retry after a crash, late handling | one incident per failure; recovery is selective |
| soak (`soak`, `scripts/run_soak_test.py`) | checkpoint, rows, incidents | start, tick, sample, save, stop | controller, OS signals | kill or interrupt anywhere | the checkpoint never claims too much; leaks are noticed |
| forward holdout (`feasibility/scripts/forward_wti_lag_1d.py` and its lock) | lock, forecasts, hash chain, outcomes | lock, score, resolve | price file, launchd | crashes between appends, edits, late prices | forecasts are blind; settled outcomes stay |
| event audits (`feasibility/scripts/audit_*`, `feasibility/tractability_v1.py`) | none | thin, build features, walk forward, count | store, price file | look-ahead through labels or features | later data changes nothing |
| release calendars, v2 oil desks, v1 desks, simulators | none | - | - | numeric | not modelled, section 8 |

## 2. Plan

Done: everything in the table but its last row. What can lose a restriction or
corrupt the record came first, then the data the decisions rest on, then the
message system, then evaluation and the holdout.

Every safety property of the runs is proved (section 6) but two,
`PoolingIsModest` and `OrderFollowsDesks` of `FamilySignal`. These, and liveness,
stay with TLC; section 6 says why. The two could be proved after the pool is
restated without reducing its fractions, from lemmas about the interpolation
between two quantiles.

## 3. Modules

Each module begins with a comment that says what it stands for and what it
leaves out. A property about a part of the code is in the module of that part;
the modules named `MC...` hold only the values of constants, and those named
`...Proofs` the theorems of a component with the invariants and lemmas behind
them. `PaperLiveProofs` has those of `PaperLive` and of `RuntimeRestore`, which
composes with it; `ForwardLedgerProofs` those of the holdout and of the thinning it
uses; `HarnessProofs` those of `SoakRun`, of the `Controller` that the soak drives,
and of the drills: the last two rest on the same facts about sums and folds.
`HindsightProofs` has those of `PitStore` and of `EvalDrills` that say that nothing is
known before its time.

**`SwitchTargets`, `SwitchPromise`, `KillSwitch`.** `SwitchPromise` is the
abstract switch: a set of restrictions; a command adds or lifts one; a family is
not released while a desk of it is isolated. `KillSwitch` is the two files and
the processes that use them: a command is `Load`, then `NewIncident` or
`FindIncident`/`RefuseClear`, then `AppendIncident`, `TruncateFile`,
`WriteFile` (`write_text` is two actions because opening the file empties it).
`acked` is history: restrictions whose command has returned and whose clear has
not started. `Serial` chooses between commands that never overlap and any
interleaving; `CrashPoints` says where a process may die.

**`Degradation`, `PaperLive`.** `Degradation` is `step()` with its precedence
(kill switch, fresh decision, TTL, soft window, ageing). `PaperLive` is one
family's loop. `Begin` is all that `tick()` computes before it writes; the
writes are one action each, with `LedgerConflict` for a row in the way, `Crash`
anywhere and `Restart` as `__init__` does it. `Schedule` says which timestamps
the caller passes. The desks' forecasts, the market and the lots for a target
are inputs. Content-addressed ids are the content itself.

**`RuntimeRestore`** composes with `PaperLive`: between ticks the ledger is
copied row by row and file by file into a root of its own, any copy may fail,
and a loop may be opened on the result.

**`FamilySignal`** computes with exact fractions from the forecasts of a tick to
the lots: the checks of `ForecastV2`, abstention, eligibility, weights, the
linear pool on the three levels the control law reads, the budget, the shadow
rule, lots under every rounding.

**`PitStore`** is one (source, dataset, series). `WriteVintage` and
`WriteRevision` stage and classify; `Promote`, `Insert`, `Supersede` and
`AssertFails` follow; `Crash` comes between any two. DuckDB admits one process,
so there is one writer and reads happen between calls. `AsOf(ts)` is the set of
rows `as_of` may return, several only on a tie. NULL is -1, which gives
`DESC NULLS LAST` the order of the integers.

**`Ingest`** is a scheduler run over a list of ingesters. `Requests` lists what
each ingester asks for, one `...Reaction` per ingester says what it does with a
page, an error or an exception, `Retry` and `Failed` are the HTTP client, `Write`
the batch, with the store cut down to one period per release. The publisher
publishes and corrects between any two requests. `BuildView` is a feature view.
`CalendarResults` are the dates an event calendar derives, those up to today,
without a request.

**`RecordedReplay`** is the S4-0 runner from `Preflight` to `SealManifest`, one
action per evidence directory, with a crash after each and restarts with and
without `--overwrite`. It uses `Degradation` for its ticks. `Normalise` is the
rows of the feed in the order of their sort key, with what a comparison with an
earlier row says of each; `DecisionSamples` is the last one of each interval. `ContractRoll` and
`DepthFill` are the roll calendar and the fills; `S4Drills` runs them.

**`Validation`, `Tractability`, `EventAudits`, `EvalDrills`.** Operators for
splits, walk-forward, scores, gates and grades; for projecting and thinning
events; for the seven audits, in which a feature is the set of stamps it was
computed from. `EvalDrills` runs them on their inputs after the S4 drills; a
walk-forward and a queue take a step per row and per event. `S4Drills` is a
specification of its own (`DrillSpec`); `EvalSpec` starts with its steps and goes on
to the evaluation. `EventAudits` has two instances of `Tractability`, `One` and
`Far`, for the two ways the audits thin. The level grid of the forecasts is any
increasing sequence that holds the median (`GridAssumption`,
`QLevels` in `v2/contracts`), and the inputs of the judgements are what the code accepts
(`JudgementAssumption`: series of one length, forecasts that do not cross;
`EvaluationAssumption`: counts are whole numbers, a bar's month or week never goes back,
each price series has a last row).

**`Controller`, `Attribution`.** The v1 decision service over its tables
(`ServiceSpec`), an insert per action, and the four places that recompute its
arithmetic.

**`WeightTable`, `ResearchLoop`.** `WeightTable` is the append-only weights with
their order by (time, random id). `ResearchLoop` has the two checks that find a
late release, the Page-Hinkley latch, the queue with its order, and a dispatch
in steps: a handler's writes one by one, its return, the completion mark.

**`SoakRun`** is the loop of `soak/runner.py` statement by statement where an
interrupt may fall, the checkpoint's temporary file and rename, and the script
around it.

**`ForwardLedger`** uses `Tractability`. The job is `StartAll`, `Score`,
`AppendForecasts`, `AppendChain`, `StartResolve`, `OpenOutcomes`,
`WriteOutcomes`; beside it the clock, `Refresh` of prices, `LockAgain`, edits of
the ledger and `Crash`. Hash chains are the forecasts they were computed from.

## 4. Runs

`CHECK_DEADLOCK FALSE` stands where a behaviour ends because a bound is used up
(timestamps, attempts, ticks of the clock, drills). `forward` has none: the
last job can always start again, and deadlock is checked; so it is in
`killswitch_serial`.

| run | instance | what it shows |
|---|---|---|
| `killswitch_serial` | 2 families, 1 desk, 2 seconds, 3 log lines, crashes before the write | acknowledged restrictions are enforced (`ReadsEnforceAcked`), on record (`ActivationHasIncident`), numbered apart (`IncidentIdsUnique`); the files implement `SwitchPromise` (`KeepsPromise`) |
| `paperlive_ledger` | 2 timestamps, 4 attempts, 2 crashes, 1 switch change at every level, late ticks, retries | receipts verify (`ReceiptsVerify`); lots chain across restarts and the rows of a tick agree (`LedgerHangsTogether`) |
| `restore` | 3 timestamps once each, both sides, isolation and halt, 2 restores with a failure at any item | targets chain, the counter is the ledger's, abstention does not raise the target except right after a hard fail (`LadderFollowsLedger`); a restored root that verifies is whole, reopens at the recorded position and can be made again (`RestoreReproduces`) |
| `signal` | 2 desks, quantiles close, apart, tied or out of order, scores 0, 1/2, 1, an abstention, a foreign unit, every rounding | an excluded desk has no say, the pool stays within the desks and is never bolder, the budget within the shadow (`PoolingIsModest`); lots follow the desks (`OrderFollowsDesks`) |
| `pitstore` | 2 releases, 2 periods, 2 payloads, 1 stamp, 5 ticks, crashes | one row per slot (`SlotsUnique`), rows read back (`RowsReadable`), no superseded row served (`SupersededNotServed`), the past kept (`RevisionsKeepPast`) |
| `ingest` | each ingester, and pairs whose first may fail; 2 publications, 2 faults, 1 retry, 1 crash, 4 ticks | the store serves the publisher's last fetched word and nothing is back-dated (`StoreFollowsPublisher`), a view built again is the same (`ViewReplays`), every run ends and reports every ingester (`RunsComplete`) |
| `recorded_replay` | every file of up to 3 of 5 rows, 2 attempts, 2 operator commands | samples in order (`SamplesInOrder`), green only for a clean, cleared, verified run (`GreenIsEarned`), no root mixes two attempts unseen (`OneAttemptPerRoot`) |
| `drills` | 6 weeks with 2 holidays; books of 2 levels; 3 events; up to 8 rows, 4 blocks; 3 outcomes; 144 studies of 41 days for each of 7 audits | the roll leaves time (`RollLeavesTime`), fills account for every lot (`DrillsAccountForAll`), no evaluation uses its own future (`EvaluationLooksBack`), scores, gates and grades are proper and even (`JudgementsAreFair`) |
| `controller` | 2 desks, 3 forecasts, 2 decisions, 1 promotion, 1 crash | decisions replay from their tables and none runs on a partial cold start (`DecisionsReplay`), leave-one-out and Shapley agree with the decision (`AttributionAddsUp`), the hot-swap gate blames the right desk (`GateIsSound`) |
| `research_loop` | 1 feed, 1 desk, 2 regimes, 3 ticks, 2 pending events, 3 requests, 1 crash | one open incident, every trip reported (`ReportedOnce`), a review retires and reinstates (`ReviewTakesEffect`), recovery touches only its own feed's retirements (`RecoveryIsSelective`), the queue empties (`QueueDrains`) |
| `soak` | 4 units, a sample every 2, a path of 2 days, 2 stops, one leak | the checkpoint is never ahead and lags by a bound (`CheckpointTracksRows`), a leak is an incident within two samples (`LeakNoticed`), a run ends (`RunEnds`) |
| `forward` | 11 days of 4 ticks, 2 events to forecast, late prices, 2 mishaps | forecasts are blind and under their lock (`HoldoutIsHonest`), a verified ledger stays acceptable (`LedgerStaysUsable`), settled rows stay and count (`OutcomesStand`), thinning keeps all it may (`ThinningIsThrifty`), what is sealed only grows (`SealedOnlyGrows`), forecasts settle (`ForecastsSettle`) |

A property that has parts is their conjunction; the parts are named and
commented where it is defined. Every property of every run has a mutant in
`PROJECT.json`, a plausible bug in one mapped definition (a dropped guard, an
off-by-one, a swapped order), under which TLC finds it violated. `TypeOK` of a
module is documentation and the ground of the proofs; where no proof needs it,
no run spends itself on it.

### Why the bounds are enough

* Kill switch: a hazard takes two commands on nested or different targets and a
  third that follows; two seconds give ids both within and across seconds.
* Ledger and restore: a tick, a crash in its middle and a retry, twice; a
  healthy tick, a soft one and an aged one (`n_soft = 1`); a restore that fails
  and one that overwrites it.
* Store: a release, a correction, a repetition and a crash between them.
  Payloads are interchangeable, so the run uses their symmetry.
* Ingest: an ingester depends on another only through the scheduler's loop and
  the store, so one alone and one after a failure cover a list. `MaxRetries = 1`
  gives a first, a retried and a last attempt.
* Replay: three rows give an order, a tie and a duplicate; two attempts a
  restart. Two operator commands are a halt and its clearance.
* Research loop: a request before, during and after a handler; two regimes
  because a desk is reinstated in one and not in the other. With several feeds a
  desk is retired for the first unreliable one; `RecoveryIsSelective` is stated
  for that, and the run's second reason is the gate failure.
* Soak: two stops are a stop while resuming from a stop.
* Holdout: two events share a run or not, a missing day and late days delay
  their prices; two mishaps are any two of a
  crash, an edit of the ledger, an edit of a locked file and a new lock, among them an edit
  with the lock that makes it valid.
* Audits: 41 days are four months of ten, of which the first is training only,
  the second may hold the end of the warm-up; the closed days include one week
  longer than the thinning allows, which shows why the property needs its
  premise.
* Numbers are small integers or exact fractions. Where the code uses floats,
  the model shows the rule and not the rounding (section 7).

### Assumptions the runs make

Commands and reads of the switch do not overlap (`killswitch_serial`); the
caller ticks in order (`paperlive_ledger`, `restore`); fetches run no earlier
than `usable_after_ts` and no two revisions of a release share a second
(`pitstore`); publishers do not return to an earlier payload (`Reverts = FALSE`
in `ingest`); one holdout job at a time (`forward`). Section 7 says what happens
without them.

## 5. Fairness

The safety-only runs assume none. Where a property says that something must
happen, the specification states the least fairness that the code's scheduling
gives:

* `Ingest`: `WF(Work)`. One scheduler thread does one step after another, and
  every request ends by an answer, an error or its 30 s timeout, so the thread
  is never held for ever.
* `ResearchLoop`: `WF(Dispatch)`. The process keeps calling the dispatcher while
  events are pending. Nothing is assumed of who raises them.
* `SoakRun`: `WF(Step)`. A started runner goes on; crashes and restarts are not
  fair, and may always come.
* `ForwardLedger`: `SF(Tick)`, and `WF` of a refresh of the ended day, of the
  start of the daily job and of its steps. launchd starts the job every day and a
  started job runs to its end or dies. The clock does not move while the job
  scores in the model, so the clock is enabled again and again but not always,
  hence the strong form. Mishaps (crashes, edits, new locks) are bounded by `MaxMishaps = 2`
  and are never fair.

## 6. Proofs

The theorems hold for every value of the constants under the named `ASSUME` of
the component's module, which only give the constants their types and what the
code's own checks demand. A premise beyond that is written in the theorem
(`ASSUME Forward PROVE ...`) and explained here. Invariants are stated over the
same variables as the runs; each is the inductive one, made of the checked
property and what it needs.

### Kill switch (`KillSwitchProofs`)

* `TypeCorrect`: the state has its type under any overlap and any crash.
* `RestrictionsAreRecorded`: every activation in the switch file has an incident
  on record (`ActivationHasIncident`), under any overlap and any crash. The
  invariant alone is not inductive: a command writes what it loaded some steps
  before. `RecordInv` adds that what a running command has loaded, or is about to
  write, is on record too; that survives because the incident's line is
  appended before the file is written.
* `AcknowledgedIsEnforced`: what an operator was told is enforced is enforced.
  It assumes `Disciplined`, that commands are serial and none dies while the file
  is empty. `SerialInv` relates the file, the copy that the only running command
  holds, and the history of acknowledgements; `OneAtATime` says there is at most
  one such command. Without the assumption it is false (section 7).
* `CommandsKeepPromise`: under the same assumption, `KillSwitch` implements the
  abstract `SwitchPromise`, in which a command takes effect in one step. That
  step is the truncation of the file; all others map to stutters.
* `IdsAreUnique`: serial commands get different incident numbers. `NumberInv`
  bounds the numbers given out in a second by that second's lines.

### Point-in-time store (`HindsightProofs`)

* `TypeCorrect`: the state has its type.
* `OneRowPerSlot`: one row per dataset slot and revision time. `SlotInv` adds that
  the slot of a pending row is free and that stored revision times lie behind the
  clock.
* `StoreIsReadable`: each row's file is there with the row's contents, assuming
  `SecondClock` (no two revisions of a release in a second). `ReadInv` adds that the file
  of a pending row is already promoted. The lemma `PathNamesSlot` is where the
  assumption is used.
* `RevisionsLeavePast`: a write changes no answer about an earlier time.
  `StampInv` says that a pending revision carries its own ingest time or the
  caller's later stamp, so it was not eligible before, and the ranking of the rest is
  unchanged.
* `MarkedIsNotServed`: what the writer marks as superseded is not what `as_of`
  serves now. The writer sets the mark by time of insertion and the reader ranks
  by other columns, so the two agree only under `Orderly`: vintages name their
  period, a fetch runs once its release is usable, and a stamp lies after that
  moment. `SupersededInv` gives each marked row a revision in the manifest that
  ranks before it; the call under way brings the next one.

### Paper-live loop, ledger and receipts (`PaperLiveProofs`)

* `TypeCorrect`, and `RowsTellOneStory`: the rows of a timestamp record one
  trade (`RowsAgree`) for any order of timestamps. `StoryInv` adds that the tick
  in flight is consistent and that what it has written so far is what it holds.
* `LedgerIsOneHistory` (`LedgerHangsTogether`) and `ReceiptsGoOnVerifying`
  (`ReceiptsVerify`) assume `Forward`, a caller whose timestamps do not go back;
  a late tick breaks both (section 7). `OrderInv` says that no row lies after the tick
  under way; `LotsInv` that the last row's lots are the ones this tick
  starts from until its first execution row is there, and its own from then on,
  which is what a crash between two writes leaves to `Restart`; `ReceiptInv` that
  a receipt about to be written counts what the tables hold. With `OrderInv` no
  later row lies at or before an earlier receipt's timestamp, so its counts stay
  true.
* `LadderIsTheLedger` (`LadderFollowsLedger`) assumes `OneProcess`: no crash, and each
  timestamp once, because a crash forgets the exposure and a repeated timestamp
  counts twice in the ladder and once in the ledger. `FreshInv` says the rows a
  tick writes meet none; `LadderInv` that the exposure in memory is the last
  row's, and from the tick's own row on the one the tick leaves. Lemmas about
  `Step` give what one step can do to the target, from any reachable memory.

### Restore (`PaperLiveProofs`)

* `RestoreTypeCorrect`, `RestoredIsWhole` (`RestoreReproduces`), both under
  `Forward`. A receipt carries the numbers of rows up to it, so it verifies in a
  root where those rows are there; that rows which are *not* counted cannot
  stand in for missing ones is the content of the proof. `FileInv` says of the source that a
  receipt on file counts exactly the rows through its timestamp.
  `RestoreInv` is about the target: each cell is empty or the source's
  (`PartInv`); directories fill in the order of their timestamps, so the newest
  file vouches for all earlier ones (`InOrderInv`); what is not copied is on the
  list of the restore under way (`CopyInv`); after one that returned, the last
  row is the snapshot's, which is why a loop opened there finds the snapshot's lots
  (`DoneInv`). Counting uses the cardinalities of the sets of rows, and that a
  subset with as many members is the whole.

### Ingestion and feature views (`IngestProofs`)

* `IngestTypeCorrect`. The lemmas about `Requests` say in which order an ingester
  asks for its items, and so which keys it can still fetch.
* `ViewsReplay` (`ViewReplays`): a view built again for its moment has the same
  inputs unless a first release came in late. `DatedInv` says that nothing is
  stored from the future but calendar dates; `ViewInv` that views were built
  before the run under way began, so its revisions lie after them.
* `NeverBackdated` (`NotBackdated`): `OriginInv` keeps, for each row and each
  result in hand, the entry of the publisher's log it came from.
* `StoreFollows` (`StoreFollowsPublisher`): as_of serves what was written last.
  It assumes `OnceEach`, each ingester registered once, and `~Reverts`, no
  withdrawn correction; without the second it is false (section 7). `RunInv` orders the results of a run by their items,
  so no key is written twice in it; `ClockInv` says a key still to be written has
  no row of this moment, for otherwise two rows would tie; `SlotInv` that a
  release precedes its revisions; `ServeInv` that the top row has the newest
  content fetched, and that rows of older content are not released later. For
  FRED, whose release time is a request ahead of its data, `ServeInv` also bounds
  the release in hand by the publisher's.
* `EveryIngesterIsReported` (`RunReportsAll`, the safety half of `RunsComplete`):
  a run that comes to its end has told of every ingester.

### Recorded replay (`RecordedReplayProofs`)

* `TypeCorrect`; `OneRunPerRoot` (`OneAttemptPerRoot`): `OneWriter` says that
  while a run owns the root all files there are its own and no manifest is,
  however earlier starts died.
* `SamplesMoveForward` (`SamplesInOrder`): from the definitions of `Normalise`
  and `DecisionSamples` and the arithmetic of buckets.
* `GreenIsDeserved` (`GreenIsEarned`): `ReplayInv` follows the run from
  preflight to the seal: the ledger has a row for each tick behind the runner and
  no other (`Rows`), what was verified and restored is what the verdict counts
  (`Verdict`), and a sealed root keeps it (`Sealed`), whatever operators do to the
  switch in the meantime.

### Research loop (`ResearchLoopProofs`)

* `TypeCorrect`: with `QueueOK` (the handler's stage fits the event it handles)
  and `TableOK`, in which `Ordered` says that each key's rows stand
  as `get_latest_signal_weights` ranks them, by time; rows of one time stand
  either way round, as their random ids decide.
* `MissesAreReported` (`ReportedOnce`): `HandledIsOpen` says why an event may
  leave the queue: its handler saw to it that an incident of the feed is open. The
  exception is the gap between the latch's row and the rest, where a death of the
  process loses the report; the property names it.
* `ReviewsTakeEffect` (`ReviewTakesEffect`): a review retires first and reinstates
  after. `ReviewInv` says for each stage which desks are settled, by a row of
  the review's time or a later one, and which are still on the list.
* `RecoveryUndoesItsOwn` (`RecoveryIsSelective`, an action property):
  `SelectiveInv` says of each write still to be made that it takes weight away,
  is a promotion, or undoes a retirement for a feed that has no open
  incident. That the row inserted becomes the latest one of its key only when it
  ranks first is the lemma `Inserted`.

### Soak (`HarnessProofs`)

* `TypeCorrect`; `LeaksAreNoticed` (`LeakNoticed`), assuming a sample interval
  above 0: `LeakInv` bounds, by the loop's position, the time since the resource
  crossed its threshold and the last sample.
* `CheckpointKeepsUp` (`CheckpointTracksRows`): `AheadInv` says that a row is there
  before it is counted, in memory, in the temporary file and in the checkpoint;
  `LossInv` relates the decisions not yet saved to the time since the last save,
  so that a kill forgets at most `LostTicks`: the loops that fill a checkpoint
  interval, rounded up, and the one during which the next save falls due. Dividing
  and rounding down would be one too few when the cadence does not divide the
  interval.

### Forward holdout (`ForwardLedgerProofs`)

* `TypeCorrect`; `VerifiedStays` (`SealedOnlyGrows`), however the files are
  edited: `SealedInv` says that the sealed ledger is what the chain's entry at
  that length was computed from, and the chain file only grows.
* `LedgerVerifies` (`LedgerStaysUsable`): `IdsInv` says that a batch repeats no id
  of the ledger or its own, `ChainInv` that the chain covers the ledger but for
  the lines between the two appends, a crash there, or a missing file.
* `ForecastsAreEvidence` (`HoldoutIsHonest`) and `OutcomesAreFinal`
  (`OutcomesStand`) assume `Prompt`: the scoring lag is shorter than a day, as
  `MAX_SCORING_LAG` (6 hours) is. Then a run that may still score an event cannot
  see a price of the day its outcome starts on. `HonestInv` says it of the ledger
  and of the batch in hand; `RowsInv` that settled rows are at least a day old and
  their features can only get fresher; `FinalInv` that a settled row is on disk,
  or in the hands of the job that rewrites the file, unless a crash tore it.

* `ThinningWastesNothing` (`ThinningIsThrifty`): what the greedy thinning keeps of a
  set of events is apart and no smaller than any other subset that is, so a family's
  additional events are never counted below zero. Each step of the scan is at
  least as far as any apart set is after as many events.

### Controller and attribution (`HarnessProofs`)

Under `ControllerAssumption`: finitely many desks and regimes, whole numbers for
weights and forecasts.

* `DecisionsCanBeReplayed` (`DecisionsReplay`): a decision can be computed again from
  the tables, and none is taken on a partial cold start. `ServiceInv` says
  that each forecast a subscriber holds is stored, that rows are only
  appended, and that the inserts a cold start has left to do end
  each regime with its parameters, after the weights of all its desks. The
  parameters are what `decide` asks for, so once they are there the weights are.
* `AttributionHandsOutTheDecision` (`AttributionAddsUp`): leave-one-out contributions
  are what the position loses, and Shapley values add up to the decision. The
  exact form is the mean over all orderings of the desks. Its sum is found by
  the last desk of an ordering: the orderings of a set are, for each member,
  those of the rest followed by it, and the factorial shares of a coalition add up to
  one.
* `TheGateIsSound` (`GateIsSound`): a desk that meets the preconditions of the
  hot-swap gate passes it, whatever the others forecast: replacing it by the stub
  takes exactly its own product out of the combined signal, if it was fresh, and nothing
  otherwise.

### S4 drills (`HarnessProofs`)

* `TheRollLeavesTime` (`RollLeavesTime`): going back n business days passes exactly
  n of them, so a date lies in the roll window exactly when there are as few
  business days left as the window has. The premise `RollPremise` is that no fortnight is
  without a business day: `prior_business_day` (`contract_roll.py:38`) loops until
  it finds one, and the model's search stops after 14.
* `TheDrillsAccountForAll` (`DrillsAccountForAll`): no lot appears or vanishes in a
  fill, a queue or a hidden reserve; what a limit leaves out is beyond it; the
  drawdown is the largest fall of the equity. `DrillPremise` gives the inputs the types of the
  code's records. `DrillInv` keeps the input a drill is working on and what it has
  computed of it so far. A fold over a sequence is reasoned about through the
  function of its partial results: the first place where that function and the claim
  part would have a predecessor where they agree.

### Judgements (`HarnessProofs`)

* `TheJudgesAreFair` (`JudgementsAreFair`): for every grid that holds the median and
  every series, with `JudgeInv` made of one part for each kind of drill.
  No misreported forecast has a lower expected pinball loss than the empirical quantiles:
  the slopes of the loss left and right of a quantile are
  the counts of outcomes on either side, and the table of outcomes by levels
  can be added up by rows or by columns. Wider intervals cover no less: the median
  on the grid puts each grid level on one side of it, without which the claim
  is false. A desk that repeats the baseline does not pass the skill
test, and one that passes still does when a forecast of it is put right: the loss
is a sum of terms of which one becomes zero. Only the order of
  scores counts in a rank correlation, and its sign turns with the scores: ranks are
  kept by any increasing rescaling and mirrored by negation, so the covariance
  changes its sign and the variances do not. A grade favours neither side.

### Evaluation (`HindsightProofs`)

* `TheEvaluationLooksBack` (`EvaluationLooksBack`): no row that is evaluated on helped
  to make the forecast it is compared with, under `EvaluationAssumption`. `EvalInv`
  has a part for each kind of drill; only the walk takes several steps, and
  `WalkTo` says what it has done after any number of rows.
  - Cross-validation: the blocks follow each other and cover the rows, so each row is
    in one of them (`BlockOfRow`); exchanging two blocks maps the choices that test one row
    onto those that test another, so all rows are tested equally often.
  - Walk-forward: a block that has ended does not come back, so the forecaster's
    number grows exactly when the block does.
  - Audits: a feature rests on nothing later than its release (`Sound`), and from the
    data cut at the end of an anchor's label everything up to the anchor is computed
    the same: the labels (`EndOfCut`), the thinning, which never looks ahead
    (`ThinnedPrefix`), each feature (`Agrees`), each audit's rows (`RowsAgree`) and the
    training set of its month (`RefitOfCut`). For the audits that warm up by weeks
    the premise is that the event follows the warm-up, counted from the first event it was
    trained on; the warm-up by number ends on an event, so it needs none.

### Only model-checked

* Liveness (`RunEnds` of `Ingest` and `SoakRun`, `QueueDrains`,
  `ForecastsSettle`) and `ENABLED`: the prover has no rule for them.
* `PoolingIsModest` and `OrderFollowsDesks`. Their fractions are reduced by a
  greatest common divisor, defined by a recursion over pairs, and each
  level of the pool interpolates between two of many support points: products of
  four unknown integers, where the prover has only linear arithmetic to rely on.

The library's induction theorems take an operator as a parameter, which none of the
provers can instantiate. Where a proof needs induction over data it takes the least
counterexample instead: the set of lengths, or of sizes, at which a claim
about a given function fails is a set of naturals, and has a least element.

## 7. Known disagreements

Read in the source while modelling. The model does what the code does; these are
the places where that is not what a document, a comment or a test says, or where
a property needs a premise. No run is kept for them.

### Switch, paper live, store

* Torn read: the switch file is rewritten in place (`killctl.py:269`), and a
  reader that meets it empty reads "no restriction" (`kill_switch.py:102`,
  `safe_load(...) or {}`); compare `docs/v2/kill_switch_and_rollback.md:219` and
  `:224`. Overlapping commands lose an update (`killctl.py:261`, doc `:148`).
  `clear` takes any open incident whatever its scope (`killctl.py:144`).
* A restart records `prior_target` 0 (`v2/paper_live/loop.py:207`;
  `docs/v2/b6b_paper_live_spec.md:150`). After a halt is cleared the ladder
  re-enters through `last_valid_target` (`degradation.py:113`;
  `docs/v2/v2_decision_contract.md:164`), and the held target is valued at the
  current price (`loop.py:111`).
* Ticks filled in for an earlier time break the verification of later receipts
  (`simulator.py:444`, `replay.py:218`; `replay.py:3`). Two families share the
  snapshot directory (`simulator.py:342`).
* Store: a correction inside the latency guard is not served
  (`reader.py:92`; `v2_data_contract.md:77`; `test_reader.py:68`). A check runs
  after the insert it guards (`writer.py:235`; `:121`). A second revision leaves
  the first one's `superseded_by` NULL (`writer.py:236`;
  `v2_data_contract.md:79`). A correction that is withdrawn stays served
  (`writer.py:144`, `:128`). `latest_available_before` (`reader.py:149`) filters on
  the release time only; only tests call it. Paths resolve to the second
  (`writer.py:327`).
* A restore does not copy the kill switch file or the incident log.

### Ingestion and market data

* FRED takes two requests per fetch (`fred_alfred.py:169`;
  `v2_data_contract.md:288`), so the pair can straddle a revision. `HTTPClient`
  makes `max_retries + 1` attempts, four where its docstring has three; the last
  5xx is returned as a response; timeouts are not retried.
* An error page for the STEO index is a success with no vintages. EIA, Baker and
  CME frames carry the retrieval time, so each re-fetch is a revision, where
  `v2/ingest/__init__.py:8` says "Idempotent across runs". The EIA API snapshot and
  the WPSR archive write the same key. A feature view's eligibility is the first
  written.
* Event calendar: Thanksgiving is taken as the fourth Monday plus three days,
  wrong when November starts on Tuesday to Thursday; New Year's Day observed on
  31 December is not seen.
* Recorded replay: rows are sorted by timestamp, then by the sequence number *as a
  string*, where the audit declares the exchange's sequence first; the identity of a
  duplicate includes its row number, so none is counted; `has_material_gap` never
  reaches the stop/go decision; the clearance is read at preflight and copied
  later.

### Research loop, controller, soak, signal

* The retirement cap comes after the writes it should prevent (`handlers.py:495`
  and the budget check near `:571`). The weekly handler writes nothing.
* Retired desks (weight 0) keep receiving Shapley credit in grading space
  (`shapley.py:147`; `controller/decision.py:105`). The leave-one-out attribution reads the latest
  weights again. Every start of a soak seeds the cold-start row again and so undoes promotions
  (`scripts/run_soak_test.py:127`).
* Soak time restarts with each process (`docs/architecture_spec_v1.md:897`;
  `soak/checkpoint.py:4`). The memory check needs ratio *and* growth where
  `incident.py:89` says "either"; its baseline is taken again on each start.
* Signal: tied quantiles pool oddly (one desk with quantiles 0, 1, 1 gets median
  0.5; `test_pool.py:16`). On a flat piece of the distribution the last support point
  is returned; the comment at `pool.py:87` says the first.

### Holdout and studies

* The automation runs at 17:30 ET and `MAX_SCORING_LAG` is six hours, so WPSR, PSM,
  GPR and OPEC events are never scored. The feature anchor includes the event's
  day while the lock says "strict_previous_trading_day_excludes_event_day". A
  missing chain is rebuilt silently; `outcomes.csv` is rewritten in place; a crash
  between the two appends stalls the ledger for good; two overlapping jobs break
  the chain; a sleep between `as_of` and the load of prices breaks
  blindness. The `AdditiveN` guard can never reject.
* Validation: `walk_forward.py:3` says the model is frozen within a month, but
  `fit_predict` gets the whole history every day (`:131`). Bars with the same
  time are accepted (`:84`), so the history may hold a bar of the tested
  time. Test labels reach later training rows when the embargo is shorter
  than the horizon; a label may end after `month_start` and be trained on. A NaN
  correlation counts as a failure. In grading one print may match several
  forecasts and the reverse. `gate_hot_swap` says "controller_exception" when a
  closure merely returns False.
* Event audits: the docstring (`audit_fomc_3d_phase3.py:139`) says nothing is
  predicted before the warm-up ends, but the test mask (`:200`) takes every event
  of a month that has one event after it; this is the premise of
  `LaterDataChangesNothing` (`AfterWarmup`). `audit_wpsr` keeps the last release of an anchor (`:145`)
  where the others keep the first, and scores one anchor twice when two
  observations fall on it (`:464`), against the one-per-anchor contract at
  `tractability_v1.py:743`. An FOMC anchor that is also a WPSR anchor counts as
  WPSR. The harness drops a family's residuals when it is not admissible. A label
  span longer than purge plus embargo (a long closure) would let a training label reach a
  tested anchor.

## 8. Not modelled

* Release calendars, v2 oil desks, v1 desks, simulators: numeric formulas and
  validation of inputs, with no state that a step could leave wrong.
* Within the modelled parts: fill prices and profit; hashes (contents stand
  for them, so a collision is out of scope); `latest_available_before`,
  `vintage_diff` and freshness bands; several series in one store; two families in
  one snapshot directory; publishers' file formats; the Diebold-Mariano,
  bootstrap and sample-size statistics; regressions; report text; KPI and prompt
  routing; the audits' feature values and zero trailing deviations.
* Recorded replay's rendering and manifests
  (`recorded_replay.py` 808-846 and 945-1009).
* Floating point: integers and exact fractions stand for it, so rounding of block
  edges, of weights and of quantiles is not covered.
