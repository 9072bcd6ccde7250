--------------------------- MODULE RecordedReplay ---------------------------
(***************************************************************************)
(* The S4-0 recorded-replay runner, v2/s4_0/recorded_replay.py with        *)
(* replay_quality.py: preflight, an evidence root filled directory by      *)
(* directory, normalisation of a recorded feed, a decision tick per        *)
(* sampled event, verification, restore, stop/go and the manifest.         *)
(*                                                                         *)
(* The runner is one process that may die at any step and be started again *)
(* on what it left behind; operators reach its runtime root through        *)
(* killctl while it runs.                                                  *)
(*                                                                         *)
(* A file is modelled by the attempt that wrote it, a row's hash by the    *)
(* row.  `sequence` is a string: the runner sorts by the string.           *)
(***************************************************************************)
EXTENDS Degradation, Sequences, SequencesExt, FiniteSets

CONSTANTS
    Feeds,          \* recorded files: sequences of rows
    Symbols,        \* symbols that occur in them
    FrontSymbol, NextSymbol,
    SeqTexts,       \* texts of the sequence column, "" for none, in string order
    Start, End,     \* session_start, session_end
    Interval,       \* decision_interval_minutes
    BudgetOf,       \* sign of the realised return -> risk budget
    MaxAttempts,    \* bound: starts of the runner
    MaxOps          \* bound: operator commands

Row == [ts : Nat, symbol : Symbols, sequence : ToSet(SeqTexts), price : Nat \ {0}]

ASSUME ReplayAssumption ==
    /\ Feeds \subseteq Seq(Row)
    /\ Start \in Nat /\ End \in Nat /\ Interval \in Nat \ {0}
    /\ BudgetOf \in [{-1, 0, 1} -> Exposure]
    /\ MaxAttempts \in Nat /\ MaxOps \in Nat
Level == {"enabled", "isolated", "halting"}

VARIABLES
    feed,       \* raw_feed_csv
    cleared,    \* the run-control files approve the run
    pc,         \* what the runner does next
    attempt,    \* starts so far
    overwrite,  \* the flag of this start
    occupied,   \* the evidence root exists and is not empty
    files,      \* evidence directory -> attempt that wrote it, 0 when empty
    accepted,   \* normalised events
    samples,    \* decision samples
    ledger,     \* runtime rows of this root, one per decision tick
    exposure,   \* ExposureState of the run
    level,      \* kill_switch.yaml of the runtime root
    restored,   \* rows in 15_restore/runtime_restored, or NULL
    failures,   \* exceptions
    manifest,   \* manifest.yaml, or NULL
    sealed,     \* manifest.sha256: the manifest it was computed from
    torn,       \* history: a removal of the root was cut short
    ops

run == <<accepted, samples, exposure, failures>>
root == <<occupied, files, ledger, level, restored, manifest, sealed>>
vars == <<feed, cleared, pc, attempt, overwrite, run, root, torn, ops>>

-----------------------------------------------------------------------------
\* _normalise_events and _decision_samples

SeqRank(s) == CHOOSE i \in DOMAIN SeqTexts : SeqTexts[i] = s
InSession(e) == Start <= e.ts /\ e.ts <= End /\ e.symbol \in {FrontSymbol, NextSymbol}
Indexed(f) == {[row |-> f[i], index |-> i] : i \in DOMAIN f}
SessionRows == {x \in Indexed(feed) : InSession(x.row)}
\* the key of sorted(): (ts_event, sequence text, row index)
Before(a, b) ==
    \/ a.row.ts < b.row.ts
    \/ /\ a.row.ts = b.row.ts
       /\ \/ SeqRank(a.row.sequence) < SeqRank(b.row.sequence)
          \/ a.row.sequence = b.row.sequence /\ a.index < b.index
\* Mutant: the rows are taken as they stand in the file.
NormaliseUnsorted(rows) ==
    {s \in SetToSeqs(rows) : \A i, j \in DOMAIN s : i < j => s[i].index < s[j].index}
\* The one order of the rows that agrees with Before.
Normalise(rows) == {s \in SetToSeqs(rows) : \A i, j \in DOMAIN s : i < j => Before(s[i], s[j])}

\* Rows that repeat another one, and rows behind the one before them in the file.
Duplicates(rows) == Cardinality(rows) - Cardinality({x.row : x \in rows})
Follows(rows, x, y) ==
    y.index < x.index /\ ~ \E z \in rows : y.index < z.index /\ z.index < x.index
OutOfOrder(rows) ==
    Cardinality({x \in rows : \E y \in rows : Follows(rows, x, y) /\ x.row.ts < y.row.ts})

Bucket(e) == (e.row.ts - Start) \div Interval
FrontRows(rows) == {i \in DOMAIN rows : rows[i].row.symbol = FrontSymbol}
\* The last event of a bucket stands for it; buckets in order.
LastOfBuckets(rows) ==
    {rows[i] : i \in {j \in FrontRows(rows) :
                        \A k \in FrontRows(rows) : j < k => Bucket(rows[k]) # Bucket(rows[j])}}
DecisionSamples(rows) ==
    {s \in SetToSeqs(LastOfBuckets(rows)) :
        \A i, j \in DOMAIN s : i < j => Bucket(s[i]) < Bucket(s[j])}

\* hard_failures of the quality report
HardFailures ==
    \/ FrontRows(accepted) = {}
    \/ ~ \E i \in DOMAIN accepted : accepted[i].row.symbol = NextSymbol
    \/ samples = <<>>

-----------------------------------------------------------------------------
\* The evidence root.

Dirs == 0..16
\* Directories in the order they are filled: before the ticks, after them,
\* and once replay and restore are through.
Intake == <<0, 1, 2, 3, 4, 5>>
Records == <<9, 10, 11, 12>>
Reports == <<13, 16>>
Unwritten == [d \in Dirs |-> 0]
Wrote(d) == files' = [files EXCEPT ![d] = attempt]

Init ==
    /\ feed \in Feeds /\ cleared = TRUE
    /\ pc = <<"down">> /\ attempt = 0 /\ overwrite = FALSE
    /\ occupied = FALSE /\ files = Unwritten
    /\ accepted = <<>> /\ samples = <<>> /\ exposure = FlatExposure /\ failures = FALSE
    /\ ledger = <<>> /\ level = "enabled" /\ restored = NULL
    /\ manifest = NULL /\ sealed = NULL
    /\ torn = FALSE /\ ops = 0

\* main
Begin ==
    /\ pc = <<"down">> /\ attempt < MaxAttempts
    /\ attempt' = attempt + 1
    /\ overwrite' \in BOOLEAN
    /\ pc' = <<"preflight">>
    /\ accepted' = <<>> /\ samples' = <<>> /\ exposure' = FlatExposure /\ failures' = FALSE
    /\ UNCHANGED <<feed, cleared, root, torn, ops>>

\* _preflight: clearance and attestation are read once, here
Preflight ==
    /\ pc = <<"preflight">>
    /\ pc' = IF cleared THEN <<"root">> ELSE <<"down">>
    /\ UNCHANGED <<feed, cleared, attempt, overwrite, run, root, torn, ops>>

\* Mutant: the old root is written over, not removed.
PrepareKeepsRoot ==
    /\ pc = <<"root">> /\ (occupied => overwrite)
    /\ occupied' = TRUE
    /\ ledger' = <<>> /\ level' = "enabled" /\ restored' = NULL
    /\ pc' = <<"normalise">>
    /\ UNCHANGED <<feed, cleared, attempt, overwrite, run, files, manifest, sealed, torn, ops>>

\* _prepare_run_root and _prepare_evidence_dirs
PrepareRunRoot ==
    /\ pc = <<"root">> /\ (occupied => overwrite)
    /\ occupied' = TRUE /\ files' = Unwritten
    /\ ledger' = <<>> /\ level' = "enabled" /\ restored' = NULL
    /\ manifest' = NULL /\ sealed' = NULL /\ torn' = FALSE
    /\ pc' = <<"normalise">>
    /\ UNCHANGED <<feed, cleared, attempt, overwrite, run, ops>>

RefuseRoot ==
    /\ pc = <<"root">> /\ occupied /\ ~overwrite
    /\ pc' = <<"down">>
    /\ UNCHANGED <<feed, cleared, attempt, overwrite, run, root, torn, ops>>

\* The process dies in rmtree: some directories and perhaps the manifest stay.
DieInRemoval ==
    /\ pc = <<"root">> /\ occupied /\ overwrite
    /\ \E k \in Dirs : files' = [d \in Dirs |-> IF d < k THEN files[d] ELSE 0]
    /\ \/ manifest' = NULL /\ sealed' = NULL
       \/ UNCHANGED <<manifest, sealed>>
    /\ torn' = TRUE /\ pc' = <<"down">>
    /\ UNCHANGED <<feed, cleared, attempt, overwrite, run, occupied, ledger, level, restored, ops>>

\* Load, normalise and measure the feed; a hard failure ends the run.
NormaliseEvents ==
    /\ pc = <<"normalise">>
    /\ accepted' \in Normalise(SessionRows) /\ samples' \in DecisionSamples(accepted')
    /\ pc' = IF HardFailures' THEN <<"down">> ELSE <<"intake", 1>>
    /\ UNCHANGED <<feed, cleared, attempt, overwrite, exposure, failures, root, torn, ops>>

\* The evidence writers, one directory at a time.
WriteEvidence ==
    /\ pc[1] \in {"intake", "records", "reports"}
    /\ LET dirs == [intake |-> Intake, records |-> Records, reports |-> Reports][pc[1]]
           next == [intake |-> <<"tick", 1>>, records |-> <<"verify">>, reports |-> <<"manifest">>]
       IN  /\ Wrote(dirs[pc[2]])
           /\ pc' = IF pc[2] = Len(dirs) THEN next[pc[1]] ELSE <<pc[1], pc[2] + 1>>
    /\ UNCHANGED <<feed, cleared, attempt, overwrite, run, occupied, ledger, level, restored,
                   manifest, sealed, torn, ops>>

-----------------------------------------------------------------------------
\* The ticks.

Sign(x) == IF x > 0 THEN 1 ELSE IF x < 0 THEN -1 ELSE 0
Realised(k) == IF k = 1 THEN 0 ELSE Sign(samples[k].row.price - samples[k - 1].row.price)
\* _forecast_for_sample and the control law: the budget of the drift
Budget(k) == BudgetOf[Realised(k)]
TickEventOf(k) == [b_t |-> IF level = "halting" THEN NULL ELSE Budget(k), ttl_breached |-> FALSE,
                   kill_switch_halting |-> level = "halting"]
PriorTarget == IF ledger = <<>> THEN 0 ELSE Last(ledger).new_target

\* One sample: read the switch, decide, record, write the receipt (with the
\* row counts so far), the forecast and the decision; lineage after the last.
DecisionTick ==
    /\ pc[1] = "tick"
    /\ LET k == pc[2]
           next == Step(exposure, TickEventOf(k))
       IN  /\ ledger' = Append(ledger,
                [ts |-> samples[k].row.ts, prior_target |-> PriorTarget,
                 new_target |-> next.current_target, level |-> level, counts |-> Len(ledger) + 1])
           /\ exposure' = next
           /\ files' = [files EXCEPT ![7] = attempt, ![8] = attempt,
                                     ![6] = IF k = Len(samples) THEN attempt ELSE @]
           /\ pc' = IF k = Len(samples) THEN <<"records", 1>> ELSE <<"tick", k + 1>>
    /\ UNCHANGED <<feed, cleared, attempt, overwrite, accepted, samples, failures, occupied, level,
                   restored, manifest, sealed, torn, ops>>

RowsThrough(t) == {i \in DOMAIN ledger : ledger[i].ts <= t}
\* verify_snapshot_receipt: the counts of a receipt against the rows up to it
Verifies(i) == ledger[i].counts = Cardinality(RowsThrough(ledger[i].ts))

VerifyReplay ==
    /\ pc = <<"verify">>
    /\ failures' = (\E i \in DOMAIN ledger : ~Verifies(i))
    /\ Wrote(14)
    /\ pc' = <<"restore">>
    /\ UNCHANGED <<feed, cleared, attempt, overwrite, accepted, samples, exposure, occupied, ledger, level,
                   restored, manifest, sealed, torn, ops>>

\* restore_runtime_snapshot through the last sample, when configured.  A
\* receipt that does not verify makes it raise, and the run ends there.
RestoreLast ==
    /\ pc = <<"restore">>
    /\ \/ /\ Verifies(Len(ledger))
          /\ restored' \in {NULL, Cardinality(RowsThrough(Last(ledger).ts))}
          /\ Wrote(15)
          /\ pc' = <<"reports", 1>>
       \/ /\ ~Verifies(Len(ledger))
          /\ pc' = <<"down">>
          /\ UNCHANGED <<files, restored>>
    /\ UNCHANGED <<feed, cleared, attempt, overwrite, run, occupied, ledger, level,
                   manifest, sealed, torn, ops>>

\* Mutant: the order of the feed is not looked at.
StopGoIgnoresOrder ==
    IF failures THEN "red" ELSE IF restored = NULL THEN "amber"
    ELSE IF Duplicates(SessionRows) > 0 THEN "amber" ELSE "green"
\* _stop_go
StopGo ==
    IF failures THEN "red" ELSE IF restored = NULL THEN "amber"
    ELSE IF Duplicates(SessionRows) > 0 \/ OutOfOrder(SessionRows) > 0 THEN "amber" ELSE "green"

\* _write_manifest, manifest.yaml: every file of the root
WriteManifest ==
    /\ pc = <<"manifest">>
    /\ manifest' = [stop_go |-> StopGo, files |-> files]
    /\ pc' = <<"seal">>
    /\ UNCHANGED <<feed, cleared, attempt, overwrite, run, occupied, files, ledger, level, restored,
                   sealed, torn, ops>>

\* _write_manifest, manifest.sha256; the report is returned
SealManifest ==
    /\ pc = <<"seal">>
    /\ sealed' = manifest
    /\ pc' = <<"down">>
    /\ UNCHANGED <<feed, cleared, attempt, overwrite, run, occupied, files, ledger, level, restored,
                   manifest, torn, ops>>

Crash ==
    /\ pc # <<"down">>
    /\ pc' = <<"down">>
    /\ UNCHANGED <<feed, cleared, attempt, overwrite, run, root, torn, ops>>

\* killctl on the runtime root, and the owner's clearance file
Operate ==
    /\ occupied /\ ops < MaxOps
    /\ level' \in Level \ {level}
    /\ ops' = ops + 1
    /\ UNCHANGED <<feed, cleared, pc, attempt, overwrite, run, occupied, files, ledger, restored,
                   manifest, sealed, torn>>
Withdraw ==
    /\ cleared /\ cleared' = FALSE
    /\ UNCHANGED <<feed, pc, attempt, overwrite, run, root, torn, ops>>

Next ==
    \/ Begin \/ Preflight \/ PrepareRunRoot \/ RefuseRoot \/ DieInRemoval
    \/ NormaliseEvents \/ WriteEvidence \/ DecisionTick \/ VerifyReplay \/ RestoreLast
    \/ WriteManifest \/ SealManifest
    \/ Crash \/ Operate \/ Withdraw

Spec == Init /\ [][Next]_vars
-----------------------------------------------------------------------------
\* Properties.

\* The run's state is well-formed; the rows of the root are as many as the
\* ticks behind the runner.
TypeOK ==
    /\ feed \in Seq(Row) /\ cleared \in BOOLEAN
    /\ attempt \in 0..MaxAttempts /\ overwrite \in BOOLEAN
    /\ occupied \in BOOLEAN /\ files \in [Dirs -> 0..MaxAttempts]
    /\ {accepted, samples} \subseteq Seq([row : Row, index : Nat])
    /\ exposure \in ExposureState /\ level \in Level
    /\ restored \in Nat \cup {NULL}
    /\ pc[1] = "tick" => Len(ledger) = pc[2] - 1
    /\ pc[1] \in {"records", "verify", "restore", "reports", "manifest"} => Len(ledger) = Len(samples)
    /\ ops \in 0..MaxOps

\* Whatever order the file's rows are in, the ticks move forward in time, and
\* each one acts on an event no later one of its interval follows: the ledger
\* has one key per decision_ts, and the receipts count rows by time.
SamplesInOrder ==
    \A i, j \in DOMAIN samples :
        /\ i < j => samples[i].row.ts < samples[j].row.ts
        /\ \A k \in FrontRows(accepted) :
               Bucket(accepted[k]) = Bucket(samples[i]) => accepted[k].row.ts <= samples[i].row.ts

GreenSealed == sealed # NULL /\ ~torn /\ sealed.stop_go = "green" /\ pc = <<"down">>

\* A root sealed green is a whole run: each directory written by the one
\* attempt that sealed it, a row and a verified receipt for every sample of
\* this feed, and all of them restored.
GreenIsWhole ==
    GreenSealed =>
        /\ \E a \in 1..MaxAttempts : \A d \in Dirs : files[d] = a /\ sealed.files[d] = a
        /\ \E rows \in Normalise(SessionRows) : \E due \in DecisionSamples(rows) :
             /\ Len(ledger) = Len(due) /\ restored = Len(due)
             /\ \A i \in DOMAIN ledger : ledger[i].ts = due[i].row.ts /\ Verifies(i)

\* A root sealed green is of a feed no row of which is repeated or late.
GreenIsClean ==
    GreenSealed =>
        \A x, y \in SessionRows :
            x.index < y.index => x.row # y.row /\ x.row.ts <= y.row.ts

\* Green stands for a whole run of a clean feed.
GreenIsEarned == GreenIsWhole /\ GreenIsClean

\* Crashes, refusals and overwrites never leave a root with evidence of two
\* attempts, or a manifest listing files of another attempt.
OneAttemptPerRoot ==
    /\ \A c, d \in Dirs : files[c] # 0 /\ files[d] # 0 => files[c] = files[d]
    /\ manifest # NULL /\ ~torn => manifest.files = files

=============================================================================
