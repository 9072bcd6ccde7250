----------------------------- MODULE PaperLive -----------------------------
(***************************************************************************)
(* The paper-live decision loop of one family: PaperLiveLoop.tick of       *)
(* v2/paper_live/loop.py, the two append-only tables and the snapshot      *)
(* receipts of v2/execution/simulator.py, and the receipt check of         *)
(* v2/runtime/replay.py.                                                   *)
(*                                                                         *)
(* A tick reads the kill-switch, asks the desks, runs the degradation      *)
(* ladder and then makes five separate writes: the decision row, the       *)
(* optimistic and the pessimistic execution row, receipt.json and          *)
(* receipt.sha256.  Every insert commits by itself, so the process can die *)
(* between any two of them; a new process starts from a flat exposure and  *)
(* from the lots of the latest optimistic row.                             *)
(*                                                                         *)
(* Rows are keyed by decision_ts.  Their content-addressed ids are modelled *)
(* by the content itself: equal ids mean equal content.                    *)
(***************************************************************************)
EXTENDS Degradation, FiniteSets

CONSTANTS
    MaxTs,         \* bound: decision timestamps 1..MaxTs
    MaxAttempts,   \* bound: ticks started, over all processes
    MaxCrashes,    \* bound: crashes of the loop's process
    MaxOps,        \* bound: kill-switch activations
    Lateness,      \* how long after decision_ts a tick may be emitted
    TTL,           \* a decision is stale when emitted later than this
    ForecastTTL,   \* the same for the desks' forecasts (valid_until_ts)
    Budgets,       \* risk budgets the desks and the control law can produce
    Markets,       \* market conditions (price, volatility, realised return)
    LotsAt,        \* market -> target exposure -> rounded lots
    Levels,        \* kill-switch levels the operators use
    Schedule       \* which decision_ts the caller passes next

\* How much of the family the switch lets through: every desk, some of its
\* desks, none of them, or a family / system halt.
Level == {"enabled", "partial", "isolated", "halting"}

ASSUME LoopAssumption ==
    /\ MaxTs \in Nat /\ MaxAttempts \in Nat /\ MaxCrashes \in Nat /\ MaxOps \in Nat
    /\ Lateness \subseteq Nat /\ TTL \in Nat /\ ForecastTTL \in Nat
    /\ Budgets \subseteq Exposure
    /\ LotsAt \in [Markets -> [Exposure -> Int]]
    /\ Levels \subseteq Level
    /\ Schedule \in {"strict", "retry", "any"}

Ts == 1..MaxTs
Scenario == {"optimistic", "pessimistic"}

\* The switch as the loop hashes it: its level and the incident behind it.
Switch == [level : Level, ref : 0..MaxOps]
Halting(sw) == sw.level = "halting"

VARIABLES
    switch,      \* what load_kill_switch would return
    ops,         \* activations so far
    decisions,   \* family_decisions: decision_ts -> row or NULL
    executions,  \* execution_ledger: scenario -> decision_ts -> row or NULL
    receipts,    \* receipt.json by decision_ts
    hashes,      \* receipt.sha256 by decision_ts
    pc,          \* the loop's process
    tick,        \* the tick under way
    exposure,    \* PaperLiveLoop._exposure
    prior_lots,  \* PaperLiveLoop._prior_lots
    attempts, crashes,
    done         \* history: ticks that returned, their receipt not rewritten since

ledger == <<decisions, executions>>
files == <<receipts, hashes>>
memory == <<exposure, prior_lots>>
vars == <<switch, ops, ledger, files, pc, tick, memory, attempts, crashes, done>>

ForecastType == [b : Budgets \cup {NULL}, emitted : Nat, level : Level]
Reason == [kind : {"kill_switch", "ttl_breached", "family"}, ref : 0..MaxOps]
DecisionType ==
    [ts : Ts, forecast : ForecastType \cup {NULL}, market : Markets, state : DegradationState,
     abstain : BOOLEAN, reason : Reason \cup {NULL}, target_risk_budget : Exposure \cup {NULL}]
DecisionRowType == [id : DecisionType, kill_switch : Switch]
ExecutionType ==
    [decision : DecisionType, emitted : Nat, market : Markets, prior_target : Exposure,
     new_target : Exposure, prior_lots : Int, new_lots : Int, state : DegradationState,
     abstain : BOOLEAN]
ReceiptType ==
    [ts : Ts, decision : DecisionType, execution : ExecutionType, kill_switch : Switch,
     runtime_counts : [family_decisions : Nat, execution_ledger : Nat]]
TickType == [ts : Ts, switch : Switch, next : ExposureState, execution : ExecutionType]

\* None is none of the rows, files and ticks it stands for the absence of.
ASSUME NullIsNoRow ==
    /\ NULL \notin DecisionRowType /\ NULL \notin ExecutionType
    /\ NULL \notin ReceiptType /\ NULL \notin TickType

\* The tables, the receipts and the loop's memory are well-formed, and a tick
\* is under way exactly while the process is neither idle nor down.
TypeOK ==
    /\ switch \in Switch /\ ops \in 0..MaxOps
    /\ decisions \in [Ts -> DecisionRowType \cup {NULL}]
    /\ executions \in [Scenario -> [Ts -> ExecutionType \cup {NULL}]]
    /\ receipts \in [Ts -> ReceiptType \cup {NULL}]
    /\ hashes \in [Ts -> ReceiptType \cup {NULL}]
    /\ pc \in {"idle", "computed", "receipt", "hash", "down"} \cup Scenario
    /\ tick \in TickType \cup {NULL} /\ (tick = NULL <=> pc \in {"idle", "down"})
    /\ exposure \in ExposureState /\ prior_lots \in Int
    /\ attempts \in 0..MaxAttempts /\ crashes \in 0..MaxCrashes
    /\ done \subseteq Ts

Init ==
    /\ switch = [level |-> "enabled", ref |-> 0] /\ ops = 0
    /\ decisions = [ts \in Ts |-> NULL]
    /\ executions = [sc \in Scenario |-> [ts \in Ts |-> NULL]]
    /\ receipts = [ts \in Ts |-> NULL]
    /\ hashes = [ts \in Ts |-> NULL]
    /\ pc = "idle" /\ tick = NULL
    /\ exposure = FlatExposure /\ prior_lots = 0
    /\ attempts = 0 /\ crashes = 0
    /\ done = {}

Recorded(rows) == {ts \in Ts : rows[ts] # NULL}

(***************************************************************************)
(* run_decision_tick: the pure part of a tick.  in is what the tick was    *)
(* called with and read, s the exposure before it.                         *)
(***************************************************************************)

\* _collect_forecasts asks no desk under a halt or with all of them isolated.
HasForecasts(sw) == sw.level \in {"enabled", "partial"}

Forecast(in) ==
    IF HasForecasts(in.switch)
    THEN [b |-> in.b, emitted |-> in.emitted, level |-> in.switch.level] ELSE NULL
RawBudget(in) == IF HasForecasts(in.switch) THEN in.b ELSE NULL
TtlBreached(in) == \/ in.emitted > in.ts + TTL
                   \/ HasForecasts(in.switch) /\ in.emitted > in.ts + ForecastTTL

Event(in) == [b_t |-> IF TtlBreached(in) THEN NULL ELSE RawBudget(in),
              ttl_breached |-> TtlBreached(in),
              kill_switch_halting |-> Halting(in.switch)]

NewExposure(in, s) == Step(s, Event(in))

DecisionAbstains(in, s) ==
    \/ RawBudget(in) = NULL
    \/ TtlBreached(in)
    \/ Halting(in.switch)
    \/ NewExposure(in, s).state # HEALTHY

AbstainReason(in) ==
    IF Halting(in.switch) THEN [kind |-> "kill_switch", ref |-> in.switch.ref]
    ELSE [kind |-> IF TtlBreached(in) THEN "ttl_breached" ELSE "family", ref |-> 0]

\* What decision_json holds; emitted_ts enters it only through the forecasts.
Decision(in, s) ==
    [ts |-> in.ts, forecast |-> Forecast(in), market |-> in.market,
     state |-> NewExposure(in, s).state, abstain |-> DecisionAbstains(in, s),
     reason |-> IF DecisionAbstains(in, s) THEN AbstainReason(in) ELSE NULL,
     target_risk_budget |-> IF DecisionAbstains(in, s) THEN NULL ELSE RawBudget(in)]

\* One execution row; both scenarios get it, with their own costs.
Execution(in, s, lots) ==
    [decision |-> Decision(in, s), emitted |-> in.emitted, market |-> in.market,
     prior_target |-> s.current_target, new_target |-> NewExposure(in, s).current_target,
     prior_lots |-> lots, new_lots |-> LotsAt[in.market][NewExposure(in, s).current_target],
     state |-> NewExposure(in, s).state, abstain |-> DecisionAbstains(in, s)]

(***************************************************************************)
(* PaperLiveLoop.tick                                                      *)
(***************************************************************************)

\* The caller passes later timestamps, may repeat the last one, or any.
MayTick(ts) ==
    /\ Schedule = "strict" => \A u \in Recorded(decisions) : ts > u
    /\ Schedule = "retry" => \A u \in Recorded(decisions) : ts >= u

\* Read the switch, collect forecasts, compute the outcome; nothing is written.
Begin(in) ==
    /\ pc = "idle"
    /\ attempts < MaxAttempts
    /\ MayTick(in.ts)
    /\ pc' = "computed"
    /\ tick' = [ts |-> in.ts, switch |-> in.switch, next |-> NewExposure(in, exposure),
                execution |-> Execution(in, exposure, prior_lots)]
    /\ attempts' = attempts + 1
    /\ UNCHANGED <<switch, ops, ledger, files, memory, crashes, done>>

DecisionRow == [id |-> tick.execution.decision, kill_switch |-> tick.switch]

\* record_decision: insert, or accept a row that is identical
RecordDecision ==
    /\ pc = "computed"
    /\ decisions[tick.ts] \in {NULL, DecisionRow}
    /\ decisions' = [decisions EXCEPT ![tick.ts] = DecisionRow]
    /\ pc' = "optimistic"
    /\ UNCHANGED <<switch, ops, executions, files, tick, memory, attempts, crashes, done>>

\* Mutant: an existing execution row is overwritten.
UpsertTick(sc) ==
    /\ pc = sc
    /\ executions' = [executions EXCEPT ![sc][tick.ts] = tick.execution]
    /\ pc' = IF sc = "optimistic" THEN "pessimistic" ELSE "receipt"
    /\ UNCHANGED <<switch, ops, decisions, files, tick, memory, attempts, crashes, done>>

\* record_tick, once per scenario
RecordTick(sc) ==
    /\ pc = sc
    /\ executions[sc][tick.ts] \in {NULL, tick.execution}
    /\ executions' = [executions EXCEPT ![sc][tick.ts] = tick.execution]
    /\ pc' = IF sc = "optimistic" THEN "pessimistic" ELSE "receipt"
    /\ UNCHANGED <<switch, ops, decisions, files, tick, memory, attempts, crashes, done>>

\* RuntimeLedgerConflictError: a different row is in the way.  tick() raises
\* before it touches _exposure or _prior_lots.
LedgerConflict ==
    /\ \/ pc = "computed" /\ decisions[tick.ts] \notin {NULL, DecisionRow}
       \/ pc \in Scenario /\ executions[pc][tick.ts] \notin {NULL, tick.execution}
    /\ pc' = "idle" /\ tick' = NULL
    /\ UNCHANGED <<switch, ops, ledger, files, memory, attempts, crashes, done>>

Counts(when) ==
    [family_decisions |-> Cardinality(Recorded(decisions) \cap when),
     execution_ledger |->
        Cardinality({x \in Scenario \X when : executions[x[1]][x[2]] # NULL})]
CountsAll == Counts(Ts)
CountsThrough(ts) == Counts(1..ts)

Receipt ==
    [ts |-> tick.ts, decision |-> tick.execution.decision, execution |-> tick.execution,
     kill_switch |-> tick.switch, runtime_counts |-> CountsAll]

\* write_snapshot_receipt, receipt.json: from here until the tick returns the
\* snapshot directory is being rewritten.
WriteReceipt ==
    /\ pc = "receipt"
    /\ receipts' = [receipts EXCEPT ![tick.ts] = Receipt]
    /\ done' = done \ {tick.ts}
    /\ pc' = "hash"
    /\ UNCHANGED <<switch, ops, ledger, hashes, tick, memory, attempts, crashes>>

\* write_snapshot_receipt, receipt.sha256; tick() then moves the loop's
\* exposure and lots and returns.
Finish ==
    /\ pc = "hash"
    /\ hashes' = [hashes EXCEPT ![tick.ts] = receipts[tick.ts]]
    /\ exposure' = tick.next
    /\ prior_lots' = tick.execution.new_lots
    /\ done' = done \cup {tick.ts}
    /\ pc' = "idle" /\ tick' = NULL
    /\ UNCHANGED <<switch, ops, ledger, receipts, attempts, crashes>>

\* The process dies; what it had committed stays.
Crash ==
    /\ pc # "down" /\ crashes < MaxCrashes
    /\ pc' = "down" /\ tick' = NULL
    /\ crashes' = crashes + 1
    /\ UNCHANGED <<switch, ops, ledger, files, memory, attempts, done>>

\* Mutant: a new process starts without a position.
SeedNothing == 0

\* InternalSimulator.latest: the optimistic row with the greatest decision_ts
IsLatest(ts) == /\ executions["optimistic"][ts] # NULL
                /\ \A u \in Recorded(executions["optimistic"]) : u <= ts
SeedLots ==
    IF Recorded(executions["optimistic"]) = {} THEN 0
    ELSE executions["optimistic"][CHOOSE ts \in Ts : IsLatest(ts)].new_lots

\* PaperLiveLoop.__init__
Restart ==
    /\ pc = "down"
    /\ pc' = "idle"
    /\ exposure' = FlatExposure
    /\ prior_lots' = SeedLots
    /\ UNCHANGED <<switch, ops, ledger, files, tick, attempts, crashes, done>>

(***************************************************************************)
(* The operators, through killctl: KillSwitch models how the file gets     *)
(* there; here a command is one step, between any two steps of a tick.     *)
(* Isolations made under a halt show once the halt is cleared.             *)
(***************************************************************************)

Activate(l) ==
    /\ ops < MaxOps
    /\ l # "enabled" /\ (Halting(switch) => l = "halting")
    /\ ops' = ops + 1
    /\ switch' = [level |-> l, ref |-> ops + 1]
    /\ UNCHANGED <<ledger, files, pc, tick, memory, attempts, crashes, done>>

\* Clearing a halt restores every default; clearing a desk keeps triggered_at.
Clear ==
    /\ switch.level # "enabled"
    /\ switch' = [level |-> "enabled", ref |-> IF Halting(switch) THEN 0 ELSE switch.ref]
    /\ UNCHANGED <<ops, ledger, files, pc, tick, memory, attempts, crashes, done>>

TickInput == {[ts |-> ts, emitted |-> ts + late, market |-> m, b |-> b, switch |-> switch] :
                ts \in Ts, late \in Lateness, m \in Markets, b \in Budgets \cup {NULL}}

Next ==
    \/ \E in \in TickInput : Begin(in)
    \/ RecordDecision
    \/ \E sc \in Scenario : RecordTick(sc)
    \/ LedgerConflict
    \/ WriteReceipt
    \/ Finish
    \/ Crash
    \/ Restart
    \/ \E l \in Levels : Activate(l)
    \/ Clear

Spec == Init /\ [][Next]_vars
-----------------------------------------------------------------------------
(***************************************************************************)
(* verify_snapshot_receipt of v2/runtime/replay.py                         *)
(***************************************************************************)

Verifies(ts) ==
    LET r == receipts[ts]
    IN  /\ r # NULL
        /\ hashes[ts] = r
        /\ decisions[r.ts] = [id |-> r.decision, kill_switch |-> r.kill_switch]
        /\ \A sc \in Scenario : executions[sc][r.ts] = r.execution
        /\ r.runtime_counts = CountsThrough(r.ts)

-----------------------------------------------------------------------------
(***************************************************************************)
(* Properties                                                              *)
(***************************************************************************)

Row(ts) == executions["optimistic"][ts]
Traded == Recorded(executions["optimistic"])
Previous(ts) == {u \in Traded : u < ts /\ \A v \in Traded : v < ts => v <= u}

\* The receipt of every tick that returned verifies, and goes on verifying
\* whatever later ticks, failed retries and crashes do to the ledger.
ReceiptsVerify == \A ts \in done : Verifies(ts)

\* The lots a row starts from are the lots the row before it left, across
\* crashes: no fill is lost or counted twice.
LotsChain ==
    \A ts \in Traded :
        Row(ts).prior_lots = IF Previous(ts) = {} THEN 0
                             ELSE Row(CHOOSE u \in Previous(ts) : TRUE).new_lots

\* The rows kept for one decision_ts tell one story although several attempts
\* may have written them: both scenarios record the same trade, for the
\* decision on file, and a decision taken under a halt left no position.
RowsAgree ==
    \A sc \in Scenario, ts \in Ts : executions[sc][ts] # NULL =>
        /\ executions[sc][ts] = Row(ts)
        /\ decisions[ts] # NULL
        /\ Row(ts).decision = decisions[ts].id
        /\ Row(ts).abstain = decisions[ts].id.abstain
        /\ ~ Row(ts).abstain => Row(ts).new_target = decisions[ts].id.target_risk_budget
        /\ Halting(decisions[ts].kill_switch) => Row(ts).new_target = 0 /\ Row(ts).abstain

\* Whatever dies between two writes of a tick and is tried again, the ledger
\* reads as one attempt per tick, each starting where the one before it ended.
LedgerHangsTogether == LotsChain /\ RowsAgree

\* The target a row starts from is the target the row before it left.
TargetChain ==
    \A ts \in Traded :
        Row(ts).prior_target = IF Previous(ts) = {} THEN 0
                               ELSE Row(CHOOSE u \in Previous(ts) : TRUE).new_target

\* The soft-abstain window counts decision ticks: between ticks the ladder's
\* counter is the number of ledger rows since the last healthy one.
LadderCountsTicks ==
    pc = "idle" =>
        exposure.ticks_since_valid =
            Cardinality({ts \in Traded : \A u \in Traded : u >= ts => Row(u).state # HEALTHY})

Abs(x) == IF x < 0 THEN -x ELSE x

\* An abstaining tick holds or cuts the risk target of the tick before it;
\* only the first tick after a hard fail may raise it again.
AbstainCutsTarget ==
    \A ts \in Traded :
        (Row(ts).abstain /\ \A u \in Previous(ts) : Row(u).state # HARD_FAIL)
            => Abs(Row(ts).new_target) <= Abs(Row(ts).prior_target)

\* What the ladder remembers between ticks and what the ledger recorded are one
\* history, over any mix of healthy, abstaining, late and halted ticks.
LadderFollowsLedger == TargetChain /\ LadderCountsTicks /\ AbstainCutsTarget

=============================================================================
