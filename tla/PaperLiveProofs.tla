--------------------------- MODULE PaperLiveProofs ---------------------------
(***************************************************************************)
(* What holds of the decision loop, its ledger and its receipts for every  *)
(* number of decision timestamps, every budget, market and lot rounding,   *)
(* every switch level and any number of crashes and retries; and of the    *)
(* roots restored from any snapshot of it, whatever restores fail          *)
(* half-way.                                                               *)
(***************************************************************************)
EXTENDS RuntimeRestore, FiniteSetTheorems, TLAPS

-----------------------------------------------------------------------------
(***************************************************************************)
(* The degradation ladder.                                                 *)
(***************************************************************************)

\* Decay moves a target toward zero and keeps its sign.
LEMMA DecayShrinks ==
    ASSUME NEW x \in Exposure
    PROVE  /\ Decay(x) \in Exposure
           /\ x >= 0 => 0 <= Decay(x) /\ Decay(x) <= x
           /\ x <= 0 => x <= Decay(x) /\ Decay(x) <= 0
  <1>1. ASSUME NEW y \in Nat
        PROVE  (y * (DecayDen - DecayNum)) \div DecayDen \in 0 .. y
    <2> DEFINE keep == DecayDen - DecayNum
               part == (y * keep) \div DecayDen
    <2>1. keep \in Nat /\ keep <= DecayDen /\ DecayDen \in Nat \ {0}
      BY LadderAssumption
    <2>2. y * keep \in Nat /\ y * keep <= y * DecayDen
      BY <2>1
    <2> HIDE DEF keep
    <2>3. part \in Nat /\ part * DecayDen <= y * keep
      BY <2>1, <2>2
    <2>4. part * DecayDen <= y * DecayDen
      BY <2>1, <2>2, <2>3
    <2>5. part <= y
      BY <2>1, <2>3, <2>4
    <2> QED
      BY <2>3, <2>5 DEF keep
  <1>2. Unit \in Nat /\ x \in Int
    BY LadderAssumption DEF Exposure
  <1>3. CASE x >= 0
    BY <1>1, <1>2, <1>3 DEF Decay, Exposure
  <1>4. CASE x < 0
    <2>1. -x \in Nat
      BY <1>2, <1>4
    <2>2. ((-x) * (DecayDen - DecayNum)) \div DecayDen \in 0 .. (-x)
      BY <1>1, <2>1
    <2> QED
      BY <1>2, <1>4, <2>2 DEF Decay, Exposure
  <1> QED
    BY <1>2, <1>3, <1>4

\* One step of the ladder keeps the exposure well-formed.
LEMMA StepType ==
    ASSUME NEW s \in ExposureState, NEW e \in TickEvent
    PROVE  Step(s, e) \in ExposureState
  <1>a. /\ Decay(s.current_target) \in Exposure
        /\ s.ticks_since_valid + 1 \in Nat
        /\ 0 \in Exposure
    BY DecayShrinks, LadderAssumption DEF ExposureState, Exposure
  <1>1. /\ ForceFlat(s) \in ExposureState
        /\ Hold(s) \in ExposureState
        /\ Age(s) \in ExposureState
    BY <1>a
       DEF ForceFlat, Hold, Age, ExposureState, DegradationState,
           HEALTHY, SOFT_ABSTAIN, AGED, HARD_FAIL
  <1>2. e.b_t # NULL => Rebalance(e.b_t) \in ExposureState
    BY DEF Rebalance, TickEvent, ExposureState, DegradationState, HEALTHY
  <1> QED
    BY <1>1, <1>2 DEF Step

-----------------------------------------------------------------------------
(***************************************************************************)
(* What a tick computes from its input.                                    *)
(***************************************************************************)
Input == [ts : Ts, emitted : Nat, market : Markets, b : Budgets \cup {NULL}, switch : Switch]

\* The inputs of Next are inputs.
LEMMA InputType == switch \in Switch => TickInput \subseteq Input
  BY LoopAssumption DEF TickInput, Input, Ts

\* The event the ladder gets is well-formed.
LEMMA EventType ==
    ASSUME NEW in \in Input
    PROVE  Event(in) \in TickEvent
  BY LoopAssumption
     DEF Event, TickEvent, TtlBreached, RawBudget, HasForecasts, Halting, Input, Exposure

\* The decision and the execution row of a tick are well-formed rows.
LEMMA RowTypes ==
    ASSUME NEW in \in Input, NEW s \in ExposureState, NEW lots \in Int
    PROVE  /\ NewExposure(in, s) \in ExposureState
           /\ Decision(in, s) \in DecisionType
           /\ Execution(in, s, lots) \in ExecutionType
  <1>1. NewExposure(in, s) \in ExposureState
    BY EventType, StepType DEF NewExposure
  <1>2. DecisionAbstains(in, s) \in BOOLEAN
    BY DEF DecisionAbstains, Halting, TtlBreached
  <1>3. Forecast(in) \in ForecastType \cup {NULL}
    BY DEF Forecast, ForecastType, HasForecasts, Input, Switch
  <1>4. AbstainReason(in) \in Reason
    BY LoopAssumption DEF AbstainReason, Reason, Input, Switch
  <1>5. ~ DecisionAbstains(in, s) => RawBudget(in) \in Exposure
    BY LoopAssumption DEF DecisionAbstains, RawBudget, Input
  <1>6. Decision(in, s) \in DecisionType
    BY <1>1, <1>2, <1>3, <1>4, <1>5 DEF Decision, DecisionType, Input, ExposureState
  <1>7. LotsAt[in.market][NewExposure(in, s).current_target] \in Int
    BY <1>1, LoopAssumption DEF Input, ExposureState
  <1> QED
    BY <1>1, <1>2, <1>6, <1>7 DEF Execution, ExecutionType, Input, ExposureState

-----------------------------------------------------------------------------
(***************************************************************************)
(* Type correctness.                                                       *)
(***************************************************************************)
UnderWay == pc \notin {"idle", "down"}

\* The tick under way is one, and its rows are rows.
LEMMA TickRows ==
    ASSUME TypeOK, UnderWay
    PROVE  /\ tick \in TickType /\ tick # NULL
           /\ tick.ts \in Ts /\ tick.execution \in ExecutionType
           /\ DecisionRow \in DecisionRowType /\ DecisionRow # NULL
           /\ tick.execution # NULL
  <1>1. tick \in TickType
    BY DEF TypeOK, UnderWay
  <1>2. tick.execution.decision \in DecisionType /\ tick.switch \in Switch
    BY <1>1 DEF TickType, ExecutionType
  <1>3. DecisionRow \in DecisionRowType
    BY <1>2 DEF DecisionRow, DecisionRowType
  <1> QED
    BY <1>1, <1>3, NullIsNoRow DEF TickType

\* The rows are counted with a number once the tables are finite.
LEMMA TableFinite ==
    /\ IsFiniteSet(Recorded(decisions)) /\ IsFiniteSet(Scenario \X Ts)
  <1>1. IsFiniteSet(Ts)
    BY LoopAssumption, FS_Interval DEF Ts
  <1>2. IsFiniteSet(Recorded(decisions))
    BY <1>1, FS_Subset DEF Recorded
  <1>3. IsFiniteSet({"optimistic"}) /\ IsFiniteSet({"optimistic"} \cup {"pessimistic"})
    BY FS_EmptySet, FS_AddElement, FS_Singleton
  <1>4. Scenario = {"optimistic"} \cup {"pessimistic"}
    BY DEF Scenario
  <1> QED
    BY <1>1, <1>2, <1>3, <1>4, FS_Product

\* A receipt is one.
LEMMA ReceiptIsOne ==
    ASSUME TypeOK, UnderWay
    PROVE  Receipt \in ReceiptType
  <1>1. Cardinality(Recorded(decisions) \cap Ts) \in Nat
    <2>1. IsFiniteSet(Recorded(decisions) \cap Ts)
      BY TableFinite, FS_Subset
    <2> QED
      BY <2>1, FS_CardinalityType
  <1>2. Cardinality({x \in Scenario \X Ts : executions[x[1]][x[2]] # NULL}) \in Nat
    <2>1. IsFiniteSet({x \in Scenario \X Ts : executions[x[1]][x[2]] # NULL})
      BY TableFinite, FS_Subset
    <2> QED
      BY <2>1, FS_CardinalityType
  <1>3. CountsAll \in [family_decisions : Nat, execution_ledger : Nat]
    BY <1>1, <1>2 DEF CountsAll, Counts
  <1>4. tick.execution.decision \in DecisionType /\ tick.switch \in Switch
    BY TickRows DEF TickType, ExecutionType
  <1> QED
    BY <1>3, <1>4, TickRows DEF Receipt, ReceiptType

\* A new process starts from a number of lots.
LEMMA SeedType ==
    ASSUME TypeOK, Traded = {} \/ \E ts \in Ts : IsLatest(ts)
    PROVE  SeedLots \in Int
  <1>1. CASE Traded = {}
    BY <1>1 DEF SeedLots, Traded
  <1>2. CASE \E ts \in Ts : IsLatest(ts)
    <2> DEFINE last == CHOOSE ts \in Ts : IsLatest(ts)
    <2>1. last \in Ts /\ IsLatest(last)
      BY <1>2
    <2>2. executions["optimistic"][last] \in ExecutionType
      BY <2>1 DEF IsLatest, TypeOK, Scenario
    <2> QED
      BY <2>2 DEF SeedLots, ExecutionType
  <1> QED
    BY <1>1, <1>2

\* An empty ledger is well-formed.
LEMMA TypeInit == Init => TypeOK
  BY LoopAssumption, LadderAssumption
     DEF Init, TypeOK, Switch, Level, Scenario, FlatExposure, ExposureState,
         DegradationState, HEALTHY, Exposure

\* A row of the optimistic scenario is the latest one, if there is any.
HasLatest == Traded = {} \/ \E ts \in Ts : IsLatest(ts)
TypeInv == TypeOK /\ HasLatest

\* A new row is the latest, or the latest row stays it.
LEMMA RecordKeepsLatest ==
    ASSUME TypeInv, NEW sc \in Scenario, RecordTick(sc)
    PROVE  HasLatest'
  <1>1. tick.ts \in Ts /\ tick.execution # NULL
    BY TickRows DEF TypeInv, RecordTick, UnderWay, Scenario
  <1>2. \A ts \in Ts : ts \in Int
    BY LoopAssumption DEF Ts
  <1>3. CASE sc = "pessimistic"
    <2>1. executions'["optimistic"] = executions["optimistic"]
      BY <1>3 DEF RecordTick, TypeInv, TypeOK, Scenario
    <2> QED
      BY <2>1 DEF TypeInv, HasLatest, Traded, IsLatest, Recorded
  <1>4. CASE sc = "optimistic"
    <2>1. \A ts \in Ts : executions'["optimistic"][ts] =
                IF ts = tick.ts THEN tick.execution ELSE executions["optimistic"][ts]
      BY <1>1, <1>4 DEF RecordTick, TypeInv, TypeOK, Scenario
    <2>2. Traded' = Traded \cup {tick.ts}
      BY <1>1, <2>1 DEF Traded, Recorded
    <2>3. CASE \A u \in Traded : u <= tick.ts
      <3>1. PICK t \in Ts : t = tick.ts
        BY <1>1
      <3>2. IsLatest(t)'
        BY <1>1, <1>2, <2>1, <2>2, <2>3, <3>1 DEF IsLatest, Traded
      <3> QED
        BY <3>2 DEF HasLatest
    <2>4. CASE \E u \in Traded : ~ (u <= tick.ts)
      <3>1. PICK last \in Ts : IsLatest(last)
        BY <2>4 DEF TypeInv, HasLatest
      <3>2. last \in Traded /\ \A u \in Traded : u <= last
        BY <3>1 DEF IsLatest, Traded, Recorded
      <3>3. tick.ts <= last
        BY <1>1, <1>2, <2>4, <3>2 DEF Traded, Recorded
      <3>4. IsLatest(last)'
        BY <1>1, <2>1, <2>2, <3>1, <3>2, <3>3 DEF IsLatest, Traded
      <3> QED
        BY <3>4 DEF HasLatest
    <2> QED
      BY <2>3, <2>4
  <1> QED
    BY <1>3, <1>4 DEF Scenario

\* Every step keeps the tables, the receipts and the memory well-formed.
LEMMA TypeNext == TypeInv /\ [Next]_vars => TypeInv'
  <1> SUFFICES ASSUME TypeInv, [Next]_vars PROVE TypeInv'
    OBVIOUS
  <1> USE DEF TypeInv
  <1>h. ASSUME UNCHANGED executions PROVE HasLatest'
    BY <1>h DEF HasLatest, Traded, IsLatest, Recorded
  <1>1. ASSUME NEW in \in TickInput, Begin(in) PROVE TypeInv'
    <2>1. in \in Input
      BY InputType DEF TypeOK
    <2>2. /\ NewExposure(in, exposure) \in ExposureState
          /\ Execution(in, exposure, prior_lots) \in ExecutionType
      BY <2>1, RowTypes DEF TypeOK
    <2>3. tick' \in TickType
      BY <1>1, <2>1, <2>2 DEF Begin, TickType, Input
    <2>4. attempts' \in 0..MaxAttempts
      BY <1>1, LoopAssumption DEF Begin, TypeOK
    <2>5. UNCHANGED <<switch, ops, decisions, executions, receipts, hashes, exposure, prior_lots,
                      crashes, done>> /\ pc' = "computed"
      BY <1>1 DEF Begin, ledger, files, memory
    <2>6. TypeOK'
      BY <2>3, <2>4, <2>5, NullIsNoRow DEF TypeOK
    <2> QED
      BY <1>h, <2>5, <2>6
  <1>2. ASSUME RecordDecision PROVE TypeInv'
    <2>1. tick.ts \in Ts /\ DecisionRow \in DecisionRowType
      BY <1>2, TickRows DEF RecordDecision, UnderWay
    <2>2. decisions' \in [Ts -> DecisionRowType \cup {NULL}]
      BY <1>2, <2>1 DEF RecordDecision, TypeOK
    <2>3. TypeOK'
      BY <1>2, <2>2 DEF RecordDecision, TypeOK, files, memory, Scenario
    <2> QED
      BY <1>h, <1>2, <2>3 DEF RecordDecision
  <1>3. ASSUME NEW sc \in Scenario, RecordTick(sc) PROVE TypeInv'
    <2>1. tick.ts \in Ts /\ tick.execution \in ExecutionType /\ tick # NULL
      BY <1>3, TickRows DEF RecordTick, UnderWay, Scenario
    <2>2. executions' \in [Scenario -> [Ts -> ExecutionType \cup {NULL}]]
      BY <1>3, <2>1 DEF RecordTick, TypeOK
    <2>3. TypeOK'
      BY <1>3, <2>1, <2>2 DEF RecordTick, TypeOK, files, memory, Scenario
    <2> QED
      BY <1>3, <2>3, RecordKeepsLatest
  <1>4. ASSUME LedgerConflict PROVE TypeInv'
    <2>1. TypeOK'
      BY <1>4 DEF LedgerConflict, TypeOK, ledger, files, memory
    <2> QED
      BY <1>h, <1>4, <2>1 DEF LedgerConflict, ledger
  <1>5. ASSUME WriteReceipt PROVE TypeInv'
    <2>1. tick.ts \in Ts /\ Receipt \in ReceiptType
      BY <1>5, TickRows, ReceiptIsOne DEF WriteReceipt, UnderWay
    <2>2. receipts' \in [Ts -> ReceiptType \cup {NULL}] /\ done' \subseteq Ts
      BY <1>5, <2>1 DEF WriteReceipt, TypeOK
    <2>3. TypeOK'
      BY <1>5, <2>2 DEF WriteReceipt, TypeOK, ledger, memory
    <2> QED
      BY <1>h, <1>5, <2>3 DEF WriteReceipt, ledger
  <1>6. ASSUME Finish PROVE TypeInv'
    <2>1. tick \in TickType /\ tick.ts \in Ts
      BY <1>6, TickRows DEF Finish, UnderWay
    <2>2. tick.next \in ExposureState /\ tick.execution.new_lots \in Int
      BY <2>1 DEF TickType, ExecutionType
    <2>3. hashes' \in [Ts -> ReceiptType \cup {NULL}] /\ done' \subseteq Ts
      BY <1>6, <2>1 DEF Finish, TypeOK
    <2>4. TypeOK'
      BY <1>6, <2>2, <2>3 DEF Finish, TypeOK, ledger
    <2> QED
      BY <1>h, <1>6, <2>4 DEF Finish, ledger
  <1>7. ASSUME Crash PROVE TypeInv'
    <2>1. TypeOK'
      BY <1>7, LoopAssumption DEF Crash, TypeOK, ledger, files, memory
    <2> QED
      BY <1>h, <1>7, <2>1 DEF Crash, ledger
  <1>8. ASSUME Restart PROVE TypeInv'
    <2>1. SeedLots \in Int /\ FlatExposure \in ExposureState
      BY SeedType, LadderAssumption
         DEF HasLatest, FlatExposure, ExposureState, DegradationState, HEALTHY, Exposure
    <2>2. TypeOK'
      BY <1>8, <2>1 DEF Restart, TypeOK, ledger, files
    <2> QED
      BY <1>h, <1>8, <2>2 DEF Restart, ledger
  <1>9. ASSUME NEW l \in Levels, Activate(l) PROVE TypeInv'
    <2>1. l \in Level
      BY LoopAssumption
    <2>2. ops' \in 0..MaxOps /\ switch' \in Switch
      BY <1>9, <2>1, LoopAssumption DEF Activate, TypeOK, Switch
    <2>3. TypeOK'
      BY <1>9, <2>2 DEF Activate, TypeOK, ledger, files, memory
    <2> QED
      BY <1>h, <1>9, <2>3 DEF Activate, ledger
  <1>10. ASSUME Clear PROVE TypeInv'
    <2>1. switch' \in Switch
      BY <1>10, LoopAssumption DEF Clear, TypeOK, Switch, Level
    <2>2. TypeOK'
      BY <1>10, <2>1 DEF Clear, TypeOK, ledger, files, memory
    <2> QED
      BY <1>h, <1>10, <2>2 DEF Clear, ledger
  <1>11. ASSUME UNCHANGED vars PROVE TypeInv'
    BY <1>h, <1>11 DEF vars, ledger, files, memory, TypeOK
  <1> QED
    BY <1>1, <1>2, <1>3, <1>4, <1>5, <1>6, <1>7, <1>8, <1>9, <1>10, <1>11 DEF Next

\* A flat start has no rows.
LEMMA TypeInvInit == Init => TypeInv
  BY TypeInit DEF Init, TypeInv, HasLatest, Traded, Recorded, Scenario

\* The two tables, the receipts and what the process holds stay well-formed
\* under any crash, retry, late tick and operator command.
THEOREM TypeCorrect == Spec => []TypeOK
  <1>1. TypeInv => TypeOK
    BY DEF TypeInv
  <1> QED
    BY <1>1, TypeInvInit, TypeNext, PTL DEF Spec

-----------------------------------------------------------------------------
(***************************************************************************)
(* The ledger and the receipts.  None of the properties is inductive: a    *)
(* row is written from a tick that was computed some steps before, so the  *)
(* invariants say what that tick still has in common with the tables.      *)
(***************************************************************************)
Deciding == pc \in {"computed", "optimistic"}

\* A decision and the trade made for it, under a switch.
Consistent(decision, execution, sw) ==
    /\ execution.decision = decision
    /\ execution.abstain = decision.abstain
    /\ ~ execution.abstain => execution.new_target = decision.target_risk_budget
    /\ Halting(sw) => execution.new_target = 0 /\ execution.abstain

\* The tick under way is consistent, and what it has written so far is there.
StoryInv ==
    /\ UnderWay => Consistent(tick.execution.decision, tick.execution, tick.switch)
    /\ UnderWay /\ pc # "computed" => decisions[tick.ts] = DecisionRow
    /\ pc \in {"pessimistic", "receipt", "hash"} =>
          executions["optimistic"][tick.ts] = tick.execution
    /\ pc \in {"receipt", "hash"} => executions["pessimistic"][tick.ts] = tick.execution
    /\ RowsAgree

\* No row lies after the tick under way: the caller does not go back.
OrderInv ==
    UnderWay => \A u \in Recorded(decisions) : u <= tick.ts

\* Until a tick has its first execution row, the lots it starts from are those
\* of the last row; from then on the last row is its own.
LotsInv ==
    /\ pc = "idle" \/ Deciding => prior_lots = SeedLots
    /\ Deciding => tick.execution.prior_lots = prior_lots
    /\ LotsChain

\* The receipt being written counts what the tables hold, and every receipt on
\* file is of its own timestamp.
ReceiptInv ==
    /\ \A ts \in Ts : receipts[ts] # NULL => receipts[ts].ts = ts
    /\ pc = "hash" => receipts[tick.ts] = Receipt
    /\ ReceiptsVerify

\* What run_decision_tick computes is consistent: only a healthy rebalance is
\* not an abstention, and it takes the budget; a halt goes flat.
LEMMA ComputedIsConsistent ==
    ASSUME NEW in \in Input, NEW s \in ExposureState, NEW lots
    PROVE  Consistent(Decision(in, s), Execution(in, s, lots), in.switch)
  <1>1. /\ Execution(in, s, lots).decision = Decision(in, s)
        /\ Execution(in, s, lots).abstain = DecisionAbstains(in, s)
        /\ Execution(in, s, lots).new_target = NewExposure(in, s).current_target
        /\ Decision(in, s).abstain = DecisionAbstains(in, s)
        /\ ~ DecisionAbstains(in, s) => Decision(in, s).target_risk_budget = RawBudget(in)
    BY DEF Execution, Decision
  <1>2. ASSUME ~ DecisionAbstains(in, s)
        PROVE  NewExposure(in, s).current_target = RawBudget(in)
    <2>1. /\ ~ Event(in).kill_switch_halting /\ Event(in).b_t = RawBudget(in)
          /\ RawBudget(in) # NULL
      BY <1>2 DEF DecisionAbstains, Event
    <2>2. NewExposure(in, s) = Rebalance(RawBudget(in))
      BY <2>1 DEF NewExposure, Step
    <2> QED
      BY <2>2 DEF Rebalance
  <1>3. ASSUME Halting(in.switch)
        PROVE  NewExposure(in, s).current_target = 0 /\ DecisionAbstains(in, s)
    <2>1. Event(in).kill_switch_halting
      BY <1>3 DEF Event
    <2>2. NewExposure(in, s) = ForceFlat(s)
      BY <2>1 DEF NewExposure, Step
    <2> QED
      BY <1>3, <2>2 DEF ForceFlat, ExposureState, DecisionAbstains
  <1> QED
    BY <1>1, <1>2, <1>3 DEF Consistent

\* Begin leaves a consistent tick.
LEMMA BegunIsConsistent ==
    ASSUME TypeInv, NEW in \in TickInput, Begin(in)
    PROVE  Consistent(tick'.execution.decision, tick'.execution, tick'.switch)
  <1>1. in \in Input /\ exposure \in ExposureState
    BY InputType DEF TypeInv, TypeOK
  <1>2. /\ tick'.execution = Execution(in, exposure, prior_lots)
        /\ tick'.switch = in.switch
    BY Zenon DEF Begin
  <1>3. Execution(in, exposure, prior_lots).decision = Decision(in, exposure)
    BY DEF Execution
  <1> QED
    BY <1>1, <1>2, <1>3, ComputedIsConsistent

\* Every step keeps the rows of a timestamp agreeing with each other and with
\* the tick that is writing them.
LEMMA StoryNext == TypeInv /\ StoryInv /\ [Next]_vars => StoryInv'
  <1> SUFFICES ASSUME TypeInv, StoryInv, [Next]_vars PROVE StoryInv'
    OBVIOUS
  <1>0. TypeOK /\ TypeOK' /\ TypeInv'
    BY TypeNext DEF TypeInv
  <1>a. ASSUME UNCHANGED <<decisions, executions>> PROVE RowsAgree'
    BY <1>a DEF StoryInv, RowsAgree, Row
  <1>b. ASSUME UNCHANGED <<decisions, executions>>, pc' \in {"idle", "down"} PROVE StoryInv'
    BY <1>a, <1>b DEF StoryInv, UnderWay
  <1>1. ASSUME NEW in \in TickInput, Begin(in) PROVE StoryInv'
    <2>1. pc' = "computed" /\ UNCHANGED <<decisions, executions>>
      BY <1>1 DEF Begin, ledger
    <2> QED
      BY <1>1, <1>a, <2>1, BegunIsConsistent DEF StoryInv
  <1>2. ASSUME RecordDecision PROVE StoryInv'
    <2>1. tick.ts \in Ts /\ DecisionRow # NULL /\ UnderWay /\ UnderWay'
      BY <1>0, <1>2, TickRows DEF RecordDecision, UnderWay
    <2>2. /\ \A ts \in Ts : decisions'[ts] = IF ts = tick.ts THEN DecisionRow ELSE decisions[ts]
          /\ UNCHANGED <<executions, tick>> /\ pc' = "optimistic"
      BY <1>0, <1>2 DEF RecordDecision, TypeOK
    <2>3. DecisionRow' = DecisionRow
      BY <2>2 DEF DecisionRow
    <2>4. \A ts \in Ts : decisions[ts] # NULL => decisions'[ts] = decisions[ts]
      BY <1>2, <2>2 DEF RecordDecision
    <2>5. RowsAgree'
      BY <2>2, <2>4 DEF StoryInv, RowsAgree, Row
    <2> QED
      BY <2>1, <2>2, <2>3, <2>5 DEF StoryInv
  <1>3. ASSUME NEW sc \in Scenario, RecordTick(sc) PROVE StoryInv'
    <2>1. tick.ts \in Ts /\ tick.execution # NULL /\ UnderWay /\ UnderWay'
      BY <1>0, <1>3, TickRows DEF RecordTick, UnderWay, Scenario
    <2>2. /\ \A s2 \in Scenario, ts \in Ts :
               executions'[s2][ts] = IF s2 = sc /\ ts = tick.ts THEN tick.execution
                                                            ELSE executions[s2][ts]
          /\ UNCHANGED <<decisions, tick>>
          /\ pc = sc /\ pc' = IF sc = "optimistic" THEN "pessimistic" ELSE "receipt"
      BY <1>0, <1>3, <2>1 DEF RecordTick, TypeOK
    <2>3. DecisionRow' = DecisionRow /\ decisions[tick.ts] = DecisionRow
      BY <1>3, <2>1, <2>2 DEF DecisionRow, StoryInv, Scenario
    <2>4. executions'["optimistic"][tick.ts] = tick.execution
      BY <2>1, <2>2 DEF StoryInv, Scenario
    <2>5. \A s2 \in Scenario, ts \in Ts :
             ts # tick.ts => executions'[s2][ts] = executions[s2][ts]
      BY <2>2
    <2>6. \A s2 \in Scenario : executions'[s2][tick.ts] # NULL =>
                executions'[s2][tick.ts] = tick.execution
      <3>1. \A s2 \in Scenario : executions[s2][tick.ts] # NULL =>
                executions[s2][tick.ts] = Row(tick.ts)
        BY <2>1 DEF StoryInv, RowsAgree
      <3>2. Row(tick.ts) \in {NULL, tick.execution}
        BY <1>3, <2>1, <2>2 DEF StoryInv, RecordTick, Scenario, Row
      <3> QED
        BY <2>1, <2>2, <3>1, <3>2 DEF Scenario, Row
    <2>7. Consistent(decisions[tick.ts].id, tick.execution, decisions[tick.ts].kill_switch)
      BY <2>1, <2>3 DEF StoryInv, DecisionRow
    <2>8. RowsAgree'
      <3> SUFFICES ASSUME NEW s2 \in Scenario, NEW ts \in Ts, executions'[s2][ts] # NULL
                   PROVE  /\ executions'[s2][ts] = Row(ts)'
                          /\ decisions'[ts] # NULL
                          /\ Row(ts)'.decision = decisions'[ts].id
                          /\ Row(ts)'.abstain = decisions'[ts].id.abstain
                          /\ ~ Row(ts)'.abstain =>
                                 Row(ts)'.new_target = decisions'[ts].id.target_risk_budget
                          /\ Halting(decisions'[ts].kill_switch) =>
                                 Row(ts)'.new_target = 0 /\ Row(ts)'.abstain
        BY DEF RowsAgree, Halting
      <3>1. CASE ts = tick.ts
        <4>1. decisions'[ts] # NULL
          BY <1>0, <2>1, <2>2, <2>3, <3>1, TickRows
        <4>2. executions'[s2][ts] = tick.execution /\ Row(ts)' = tick.execution
          BY <2>4, <2>6, <3>1 DEF Row
        <4> QED
          BY <2>2, <2>7, <3>1, <4>1, <4>2 DEF Consistent
      <3>2. CASE ts # tick.ts
        <4>1. Row(ts)' = Row(ts) /\ executions'[s2][ts] = executions[s2][ts]
          BY <2>5, <3>2 DEF Row, Scenario
        <4> QED
          BY <2>2, <4>1 DEF StoryInv, RowsAgree
      <3> QED
        BY <3>1, <3>2
    <2> QED
      BY <2>1, <2>2, <2>3, <2>4, <2>8 DEF StoryInv, Scenario
  <1>4. ASSUME LedgerConflict PROVE StoryInv'
    BY <1>4, <1>b DEF LedgerConflict, ledger
  <1>5. ASSUME WriteReceipt PROVE StoryInv'
    <2>1. UNCHANGED <<decisions, executions, tick>> /\ pc = "receipt" /\ pc' = "hash"
      BY <1>5 DEF WriteReceipt, ledger
    <2> QED
      BY <1>a, <2>1 DEF StoryInv, UnderWay, DecisionRow
  <1>6. ASSUME Finish PROVE StoryInv'
    BY <1>6, <1>b DEF Finish, ledger
  <1>7. ASSUME Crash PROVE StoryInv'
    BY <1>7, <1>b DEF Crash, ledger
  <1>8. ASSUME Restart PROVE StoryInv'
    BY <1>8, <1>b DEF Restart, ledger
  <1>9. ASSUME UNCHANGED <<ledger, pc, tick>> PROVE StoryInv'
    BY <1>9, <1>a DEF StoryInv, UnderWay, DecisionRow, ledger
  <1>10. ASSUME NEW l \in Levels, Activate(l) PROVE StoryInv'
    BY <1>9, <1>10 DEF Activate
  <1>11. ASSUME Clear PROVE StoryInv'
    BY <1>9, <1>11 DEF Clear
  <1>12. ASSUME UNCHANGED vars PROVE StoryInv'
    BY <1>9, <1>12 DEF vars
  <1> QED
    BY <1>1, <1>2, <1>3, <1>4, <1>5, <1>6, <1>7, <1>8, <1>10, <1>11, <1>12 DEF Next

\* A table without rows tells no story.
LEMMA StoryInit == Init => StoryInv
  BY DEF Init, StoryInv, UnderWay, RowsAgree, Scenario

\* Whatever dies between the writes of a tick and whatever is tried again, for
\* any decision_ts in any order: both execution rows of a timestamp record one
\* trade, the one of the decision on file, and a halt leaves no position.
THEOREM RowsTellOneStory == Spec => []RowsAgree
  <1>1. StoryInv => RowsAgree
    BY DEF StoryInv
  <1> QED
    BY <1>1, TypeInvInit, TypeNext, StoryInit, StoryNext, PTL DEF Spec

-----------------------------------------------------------------------------
(***************************************************************************)
(* What needs a caller that does not go back in time.                      *)
(***************************************************************************)
Forward == Schedule # "any"

\* The tick under way stays the last one.
LEMMA OrderNext ==
    ASSUME Forward PROVE TypeInv /\ OrderInv /\ [Next]_vars => OrderInv'
  <1> SUFFICES ASSUME TypeInv, OrderInv, [Next]_vars PROVE OrderInv'
    OBVIOUS
  <1>0. TypeOK /\ \A ts \in Ts : ts \in Int
    BY LoopAssumption DEF TypeInv, Ts
  <1>a. ASSUME pc' \in {"idle", "down"} PROVE OrderInv'
    BY <1>a DEF OrderInv, UnderWay
  <1>b. ASSUME UNCHANGED <<decisions, tick>>, UnderWay PROVE OrderInv'
    BY <1>b DEF OrderInv, Recorded
  <1>c. ASSUME UNCHANGED <<decisions, tick, pc>> PROVE OrderInv'
    BY <1>c DEF OrderInv, Recorded, UnderWay
  <1>1. ASSUME NEW in \in TickInput, Begin(in) PROVE OrderInv'
    <2>1. tick'.ts = in.ts /\ in.ts \in Ts /\ UNCHANGED decisions
      BY <1>0, <1>1, InputType, Zenon DEF Begin, ledger, Input, TypeOK
    <2>2. \A u \in Recorded(decisions) : in.ts > u \/ in.ts >= u
      BY <1>1, LoopAssumption DEF Begin, MayTick, Forward
    <2>3. \A u \in Recorded(decisions) : u <= in.ts
      BY <1>0, <2>1, <2>2 DEF Recorded
    <2> QED
      BY <2>1, <2>3 DEF OrderInv, Recorded
  <1>2. ASSUME RecordDecision PROVE OrderInv'
    <2>1. UnderWay /\ UNCHANGED tick /\ tick.ts \in Ts
      BY <1>0, <1>2, TickRows DEF RecordDecision, UnderWay
    <2>2. \A ts \in Ts : ts # tick.ts => decisions'[ts] = decisions[ts]
      BY <1>0, <1>2 DEF RecordDecision, TypeOK
    <2> QED
      BY <1>0, <2>1, <2>2 DEF OrderInv, Recorded
  <1>3. ASSUME NEW sc \in Scenario, RecordTick(sc) PROVE OrderInv'
    BY <1>3, <1>b DEF RecordTick, UnderWay, Scenario
  <1>4. ASSUME WriteReceipt PROVE OrderInv'
    BY <1>4, <1>b DEF WriteReceipt, UnderWay, ledger
  <1>5. ASSUME LedgerConflict \/ Finish \/ Crash \/ Restart PROVE OrderInv'
    BY <1>5, <1>a DEF LedgerConflict, Finish, Crash, Restart
  <1>6. ASSUME (\E l \in Levels : Activate(l)) \/ Clear \/ UNCHANGED vars PROVE OrderInv'
    BY <1>6, <1>c DEF Activate, Clear, vars, ledger
  <1> QED
    BY <1>1, <1>2, <1>3, <1>4, <1>5, <1>6 DEF Next

-----------------------------------------------------------------------------
\* The lots of the latest row, which is unique.
LEMMA SeedIsLatest ==
    ASSUME NEW ts \in Ts, IsLatest(ts)
    PROVE  SeedLots = Row(ts).new_lots
  <1>1. ts \in Traded
    BY DEF IsLatest, Traded, Recorded
  <1>2. \A u \in Ts : IsLatest(u) => u = ts
    <2>1. \A u, v \in Ts : u <= v /\ v <= u => u = v
      BY LoopAssumption DEF Ts
    <2> QED
      BY <2>1 DEF IsLatest, Recorded
  <1>3. (CHOOSE u \in Ts : IsLatest(u)) = ts
    BY <1>2
  <1> QED
    BY <1>1, <1>3 DEF SeedLots, Traded, Row

\* The row before a timestamp that no row lies at or after is the latest row.
LEMMA PreviousIsLatest ==
    ASSUME HasLatest, NEW ts \in Ts, \A u \in Traded : u < ts
    PROVE  \/ Traded = {} /\ Previous(ts) = {}
           \/ \E last \in Ts : /\ IsLatest(last) /\ Previous(ts) = {last}
                               /\ (CHOOSE u \in Previous(ts) : TRUE) = last
  <1>1. CASE Traded = {}
    BY <1>1 DEF Previous
  <1>2. CASE \E last \in Ts : IsLatest(last)
    <2>1. PICK last \in Ts : IsLatest(last)
      BY <1>2
    <2>2. last \in Traded /\ \A u \in Traded : u <= last
      BY <2>1 DEF IsLatest, Traded, Recorded
    <2>3. last \in Previous(ts)
      BY <2>2 DEF Previous
    <2>4. \A u \in Previous(ts) : u = last
      <3>1. \A u, v \in Ts : u <= v /\ v <= u => u = v
        BY LoopAssumption DEF Ts
      <3>2. \A u \in Previous(ts) : u \in Ts /\ last <= u /\ u <= last
        BY <2>2 DEF Previous, Traded, Recorded
      <3> QED
        BY <3>1, <3>2
    <2>5. Previous(ts) = {last} /\ (CHOOSE u \in Previous(ts) : TRUE) = last
      BY <2>3, <2>4
    <2> QED
      BY <2>1, <2>5
  <1> QED
    BY <1>1, <1>2 DEF HasLatest

\* A row is traded for a decision on file.
LEMMA TradedIsDecided ==
    ASSUME StoryInv, NEW sc \in Scenario
    PROVE  Recorded(executions[sc]) \subseteq Recorded(decisions)
  BY DEF StoryInv, RowsAgree, Recorded

\* While no optimistic row changes, neither do the rows' predecessors.
LEMMA RowsStay ==
    ASSUME executions'["optimistic"] = executions["optimistic"]
    PROVE  /\ Traded' = Traded /\ SeedLots' = SeedLots
           /\ \A ts \in Ts : /\ Row(ts)' = Row(ts) /\ Previous(ts)' = Previous(ts)
                             /\ IsLatest(ts)' = IsLatest(ts)
                             /\ Row(CHOOSE u \in Previous(ts) : TRUE)'
                                    = Row(CHOOSE u \in Previous(ts) : TRUE)
  <1>1. SeedLots' = SeedLots
    BY DEF SeedLots, IsLatest, Recorded
  <1>2. Traded' = Traded /\ \A ts \in Ts : Previous(ts)' = Previous(ts)
    BY DEF Traded, Recorded, Previous
  <1>3. \A ts \in Ts : Row(ts)' = Row(ts) /\ IsLatest(ts)' = IsLatest(ts)
    BY DEF Row, IsLatest, Recorded
  <1>4. \A ts \in Ts : Row(CHOOSE u \in Previous(ts) : TRUE)'
                           = Row(CHOOSE u \in Previous(ts) : TRUE)
    BY <1>2 DEF Row
  <1> QED
    BY <1>1, <1>2, <1>3, <1>4

\* A row that is new and last changes no row before it and no predecessor.
LEMMA LastRowIsNew ==
    ASSUME TypeOK, RecordTick("optimistic"), executions["optimistic"][tick.ts] = NULL,
           \A u \in Traded : u <= tick.ts
    PROVE  /\ tick.ts \in Ts /\ tick.ts \notin Traded /\ Traded' = Traded \cup {tick.ts}
           /\ \A u \in Traded : u \in Ts /\ u < tick.ts /\ Row(u)' = Row(u)
           /\ Row(tick.ts)' = tick.execution
           /\ \A ts \in Traded' :
                 /\ ts \in Ts /\ Previous(ts)' = Previous(ts)
                 /\ Previous(ts) # {} => Row(CHOOSE u \in Previous(ts) : TRUE)'
                                            = Row(CHOOSE u \in Previous(ts) : TRUE)
  <1>0. tick.ts \in Ts /\ tick.execution # NULL /\ \A ts \in Ts : ts \in Int
    BY TickRows, LoopAssumption DEF RecordTick, UnderWay, Ts
  <1>1. \A ts \in Ts : Row(ts)' = IF ts = tick.ts THEN tick.execution ELSE Row(ts)
    BY <1>0 DEF RecordTick, TypeOK, Scenario, Row
  <1>2. Traded' = Traded \cup {tick.ts} /\ tick.ts \notin Traded
    BY <1>0, <1>1 DEF Traded, Recorded, Row
  <1>3. \A u \in Traded : u \in Ts /\ u < tick.ts
    BY <1>0, <1>2 DEF Traded, Recorded
  <1>4. \A ts \in Traded' : ts \in Ts /\ ts <= tick.ts
    BY <1>0, <1>2, <1>3
  <1>5. ASSUME NEW ts \in Traded'
        PROVE  Previous(ts)' = Previous(ts)
    <2>1. \A v \in Traded' : v < ts => v \in Traded
      BY <1>0, <1>2, <1>4
    <2> QED
      BY <1>2, <2>1 DEF Previous
  <1>6. ASSUME NEW ts \in Traded', Previous(ts) # {}
        PROVE  Row(CHOOSE u \in Previous(ts) : TRUE)' = Row(CHOOSE u \in Previous(ts) : TRUE)
    <2>1. PICK p \in Previous(ts) : p = CHOOSE u \in Previous(ts) : TRUE
      BY <1>6
    <2>2. p \in Ts /\ p # tick.ts
      BY <1>2, <1>3, <2>1 DEF Previous
    <2>3. (CHOOSE u \in Previous(ts) : TRUE)' = p
      BY <1>5, <2>1
    <2>4. Row(p)' = Row(p)
      BY <1>1, <2>2
    <2> QED
      BY <2>1, <2>3, <2>4 DEF Row
  <1>7. Row(tick.ts)' = tick.execution
    <2>1. UNCHANGED tick
      BY DEF RecordTick
    <2>2. PICK t \in Ts : t = tick.ts
      BY <1>0
    <2>3. Row(t)' = tick.execution
      BY <1>1, <2>2
    <2> QED
      BY <2>1, <2>2, <2>3 DEF Row
  <1> QED
    BY <1>0, <1>1, <1>2, <1>3, <1>4, <1>5, <1>6, <1>7

\* A row that continues from the last one lengthens the chain.
LEMMA LotsGrow ==
    ASSUME TypeOK, HasLatest, LotsChain, RecordTick("optimistic"),
           executions["optimistic"][tick.ts] = NULL,
           \A u \in Traded : u <= tick.ts,
           tick.execution.prior_lots = SeedLots
    PROVE  LotsChain'
  <1> SUFFICES ASSUME NEW ts \in Traded'
               PROVE  Row(ts)'.prior_lots = IF Previous(ts)' = {} THEN 0
                                            ELSE Row(CHOOSE u \in Previous(ts) : TRUE)'.new_lots
    BY DEF LotsChain
  <1>1. CASE ts = tick.ts
    <2>1. Row(ts)' = tick.execution
      BY <1>1, LastRowIsNew DEF RecordTick, Row
    <2>2. SeedLots = IF Previous(ts) = {} THEN 0
                     ELSE Row(CHOOSE u \in Previous(ts) : TRUE).new_lots
      <3>1. CASE Traded = {} /\ Previous(ts) = {}
        BY <3>1 DEF SeedLots, Traded
      <3>2. CASE \E last \in Ts : /\ IsLatest(last) /\ Previous(ts) = {last}
                                  /\ (CHOOSE u \in Previous(ts) : TRUE) = last
        BY <3>2, SeedIsLatest
      <3> QED
        BY <1>1, <3>1, <3>2, LastRowIsNew, PreviousIsLatest
    <2> QED
      BY <2>1, <2>2, LastRowIsNew
  <1>2. CASE ts # tick.ts
    BY <1>2, LastRowIsNew DEF LotsChain
  <1> QED
    BY <1>1, <1>2

\* While no optimistic row changes, the chain of lots and its end stay.
LEMMA LotsStay ==
    ASSUME executions'["optimistic"] = executions["optimistic"]
    PROVE  SeedLots' = SeedLots /\ (LotsChain => LotsChain')
  <1>1. Traded \subseteq Ts
    BY DEF Traded, Recorded
  <1> QED
    BY <1>1, RowsStay DEF LotsChain

\* Every step keeps the chain of lots and its end in the process's memory.
LEMMA LotsNext ==
    ASSUME Forward
    PROVE  TypeInv /\ StoryInv /\ OrderInv /\ LotsInv /\ [Next]_vars => LotsInv'
  <1> SUFFICES ASSUME TypeInv, StoryInv, OrderInv, LotsInv, [Next]_vars PROVE LotsInv'
    OBVIOUS
  <1>0. TypeOK /\ HasLatest /\ LotsChain
    BY DEF TypeInv, LotsInv
  <1>t. Traded \subseteq Recorded(decisions)
    BY TradedIsDecided DEF Traded, Scenario
  <1>a. ASSUME UNCHANGED <<executions, prior_lots, tick>>, Deciding, pc' = "idle" \/ Deciding'
        PROVE  LotsInv'
    BY <1>a, LotsStay DEF LotsInv, Deciding
  <1>b. ASSUME UNCHANGED executions, pc' \in {"receipt", "hash", "down"} PROVE LotsInv'
    BY <1>b, LotsStay DEF LotsInv, Deciding
  <1>1. ASSUME NEW in \in TickInput, Begin(in) PROVE LotsInv'
    <2>1. UNCHANGED <<executions, prior_lots>> /\ pc = "idle"
      BY <1>1 DEF Begin, ledger, memory
    <2>2. tick'.execution.prior_lots = prior_lots
      <3>1. tick'.execution = Execution(in, exposure, prior_lots)
        BY <1>1, Zenon DEF Begin
      <3> QED
        BY <3>1 DEF Execution
    <2> QED
      BY <2>1, <2>2, LotsStay DEF LotsInv
  <1>2. ASSUME RecordDecision PROVE LotsInv'
    BY <1>2, <1>a DEF RecordDecision, Deciding, memory
  <1>3. ASSUME RecordTick("optimistic") PROVE LotsInv'
    <2>1. tick.ts \in Ts /\ tick.execution # NULL /\ UnderWay /\ Deciding
      BY <1>0, <1>3, TickRows DEF RecordTick, UnderWay, Deciding
    <2>2. pc' = "pessimistic"
      BY <1>3 DEF RecordTick
    <2>3. \A u \in Traded : u <= tick.ts
      BY <1>t, <2>1 DEF OrderInv
    <2>4. CASE executions["optimistic"][tick.ts] = tick.execution
      <3>1. UNCHANGED executions
        BY <1>0, <1>3, <2>1, <2>4 DEF RecordTick, TypeOK, Scenario
      <3> QED
        BY <2>2, <3>1, LotsStay DEF LotsInv, Deciding
    <2>5. CASE executions["optimistic"][tick.ts] = NULL
      <3>1. tick.execution.prior_lots = SeedLots
        BY <2>1 DEF LotsInv
      <3>2. LotsChain'
        BY <1>0, <1>3, <2>3, <2>5, <3>1, LotsGrow
      <3> QED
        BY <2>2, <3>2 DEF LotsInv, Deciding
    <2> QED
      BY <1>3, <2>4, <2>5 DEF RecordTick
  <1>4. ASSUME RecordTick("pessimistic") PROVE LotsInv'
    <2>1. executions'["optimistic"] = executions["optimistic"] /\ pc' = "receipt"
      BY <1>0, <1>4 DEF RecordTick, TypeOK, Scenario
    <2> QED
      BY <2>1, LotsStay DEF LotsInv, Deciding
  <1>5. ASSUME LedgerConflict PROVE LotsInv'
    <2>1. UNCHANGED <<executions, prior_lots>> /\ pc' = "idle"
      BY <1>5 DEF LedgerConflict, ledger, memory
    <2>2. Deciding
      <3>1. ASSUME pc = "pessimistic" PROVE executions["pessimistic"][tick.ts] \in {NULL, tick.execution}
        <4>1. tick.ts \in Ts /\ Row(tick.ts) = tick.execution
          BY <1>0, <3>1, TickRows DEF StoryInv, Row, UnderWay
        <4> QED
          BY <4>1 DEF StoryInv, RowsAgree, Scenario
      <3> QED
        BY <1>5, <3>1 DEF LedgerConflict, Deciding, Scenario
    <2> QED
      BY <2>1, <2>2, LotsStay DEF LotsInv, Deciding
  <1>6. ASSUME WriteReceipt PROVE LotsInv'
    BY <1>6, <1>b DEF WriteReceipt, ledger
  <1>7. ASSUME Finish PROVE LotsInv'
    <2>1. tick.ts \in Ts /\ Row(tick.ts) = tick.execution /\ tick.execution # NULL /\ UnderWay
      BY <1>0, <1>7, TickRows DEF Finish, UnderWay, StoryInv, Row
    <2>2. IsLatest(tick.ts)
      BY <1>t, <2>1 DEF IsLatest, OrderInv, Row, Traded
    <2>3. SeedLots = tick.execution.new_lots
      BY <2>1, <2>2, SeedIsLatest
    <2>4. prior_lots' = SeedLots /\ UNCHANGED executions /\ pc' = "idle"
      BY <1>7, <2>3 DEF Finish, ledger
    <2> QED
      BY <2>4, LotsStay DEF LotsInv, Deciding
  <1>8. ASSUME Crash PROVE LotsInv'
    BY <1>8, <1>b DEF Crash, ledger
  <1>9. ASSUME Restart PROVE LotsInv'
    <2>1. prior_lots' = SeedLots /\ UNCHANGED executions /\ pc' = "idle"
      BY <1>9 DEF Restart, ledger
    <2> QED
      BY <2>1, LotsStay DEF LotsInv, Deciding
  <1>10. ASSUME UNCHANGED <<executions, prior_lots, pc, tick>> PROVE LotsInv'
    BY <1>10, LotsStay DEF LotsInv, Deciding
  <1>11. ASSUME (\E l \in Levels : Activate(l)) \/ Clear \/ UNCHANGED vars PROVE LotsInv'
    BY <1>10, <1>11 DEF Activate, Clear, vars, ledger, memory
  <1> QED
    BY <1>1, <1>2, <1>3, <1>4, <1>5, <1>6, <1>7, <1>8, <1>9, <1>11 DEF Next, Scenario

-----------------------------------------------------------------------------
\* A tick that ended a row, or began again on one, keeps the receipts that
\* verified: their rows are as they were, and no row joined those they count.
LEMMA VerifiesStays ==
    ASSUME NEW ts \in Ts, Verifies(ts), receipts[ts].ts = ts,
           receipts'[ts] = receipts[ts], hashes'[ts] = hashes[ts],
           \A u \in Ts : u <= ts => /\ decisions'[u] = decisions[u]
                                    /\ \A sc \in Scenario : executions'[sc][u] = executions[sc][u]
    PROVE  Verifies(ts)'
  <1>1. 1..ts \subseteq Ts /\ \A u \in 1..ts : u <= ts
    BY LoopAssumption DEF Ts
  <1>2. ts <= ts
    BY LoopAssumption DEF Ts
  <1>3. (Recorded(decisions) \cap 1..ts)' = Recorded(decisions) \cap 1..ts
    BY <1>1 DEF Recorded
  <1>4. {x \in Scenario \X (1..ts) : executions'[x[1]][x[2]] # NULL}
          = {x \in Scenario \X (1..ts) : executions[x[1]][x[2]] # NULL}
    <2>1. \A x \in Scenario \X (1..ts) : x[1] \in Scenario /\ x[2] \in 1..ts
      OBVIOUS
    <2>2. \A x \in Scenario \X (1..ts) : executions'[x[1]][x[2]] = executions[x[1]][x[2]]
      BY <1>1, <2>1
    <2> QED
      BY <2>2
  <1>5. CountsThrough(ts)' = CountsThrough(ts)
    <2>1. Cardinality((Recorded(decisions) \cap 1..ts)') = Cardinality(Recorded(decisions) \cap 1..ts)
      BY <1>3
    <2>2. Cardinality({x \in Scenario \X (1..ts) : executions'[x[1]][x[2]] # NULL})
            = Cardinality({x \in Scenario \X (1..ts) : executions[x[1]][x[2]] # NULL})
      BY <1>4
    <2> QED
      BY <2>1, <2>2, Zenon DEF CountsThrough, Counts
  <1> QED
    BY <1>2, <1>5 DEF Verifies

\* A timestamp whose receipt verifies has its decision and both its trades.
LEMMA VerifiedIsRecorded ==
    ASSUME TypeOK, NEW ts \in Ts, Verifies(ts), receipts[ts].ts = ts
    PROVE  /\ ts \in Recorded(decisions)
           /\ \A sc \in Scenario : executions[sc][ts] # NULL
  <1>1. receipts[ts] \in ReceiptType
    BY DEF TypeOK, Verifies
  <1>2. decisions[ts] \in DecisionRowType /\ receipts[ts].execution \in ExecutionType
    BY <1>1 DEF Verifies, ReceiptType, DecisionRowType
  <1> QED
    BY <1>2, NullIsNoRow DEF Verifies, Recorded

\* A row that is new in its table lies behind every receipt that verifies.
LEMMA NewRowIsLater ==
    ASSUME TypeOK, OrderInv, ReceiptInv, UnderWay,
           \/ decisions[tick.ts] = NULL
           \/ \E sc \in Scenario : executions[sc][tick.ts] = NULL
    PROVE  \A ts \in done : \A u \in Ts : u <= ts => u # tick.ts
  <1> SUFFICES ASSUME NEW ts \in done, NEW u \in Ts, u <= ts PROVE u # tick.ts
    OBVIOUS
  <1>1. ts \in Ts /\ tick.ts \in Ts /\ ts \in Int /\ u \in Int /\ tick.ts \in Int
    BY TickRows, LoopAssumption DEF TypeOK, Ts
  <1>2. Verifies(ts) /\ receipts[ts].ts = ts
    BY <1>1 DEF ReceiptInv, ReceiptsVerify, Verifies
  <1>3. ts \in Recorded(decisions) /\ \A sc \in Scenario : executions[sc][ts] # NULL
    BY <1>1, <1>2, VerifiedIsRecorded
  <1>4. ts # tick.ts /\ ts <= tick.ts
    BY <1>3 DEF Recorded, OrderInv
  <1> QED
    BY <1>1, <1>4

\* Every step keeps the receipts of the ticks that returned verifying.
LEMMA ReceiptNext ==
    ASSUME Forward
    PROVE  TypeInv /\ StoryInv /\ OrderInv /\ ReceiptInv /\ [Next]_vars => ReceiptInv'
  <1> SUFFICES ASSUME TypeInv, StoryInv, OrderInv, ReceiptInv, [Next]_vars PROVE ReceiptInv'
    OBVIOUS
  <1>0. /\ TypeOK /\ TypeOK'
        /\ \A ts \in done : ts \in Ts /\ Verifies(ts) /\ receipts[ts].ts = ts
    BY TypeNext DEF TypeInv, TypeOK, ReceiptInv, ReceiptsVerify, Verifies
  \* the tables, the receipts and the ticks that returned are as they were
  <1>a. ASSUME UNCHANGED <<ledger, files, done>>, pc' # "hash" \/ UNCHANGED <<pc, tick>>
        PROVE  ReceiptInv'
    <2>1. UNCHANGED <<decisions, executions, receipts, hashes, done>>
      BY <1>a DEF ledger, files
    <2>2. ReceiptsVerify'
      BY <1>0, <2>1, VerifiesStays DEF ReceiptsVerify
    <2>3. UNCHANGED <<pc, tick>> => Receipt' = Receipt
      BY <2>1 DEF Receipt, CountsAll, Counts, Recorded
    <2> QED
      BY <1>a, <2>1, <2>2, <2>3 DEF ReceiptInv
  <1>1. ASSUME NEW in \in TickInput, Begin(in) PROVE ReceiptInv'
    BY <1>1, <1>a DEF Begin
  <1>2. ASSUME RecordDecision PROVE ReceiptInv'
    <2>1. UnderWay /\ UNCHANGED <<executions, receipts, hashes, done>> /\ pc' = "optimistic"
      BY <1>2 DEF RecordDecision, UnderWay, files
    <2>2. \A ts \in Ts : decisions'[ts] = IF ts = tick.ts THEN DecisionRow ELSE decisions[ts]
      BY <1>0, <1>2 DEF RecordDecision, TypeOK
    <2>3. \A ts \in done : \A u \in Ts : u <= ts => decisions'[u] = decisions[u]
      BY <1>0, <1>2, <2>1, <2>2, NewRowIsLater DEF RecordDecision
    <2>4. ReceiptsVerify'
      BY <1>0, <2>1, <2>3, VerifiesStays DEF ReceiptsVerify
    <2> QED
      BY <2>1, <2>4 DEF ReceiptInv
  <1>3. ASSUME NEW sc \in Scenario, RecordTick(sc) PROVE ReceiptInv'
    <2>1. UnderWay /\ UNCHANGED <<decisions, receipts, hashes, done>> /\ pc' # "hash"
      BY <1>3 DEF RecordTick, UnderWay, files, Scenario
    <2>2. \A s2 \in Scenario, ts \in Ts :
             executions'[s2][ts] = IF s2 = sc /\ ts = tick.ts THEN tick.execution
                                                          ELSE executions[s2][ts]
      BY <1>0, <1>3 DEF RecordTick, TypeOK
    <2>3. \A ts \in done : \A u \in Ts : u <= ts =>
              \A s2 \in Scenario : executions'[s2][u] = executions[s2][u]
      BY <1>0, <1>3, <2>1, <2>2, NewRowIsLater DEF RecordTick
    <2>4. ReceiptsVerify'
      BY <1>0, <2>1, <2>3, VerifiesStays DEF ReceiptsVerify
    <2> QED
      BY <2>1, <2>4 DEF ReceiptInv
  <1>4. ASSUME LedgerConflict PROVE ReceiptInv'
    BY <1>4, <1>a DEF LedgerConflict
  <1>5. ASSUME WriteReceipt PROVE ReceiptInv'
    <2>1. /\ UnderWay /\ UNCHANGED <<decisions, executions, hashes, tick>>
          /\ done' = done \ {tick.ts}
      BY <1>5 DEF WriteReceipt, UnderWay, ledger
    <2>2. \A ts \in Ts : receipts'[ts] = IF ts = tick.ts THEN Receipt ELSE receipts[ts]
      BY <1>0, <1>5 DEF WriteReceipt, TypeOK
    <2>3. Receipt.ts = tick.ts /\ tick.ts \in Ts
      BY <1>0, <2>1, TickRows DEF Receipt
    <2>4. Receipt' = Receipt
      BY <2>1 DEF Receipt, CountsAll, Counts, Recorded
    <2>5. ReceiptsVerify'
      BY <1>0, <2>1, <2>2, VerifiesStays DEF ReceiptsVerify
    <2> QED
      BY <2>1, <2>2, <2>3, <2>4, <2>5 DEF ReceiptInv
  <1>6. ASSUME Finish PROVE ReceiptInv'
    <2>1. /\ UnderWay /\ pc = "hash" /\ tick.ts \in Ts /\ pc' = "idle"
          /\ UNCHANGED <<decisions, executions, receipts>> /\ done' = done \cup {tick.ts}
      BY <1>0, <1>6, TickRows DEF Finish, UnderWay, ledger
    <2>2. \A ts \in Ts : hashes'[ts] = IF ts = tick.ts THEN receipts[ts] ELSE hashes[ts]
      BY <1>0, <1>6 DEF Finish, TypeOK
    <2>3. PICK t \in Ts : t = tick.ts
      BY <2>1
    <2>4. receipts[t] = Receipt /\ Receipt # NULL
      BY <1>0, <2>1, <2>3, ReceiptIsOne, NullIsNoRow DEF ReceiptInv
    <2>5. Recorded(decisions) \cap (1..t) = Recorded(decisions) \cap Ts
      <3>1. \A u \in Recorded(decisions) : u \in 1..t
        BY <2>1, <2>3, LoopAssumption DEF OrderInv, Recorded, Ts
      <3> QED
        BY <3>1 DEF Recorded
    <2>6. {x \in Scenario \X (1..t) : executions[x[1]][x[2]] # NULL}
             = {x \in Scenario \X Ts : executions[x[1]][x[2]] # NULL}
      <3>1. \A x \in Scenario \X Ts : executions[x[1]][x[2]] # NULL => x \in Scenario \X (1..t)
        <4> SUFFICES ASSUME NEW sc \in Scenario, NEW u \in Ts, executions[sc][u] # NULL
                     PROVE  u \in 1..t
          OBVIOUS
        <4>1. u \in Recorded(decisions)
          BY TradedIsDecided DEF Recorded
        <4> QED
          BY <2>1, <2>3, <4>1, LoopAssumption DEF OrderInv, Ts
      <3>2. 1..t \subseteq Ts
        BY LoopAssumption DEF Ts
      <3> QED
        BY <3>1, <3>2
    <2>7. Receipt.runtime_counts = CountsThrough(t)
      <3>1. CountsAll = CountsThrough(t)
        BY <2>5, <2>6, Zenon DEF CountsAll, CountsThrough, Counts
      <3> QED
        BY <3>1 DEF Receipt
    <2>8. CountsThrough(t)' = CountsThrough(t)
      BY <2>1 DEF CountsThrough, Counts, Recorded
    <2>9. /\ decisions[t] = [id |-> tick.execution.decision, kill_switch |-> tick.switch]
          /\ \A sc \in Scenario : executions[sc][t] = tick.execution
      BY <2>1, <2>3 DEF StoryInv, DecisionRow, Scenario
    <2>10. Verifies(t)'
      BY <2>1, <2>2, <2>3, <2>4, <2>7, <2>8, <2>9 DEF Verifies, Receipt
    <2>11. \A ts \in done : ts # t => Verifies(ts)'
      BY <1>0, <2>1, <2>2, <2>3, VerifiesStays
    <2>12. ReceiptsVerify'
      BY <2>1, <2>3, <2>10, <2>11 DEF ReceiptsVerify
    <2> QED
      BY <2>1, <2>12 DEF ReceiptInv
  <1>7. ASSUME Crash \/ Restart PROVE ReceiptInv'
    BY <1>7, <1>a DEF Crash, Restart
  <1>8. ASSUME (\E l \in Levels : Activate(l)) \/ Clear PROVE ReceiptInv'
    BY <1>8, <1>a DEF Activate, Clear
  <1>9. ASSUME UNCHANGED vars PROVE ReceiptInv'
    BY <1>9, <1>a DEF vars
  <1> QED
    BY <1>1, <1>2, <1>3, <1>4, <1>5, <1>6, <1>7, <1>8, <1>9 DEF Next

-----------------------------------------------------------------------------
LoopInv == TypeInv /\ StoryInv /\ OrderInv /\ LotsInv /\ ReceiptInv

\* A flat start without rows.
LEMMA LoopInit == Init => LoopInv
  <1> SUFFICES ASSUME Init PROVE LoopInv
    OBVIOUS
  <1>1. Traded = {}
    BY DEF Init, Traded, Recorded, Scenario
  <1>2. LotsInv
    BY <1>1 DEF Init, LotsInv, SeedLots, Traded, LotsChain, Deciding
  <1>3. OrderInv /\ ReceiptInv
    BY DEF Init, OrderInv, UnderWay, ReceiptInv, ReceiptsVerify
  <1> QED
    BY <1>2, <1>3, TypeInvInit, StoryInit DEF LoopInv

\* Every step keeps the loop's invariant.
LEMMA LoopNext == ASSUME Forward PROVE LoopInv /\ [Next]_vars => LoopInv'
  BY TypeNext, StoryNext, OrderNext, LotsNext, ReceiptNext DEF LoopInv

\* If the caller's timestamps never go back, the receipt of every tick that
\* returned verifies for good, whatever later ticks, retries and crashes do.
THEOREM ReceiptsGoOnVerifying == ASSUME Forward PROVE Spec => []ReceiptsVerify
  <1>1. LoopInv => ReceiptsVerify
    BY DEF LoopInv, ReceiptInv
  <1> QED
    BY <1>1, LoopInit, LoopNext, PTL DEF Spec

\* If the caller's timestamps never go back, the ledger reads as one attempt
\* per tick, each starting from the lots the one before it left, across crashes.
THEOREM LedgerIsOneHistory == ASSUME Forward PROVE Spec => []LedgerHangsTogether
  <1>1. LoopInv => LedgerHangsTogether
    BY DEF LoopInv, StoryInv, LotsInv, LedgerHangsTogether
  <1> QED
    BY <1>1, LoopInit, LoopNext, PTL DEF Spec

-----------------------------------------------------------------------------
(***************************************************************************)
(* The ladder's memory against the ledger: one process that passes each    *)
(* decision_ts once.  A crash forgets the exposure, and a decision_ts that *)
(* is repeated counts twice in the ladder and once in the ledger, so the   *)
(* property is about that process only.                                    *)
(***************************************************************************)
OneProcess == Schedule = "strict" /\ MaxCrashes = 0

\* What the tick under way is about to write is not there yet: no write of
\* this process ever meets a row.
FreshInv ==
    /\ pc # "down"
    /\ pc = "computed" => \A u \in Recorded(decisions) : u < tick.ts
    /\ Deciding => \A sc \in Scenario : executions[sc][tick.ts] = NULL
    /\ pc = "pessimistic" => executions["pessimistic"][tick.ts] = NULL

\* The rows since the last healthy one.
Since == {ts \in Traded : \A u \in Traded : u >= ts => Row(u).state # HEALTHY}

\* An exposure that is the ledger's last row and counts the rows since.
Reflects(e) ==
    /\ Traded = {} => e = FlatExposure
    /\ \A ts \in Ts : IsLatest(ts) => /\ e.current_target = Row(ts).new_target
                                      /\ e.state = Row(ts).state
    /\ e.ticks_since_valid = Cardinality(Since)

\* In which exposures the ladder leaves a family.
Reached(e) ==
    /\ e.state \in {HEALTHY, SOFT_ABSTAIN} => e.current_target = e.last_valid_target
    /\ e.state = AGED => e.ticks_since_valid > n_soft

\* The row and the exposure that one tick makes of the exposure before it.
Follows(s, row, next) ==
    /\ row.prior_target = s.current_target
    /\ row.new_target = next.current_target
    /\ row.state = next.state
    /\ next.ticks_since_valid = IF next.state = HEALTHY THEN 0 ELSE s.ticks_since_valid + 1
    /\ row.abstain /\ s.state # HARD_FAIL => Abs(row.new_target) <= Abs(row.prior_target)
    /\ Reached(next)

\* The exposure in memory is the last row's until the tick under way has its
\* row; from then on the one that the tick will leave is.
LadderInv ==
    /\ pc = "idle" \/ Deciding => Reflects(exposure)
    /\ pc \in {"pessimistic", "receipt", "hash"} => Reflects(tick.next)
    /\ Reached(exposure)
    /\ UnderWay => Follows(exposure, tick.execution, tick.next)
    /\ TargetChain /\ AbstainCutsTarget

\* One step of the ladder.
LEMMA LadderStep ==
    ASSUME NEW in \in Input, NEW s \in ExposureState, NEW lots, Reached(s)
    PROVE  Follows(s, Execution(in, s, lots), NewExposure(in, s))
  <1>1. /\ Execution(in, s, lots).prior_target = s.current_target
        /\ Execution(in, s, lots).new_target = NewExposure(in, s).current_target
        /\ Execution(in, s, lots).state = NewExposure(in, s).state
        /\ Execution(in, s, lots).abstain = DecisionAbstains(in, s)
    BY DEF Execution
  <1>2. /\ s.current_target \in Int /\ s.last_valid_target \in Int /\ s.ticks_since_valid \in Nat
        /\ Decay(s.current_target) \in Int
        /\ Abs(Decay(s.current_target)) <= Abs(s.current_target)
        /\ Abs(0) <= Abs(s.current_target)
    BY LadderAssumption, DecayShrinks DEF ExposureState, Exposure, Abs
  <1>3. CASE NewExposure(in, s) = ForceFlat(s)
    BY <1>1, <1>2, <1>3
       DEF ForceFlat, ExposureState, Follows, Reached, HEALTHY, SOFT_ABSTAIN, AGED, HARD_FAIL
  <1>4. CASE /\ NewExposure(in, s) = Rebalance(Event(in).b_t)
             /\ ~ Event(in).kill_switch_halting /\ Event(in).b_t # NULL
    <2>1. ~ DecisionAbstains(in, s)
      BY <1>4 DEF DecisionAbstains, Event, Rebalance, HEALTHY
    <2> QED
      BY <1>1, <1>4, <2>1
         DEF Rebalance, Follows, Reached, HEALTHY, SOFT_ABSTAIN, AGED, HARD_FAIL
  <1>5. CASE NewExposure(in, s) = Hold(s) /\ s.ticks_since_valid + 1 <= n_soft
    <2>1. s.state # HARD_FAIL => s.current_target = s.last_valid_target
      BY <1>2, <1>5, LadderAssumption DEF Reached, ExposureState, DegradationState
    <2> QED
      BY <1>1, <1>2, <1>5, <2>1
         DEF Hold, ExposureState, Follows, Reached, Abs, HEALTHY, SOFT_ABSTAIN, AGED, HARD_FAIL
  <1>6. CASE NewExposure(in, s) = Age(s) /\ ~ (s.ticks_since_valid + 1 <= n_soft)
    BY <1>1, <1>2, <1>6, LadderAssumption
       DEF Age, ExposureState, Follows, Reached, HEALTHY, SOFT_ABSTAIN, AGED, HARD_FAIL
  <1> QED
    BY <1>3, <1>4, <1>5, <1>6, EventType DEF NewExposure, Step, TickEvent

\* Every step of the one process finds no row where it writes.
LEMMA FreshNext ==
    ASSUME OneProcess
    PROVE  TypeInv /\ StoryInv /\ FreshInv /\ [Next]_vars => FreshInv'
  <1> SUFFICES ASSUME TypeInv, StoryInv, FreshInv, [Next]_vars PROVE FreshInv'
    OBVIOUS
  <1>0. TypeOK /\ \A ts \in Ts : ts \in Int
    BY LoopAssumption DEF TypeInv, Ts
  <1>a. ASSUME pc' \in {"idle", "receipt", "hash"} PROVE FreshInv'
    BY <1>a DEF FreshInv, Deciding
  <1>1. ASSUME NEW in \in TickInput, Begin(in) PROVE FreshInv'
    <2>1. /\ tick'.ts = in.ts /\ in.ts \in Ts /\ pc' = "computed"
          /\ UNCHANGED <<decisions, executions>>
      BY <1>0, <1>1, InputType, Zenon DEF Begin, ledger, Input, TypeOK
    <2>2. \A u \in Recorded(decisions) : u < in.ts
      BY <1>0, <1>1, <2>1 DEF Begin, MayTick, OneProcess, Recorded
    <2>3. \A sc \in Scenario : executions[sc][in.ts] = NULL
      BY <1>0, <2>1, <2>2, TradedIsDecided DEF Recorded
    <2> QED
      BY <2>1, <2>2, <2>3 DEF FreshInv, Recorded, Deciding
  <1>2. ASSUME RecordDecision PROVE FreshInv'
    BY <1>2 DEF RecordDecision, FreshInv, Deciding
  <1>3. ASSUME RecordTick("optimistic") PROVE FreshInv'
    <2>1. executions'["pessimistic"] = executions["pessimistic"]
      BY <1>0, <1>3 DEF RecordTick, TypeOK, Scenario
    <2> QED
      BY <1>3, <2>1 DEF RecordTick, FreshInv, Deciding, Scenario
  <1>4. ASSUME RecordTick("pessimistic") \/ LedgerConflict \/ WriteReceipt \/ Finish
        PROVE  FreshInv'
    BY <1>4, <1>a DEF RecordTick, LedgerConflict, WriteReceipt, Finish
  <1>5. ASSUME Crash \/ Restart PROVE FreshInv'
    BY <1>0, <1>5 DEF Crash, Restart, FreshInv, OneProcess, TypeOK
  <1>6. ASSUME UNCHANGED <<ledger, pc, tick>> PROVE FreshInv'
    BY <1>6 DEF FreshInv, Deciding, Recorded, ledger
  <1>7. ASSUME (\E l \in Levels : Activate(l)) \/ Clear \/ UNCHANGED vars PROVE FreshInv'
    BY <1>6, <1>7 DEF Activate, Clear, vars
  <1> QED
    BY <1>1, <1>2, <1>3, <1>4, <1>5, <1>6, <1>7 DEF Next, Scenario

\* No write of the one process is refused.
LEMMA NothingInTheWay ==
    ASSUME TypeInv, StoryInv, FreshInv
    PROVE  ~ LedgerConflict
  <1>1. pc = "computed" => tick.ts \in Ts /\ tick.ts \in Int /\ decisions[tick.ts] = NULL
    BY TickRows, LoopAssumption DEF TypeInv, UnderWay, FreshInv, Recorded, Ts
  <1> QED
    BY <1>1 DEF LedgerConflict, FreshInv, Deciding, Scenario

\* While no optimistic row changes, the ladder's relation to them stays.
LEMMA LadderStays ==
    ASSUME executions'["optimistic"] = executions["optimistic"]
    PROVE  /\ Since' = Since
           /\ TargetChain => TargetChain'
           /\ AbstainCutsTarget => AbstainCutsTarget'
           /\ \A e : Reflects(e) => /\ Traded' = {} => e = FlatExposure
                                    /\ \A ts \in Ts : IsLatest(ts)' =>
                                           /\ e.current_target = Row(ts)'.new_target
                                           /\ e.state = Row(ts)'.state
                                    /\ e.ticks_since_valid = Cardinality(Since')
  <1>1. Traded \subseteq Ts
    BY DEF Traded, Recorded
  <1>2. Since' = Since
    BY <1>1, RowsStay DEF Since
  <1>3. TargetChain => TargetChain'
    BY <1>1, RowsStay DEF TargetChain
  <1>4. AbstainCutsTarget => AbstainCutsTarget'
    <2>1. \A ts \in Ts : \A u \in Previous(ts) : u \in Ts
      BY <1>1 DEF Previous
    <2> QED
      BY <1>1, <2>1, RowsStay DEF AbstainCutsTarget, Abs
  <1> QED
    BY <1>2, <1>3, <1>4, RowsStay DEF Reflects

\* A new last row that follows from the exposure before it keeps the chain of
\* targets, cuts no less than it must, and is what the next exposure reflects.
LEMMA LadderGrows ==
    ASSUME TypeInv, RecordTick("optimistic"), executions["optimistic"][tick.ts] = NULL,
           \A u \in Traded : u <= tick.ts,
           Reflects(exposure), Follows(exposure, tick.execution, tick.next),
           TargetChain, AbstainCutsTarget
    PROVE  TargetChain' /\ AbstainCutsTarget' /\ Reflects(tick.next)'
  <1>0. /\ TypeOK /\ HasLatest /\ \A ts \in Ts : ts \in Int
        /\ UNCHANGED tick
    BY LoopAssumption DEF TypeInv, Ts, RecordTick
  <1>1. PICK t \in Ts : t = tick.ts
    BY <1>0, LastRowIsNew
  <1>2. /\ t \notin Traded /\ Traded' = Traded \cup {t}
        /\ \A u \in Traded : u \in Ts /\ u < t /\ Row(u)' = Row(u)
        /\ Row(t)' = tick.execution
        /\ \A ts \in Traded' :
               /\ ts \in Ts /\ Previous(ts)' = Previous(ts)
               /\ Previous(ts) # {} => Row(CHOOSE u \in Previous(ts) : TRUE)'
                                          = Row(CHOOSE u \in Previous(ts) : TRUE)
    BY <1>0, <1>1, LastRowIsNew DEF Row
  <1>3. \/ Traded = {} /\ Previous(t) = {}
        \/ \E last \in Ts : /\ IsLatest(last) /\ Previous(t) = {last}
                            /\ (CHOOSE u \in Previous(t) : TRUE) = last
    BY <1>0, <1>2, PreviousIsLatest
  <1>4. exposure.current_target = IF Previous(t) = {} THEN 0
                                  ELSE Row(CHOOSE u \in Previous(t) : TRUE).new_target
    BY <1>3 DEF Reflects, FlatExposure
  <1>5. (\A u \in Previous(t) : Row(u).state # HARD_FAIL) => exposure.state # HARD_FAIL
    BY <1>3 DEF Reflects, FlatExposure, HEALTHY, HARD_FAIL
  <1>6. TargetChain'
    <2> SUFFICES ASSUME NEW ts \in Traded'
                 PROVE  Row(ts)'.prior_target
                          = IF Previous(ts)' = {} THEN 0
                            ELSE Row(CHOOSE u \in Previous(ts) : TRUE)'.new_target
      BY DEF TargetChain
    <2>1. CASE ts = t
      BY <1>2, <1>4, <2>1 DEF Follows
    <2>2. CASE ts # t
      BY <1>2, <2>2 DEF TargetChain
    <2> QED
      BY <2>1, <2>2
  <1>7. AbstainCutsTarget'
    <2> SUFFICES ASSUME NEW ts \in Traded', Row(ts)'.abstain,
                        \A u \in Previous(ts)' : Row(u)'.state # HARD_FAIL
                 PROVE  Abs(Row(ts)'.new_target) <= Abs(Row(ts)'.prior_target)
      BY DEF AbstainCutsTarget, Abs
    <2>1. \A u \in Previous(ts) : Row(u)'.state = Row(u).state
      BY <1>2 DEF Previous
    <2>2. \A u \in Previous(ts) : Row(u).state # HARD_FAIL
      BY <1>2, <2>1
    <2>3. CASE ts = t
      BY <1>2, <1>5, <2>2, <2>3 DEF Follows
    <2>4. CASE ts # t
      BY <1>2, <2>2, <2>4 DEF AbstainCutsTarget
    <2> QED
      BY <2>3, <2>4
  <1>8. \A ts \in Ts : IsLatest(ts)' => ts = t
    BY <1>0, <1>2 DEF IsLatest, Recorded, Traded
  <1>9. tick.next.ticks_since_valid = Cardinality(Since')
    <2>1. IsFiniteSet(Since)
      <3>1. IsFiniteSet(Ts)
        BY LoopAssumption, FS_Interval DEF Ts
      <3> QED
        BY <3>1, FS_Subset DEF Since, Traded, Recorded
    <2>2. CASE tick.next.state = HEALTHY
      <3>1. Since' = {}
        BY <1>0, <1>2, <2>2 DEF Since, Follows
      <3> QED
        BY <2>2, <3>1, FS_EmptySet DEF Follows
    <2>3. CASE tick.next.state # HEALTHY
      <3>1. Since' = Since \cup {t}
        BY <1>0, <1>2, <2>3 DEF Since, Follows
      <3>2. t \notin Since
        BY <1>2 DEF Since
      <3>3. Cardinality(Since \cup {t}) = Cardinality(Since) + 1
        BY <2>1, <3>2, FS_AddElement
      <3>4. tick.next.ticks_since_valid = exposure.ticks_since_valid + 1
        BY <2>3 DEF Follows
      <3> QED
        BY <3>1, <3>3, <3>4 DEF Reflects
    <2> QED
      BY <2>2, <2>3
  <1>10. Reflects(tick.next)'
    BY <1>0, <1>2, <1>8, <1>9 DEF Reflects, Follows
  <1> QED
    BY <1>6, <1>7, <1>10

\* Every step of the one process keeps the ladder's memory and the ledger one
\* history.
LEMMA LadderNext ==
    ASSUME OneProcess
    PROVE  TypeInv /\ StoryInv /\ OrderInv /\ FreshInv /\ LadderInv /\ [Next]_vars => LadderInv'
  <1> SUFFICES ASSUME TypeInv, StoryInv, OrderInv, FreshInv, LadderInv, [Next]_vars
               PROVE  LadderInv'
    OBVIOUS
  <1>0. TypeOK /\ TypeInv' /\ pc # "down"
    BY TypeNext DEF TypeInv, FreshInv
  \* the optimistic rows and the exposure are as they were
  <1>a. ASSUME UNCHANGED <<executions, exposure, tick>>, Deciding <=> Deciding',
               pc = "idle" <=> pc' = "idle", UnderWay <=> UnderWay', pc' # "down"
        PROVE  LadderInv'
    <2>1. pc' \in {"pessimistic", "receipt", "hash"} => pc \in {"pessimistic", "receipt", "hash"}
      BY <1>0, <1>a DEF Deciding, UnderWay, TypeOK, Scenario, TypeInv
    <2> QED
      BY <1>a, <2>1, LadderStays DEF LadderInv, Reflects, Reached, Follows, Abs
  <1>1. ASSUME NEW in \in TickInput, Begin(in) PROVE LadderInv'
    <2>1. /\ pc = "idle" /\ pc' = "computed" /\ UNCHANGED <<executions, exposure>>
          /\ tick'.next = NewExposure(in, exposure)
          /\ tick'.execution = Execution(in, exposure, prior_lots)
      BY <1>1, Zenon DEF Begin, ledger, memory
    <2>2. in \in Input /\ exposure \in ExposureState
      BY <1>0, InputType DEF TypeOK
    <2>3. Follows(exposure, tick'.execution, tick'.next)
      BY <2>1, <2>2, LadderStep DEF LadderInv
    <2> QED
      BY <2>1, <2>3, LadderStays DEF LadderInv, Reflects, Reached, Follows, Abs
  <1>2. ASSUME RecordDecision PROVE LadderInv'
    BY <1>2, <1>a DEF RecordDecision, Deciding, UnderWay, memory
  <1>3. ASSUME RecordTick("optimistic") PROVE LadderInv'
    <2>1. pc = "optimistic" /\ Deciding /\ UnderWay /\ pc' = "pessimistic"
          /\ UNCHANGED <<exposure, tick>>
      BY <1>3 DEF RecordTick, Deciding, UnderWay, memory
    <2>2. executions["optimistic"][tick.ts] = NULL
      BY <2>1 DEF FreshInv, Scenario
    <2>3. \A u \in Traded : u <= tick.ts
      BY <2>1, TradedIsDecided DEF OrderInv, Traded, Scenario
    <2>4. TargetChain' /\ AbstainCutsTarget' /\ Reflects(tick.next)'
      BY <1>3, <2>1, <2>2, <2>3, LadderGrows DEF LadderInv
    <2> QED
      BY <2>1, <2>4 DEF LadderInv, Deciding, UnderWay, Reached, Follows, Abs
  <1>4. ASSUME RecordTick("pessimistic") \/ WriteReceipt PROVE LadderInv'
    <2>1. /\ pc \in {"pessimistic", "receipt"} /\ pc' \in {"receipt", "hash"}
          /\ UNCHANGED <<exposure, tick>>
          /\ executions'["optimistic"] = executions["optimistic"]
      BY <1>0, <1>4 DEF RecordTick, WriteReceipt, memory, ledger, TypeOK, Scenario
    <2> QED
      BY <2>1, LadderStays
         DEF LadderInv, Deciding, UnderWay, Reflects, Reached, Follows, Abs
  <1>5. ASSUME Finish PROVE LadderInv'
    <2>1. /\ pc = "hash" /\ pc' = "idle" /\ exposure' = tick.next /\ UNCHANGED executions
      BY <1>5 DEF Finish, ledger
    <2> QED
      BY <2>1, LadderStays DEF LadderInv, Deciding, UnderWay, Reflects, Reached, Follows
  <1>6. ASSUME LedgerConflict \/ Crash \/ Restart PROVE LadderInv'
    BY <1>0, <1>6, NothingInTheWay DEF Crash, Restart, OneProcess, TypeOK
  <1>7. ASSUME UNCHANGED <<ledger, memory, pc, tick>> PROVE LadderInv'
    BY <1>0, <1>7, <1>a DEF ledger, memory, Deciding, UnderWay
  <1>8. ASSUME (\E l \in Levels : Activate(l)) \/ Clear \/ UNCHANGED vars PROVE LadderInv'
    BY <1>7, <1>8 DEF Activate, Clear, vars
  <1> QED
    BY <1>1, <1>2, <1>3, <1>4, <1>5, <1>6, <1>7, <1>8 DEF Next, Scenario

\* A flat exposure reflects an empty ledger.
LEMMA LadderInit == Init => FreshInv /\ LadderInv
  <1> SUFFICES ASSUME Init PROVE FreshInv /\ LadderInv
    OBVIOUS
  <1>1. Traded = {} /\ \A ts \in Ts : ~ IsLatest(ts)
    BY DEF Init, Traded, Recorded, Scenario, IsLatest
  <1>2. Cardinality(Since) = 0
    BY <1>1, FS_EmptySet DEF Since
  <1>3. Reflects(exposure) /\ Reached(exposure)
    BY <1>1, <1>2
       DEF Init, Reflects, Reached, FlatExposure, HEALTHY, SOFT_ABSTAIN, AGED
  <1> QED
    BY <1>1, <1>3 DEF Init, FreshInv, LadderInv, Deciding, UnderWay, TargetChain, AbstainCutsTarget

\* Over any mix of healthy, abstaining, late and halted ticks of one process
\* the ladder's memory is what the ledger recorded: the targets chain, the
\* soft window counts rows, and an abstaining tick never raises the target.
THEOREM LadderIsTheLedger == ASSUME OneProcess PROVE Spec => []LadderFollowsLedger
  <1> DEFINE Inv == TypeInv /\ StoryInv /\ OrderInv /\ FreshInv /\ LadderInv
  <1>1. Init => Inv
    BY LoopInit, LadderInit DEF LoopInv
  <1>2. Forward
    BY DEF OneProcess, Forward
  <1>3. Inv /\ [Next]_vars => Inv'
    BY <1>2, TypeNext, StoryNext, OrderNext, FreshNext, LadderNext
  <1>4. Inv => LadderFollowsLedger
    <2> SUFFICES ASSUME Inv PROVE LadderFollowsLedger
      OBVIOUS
    <2>1. LadderCountsTicks
      BY DEF LadderInv, LadderCountsTicks, Reflects, Since
    <2> QED
      BY <2>1 DEF LadderInv, LadderFollowsLedger
  <1> QED
    BY <1>1, <1>3, <1>4, PTL DEF Spec

-----------------------------------------------------------------------------
(***************************************************************************)
(* Restoring: the loop's ledger and its snapshots only grow.               *)
(***************************************************************************)

\* A receipt that is on file is the only one its timestamp can have: it says
\* what the tables hold, and nothing is added before it.
OnFile(ts) ==
    /\ receipts[ts].ts = ts
    /\ decisions[ts] = [id |-> receipts[ts].decision, kill_switch |-> receipts[ts].kill_switch]
    /\ \A sc \in Scenario : executions[sc][ts] = receipts[ts].execution
    /\ receipts[ts].runtime_counts = CountsThrough(ts)
FileInv ==
    /\ \A ts \in Ts : receipts[ts] # NULL => OnFile(ts)
    /\ \A ts \in Ts : hashes[ts] # NULL => hashes[ts] = receipts[ts]
    /\ \A ts \in done : hashes[ts] # NULL

\* The four tables and files at u: what is there stays, and what is new is
\* written by the tick under way.
StayOnFile(u) ==
    /\ decisions[u] # NULL => decisions'[u] = decisions[u]
    /\ \A sc \in Scenario : executions[sc][u] # NULL => executions'[sc][u] = executions[sc][u]
    /\ receipts[u] # NULL => receipts'[u] = receipts[u]
    /\ hashes[u] # NULL => hashes'[u] = hashes[u]
SameOnFile(u) ==
    /\ decisions'[u] = decisions[u]
    /\ \A sc \in Scenario : executions'[sc][u] = executions[sc][u]
    /\ receipts'[u] = receipts[u]
    /\ hashes'[u] = hashes[u]

\* While the last row is the tick's own, counting everything counts up to it.
LEMMA CountsAreAll ==
    ASSUME StoryInv, OrderInv, UnderWay, tick.ts \in Ts
    PROVE  CountsAll = CountsThrough(tick.ts)
  <1>0. PICK t \in Ts : t = tick.ts
    OBVIOUS
  <1>1. Recorded(decisions) \cap (1..t) = Recorded(decisions) \cap Ts
    <2>1. \A u \in Recorded(decisions) : u \in 1..t
      BY <1>0, LoopAssumption DEF OrderInv, Recorded, Ts
    <2> QED
      BY <2>1 DEF Recorded
  <1>2. {x \in Scenario \X (1..t) : executions[x[1]][x[2]] # NULL}
           = {x \in Scenario \X Ts : executions[x[1]][x[2]] # NULL}
    <2>1. \A x \in Scenario \X Ts : executions[x[1]][x[2]] # NULL => x \in Scenario \X (1..t)
      <3> SUFFICES ASSUME NEW sc \in Scenario, NEW u \in Ts, executions[sc][u] # NULL
                   PROVE  u \in 1..t
        OBVIOUS
      <3>1. u \in Recorded(decisions)
        BY TradedIsDecided DEF Recorded
      <3> QED
        BY <1>0, <3>1, LoopAssumption DEF OrderInv, Ts
    <2>2. 1..t \subseteq Ts
      BY LoopAssumption DEF Ts
    <2> QED
      BY <2>1, <2>2
  <1> QED
    BY <1>0, <1>1, <1>2, Zenon DEF CountsAll, CountsThrough, Counts

\* A row that stays as it is at every timestamp up to ts keeps the counts.
LEMMA CountsStay ==
    ASSUME NEW ts \in Ts,
           \A u \in Ts : u <= ts => /\ decisions'[u] = decisions[u]
                                    /\ \A sc \in Scenario : executions'[sc][u] = executions[sc][u]
    PROVE  CountsThrough(ts)' = CountsThrough(ts)
  <1>1. 1..ts \subseteq Ts /\ \A u \in 1..ts : u <= ts
    BY LoopAssumption DEF Ts
  <1>2. (Recorded(decisions) \cap 1..ts)' = Recorded(decisions) \cap 1..ts
    BY <1>1 DEF Recorded
  <1>3. {x \in Scenario \X (1..ts) : executions'[x[1]][x[2]] # NULL}
          = {x \in Scenario \X (1..ts) : executions[x[1]][x[2]] # NULL}
    <2>1. \A x \in Scenario \X (1..ts) : x[1] \in Scenario /\ x[2] \in 1..ts
      OBVIOUS
    <2>2. \A x \in Scenario \X (1..ts) : executions'[x[1]][x[2]] = executions[x[1]][x[2]]
      BY <1>1, <2>1
    <2> QED
      BY <2>2
  <1>4. Cardinality((Recorded(decisions) \cap 1..ts)') = Cardinality(Recorded(decisions) \cap 1..ts)
    BY <1>2
  <1>5. Cardinality({x \in Scenario \X (1..ts) : executions'[x[1]][x[2]] # NULL})
          = Cardinality({x \in Scenario \X (1..ts) : executions[x[1]][x[2]] # NULL})
    BY <1>3
  <1> QED
    BY <1>4, <1>5, Zenon DEF CountsThrough, Counts

\* The receipt the tick under way writes is the one on file, if there is one.
LEMMA ReceiptIsTheSame ==
    ASSUME LoopInv, FileInv, WriteReceipt
    PROVE  /\ Receipt # NULL
           /\ receipts[tick.ts] # NULL => receipts[tick.ts] = Receipt
  <1>1. TypeOK /\ UnderWay /\ tick.ts \in Ts /\ tick.execution.decision = DecisionRow.id
    BY TickRows DEF WriteReceipt, UnderWay, LoopInv, TypeInv, DecisionRow
  <1>2. Receipt \in ReceiptType /\ Receipt # NULL
    BY <1>1, ReceiptIsOne, NullIsNoRow
  <1>3. CountsAll = CountsThrough(tick.ts)
    BY <1>1, CountsAreAll DEF LoopInv
  <1>4. /\ decisions[tick.ts] = [id |-> tick.execution.decision, kill_switch |-> tick.switch]
        /\ executions["optimistic"][tick.ts] = tick.execution
    BY <1>1 DEF LoopInv, StoryInv, WriteReceipt, DecisionRow
  <1>5. ASSUME receipts[tick.ts] # NULL PROVE receipts[tick.ts] = Receipt
    <2>1. PICK r \in ReceiptType : r = receipts[tick.ts]
      BY <1>1, <1>5 DEF TypeOK
    <2>2. /\ r.ts = tick.ts
          /\ decisions[tick.ts] = [id |-> r.decision, kill_switch |-> r.kill_switch]
          /\ executions["optimistic"][tick.ts] = r.execution
          /\ r.runtime_counts = CountsAll
      BY <1>1, <1>3, <1>5, <2>1 DEF FileInv, OnFile, Scenario
    <2>3. /\ [id |-> r.decision, kill_switch |-> r.kill_switch].id = tick.execution.decision
          /\ [id |-> r.decision, kill_switch |-> r.kill_switch].kill_switch = tick.switch
      BY <1>4, <2>2
    <2> QED
      BY <1>4, <2>1, <2>2, <2>3 DEF Receipt, ReceiptType
  <1> QED
    BY <1>2, <1>5

LEMMA OnlyGrows ==
    ASSUME LoopInv, FileInv, [Next]_vars
    PROVE  \A u \in Ts : StayOnFile(u) /\ (SameOnFile(u) \/ (UnderWay /\ u = tick.ts))
  <1>0. TypeOK
    BY DEF LoopInv, TypeInv
  <1>1. CASE RecordDecision
    <2>1. UnderWay /\ UNCHANGED <<executions, receipts, hashes>>
          /\ decisions[tick.ts] \in {NULL, DecisionRow}
      BY <1>1 DEF RecordDecision, UnderWay, files
    <2>2. \A u \in Ts : decisions'[u] = IF u = tick.ts THEN DecisionRow ELSE decisions[u]
      BY <1>0, <1>1 DEF RecordDecision, TypeOK
    <2> QED
      BY <2>1, <2>2 DEF StayOnFile, SameOnFile
  <1>2. ASSUME NEW sc \in Scenario, RecordTick(sc)
        PROVE  \A u \in Ts : StayOnFile(u) /\ (SameOnFile(u) \/ (UnderWay /\ u = tick.ts))
    <2>1. UnderWay /\ UNCHANGED <<decisions, receipts, hashes>>
          /\ executions[sc][tick.ts] \in {NULL, tick.execution}
      BY <1>2 DEF RecordTick, UnderWay, files, Scenario
    <2>2. \A s2 \in Scenario, u \in Ts :
             executions'[s2][u] = IF s2 = sc /\ u = tick.ts THEN tick.execution
                                                        ELSE executions[s2][u]
      BY <1>0, <1>2 DEF RecordTick, TypeOK
    <2> QED
      BY <2>1, <2>2 DEF StayOnFile, SameOnFile
  <1>3. CASE WriteReceipt
    <2>1. UnderWay /\ UNCHANGED <<decisions, executions, hashes>>
      BY <1>3 DEF WriteReceipt, UnderWay, ledger
    <2>2. \A u \in Ts : receipts'[u] = IF u = tick.ts THEN Receipt ELSE receipts[u]
      BY <1>0, <1>3 DEF WriteReceipt, TypeOK
    <2> QED
      BY <1>3, <2>1, <2>2, ReceiptIsTheSame DEF StayOnFile, SameOnFile
  <1>4. CASE Finish
    <2>1. UnderWay /\ UNCHANGED <<decisions, executions, receipts>>
      BY <1>4 DEF Finish, UnderWay, ledger
    <2>2. \A u \in Ts : hashes'[u] = IF u = tick.ts THEN receipts[u] ELSE hashes[u]
      BY <1>0, <1>4 DEF Finish, TypeOK
    <2> QED
      BY <2>1, <2>2 DEF StayOnFile, SameOnFile, FileInv
  <1>5. CASE UNCHANGED <<ledger, files>>
    BY <1>5 DEF ledger, files, StayOnFile, SameOnFile
  <1>6. \/ RecordDecision \/ (\E sc \in Scenario : RecordTick(sc)) \/ WriteReceipt \/ Finish
        \/ UNCHANGED <<ledger, files>>
    BY DEF Next, vars, Begin, LedgerConflict, Crash, Restart, Activate, Clear
  <1> QED
    BY <1>1, <1>2, <1>3, <1>4, <1>5, <1>6

\* What is written is written at or after every row.
LEMMA BeforeIsSettled ==
    ASSUME LoopInv, FileInv, [Next]_vars, NEW u \in Ts, NEW v \in Ts,
           u <= v, decisions[v] # NULL, ~ SameOnFile(u)
    PROVE  u = v
  <1>1. UnderWay /\ u = tick.ts
    BY OnlyGrows
  <1>2. v <= u
    BY <1>1 DEF LoopInv, OrderInv, Recorded
  <1> QED
    BY <1>2, LoopAssumption DEF Ts

LEMMA FileNext == LoopInv /\ FileInv /\ [Next]_vars => FileInv'
  <1> SUFFICES ASSUME LoopInv, FileInv, [Next]_vars PROVE FileInv'
    OBVIOUS
  <1>0. TypeOK /\ done \subseteq Ts
    BY DEF LoopInv, TypeInv, TypeOK
  <1>g. \A u \in Ts : StayOnFile(u) /\ (SameOnFile(u) \/ (UnderWay /\ u = tick.ts))
    BY OnlyGrows
  <1>1. ASSUME NEW ts \in Ts, receipts[ts] # NULL PROVE receipts'[ts] = receipts[ts] /\ OnFile(ts)'
    <2>1. OnFile(ts) /\ receipts'[ts] = receipts[ts]
      BY <1>1, <1>g DEF FileInv, StayOnFile
    <2>2. receipts[ts] \in ReceiptType
      BY <1>0, <1>1 DEF TypeOK
    <2>3. decisions[ts] # NULL /\ \A sc \in Scenario : executions[sc][ts] # NULL
      <3>1. decisions[ts] \in DecisionRowType /\ receipts[ts].execution \in ExecutionType
        BY <2>1, <2>2 DEF OnFile, ReceiptType, DecisionRowType
      <3> QED
        BY <2>1, <3>1, NullIsNoRow DEF OnFile
    <2>4. ASSUME NEW u \in Ts, u <= ts
          PROVE  /\ decisions'[u] = decisions[u]
                 /\ \A sc \in Scenario : executions'[sc][u] = executions[sc][u]
      <3>1. CASE SameOnFile(u)
        BY <3>1 DEF SameOnFile
      <3>2. CASE ~ SameOnFile(u)
        <4>1. u = ts
          BY <2>3, <2>4, <3>2, BeforeIsSettled
        <4> QED
          BY <1>g, <2>3, <4>1 DEF StayOnFile
      <3> QED
        BY <3>1, <3>2
    <2>5. CountsThrough(ts)' = CountsThrough(ts)
      BY <2>4, CountsStay
    <2>6. ts <= ts
      BY LoopAssumption DEF Ts
    <2> QED
      BY <2>1, <2>4, <2>5, <2>6 DEF OnFile
  <1>2. ASSUME NEW ts \in Ts, receipts[ts] = NULL, receipts'[ts] # NULL PROVE OnFile(ts)'
    <2>1. WriteReceipt
      BY <1>2 DEF Next, vars, files, ledger, Begin, RecordDecision, RecordTick, LedgerConflict,
                  Finish, Crash, Restart, Activate, Clear
    <2>2. /\ UNCHANGED <<decisions, executions>> /\ UnderWay /\ tick.ts \in Ts
          /\ receipts' = [receipts EXCEPT ![tick.ts] = Receipt]
      BY <1>0, <2>1, TickRows DEF WriteReceipt, ledger, UnderWay
    <2>3. ts = tick.ts /\ receipts'[ts] = Receipt
      BY <1>0, <1>2, <2>2 DEF TypeOK
    <2>4. /\ decisions[ts] = [id |-> tick.execution.decision, kill_switch |-> tick.switch]
          /\ \A sc \in Scenario : executions[sc][ts] = tick.execution
      BY <2>1, <2>2, <2>3 DEF LoopInv, StoryInv, DecisionRow, WriteReceipt, Scenario
    <2>5. CountsAll = CountsThrough(ts)
      BY <2>2, <2>3, CountsAreAll DEF LoopInv
    <2>6. CountsThrough(ts)' = CountsThrough(ts)
      BY <2>2 DEF CountsThrough, Counts, Recorded
    <2> QED
      BY <2>2, <2>3, <2>4, <2>5, <2>6 DEF OnFile, Receipt
  <1>3. ASSUME NEW ts \in Ts, hashes'[ts] # NULL PROVE hashes'[ts] = receipts'[ts]
    <2>1. CASE hashes[ts] # NULL
      <3>1. hashes'[ts] = hashes[ts] /\ hashes[ts] = receipts[ts]
        BY <1>g, <2>1 DEF StayOnFile, FileInv
      <3> QED
        BY <1>1, <2>1, <3>1
    <2>2. CASE hashes[ts] = NULL
      <3>1. Finish
        BY <1>3, <2>2 DEF Next, vars, files, ledger, Begin, RecordDecision, RecordTick,
                  LedgerConflict, WriteReceipt, Crash, Restart, Activate, Clear
      <3>2. UNCHANGED receipts /\ hashes' = [hashes EXCEPT ![tick.ts] = receipts[tick.ts]]
        BY <3>1 DEF Finish
      <3> QED
        BY <1>0, <1>3, <2>2, <3>2 DEF TypeOK
    <2> QED
      BY <2>1, <2>2
  <1>4. ASSUME NEW ts \in done' PROVE hashes'[ts] # NULL
    <2>1. CASE ts \in done
      <3>1. ts \in Ts /\ hashes[ts] # NULL
        BY <1>0, <2>1 DEF FileInv
      <3> QED
        BY <1>g, <3>1 DEF StayOnFile
    <2>2. CASE ts \notin done
      <3>1. Finish
        BY <1>4, <2>2 DEF Next, vars, files, ledger, Begin, RecordDecision, RecordTick,
                  LedgerConflict, WriteReceipt, Crash, Restart, Activate, Clear
      <3>2. /\ ts = tick.ts /\ UnderWay /\ tick.ts \in Ts
            /\ hashes' = [hashes EXCEPT ![tick.ts] = receipts[tick.ts]]
        BY <1>0, <1>4, <2>2, <3>1, TickRows DEF Finish, UnderWay
      <3>3. receipts[tick.ts] = Receipt
        BY <3>1 DEF LoopInv, ReceiptInv, Finish
      <3>4. receipts[tick.ts] # NULL
        BY <1>0, <3>2, <3>3, ReceiptIsOne, NullIsNoRow
      <3> QED
        BY <1>0, <3>2, <3>4 DEF TypeOK
    <2> QED
      BY <2>1, <2>2
  <1> QED
    BY <1>1, <1>2, <1>3, <1>4 DEF FileInv

LEMMA FileInit == Init => FileInv
  BY DEF Init, FileInv
-----------------------------------------------------------------------------
(***************************************************************************)
(* The restored root is a part of the ledger.                              *)
(***************************************************************************)
Cells == Tables \X Ts
Files == {"receipts", "hashes"}
RootType ==
    [decisions : [Ts -> DecisionRowType \cup {NULL}],
     executions : [Scenario -> [Ts -> ExecutionType \cup {NULL}]],
     receipts : [Ts -> ReceiptType \cup {NULL}],
     hashes : [Ts -> ReceiptType \cup {NULL}]]

\* Every cell of the root is empty or the ledger's, no matter when it was
\* copied and what was traded since.
PartInv == root \in RootType /\ \A x \in Cells : Cell(root, x) \in {NULL, Cell(Source, x)}

\* Snapshot directories arrive in order: before a file of v's is there, all
\* that earlier directories hold is.
InOrderInv ==
    \A x, y \in Cells : /\ x[1] \in Files /\ y[1] \in Files /\ x[2] < y[2]
                        /\ Cell(root, y) # NULL /\ x \in Copyable
                        => Cell(root, x) # NULL

\* A restore under way: its source verifies, and what is not copied yet is on
\* its list.
CopyInv ==
    copying # NULL =>
        /\ pc = "idle" /\ restored = NULL
        /\ copying \in [ts : Ts, items : SUBSET Cells]
        /\ copying.items \subseteq Items(copying.ts)
        /\ VerifiesIn(Source, copying.ts)
        /\ \A x \in Items(copying.ts) : x \in copying.items \/ Cell(root, x) # NULL
        /\ \A x \in Cells : Cell(root, x) # NULL => x[2] <= copying.ts

\* A restore that returned: the last row in the root is its snapshot's.
DoneInv ==
    restored # NULL =>
        /\ restored \in Ts
        /\ root.executions["optimistic"][restored] # NULL
        /\ \A x \in Cells : Cell(root, x) # NULL => x[2] <= restored

RestoreInv == PartInv /\ InOrderInv /\ CopyInv /\ DoneInv /\ restores \in 0..MaxRestores

LEMMA CellsOf ==
    ASSUME NEW r, NEW u \in Ts
    PROVE  /\ <<"decisions", u>> \in Cells /\ Cell(r, <<"decisions", u>>) = r.decisions[u]
           /\ \A sc \in Scenario : /\ <<sc, u>> \in Cells
                                   /\ Cell(r, <<sc, u>>) = r.executions[sc][u]
           /\ <<"receipts", u>> \in Cells /\ Cell(r, <<"receipts", u>>) = r.receipts[u]
           /\ <<"hashes", u>> \in Cells /\ Cell(r, <<"hashes", u>>) = r.hashes[u]
  BY DEF Cells, Tables, Cell, Scenario

LEMMA SourceCells ==
    /\ Source.decisions = decisions /\ Source.executions = executions
    /\ Source.receipts = receipts /\ Source.hashes = hashes
  BY DEF Source

\* What a root holds of u is what the ledger does.
Agree(r, u) ==
    /\ r.decisions[u] = decisions[u]
    /\ \A sc \in Scenario : r.executions[sc][u] = executions[sc][u]

\* A receipt verifies in a root that agrees with the ledger up to it just when
\* it verifies there.
LEMMA SameCounts ==
    ASSUME NEW r, NEW ts \in Ts, \A u \in Ts : u <= ts => Agree(r, u)
    PROVE  CountsIn(r, ts) = CountsThrough(ts)
  <1>1. 1..ts \subseteq Ts /\ \A u \in 1..ts : u <= ts
    BY LoopAssumption DEF Ts
  <1>2. Recorded(r.decisions) \cap 1..ts = Recorded(decisions) \cap 1..ts
    BY <1>1 DEF Recorded, Agree
  <1>3. {x \in Scenario \X (1..ts) : r.executions[x[1]][x[2]] # NULL}
          = {x \in Scenario \X (1..ts) : executions[x[1]][x[2]] # NULL}
    <2>1. \A x \in Scenario \X (1..ts) : x[1] \in Scenario /\ x[2] \in 1..ts
      OBVIOUS
    <2>2. \A x \in Scenario \X (1..ts) : r.executions[x[1]][x[2]] = executions[x[1]][x[2]]
      BY <1>1, <2>1 DEF Agree
    <2> QED
      BY <2>2
  <1> QED
    BY <1>2, <1>3, Zenon DEF CountsIn, CountsThrough, Counts

LEMMA VerifiesAsSource ==
    ASSUME NEW r, NEW ts \in Ts, \A u \in Ts : u <= ts => Agree(r, u),
           receipts[ts] # NULL, OnFile(ts), hashes[ts] = receipts[ts],
           r.receipts[ts] = receipts[ts], r.hashes[ts] = hashes[ts]
    PROVE  VerifiesIn(r, ts)
  <1>1. CountsIn(r, ts) = CountsThrough(ts)
    BY SameCounts
  <1>2. ts <= ts
    BY LoopAssumption DEF Ts
  <1>3. Agree(r, ts)
    BY <1>2
  <1> QED
    BY <1>1, <1>3 DEF VerifiesIn, OnFile, Agree

\* A receipt that verifies in a part of the ledger is the ledger's, and the
\* part is whole up to it: the counts in the receipt leave no row out.
LEMMA VerifiedPartIsWhole ==
    ASSUME FileInv, PartInv, NEW ts \in Ts, VerifiesIn(root, ts)
    PROVE  /\ receipts[ts] # NULL /\ root.receipts[ts] = receipts[ts]
           /\ hashes[ts] = receipts[ts] /\ root.hashes[ts] = hashes[ts]
           /\ \A u \in Ts : u <= ts => Agree(root, u)
  <1>1. /\ root.receipts[ts] # NULL /\ root.hashes[ts] = root.receipts[ts]
        /\ root.receipts[ts].runtime_counts = CountsIn(root, ts)
    BY DEF VerifiesIn
  <1>2. /\ root.receipts[ts] = receipts[ts] /\ root.hashes[ts] = hashes[ts]
        /\ \A u \in Ts : /\ root.decisions[u] \in {NULL, decisions[u]}
                         /\ \A sc \in Scenario :
                               root.executions[sc][u] \in {NULL, executions[sc][u]}
    <2>1. /\ Cell(root, <<"receipts", ts>>) \in {NULL, Cell(Source, <<"receipts", ts>>)}
          /\ Cell(root, <<"hashes", ts>>) \in {NULL, Cell(Source, <<"hashes", ts>>)}
      BY CellsOf DEF PartInv
    <2>2. /\ root.receipts[ts] \in {NULL, receipts[ts]}
          /\ root.hashes[ts] \in {NULL, hashes[ts]}
      BY <2>1, CellsOf, SourceCells
    <2>3. ASSUME NEW u \in Ts
          PROVE  /\ root.decisions[u] \in {NULL, decisions[u]}
                 /\ \A sc \in Scenario : root.executions[sc][u] \in {NULL, executions[sc][u]}
      <3>1. Cell(root, <<"decisions", u>>) \in {NULL, Cell(Source, <<"decisions", u>>)}
        BY CellsOf DEF PartInv
      <3>2. \A sc \in Scenario : Cell(root, <<sc, u>>) \in {NULL, Cell(Source, <<sc, u>>)}
        BY CellsOf DEF PartInv
      <3>3. root.decisions[u] \in {NULL, decisions[u]}
        BY <3>1, CellsOf, SourceCells
      <3>4. \A sc \in Scenario : root.executions[sc][u] \in {NULL, executions[sc][u]}
        BY <3>2, CellsOf, SourceCells
      <3> QED
        BY <3>3, <3>4
    <2> QED
      BY <1>1, <2>2, <2>3
  <1>3. OnFile(ts) /\ receipts[ts].runtime_counts = CountsThrough(ts)
    BY <1>1, <1>2 DEF FileInv, OnFile
  <1>4. CountsIn(root, ts) = CountsThrough(ts)
    BY <1>1, <1>2, <1>3
  <1>5. 1..ts \subseteq Ts /\ \A u \in Ts : u <= ts => u \in 1..ts
    BY LoopAssumption DEF Ts
  <1> DEFINE D == Recorded(decisions) \cap 1..ts
             d == Recorded(root.decisions) \cap 1..ts
             E == {x \in Scenario \X (1..ts) : executions[x[1]][x[2]] # NULL}
             e == {x \in Scenario \X (1..ts) : root.executions[x[1]][x[2]] # NULL}
  <1>6. Cardinality(d) = Cardinality(D) /\ Cardinality(e) = Cardinality(E)
    <2>1. \A a, b, m, n : [family_decisions |-> a, execution_ledger |-> b]
                             = [family_decisions |-> m, execution_ledger |-> n]
                          => a = m /\ b = n
      <3> TAKE a, b, m, n
      <3> DEFINE x == [family_decisions |-> a, execution_ledger |-> b]
                 y == [family_decisions |-> m, execution_ledger |-> n]
      <3>1. x.family_decisions = a /\ x.execution_ledger = b
            /\ y.family_decisions = m /\ y.execution_ledger = n
        OBVIOUS
      <3> HIDE DEF x, y
      <3>2. x = y => a = m /\ b = n
        BY <3>1
      <3> QED
        BY <3>2 DEF x, y
    <2>2. /\ CountsIn(root, ts) = [family_decisions |-> Cardinality(d),
                                   execution_ledger |-> Cardinality(e)]
          /\ CountsThrough(ts) = [family_decisions |-> Cardinality(D),
                                  execution_ledger |-> Cardinality(E)]
      BY DEF CountsIn, CountsThrough, Counts
    <2> HIDE DEF d, D, e, E
    <2>3. [family_decisions |-> Cardinality(d), execution_ledger |-> Cardinality(e)]
            = [family_decisions |-> Cardinality(D), execution_ledger |-> Cardinality(E)]
      BY <1>4, <2>2
    <2> QED
      BY ONLY <2>1, <2>3, Zenon
  <1>7. d \subseteq D /\ e \subseteq E
    <2>1. d \subseteq D
      BY <1>2 DEF Recorded
    <2>2. ASSUME NEW x \in e PROVE x \in E
      <3>1. x[1] \in Scenario /\ x[2] \in Ts
        BY <1>5
      <3> QED
        BY <1>2, <3>1
    <2> QED
      BY <2>1, <2>2
  <1>8. IsFiniteSet(D) /\ IsFiniteSet(E)
    <2>1. IsFiniteSet(D)
      BY TableFinite, FS_Subset
    <2>2. E \subseteq Scenario \X Ts
      BY <1>5
    <2> QED
      BY <2>1, <2>2, TableFinite, FS_Subset
  <1>9. d = D /\ e = E
    <2>1. ASSUME NEW S, NEW T, IsFiniteSet(S), T \subseteq S, Cardinality(T) = Cardinality(S)
          PROVE  T = S
      BY <2>1, FS_Subset
    <2> HIDE DEF d, D, e, E
    <2> QED
      BY <1>6, <1>7, <1>8, <2>1
  <1>10. ASSUME NEW u \in Ts, u <= ts PROVE Agree(root, u)
    <2>1. root.decisions[u] = decisions[u]
      <3>1. decisions[u] # NULL => u \in D
        BY <1>5, <1>10 DEF Recorded
      <3>2. u \in d => root.decisions[u] # NULL
        BY DEF Recorded
      <3> QED
        BY <1>2, <1>9, <3>1, <3>2
    <2>2. ASSUME NEW sc \in Scenario PROVE root.executions[sc][u] = executions[sc][u]
      <3>1. executions[sc][u] # NULL => <<sc, u>> \in E
        BY <1>5, <1>10
      <3>2. <<sc, u>> \in e => root.executions[sc][u] # NULL
        OBVIOUS
      <3> QED
        BY <1>2, <1>9, <3>1, <3>2
    <2> QED
      BY <2>1, <2>2 DEF Agree
  <1> QED
    BY <1>1, <1>2, <1>10

-----------------------------------------------------------------------------
(***************************************************************************)
(* One step of the loop, and one step of a restore.                        *)
(***************************************************************************)

\* While the loop runs, a cell of the ledger that is filled stays as it is.
LEMMA SourceGrows ==
    ASSUME LoopInv, FileInv, [Next]_vars, NEW x \in Cells, Cell(Source, x) # NULL
    PROVE  Cell(Source', x) = Cell(Source, x)
  <1>1. PICK f \in Tables, u \in Ts : x = <<f, u>>
    BY DEF Cells
  <1>2. StayOnFile(u)
    BY OnlyGrows
  <1>3. /\ Source'.decisions = decisions' /\ Source'.executions = executions'
        /\ Source'.receipts = receipts' /\ Source'.hashes = hashes'
    BY DEF Source
  <1>4. CASE f \in Scenario
    BY <1>1, <1>2, <1>3, <1>4, SourceCells DEF Cell, StayOnFile
  <1>5. CASE f = "decisions"
    BY <1>1, <1>2, <1>3, <1>5, SourceCells DEF Cell, Scenario, StayOnFile
  <1>6. CASE f = "receipts"
    BY <1>1, <1>2, <1>3, <1>6, SourceCells DEF Cell, Scenario, StayOnFile
  <1>7. CASE f = "hashes"
    BY <1>1, <1>2, <1>3, <1>7, SourceCells DEF Cell, Scenario, StayOnFile
  <1> QED
    BY <1>4, <1>5, <1>6, <1>7 DEF Tables

\* A cell of the ledger at a timestamp that stays as it is.
LEMMA SourceSettled ==
    ASSUME NEW x \in Cells, SameOnFile(x[2])
    PROVE  Cell(Source', x) = Cell(Source, x) /\ receipts'[x[2]] = receipts[x[2]]
  <1>1. PICK f \in Tables, u \in Ts : x = <<f, u>>
    BY DEF Cells
  <1>2. SameOnFile(u)
    BY <1>1
  <1>3. /\ Source'.decisions = decisions' /\ Source'.executions = executions'
        /\ Source'.receipts = receipts' /\ Source'.hashes = hashes'
    BY DEF Source
  <1>4. CASE f \in Scenario
    BY <1>1, <1>2, <1>3, <1>4, SourceCells DEF Cell, SameOnFile
  <1>5. CASE f = "decisions"
    BY <1>1, <1>2, <1>3, <1>5, SourceCells DEF Cell, Scenario, SameOnFile
  <1>6. CASE f = "receipts"
    BY <1>1, <1>2, <1>3, <1>6, SourceCells DEF Cell, Scenario, SameOnFile
  <1>7. CASE f = "hashes"
    BY <1>1, <1>2, <1>3, <1>7, SourceCells DEF Cell, Scenario, SameOnFile
  <1> QED
    BY <1>4, <1>5, <1>6, <1>7 DEF Tables

\* A snapshot with a file has its decision row.
LEMMA FiledIsDecided ==
    ASSUME TypeOK, FileInv, NEW y \in Cells, y[1] \in Files, Cell(Source, y) # NULL
    PROVE  y[2] \in Ts /\ receipts[y[2]] # NULL /\ decisions[y[2]] # NULL
           /\ executions["optimistic"][y[2]] # NULL
  <1>1. PICK f \in Files, v \in Ts : y = <<f, v>>
    BY DEF Cells
  <1>2. Cell(Source, y) \in {receipts[v], hashes[v]}
    BY <1>1, CellsOf, SourceCells DEF Files
  <1>3. receipts[v] # NULL
    BY <1>2 DEF FileInv
  <1>4. OnFile(v) /\ receipts[v] \in ReceiptType
    BY <1>3 DEF FileInv, TypeOK
  <1>5. decisions[v] \in DecisionRowType /\ receipts[v].execution \in ExecutionType
    BY <1>4 DEF OnFile, ReceiptType, DecisionRowType
  <1> QED
    BY <1>1, <1>3, <1>4, <1>5, NullIsNoRow DEF OnFile, Scenario

\* One row or file copied fills its own cell and leaves the others.
LEMMA FilledCells ==
    ASSUME TypeOK, NEW r \in RootType, NEW x \in Cells
    PROVE  /\ Filled(r, x) \in RootType
           /\ \A y \in Cells : Cell(Filled(r, x), y)
                                  = IF y = x THEN Cell(Source, x) ELSE Cell(r, y)
  <1>1. PICK f \in Tables, u \in Ts : x = <<f, u>>
    BY DEF Cells
  <1>2. \A y \in Cells : y[1] \in Tables /\ y[2] \in Ts /\ y = <<y[1], y[2]>>
    BY DEF Cells
  <1>3. "decisions" \notin Scenario /\ "receipts" \notin Scenario /\ "hashes" \notin Scenario
    BY DEF Scenario
  <1>r. /\ r.decisions \in [Ts -> DecisionRowType \cup {NULL}]
        /\ r.executions \in [Scenario -> [Ts -> ExecutionType \cup {NULL}]]
        /\ r.receipts \in [Ts -> ReceiptType \cup {NULL}]
        /\ r.hashes \in [Ts -> ReceiptType \cup {NULL}]
        /\ r = [decisions |-> r.decisions, executions |-> r.executions,
                receipts |-> r.receipts, hashes |-> r.hashes]
    BY DEF RootType
  <1>4. CASE f \in Scenario
    <2>1. PICK c : c = executions[f][u]
      OBVIOUS
    <2>2. c \in ExecutionType \cup {NULL} /\ Cell(Source, x) = c
      BY <1>1, <1>4, <2>1, SourceCells DEF Cell, TypeOK
    <2>3. PICK e : e = [r.executions EXCEPT ![f][u] = c]
      OBVIOUS
    <2>4. Filled(r, x) = [decisions |-> r.decisions, executions |-> e,
                          receipts |-> r.receipts, hashes |-> r.hashes]
      <3>1. Filled(r, x) = [r EXCEPT !.executions[f][u] = c]
        BY <1>1, <1>4, <2>2 DEF Filled
      <3> QED
        BY <1>r, <2>3, <3>1
    <2>5. /\ e \in [Scenario -> [Ts -> ExecutionType \cup {NULL}]]
          /\ \A g \in Scenario, v \in Ts :
                e[g][v] = IF g = f /\ v = u THEN c ELSE r.executions[g][v]
      BY <1>r, <1>4, <2>2, <2>3
    <2>6. Filled(r, x) \in RootType
      BY <1>r, <2>4, <2>5 DEF RootType
    <2>7. ASSUME NEW g \in Tables, NEW v \in Ts
          PROVE  Cell(Filled(r, x), <<g, v>>)
                    = IF g = f /\ v = u THEN c ELSE Cell(r, <<g, v>>)
      BY <1>3, <1>4, <2>4, <2>5, <2>7 DEF Cell, Tables
    <2> QED
      BY <1>1, <1>2, <2>2, <2>6, <2>7
  <1>5. ASSUME NEW V, f \notin Scenario, r[f] \in [Ts -> V], Cell(Source, x) \in V,
               [r EXCEPT ![f] = [r[f] EXCEPT ![u] = Cell(Source, x)]] \in RootType
        PROVE  /\ Filled(r, x) \in RootType
               /\ \A y \in Cells : Cell(Filled(r, x), y)
                                      = IF y = x THEN Cell(Source, x) ELSE Cell(r, y)
    <2>1. PICK c \in V : c = Cell(Source, x)
      BY <1>5
    <2>2. PICK e : e = [r[f] EXCEPT ![u] = c]
      OBVIOUS
    <2>3. Filled(r, x) = [r EXCEPT ![f] = e]
      BY <1>1, <1>5, <2>1, <2>2 DEF Filled
    <2>4. \A v \in Ts : e[v] = IF v = u THEN c ELSE r[f][v]
      BY <1>5, <2>1, <2>2
    <2>5. ASSUME NEW g \in Tables, NEW v \in Ts
          PROVE  Cell(Filled(r, x), <<g, v>>)
                    = IF g = f /\ v = u THEN c ELSE Cell(r, <<g, v>>)
      BY <1>r, <1>5, <2>3, <2>4, <2>5 DEF Cell, Tables, Scenario
    <2> QED
      BY <1>1, <1>2, <1>5, <2>1, <2>2, <2>3, <2>5
  <1>6. CASE f = "decisions"
    <2>1. Cell(Source, x) \in DecisionRowType \cup {NULL}
      BY <1>1, <1>3, <1>6, SourceCells DEF Cell, TypeOK
    <2>2. [r EXCEPT ![f] = [r[f] EXCEPT ![u] = Cell(Source, x)]] \in RootType
      BY <1>r, <1>6, <2>1 DEF RootType
    <2> QED
      BY <1>r, <1>3, <1>5, <1>6, <2>1, <2>2
  <1>7. CASE f = "receipts"
    <2>1. Cell(Source, x) \in ReceiptType \cup {NULL}
      BY <1>1, <1>3, <1>7, SourceCells DEF Cell, TypeOK
    <2>2. [r EXCEPT ![f] = [r[f] EXCEPT ![u] = Cell(Source, x)]] \in RootType
      BY <1>r, <1>7, <2>1 DEF RootType
    <2> QED
      BY <1>r, <1>3, <1>5, <1>7, <2>1, <2>2
  <1>8. CASE f = "hashes"
    <2>1. Cell(Source, x) \in ReceiptType \cup {NULL}
      BY <1>1, <1>3, <1>8, SourceCells DEF Cell, TypeOK
    <2>2. [r EXCEPT ![f] = [r[f] EXCEPT ![u] = Cell(Source, x)]] \in RootType
      BY <1>r, <1>8, <2>1 DEF RootType
    <2> QED
      BY <1>r, <1>3, <1>5, <1>8, <2>1, <2>2
  <1> QED
    BY <1>4, <1>6, <1>7, <1>8 DEF Tables

LEMMA NothingFilled ==
    EmptyRoot \in RootType /\ \A x \in Cells : Cell(EmptyRoot, x) = NULL
  <1>1. EmptyRoot \in RootType
    BY DEF EmptyRoot, NoRows, RootType
  <1>2. ASSUME NEW f \in Tables, NEW u \in Ts PROVE Cell(EmptyRoot, <<f, u>>) = NULL
    BY DEF EmptyRoot, NoRows, Cell, Tables, Scenario
  <1> QED
    BY <1>1, <1>2 DEF Cells

\* A step of the loop leaves the target as it is, and the target a part of
\* the ledger.
LEMMA LoopStepRestore ==
    ASSUME LoopInv, FileInv, RestoreInv, [Next]_vars, copying = NULL, UNCHANGED restoring
    PROVE  RestoreInv'
  <1>1. /\ root' = root /\ copying' = NULL /\ restored' = restored /\ restores' = restores
        /\ TypeOK
    BY DEF restoring, LoopInv, TypeInv
  <1>2. PartInv'
    <2>1. ASSUME NEW x \in Cells PROVE Cell(root, x) \in {NULL, Cell(Source', x)}
      <3>1. Cell(root, x) \in {NULL, Cell(Source, x)}
        BY DEF RestoreInv, PartInv
      <3> QED
        BY <3>1, SourceGrows
    <2> QED
      BY <1>1, <2>1 DEF RestoreInv, PartInv
  <1>3. InOrderInv'
    <2> SUFFICES ASSUME NEW x \in Cells, NEW y \in Cells, x[1] \in Files, y[1] \in Files,
                        x[2] < y[2], Cell(root, y) # NULL, x \in Copyable'
                 PROVE  Cell(root, x) # NULL
      BY <1>1 DEF InOrderInv
    <2>1. Cell(Source, y) # NULL
      BY DEF RestoreInv, PartInv
    <2>2. y[2] \in Ts /\ decisions[y[2]] # NULL
      BY <1>1, <2>1, FiledIsDecided
    <2>3. x[2] \in Ts /\ x[2] \in Int /\ y[2] \in Int
      BY <2>2, LoopAssumption DEF Cells, Ts
    <2>4. x[2] <= y[2] /\ x[2] # y[2]
      BY <2>3
    <2>5. SameOnFile(x[2])
      BY <2>2, <2>3, <2>4, BeforeIsSettled
    <2>6. x \in Copyable
      BY <2>5, SourceSettled DEF Copyable, Cells
    <2> QED
      BY <2>6 DEF RestoreInv, InOrderInv
  <1>4. CopyInv'
    BY <1>1 DEF CopyInv
  <1>5. DoneInv'
    BY <1>1 DEF RestoreInv, DoneInv
  <1> QED
    BY <1>1, <1>2, <1>3, <1>4, <1>5 DEF RestoreInv

\* While a restore works the loop does not.
SourceRests == UNCHANGED vars
LEMMA SourceSame ==
    ASSUME SourceRests
    PROVE  /\ Source' = Source /\ Copyable' = Copyable
           /\ \A ts : Items(ts)' = Items(ts) /\ VerifiesIn(Source, ts)' = VerifiesIn(Source, ts)
  <1>1. /\ decisions' = decisions /\ executions' = executions
        /\ receipts' = receipts /\ hashes' = hashes
    BY DEF SourceRests, vars, ledger, files
  <1>2. Source' = Source
    BY <1>1 DEF Source
  <1>3. Copyable' = Copyable
    BY <1>1, <1>2 DEF Copyable
  <1> QED
    BY <1>2, <1>3 DEF Items, VerifiesIn, CountsIn

LEMMA StartKeeps ==
    ASSUME TypeOK, RestoreInv, NEW ts \in Ts, NEW overwrite \in BOOLEAN,
           StartRestore(ts, overwrite)
    PROVE  RestoreInv'
  <1>1. /\ root' = EmptyRoot /\ restored' = NULL /\ copying' = [ts |-> ts, items |-> Items(ts)]
        /\ restores' \in 0..MaxRestores /\ SourceRests /\ pc = "idle" /\ VerifiesIn(Source, ts)
    BY RestoreAssumption DEF StartRestore, RestoreInv, SourceRests
  <1>2. /\ Source' = Source /\ Copyable' = Copyable /\ Items(ts)' = Items(ts)
        /\ VerifiesIn(Source, ts)' = VerifiesIn(Source, ts) /\ pc' = pc
    BY <1>1, SourceSame DEF SourceRests, vars
  <1>3. root' \in RootType /\ \A x \in Cells : Cell(root', x) = NULL
    BY <1>1, NothingFilled
  <1>4. PartInv' /\ InOrderInv' /\ DoneInv'
    BY <1>1, <1>3 DEF PartInv, InOrderInv, DoneInv
  <1>5. CopyInv'
    <2>1. copying'.ts = ts /\ copying'.items = Items(ts)
      BY <1>1
    <2>2. Items(ts) \subseteq Cells
      BY DEF Items, Copyable, Cells
    <2> QED
      BY <1>1, <1>2, <1>3, <2>1, <2>2 DEF CopyInv
  <1> QED
    BY <1>1, <1>4, <1>5 DEF RestoreInv

LEMMA CopyKeeps ==
    ASSUME TypeOK, RestoreInv, CopyItem
    PROVE  RestoreInv'
  <1>1. PICK x \in copying.items :
          /\ \A y \in copying.items : ~ CopiedBefore(y, x)
          /\ root' = Filled(root, x)
          /\ copying' = [copying EXCEPT !.items = @ \ {x}]
    BY DEF CopyItem
  <1>2. /\ copying # NULL /\ SourceRests /\ restores' = restores /\ restored' = restored
    BY DEF CopyItem, SourceRests
  <1>3. PICK ts \in Ts, items \in SUBSET Cells : copying = [ts |-> ts, items |-> items]
    BY <1>2 DEF RestoreInv, CopyInv
  <1>4. /\ pc = "idle" /\ restored = NULL /\ items \subseteq Items(ts)
        /\ VerifiesIn(Source, ts)
        /\ \A y \in Items(ts) : y \in items \/ Cell(root, y) # NULL
        /\ \A y \in Cells : Cell(root, y) # NULL => y[2] <= ts
    BY <1>2, <1>3 DEF RestoreInv, CopyInv
  <1>5. /\ Source' = Source /\ Copyable' = Copyable /\ Items(ts)' = Items(ts)
        /\ VerifiesIn(Source, ts)' = VerifiesIn(Source, ts) /\ pc' = pc
    BY <1>2, SourceSame DEF SourceRests, vars
  <1>6. /\ x \in items /\ x \in Cells /\ copying' = [ts |-> ts, items |-> items \ {x}]
        /\ \A y \in items : ~ CopiedBefore(y, x)
    BY <1>1, <1>3
  <1>7. x \in Copyable /\ x[2] <= ts /\ Cell(Source, x) # NULL
    BY <1>4, <1>6 DEF Items, Copyable
  <1>8. root \in RootType /\ \A y \in Cells : Cell(root, y) \in {NULL, Cell(Source, y)}
    BY DEF RestoreInv, PartInv
  <1>9. /\ root' \in RootType
        /\ \A y \in Cells : Cell(root', y) = IF y = x THEN Cell(Source, x) ELSE Cell(root, y)
    <2>1. PICK r \in RootType : r = root
      BY <1>8
    <2>2. /\ Filled(r, x) \in RootType
          /\ \A y \in Cells : Cell(Filled(r, x), y)
                                 = IF y = x THEN Cell(Source, x) ELSE Cell(r, y)
      BY <1>6, FilledCells
    <2> QED
      BY <1>1, <2>1, <2>2
  <1>10. PartInv'
    BY <1>5, <1>8, <1>9 DEF PartInv
  <1>11. InOrderInv'
    <2> SUFFICES ASSUME NEW z \in Cells, NEW y \in Cells, z[1] \in Files, y[1] \in Files,
                        z[2] < y[2], Cell(root', y) # NULL, z \in Copyable
                 PROVE  Cell(root', z) # NULL
      BY <1>5 DEF InOrderInv
    <2>1. CASE y # x
      <3>1. Cell(root, z) # NULL
        BY <1>9, <2>1 DEF RestoreInv, InOrderInv
      <3> QED
        BY <1>7, <1>9, <3>1
    <2>2. CASE y = x
      <3>1. z[2] \in Int /\ y[2] \in Int /\ ts \in Int
        BY LoopAssumption DEF Cells, Ts
      <3>2. z \in Items(ts)
        BY <1>7, <2>2, <3>1 DEF Items
      <3>3. CopiedBefore(z, x)
        BY <2>2 DEF CopiedBefore, Stage, Files
      <3>4. Cell(root, z) # NULL
        BY <1>4, <1>6, <3>2, <3>3
      <3> QED
        BY <1>7, <1>9, <3>4
    <2> QED
      BY <2>1, <2>2
  <1>12. CopyInv'
    <2>1. copying'.ts = ts /\ copying'.items = items \ {x}
      BY <1>6
    <2>2. \A y \in Items(ts) : y \in items \ {x} \/ Cell(root', y) # NULL
      <3>1. Items(ts) \subseteq Cells
        BY DEF Items, Copyable, Cells
      <3> QED
        BY <1>4, <1>7, <1>9, <3>1
    <2>3. \A y \in Cells : Cell(root', y) # NULL => y[2] <= ts
      BY <1>4, <1>7, <1>9
    <2> QED
      BY <1>2, <1>4, <1>5, <1>6, <2>1, <2>2, <2>3 DEF CopyInv
  <1>13. DoneInv'
    BY <1>2, <1>4 DEF DoneInv
  <1> QED
    BY <1>2, <1>10, <1>11, <1>12, <1>13 DEF RestoreInv

\* When nothing is left to copy, the root is the ledger up to the snapshot.
LEMMA CopiedIsWhole ==
    ASSUME TypeOK, FileInv, RestoreInv, copying # NULL, copying.items = {}
    PROVE  /\ copying.ts \in Ts /\ VerifiesIn(root, copying.ts)
           /\ root.executions["optimistic"][copying.ts] # NULL
           /\ \A x \in Cells : Cell(root, x) # NULL => x[2] <= copying.ts
  <1>1. PICK ts \in Ts : ts = copying.ts
    BY DEF RestoreInv, CopyInv
  <1>2. /\ VerifiesIn(Source, ts)
        /\ \A x \in Items(ts) : Cell(root, x) # NULL
        /\ \A x \in Cells : Cell(root, x) # NULL => x[2] <= ts
    BY <1>1 DEF RestoreInv, CopyInv
  <1>3. receipts[ts] # NULL /\ hashes[ts] = receipts[ts]
    BY <1>2, SourceCells DEF VerifiesIn
  <1>4. \A x \in Cells : Cell(root, x) \in {NULL, Cell(Source, x)}
    BY DEF RestoreInv, PartInv
  <1>5. ASSUME NEW x \in Cells, x[2] <= ts, x[1] = "hashes" => receipts[x[2]] # NULL
        PROVE  Cell(root, x) = Cell(Source, x)
    <2>1. CASE Cell(Source, x) = NULL
      BY <1>4, <2>1
    <2>2. CASE Cell(Source, x) # NULL
      <3>1. x \in Items(ts)
        BY <1>5, <2>2 DEF Items, Copyable, Cells
      <3> QED
        BY <1>2, <1>4, <3>1
    <2> QED
      BY <2>1, <2>2
  <1>6. ts \in Int /\ ts <= ts
    BY LoopAssumption DEF Ts
  <1>7. ASSUME NEW u \in Ts, u <= ts PROVE Agree(root, u)
    <2>1. Cell(root, <<"decisions", u>>) = Cell(Source, <<"decisions", u>>)
      BY <1>5, <1>7, CellsOf
    <2>2. \A sc \in Scenario : Cell(root, <<sc, u>>) = Cell(Source, <<sc, u>>)
      BY <1>5, <1>7, CellsOf DEF Scenario
    <2>3. root.decisions[u] = decisions[u]
      BY <2>1, SourceCells DEF Cell, Scenario
    <2>4. \A sc \in Scenario : root.executions[sc][u] = executions[sc][u]
      BY <2>2, SourceCells DEF Cell, Scenario
    <2> QED
      BY <2>3, <2>4 DEF Agree
  <1>8. root.receipts[ts] = receipts[ts] /\ root.hashes[ts] = hashes[ts]
    <2>1. Cell(root, <<"receipts", ts>>) = Cell(Source, <<"receipts", ts>>)
      BY <1>5, <1>6, CellsOf
    <2>2. Cell(root, <<"hashes", ts>>) = Cell(Source, <<"hashes", ts>>)
      BY <1>3, <1>5, <1>6, CellsOf
    <2>3. root.receipts[ts] = receipts[ts]
      BY <2>1, SourceCells DEF Cell, Scenario
    <2>4. root.hashes[ts] = hashes[ts]
      BY <2>2, SourceCells DEF Cell, Scenario
    <2> QED
      BY <2>3, <2>4
  <1>9. VerifiesIn(root, ts)
    <2>1. OnFile(ts)
      BY <1>3 DEF FileInv
    <2> QED
      BY <1>3, <1>7, <1>8, <2>1, VerifiesAsSource
  <1>10. root.executions["optimistic"][ts] # NULL
    <2>1. Cell(Source, <<"receipts", ts>>) # NULL
      BY <1>3, CellsOf, SourceCells
    <2>2. executions["optimistic"][ts] # NULL
      BY <2>1, CellsOf, FiledIsDecided DEF Files
    <2> QED
      BY <1>6, <1>7, <2>2 DEF Agree, Scenario
  <1> QED
    BY <1>1, <1>2, <1>9, <1>10

LEMMA RestoreInvNext ==
    ASSUME LoopInv, FileInv, RestoreInv, [RestoreNext]_restoreVars
    PROVE  RestoreInv' /\ [Next]_vars
  <1>0. TypeOK
    BY DEF LoopInv, TypeInv
  <1>1. CASE copying = NULL /\ Next /\ UNCHANGED restoring
    BY <1>1, LoopStepRestore
  <1>2. ASSUME NEW ts \in Ts, NEW overwrite \in BOOLEAN, StartRestore(ts, overwrite)
        PROVE  RestoreInv' /\ [Next]_vars
    BY <1>0, <1>2, StartKeeps DEF StartRestore
  <1>3. CASE CopyItem
    BY <1>0, <1>3, CopyKeeps DEF CopyItem
  <1>4. CASE FinishRestore
    <2>1. /\ copying # NULL /\ copying.items = {} /\ restored' = copying.ts /\ copying' = NULL
          /\ root' = root /\ restores' = restores /\ SourceRests
      BY <1>4 DEF FinishRestore, SourceRests
    <2>2. /\ copying.ts \in Ts /\ root.executions["optimistic"][copying.ts] # NULL
          /\ \A x \in Cells : Cell(root, x) # NULL => x[2] <= copying.ts
      BY <1>0, <2>1, CopiedIsWhole
    <2>3. PartInv' /\ InOrderInv'
      BY <2>1, SourceSame DEF RestoreInv, PartInv, InOrderInv
    <2>4. CopyInv' /\ DoneInv'
      BY <2>1, <2>2 DEF CopyInv, DoneInv
    <2> QED
      BY <2>1, <2>3, <2>4 DEF RestoreInv, SourceRests
  <1>5. CASE RestoreFails
    <2>1. /\ copying' = NULL /\ root' = root /\ restored' = restored /\ restores' = restores
          /\ SourceRests
      BY <1>5 DEF RestoreFails, SourceRests
    <2>2. PartInv' /\ InOrderInv' /\ CopyInv' /\ DoneInv'
      BY <2>1, SourceSame DEF RestoreInv, PartInv, InOrderInv, CopyInv, DoneInv
    <2> QED
      BY <2>1, <2>2 DEF RestoreInv, SourceRests
  <1>6. CASE UNCHANGED restoreVars
    <2>1. UNCHANGED restoring /\ SourceRests
      BY <1>6 DEF restoreVars, SourceRests
    <2>2. /\ root' = root /\ copying' = copying /\ restored' = restored /\ restores' = restores
      BY <2>1 DEF restoring
    <2>3. pc' = pc
      BY <2>1 DEF SourceRests, vars
    <2>4. PartInv' /\ InOrderInv' /\ DoneInv'
      BY <2>1, <2>2, SourceSame DEF RestoreInv, PartInv, InOrderInv, DoneInv
    <2>5. CopyInv'
      BY <2>1, <2>2, <2>3, SourceSame DEF RestoreInv, CopyInv
    <2> QED
      BY <2>1, <2>2, <2>4, <2>5 DEF RestoreInv, SourceRests
  <1> QED
    BY <1>1, <1>2, <1>3, <1>4, <1>5, <1>6 DEF RestoreNext

LEMMA RestoreInvInit == RestoreInit => RestoreInv /\ FileInv /\ Init
  BY FileInit, NothingFilled, RestoreAssumption
     DEF RestoreInit, RestoreInv, PartInv, InOrderInv, CopyInv, DoneInv

-----------------------------------------------------------------------------
(***************************************************************************)
(* What a target says.                                                     *)
(***************************************************************************)

\* A receipt verifies in the target only when the target is whole up to it.
LEMMA TargetIsWhole ==
    ASSUME TypeOK, FileInv, RestoreInv
    PROVE  VerifiedIsWhole
  <1> SUFFICES ASSUME NEW ts \in Ts, VerifiesIn(root, ts)
               PROVE  /\ Through(root.decisions, ts) = Through(decisions, ts)
                      /\ \A sc \in Scenario :
                            Through(root.executions[sc], ts) = Through(executions[sc], ts)
                      /\ \A u \in done : u <= ts => VerifiesIn(root, u)
    BY DEF VerifiedIsWhole
  <1>1. /\ receipts[ts] # NULL /\ root.receipts[ts] = receipts[ts]
        /\ hashes[ts] = receipts[ts] /\ root.hashes[ts] = hashes[ts]
        /\ \A u \in Ts : u <= ts => Agree(root, u)
    BY VerifiedPartIsWhole DEF RestoreInv
  <1>2. Through(root.decisions, ts) = Through(decisions, ts)
    BY <1>1 DEF Through, Agree
  <1>3. \A sc \in Scenario : Through(root.executions[sc], ts) = Through(executions[sc], ts)
    BY <1>1 DEF Through, Agree
  <1>4. ASSUME NEW u \in done, u <= ts PROVE VerifiesIn(root, u)
    <2>1. u \in Ts /\ hashes[u] # NULL /\ receipts[u] # NULL /\ hashes[u] = receipts[u]
      BY DEF TypeOK, FileInv
    <2>2. OnFile(u) /\ OnFile(ts)
      BY <1>1, <2>1 DEF FileInv
    <2>3. root.receipts[u] = receipts[u] /\ root.hashes[u] = hashes[u]
      <3>1. CASE u = ts
        BY <1>1, <3>1
      <3>2. CASE u # ts
        <4>1. u < ts
          BY <1>4, <2>1, <3>2, LoopAssumption DEF Ts
        <4>2. ASSUME NEW f \in Files PROVE Cell(root, <<f, u>>) = Cell(Source, <<f, u>>)
          <5>1. <<f, u>> \in Cells /\ <<"receipts", ts>> \in Cells
            BY <2>1 DEF Cells, Tables, Files
          <5>2. Cell(root, <<"receipts", ts>>) # NULL
            BY <1>1 DEF Cell, Scenario
          <5>3. Cell(Source, <<f, u>>) # NULL
            BY <2>1, SourceCells DEF Cell, Scenario, Files
          <5>4. <<f, u>> \in Copyable
            BY <2>1, <5>1, <5>3 DEF Copyable, Cells
          <5>5. Cell(root, <<f, u>>) # NULL
            BY <4>1, <5>1, <5>2, <5>4 DEF RestoreInv, InOrderInv, Files
          <5> QED
            BY <5>1, <5>5 DEF RestoreInv, PartInv
        <4> QED
          BY <4>2, SourceCells DEF Cell, Scenario, Files
      <3> QED
        BY <3>1, <3>2
    <2>4. \A v \in Ts : v <= u => Agree(root, v)
      <3>1. \A v \in Ts : v <= u => v <= ts
        BY <1>4, <2>1, LoopAssumption DEF Ts
      <3> QED
        BY <1>1, <3>1
    <2> QED
      BY <2>1, <2>2, <2>3, <2>4, VerifiesAsSource
  <1> QED
    BY <1>2, <1>3, <1>4

\* The last row of a restored root is its snapshot's.
LEMMA TargetSeeds ==
    ASSUME RestoreInv
    PROVE  RestoredPosition
  <1> SUFFICES ASSUME restored # NULL PROVE SeedLotsOf(root) = Row(restored).new_lots
    BY DEF RestoredPosition
  <1>1. PICK ts \in Ts : ts = restored
    BY DEF RestoreInv, DoneInv
  <1> DEFINE rows == root.executions["optimistic"]
  <1>2. rows[ts] # NULL /\ \A u \in Ts : rows[u] # NULL => u <= ts
    <2>1. \A x \in Cells : Cell(root, x) # NULL => x[2] <= ts
      BY <1>1 DEF RestoreInv, DoneInv
    <2>2. ASSUME NEW u \in Ts, rows[u] # NULL PROVE u <= ts
      <3>1. <<"optimistic", u>> \in Cells /\ Cell(root, <<"optimistic", u>>) = rows[u]
        BY DEF Cells, Tables, Cell, Scenario
      <3> QED
        BY <2>1, <2>2, <3>1
    <2> QED
      BY <1>1, <2>2 DEF RestoreInv, DoneInv
  <1>3. rows[ts] = Row(ts)
    <2>1. <<"optimistic", ts>> \in Cells
      BY DEF Cells, Tables, Scenario
    <2>2. Cell(root, <<"optimistic", ts>>) \in {NULL, Cell(Source, <<"optimistic", ts>>)}
      BY <2>1 DEF RestoreInv, PartInv
    <2>3. rows[ts] \in {NULL, executions["optimistic"][ts]}
      BY <2>2, SourceCells DEF Cell, Scenario
    <2> QED
      BY <1>2, <2>3 DEF Row
  <1> HIDE DEF rows
  <1>4. ts \in Recorded(rows) /\ \A u \in Recorded(rows) : u \in Ts /\ u <= ts
    BY <1>2 DEF Recorded
  <1>5. \A u, v \in Ts : u <= v /\ v <= u => u = v
    BY LoopAssumption DEF Ts
  <1>6. (CHOOSE u \in Recorded(rows) : \A v \in Recorded(rows) : v <= u) = ts
    <2>1. \A u \in Recorded(rows) : (\A v \in Recorded(rows) : v <= u) => u = ts
      BY <1>4, <1>5
    <2> QED
      BY <1>4, <2>1
  <1>7. SeedLotsOf(root) = IF Recorded(rows) = {} THEN 0
            ELSE rows[CHOOSE u \in Recorded(rows) : \A v \in Recorded(rows) : v <= u].new_lots
    BY DEF SeedLotsOf, rows
  <1> QED
    BY <1>1, <1>3, <1>4, <1>6, <1>7

LEMMA TargetNeverRefused ==
    ASSUME TypeOK, FileInv, RestoreInv
    PROVE  RestoreNeverRefused
  BY CopiedIsWhole DEF RestoreNeverRefused

\* If the caller's timestamps never go back, a restore gives back the book of
\* its snapshot: a receipt verifies in the target only when the target holds
\* every row up to it and verifies every earlier tick too, a loop opened there
\* starts from the snapshot's lots whatever the source has traded since, and a
\* restore that no write failed is never refused.
THEOREM RestoredIsWhole == ASSUME Forward PROVE RestoreSpec => []RestoreReproduces
  <1>1. RestoreInit => LoopInv /\ FileInv /\ RestoreInv
    BY RestoreInvInit, LoopInit
  <1>2. LoopInv /\ FileInv /\ RestoreInv /\ [RestoreNext]_restoreVars
          => LoopInv' /\ FileInv' /\ RestoreInv'
    BY RestoreInvNext, LoopNext, FileNext
  <1>3. LoopInv /\ FileInv /\ RestoreInv => RestoreReproduces
    BY TargetIsWhole, TargetSeeds, TargetNeverRefused
       DEF RestoreReproduces, LoopInv, TypeInv
  <1> QED
    BY <1>1, <1>2, <1>3, PTL DEF RestoreSpec

\* The target stays well-formed, whatever a failed write leaves of a restore.
THEOREM RestoreTypeCorrect == ASSUME Forward PROVE RestoreSpec => []RestoreTypeOK
  <1>1. RestoreInit => LoopInv /\ FileInv /\ RestoreInv
    BY RestoreInvInit, LoopInit
  <1>2. LoopInv /\ FileInv /\ RestoreInv /\ [RestoreNext]_restoreVars
          => LoopInv' /\ FileInv' /\ RestoreInv'
    BY RestoreInvNext, LoopNext, FileNext
  <1>3. RestoreInv => RestoreTypeOK
    BY DEF RestoreInv, PartInv, RootType, CopyInv, DoneInv, Cells, RestoreTypeOK
  <1> QED
    BY <1>1, <1>2, <1>3, PTL DEF RestoreSpec

=============================================================================
