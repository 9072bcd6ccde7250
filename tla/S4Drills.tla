------------------------------ MODULE S4Drills ------------------------------
(***************************************************************************)
(* The S4 drills run one after another, as the diagnostics of the recorded *)
(* replay run them: the roll calendar day by day, a fill against a book, a *)
(* resting order event by event, hidden liquidity, and a run of trades.    *)
(* Each drill starts from inputs of its own and leaves only its verdict.   *)
(***************************************************************************)
EXTENDS ContractRoll, DepthFill

CONSTANTS
    Books, Orders,          \* inputs of the fill drill, bad ones included
    QueueStarts,            \* <<order_quantity, initial_queue_ahead>>
    QueueEvents,            \* what happens in the queue
    MaxEvents,              \* bound: events of a queue drill, trades of a pnl drill
    HiddenCases,            \* <<order, displayed, hidden, clip>>
    Trades

VARIABLES
    drill,      \* "roll", "fill", "queue", "hidden", "pnl", "done"
    day,        \* the roll calendar's day
    input,      \* what the drill was started with
    result,     \* what it has computed so far
    history,    \* events or trades applied so far
    ok          \* no drill so far reported an error

drill_vars == <<drill, day, input, result, history, ok>>

DrillInit ==
    /\ drill = "roll" /\ day = FirstDay
    /\ input = <<>> /\ result = <<>> /\ history = <<>> /\ ok = TRUE

NextDay ==
    /\ drill = "roll" /\ day < LastDay
    /\ day' = day + 1
    /\ UNCHANGED <<drill, input, result, history, ok>>

\* simulate_mbp10_fill through run_mbp10_drill
FillDrill ==
    /\ drill = "roll" /\ day = LastDay
    /\ \E o \in Orders, book \in Books :
          /\ input' = [order |-> o, book |-> book]
          /\ result' = SimulateFill(o, book)
          /\ ok' = (ok /\ ValidOrder(o) /\ ValidBook(book))
    /\ drill' = "fill"
    /\ UNCHANGED <<day, history>>

StartQueue ==
    /\ drill = "fill"
    /\ \E q \in QueueStarts : input' = q /\ result' = NewQueue(q[1], q[2])
    /\ drill' = "queue"
    /\ UNCHANGED <<day, history, ok>>

QueueEvent ==
    /\ drill = "queue" /\ Len(history) < MaxEvents
    /\ \E e \in QueueEvents :
          /\ result' = QueueStep(result, e)
          /\ history' = Append(history, e)
    /\ UNCHANGED <<drill, day, input, ok>>

HiddenDrill ==
    /\ drill = "queue"
    /\ ok' = (ok /\ ~result.errors)    \* of the queue drill
    /\ \E h \in HiddenCases : input' = h /\ result' = SimulateHidden(h[1], h[2], h[3], h[4])
    /\ history' = <<>> /\ drill' = "hidden"
    /\ UNCHANGED day

StartPnl ==
    /\ drill = "hidden"
    /\ ok' = (ok /\ ~result.errors)
    /\ input' = <<>> /\ result' = FlatEquity /\ drill' = "pnl"
    /\ UNCHANGED <<day, history>>

NextTrade ==
    /\ drill = "pnl" /\ Len(history) < MaxEvents
    /\ \E t \in Trades :
          /\ result' = BookTrade(result, NetPnl(t))
          /\ history' = Append(history, t)
          /\ ok' = (ok /\ ~TradeErrors(t))
    /\ UNCHANGED <<drill, day, input>>

Finish ==
    /\ drill = "pnl"
    /\ drill' = "done" /\ result' = <<>> /\ history' = <<>>
    /\ UNCHANGED <<day, input, ok>>

DrillNext == \/ NextDay \/ FillDrill \/ StartQueue \/ QueueEvent \/ HiddenDrill
        \/ StartPnl \/ NextTrade \/ Finish
DrillSpec == DrillInit /\ [][DrillNext]_drill_vars
-----------------------------------------------------------------------------
\* Properties.

\* The two ways contract_roll measures the distance to the last trade date
\* agree on every day, weekends and holidays included: a window of n business
\* days is entered exactly when no more than n of them are left.
WindowsCountBusinessDays ==
    drill = "roll" => \A c \in Contracts, n \in {NoNew, MustFlat} :
        InWindow(c, n, day) <=> BusinessDaysUntil(day, LastTradeDate(c)) <= n

\* The front contract can be traded for at least one more business day before
\* its forced-flat window, and the next contract outlives it.
FrontLeavesTime ==
    drill = "roll" /\ HasSelection(day) =>
        /\ BusinessDaysUntil(day, LastTradeDate(FrontContract(day))) > MustFlat
        /\ ~Expired(NextContract(day), LastTradeDate(FrontContract(day)))

\* The contract that is traded is far enough from its end, by either count.
RollLeavesTime == WindowsCountBusinessDays /\ FrontLeavesTime

\* A fill takes the book in price order and is limited by the order only: no
\* quantity appears or vanishes, no slice is outside the limit, and if the
\* order is not filled nothing within its limit is left on any level.
FillIsExhaustive ==
    drill = "fill" /\ ValidOrder(input.order) /\ ValidBook(input.book) =>
        LET o == input.order
            taken(i) == FoldLeft(LAMBDA q, s : IF s.level = i THEN q + s.quantity ELSE q,
                                 0, result.slices)
        IN  /\ FilledQuantity(result) + result.remaining = o.quantity
            /\ \A s \in ToSet(result.slices) : PassesLimit(o, s.price) /\ s.quantity > 0
            /\ \A i \in DOMAIN input.book :
                  LET l == input.book[i] IN
                  /\ taken(i) <= SizeOf(o, l)
                  /\ taken(i) < SizeOf(o, l) =>
                        \/ result.remaining = 0 /\ \A j \in (i + 1)..Len(input.book) : taken(j) = 0
                        \/ o.limit # NoLimit /\ (IF o.side = "buy" THEN l.ask > o.limit
                                                                   ELSE l.bid < o.limit)

Traded == FoldLeft(LAMBDA q, e : IF e.kind = "trade" /\ e.quantity > 0 THEN q + e.quantity ELSE q,
                   0, history)

\* A resting order is filled only by trades that went past everything ahead
\* of it: what trades did is all accounted for while it is open, the queue is
\* used up by trades and cancels alone, and no fill comes before that.
QueueIsRespected ==
    drill = "queue" =>
        /\ result.byTrades + result.byCancels + result.ahead = Max0(input[2])
        /\ result.filled + result.remaining = Max0(input[1])
        /\ result.filled > 0 => result.ahead = 0
        /\ result.filled + result.byTrades <= Traded
        /\ result.remaining > 0 => result.filled + result.byTrades = Traded

\* Hidden size is touched only when the displayed size is gone, and the clips
\* shown for it cover what was taken with less than one clip to spare.
HiddenComesLast ==
    drill = "hidden" =>
        /\ result.visible + result.hidden + result.residual = Max0(input[1])
        /\ result.hidden > 0 => result.visible = Max0(input[2])
        /\ result.residual > 0 => result.hidden = Max0(input[3])
        /\ input[4] # NoLimit /\ input[4] > 0 =>
              /\ result.replenishments * input[4] >= result.hidden
              /\ (result.replenishments - 1) * input[4] < result.hidden \/ result.hidden = 0

Equity(i) == FoldLeft(LAMBDA q, t : q + NetPnl(t), 0, SubSeq(history, 1, i))

\* The running drawdown is the largest fall from any earlier equity, the
\* starting one included, to a later one.
DrawdownIsLargestFall ==
    drill = "pnl" =>
        LET falls == {Equity(x[1]) - Equity(x[2]) :
                        x \in {y \in (0..Len(history)) \X (0..Len(history)) : y[1] <= y[2]}}
        IN  result.drawdown = Max(falls)

\* Each drill accounts for every lot, in the order of the book, of the queue and
\* of the clips, and for every fall of the equity.
DrillsAccountForAll ==
    FillIsExhaustive /\ QueueIsRespected /\ HiddenComesLast /\ DrawdownIsLargestFall

\* Every drill state is of its drill's shape, and quantities never go negative.
DrillTypeOK ==
    /\ drill \in {"roll", "fill", "queue", "hidden", "pnl", "done"}
    /\ day \in FirstDay..LastDay /\ ok \in BOOLEAN
    /\ drill = "fill" => result.remaining >= 0
    /\ drill = "queue" => result.ahead >= 0 /\ result.remaining >= 0
    /\ drill = "pnl" => result.drawdown >= 0
=============================================================================
