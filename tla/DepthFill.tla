------------------------------ MODULE DepthFill ------------------------------
(***************************************************************************)
(* The simulated executions of the S4 drills as functions of their input:  *)
(* the walk through an MBP-10 book (v2/s4_0/mbp10_fill.py, market_data.py) *)
(* and the queue, hidden-liquidity and profitability diagnostics           *)
(* (synthetic_claims.py).  Prices, sizes and quantities are integers.      *)
(***************************************************************************)
EXTENDS Integers, Sequences, SequencesExt, FiniteSetsExt

CONSTANT NoLimit     \* limit_price None, replenish_clip None

ASSUME NoLimitAssumption == NoLimit \notin Int

Max0(x) == IF x > 0 THEN x ELSE 0
Least(x, y) == IF x < y THEN x ELSE y

-----------------------------------------------------------------------------
\* The book: levels [bid, bid_size, ask, ask_size], best first.

\* MBPSnapshot.validate with TopOfBook.validate
ValidBook(book) ==
    /\ Len(book) \in 1..10
    /\ \A i \in DOMAIN book :
          /\ book[i].bid > 0 /\ book[i].ask > 0 /\ book[i].bid <= book[i].ask
          /\ book[i].bid_size >= 0 /\ book[i].ask_size >= 0
    /\ \A i \in 1..(Len(book) - 1) :
          book[i + 1].bid <= book[i].bid /\ book[i + 1].ask >= book[i].ask

ValidOrder(o) == o.quantity > 0 /\ (o.limit # NoLimit => o.limit > 0)
PriceOf(o, l) == IF o.side = "buy" THEN l.ask ELSE l.bid
SizeOf(o, l) == IF o.side = "buy" THEN l.ask_size ELSE l.bid_size
PassesLimit(o, price) ==
    o.limit # NoLimit => IF o.side = "buy" THEN price <= o.limit ELSE price >= o.limit

\* One level of simulate_mbp10_fill: f is [remaining, slices, open].
FillLevel(o, book, f, i) ==
    LET quantity == Least(f.remaining, SizeOf(o, book[i])) IN
    IF ~f.open \/ SizeOf(o, book[i]) = 0 THEN f
    ELSE IF ~PassesLimit(o, PriceOf(o, book[i])) THEN [f EXCEPT !.open = FALSE]
    ELSE [remaining |-> f.remaining - quantity, open |-> f.remaining > quantity,
          slices |-> Append(f.slices, [level |-> i, price |-> PriceOf(o, book[i]),
                                       quantity |-> quantity])]
SimulateFill(o, book) ==
    IF ValidOrder(o) /\ ValidBook(book)
    THEN FoldLeft(LAMBDA f, i : FillLevel(o, book, f, i),
                  [remaining |-> o.quantity, slices |-> <<>>, open |-> TRUE],
                  [i \in DOMAIN book |-> i])
    ELSE [remaining |-> Max0(o.quantity), slices |-> <<>>, open |-> FALSE]
FilledQuantity(f) == FoldLeft(LAMBDA q, s : q + s.quantity, 0, f.slices)

-----------------------------------------------------------------------------
\* simulate_queue_position: one event; q is [ahead, remaining, byTrades,
\* byCancels, filled, errors].

NewQueue(quantity, ahead) ==
    [ahead |-> Max0(ahead), remaining |-> Max0(quantity), byTrades |-> 0, byCancels |-> 0,
     filled |-> 0, errors |-> quantity <= 0 \/ ahead < 0]
\* Mutant: a trade fills the order before it has worked through the queue.
FillsAtOnce(q, amount) == Least(q.remaining, amount)
FillAfterQueue(q, amount) == Least(q.remaining, amount - Least(q.ahead, amount))
QueueStep(q, e) ==
    LET depletion == Least(q.ahead, e.quantity)
        fill == FillAfterQueue(q, e.quantity)
    IN  IF e.quantity < 0 THEN [q EXCEPT !.errors = TRUE]
        ELSE IF q.remaining = 0 \/ e.kind = "add" THEN q
        ELSE IF e.kind = "cancel"
        THEN [q EXCEPT !.ahead = @ - depletion, !.byCancels = @ + depletion]
        ELSE [q EXCEPT !.ahead = @ - depletion, !.byTrades = @ + depletion,
                       !.filled = @ + fill, !.remaining = @ - fill]

-----------------------------------------------------------------------------
\* simulate_hidden_liquidity

ReplenishmentCount(hidden, clip) ==
    IF hidden = 0 \/ clip = NoLimit \/ clip <= 0 THEN 0
    ELSE (hidden \div clip) + (IF hidden % clip = 0 THEN 0 ELSE 1)
SimulateHidden(quantity, displayed, hidden, clip) ==
    LET visible == Least(Max0(quantity), Max0(displayed))
        fill == Least(Max0(quantity) - visible, Max0(hidden))
    IN  [visible |-> visible, hidden |-> fill, residual |-> Max0(quantity) - visible - fill,
         replenishments |-> ReplenishmentCount(fill, clip),
         errors |-> \/ quantity <= 0 \/ displayed < 0 \/ hidden < 0
                    \/ clip # NoLimit /\ clip <= 0]

-----------------------------------------------------------------------------
\* evaluate_profitability: the running equity of the trades.

TradeErrors(t) == t.quantity <= 0 \/ t.entry <= 0 \/ t.exit <= 0 \/ t.fees < 0
NetPnl(t) ==
    (IF t.side = "buy" THEN t.exit - t.entry ELSE t.entry - t.exit) * t.quantity - t.fees
FlatEquity == [equity |-> 0, peak |-> 0, drawdown |-> 0]
BookTrade(a, pnl) ==
    LET equity == a.equity + pnl
        peak == Max({a.peak, equity})
    IN  [equity |-> equity, peak |-> peak, drawdown |-> Max({a.drawdown, peak - equity})]
=============================================================================
