---------------------------- MODULE ContractRoll ----------------------------
(***************************************************************************)
(* Front and next contract selection of v2/s4_0/contract_roll.py: business *)
(* days, the last trade date of a delivery month, the two windows before   *)
(* it and the contract an open trade may use on a given day.               *)
(*                                                                         *)
(* Days are numbers and a contract is the day number of the 25th of the    *)
(* month before its delivery, which orders contracts as delivery does.     *)
(***************************************************************************)
EXTENDS Integers, FiniteSets, FiniteSetsExt

CONSTANTS
    Holidays,    \* exchange holidays
    Contracts,   \* listed contracts
    NoNew,       \* no_new_trades_buffer_business_days
    MustFlat,    \* must_be_flat_buffer_business_days
    FirstDay, LastDay    \* bound: days the calendar is walked over

ASSUME RollAssumption ==
    /\ Contracts \subseteq Int /\ FirstDay \in Int /\ LastDay \in Int
    /\ NoNew \in Nat /\ MustFlat \in Nat /\ MustFlat <= NoNew   \* RollPolicy.__post_init__

IsBusinessDay(d) == d % 7 < 5 /\ d \notin Holidays
\* prior_business_day; no run of closed days is longer than two weeks
PriorBusinessDay(d) == CHOOSE p \in (d - 14)..(d - 1) :
                          IsBusinessDay(p) /\ \A q \in (p + 1)..(d - 1) : ~IsBusinessDay(q)
BusinessDaysBefore(d, n) ==
    LET back[k \in 0..n] == IF k = 0 THEN d ELSE PriorBusinessDay(back[k - 1]) IN back[n]
\* business days in (start, end], negative when end lies before start
BusinessDaysUntil(start, end) ==
    IF end < start THEN -Cardinality({d \in (end + 1)..start : IsBusinessDay(d)})
    ELSE Cardinality({d \in (start + 1)..end : IsBusinessDay(d)})

\* cl_last_trade_date
LastTradeDate(c) == BusinessDaysBefore(IF IsBusinessDay(c) THEN c ELSE PriorBusinessDay(c), 3)

Expired(c, day) == day > LastTradeDate(c)
\* Mutant: buffers in calendar days.
CalendarBuffer(c, n, day) == day >= LastTradeDate(c) - n
InWindow(c, n, day) == day >= BusinessDaysBefore(LastTradeDate(c), n)
CanOpenNewTrade(c, day) == ~Expired(c, day) /\ ~InWindow(c, NoNew, day)

\* select_front_next: the nearest tradeable contract and the one after it
Tradeable(day) == {c \in Contracts : CanOpenNewTrade(c, day)}
HasSelection(day) == Tradeable(day) # {} /\ \E c \in Contracts : c > Min(Tradeable(day))
FrontContract(day) == Min(Tradeable(day))
NextContract(day) == Min({c \in Contracts : c > FrontContract(day)})
=============================================================================
