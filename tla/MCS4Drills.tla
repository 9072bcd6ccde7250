----------------------------- MODULE MCS4Drills -----------------------------
(* Two months of days with a holiday at an anchor; books of up to two levels. *)
EXTENDS S4Drills

MCHolidays == {17, 24}
MCContracts == {10, 24, 40}
Level == [bid : {1, 2}, bid_size : {0, 1, 2}, ask : {2, 3}, ask_size : {0, 1, 2}]
MCBooks == {<<>>} \cup {<<l>> : l \in Level} \cup {<<l, m>> : l \in Level, m \in Level}
MCOrders == [side : {"buy", "sell"}, quantity : {0, 1, 3}, limit : {NoLimit, 1, 2}]
MCQueueStarts == {<<2, 0>>, <<2, 2>>, <<1, 1>>, <<0, 1>>, <<1, -1>>}
MCQueueEvents == [kind : {"trade", "cancel", "add"}, quantity : {-1, 1, 2}]
MCHiddenCases == (0..4) \X (-1..2) \X (-1..3) \X {NoLimit, 0, 1, 2}
MCTrades == [side : {"buy", "sell"}, quantity : {0, 1, 2}, entry : {3}, exit : {2, 4}, fees : {0, 1}]
=============================================================================
