------------------------------ MODULE MCIngest ------------------------------
(* Every ingester alone, and pairs in which the first may fail. *)
EXTENDS Ingest

MCPlans == {<<k>> : k \in Kinds} \cup
           {<<"wti", "gpr">>, <<"stooq", "cboe">>}
MCSpecs == {[kind |-> "cftc", item |-> 1, use |-> "generic"],
            [kind |-> "stooq", item |-> 1, use |-> "stock_change"],
            [kind |-> "eia", item |-> 1, use |-> "generic"]}
=============================================================================
