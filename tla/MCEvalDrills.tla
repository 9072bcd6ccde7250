---------------------------- MODULE MCEvalDrills ----------------------------
(* The inputs of MCS4Drills, then: series of up to eight rows, blocks of two
   and more; walks over five bars with missing outcomes and two bars of one time;
   series of up to three outcomes; ties in every ranking; audits of 41 days,
   with closed days, missing vintages and families that are not admissible. *)
EXTENDS EvalDrills, MCS4Drills

MCSizes == {2, 5, 8}
MCSplitParams == [n_blocks : 2..4, test_blocks : 1..2, horizon : 0..2, embargo : 0..2]
Times == {<<0, 1, 2, 3, 4>>, <<0, 1, 1, 2, 3>>, <<0, 2, 1, 3, 4>>}
MCSeries ==
    {[i \in 1..5 |-> [ts |-> t[i], block |-> t[i] \div width, realised |-> i \notin missing]] :
        t \in Times, width \in {1, 2, 5}, missing \in {{}, {5}, {3, 5}, {4}, {3, 4, 5}}}
        \cup {<<>>}
MCLevels == <<1, 5, 9>>
MCOutcomes == UNION {[1..n -> -1..2] : n \in 1..3}
MCVectors == {v \in [1..3 -> -1..2] : v[1] <= v[2] /\ v[2] <= v[3]}
MCNominals == {2, 6, 8, 10}
MCSkillCases ==
    [1..2 -> 0..1] \X [1..2 -> {-1, 0, 2}] \cup {<<<<1>>, <<1>>>>, <<<<1, 1>>, <<1>>>>}
Ordered == <<<<0, 1, 2>>, <<0, 1, 2>>>>
Falling == <<<<2, 1, 0>>, <<0, 1, 2>>>>
MCSignCases ==
    {<<dev, test, sign>> :
        dev \in [1..3 -> -1..1] \X {<<0, 1, 2>>, <<1, 0, 1>>, <<2, 2, 0>>},
        test \in {Ordered, Falling, <<<<0, 1, 1>>, <<1, 0, 1>>>>, <<<<1, 1, 1>>, <<0, 1, 2>>>>,
                  <<<<0>>, <<0>>>>},
        sign \in {"positive", "negative", "none"}}
MCFloor == <<1, 5>>
MCForecasts ==
    {[target |-> "t", kind |-> k, event_id |-> "e", emission |-> 0, duration |-> 2,
      point |-> point, sign |-> sign, lower |-> band[1], upper |-> band[2]] :
        k \in {"event", "clock"}, point \in -1..1, sign \in {"positive", "negative", "none"},
        band \in {<<-1, 1>>, <<0, 1>>, <<Nothing, Nothing>>, <<Nothing, 1>>}}
MCPrints == [target : {"t", "u"}, event_id : {"e", "x"}, realised : 0..4, value : -2..2]
MCGradeCases == MCForecasts \X MCPrints
AllFamilies == FamiliesOf("wti_lag")
Study == 0..40
AuditOf(closed, p, step, missing, daily, admissible) ==
    [price |-> [d \in Study \ closed |-> (d * d * p + d) % 5], since |-> 1,
     releases |-> [f \in AllFamilies |->
                      {t \in 0..80 : t % step = IF f \in {"wpsr", "fomc"} THEN 0 ELSE 1}],
     content |-> (0..80) \ missing, daily |-> daily, admissible |-> admissible]
MCAuditCases ==
    {AuditOf(closed, p, step, missing, daily, admissible) :
        closed \in {{}, {9, 24}, {18, 19, 20, 21, 22}}, p \in {1, 2}, step \in {1, 3, 11},
        missing \in {{}, {1, 15, 22, 34}}, daily \in {Study, {0, 5, 11, 22}},
        admissible \in {AllFamilies, AllFamilies \ {"wpsr"}}}
=============================================================================
