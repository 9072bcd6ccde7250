--------------------------- MODULE MCFamilySignal ---------------------------
(* Two desks.  Quantiles within a few steps of each other, apart, tied or out of
   order; scores of 0, 1/2 and 1; an abstention and a forecast of another unit. *)
EXTENDS FamilySignal

CONSTANTS d1, d2
TwoDesks == {d1, d2}

Forecast(v, c, q, abstain, unit) ==
    [quantile_vector |-> v, calibration_score |-> c, data_quality_score |-> q,
     abstain |-> abstain, unit |-> unit]
Vectors == {<<a, a + g, a + g + h>> : a \in -3..3, g \in {0, 1, 2}, h \in {1, 3}}
Few == {<<-1, 0, 2>>, <<1, 2, 3>>, <<0, 1, 1>>, <<-4, -3, -2>>}
SmallForecasts ==
    {Forecast(v, 2, 2, FALSE, "ours") : v \in Vectors}
        \cup {Forecast(v, c, q, FALSE, "ours") : v \in Few, c \in {1, 2}, q \in {0, 1, 2}}
        \cup {Forecast(<<0, 0, 0>>, 0, 2, TRUE, "ours"), Forecast(<<1, 0, 2>>, 2, 2, FALSE, "ours"),
              Forecast(<<0, 1, 2>>, 2, 2, FALSE, "other")}
AllRoundings == {"nearest", "floor", "ceil"}
Half == <<1, 2>>
Three == <<3, 1>>
Fulls == {<<3, 2>>, <<5, 1>>}
=============================================================================
