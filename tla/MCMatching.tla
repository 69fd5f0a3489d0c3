----------------------------- MODULE MCMatching -----------------------------
(* Instances of Matching for TLC.                                          *)
EXTENDS Matching

Row(pay_type, rate, duration, eligible) ==
    [pay_type |-> pay_type, rate |-> rate, duration |-> duration,
     eligible |-> eligible]

\* Flat and hourly jobs, one that rounds to nothing (a cent for half an
\* hour), two with incomputable pay, one that is taken.
MCJobRows == {
    Row("flat", 1, 0, TRUE), Row("flat", 3, 4, TRUE), Row("flat", 2, 1, TRUE),
    Row("hourly", 1, 1, TRUE), Row("hourly", 1, 3, TRUE), Row("hourly", 2, 2, TRUE),
    Row("hourly", 2, 0, TRUE), Row("unknown", 2, 2, TRUE), Row("flat", 2, 2, FALSE)}

MCRankings == {<<2>>, <<3, 1>>, <<2, 3, 1>>}
=============================================================================
