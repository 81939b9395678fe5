----------------------- MODULE MCBaselineEvaluation -----------------------
(* BaselineEvaluation for TLC: times below one second, just over the time  *)
(* limit and in between.                                                   *)
EXTENDS BaselineEvaluation

MCTimes == {0, 2500, 3000}
==============================================================================
