---------------------------- MODULE MCRecommend -----------------------------
(***************************************************************************)
(* Three rows of one task, two of them of the same model, so that two rows *)
(* can change what a third is worth, and one row of a second task measured *)
(* by another benchmark.  The first task's configured baseline is the      *)
(* model with one row: where that row is missing or not runnable, the      *)
(* baseline falls back to one of two rows.  Zero is a score and a cost.  A *)
(* quantum of a third makes different rows round to the same score, as a   *)
(* millionth does on finer values.                                         *)
(***************************************************************************)
EXTENDS Recommend

MCModelOf == <<1, 2, 2, 1>>
MCTaskOf == <<"ci_review", "ci_review", "ci_review", "security_analysis">>
MCGroupOf == <<"f1", "f1", "f1", "recall">>
MCBaselineFor == [t \in TaskType |-> IF t = "ci_review" THEN 1 ELSE 2]

=============================================================================
