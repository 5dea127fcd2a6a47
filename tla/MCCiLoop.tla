------------------------------ MODULE MCCiLoop ------------------------------
(***************************************************************************)
(* A review and a security option, two executions of the agent that share  *)
(* a build id, one model, one token rotation.                              *)
(***************************************************************************)
EXTENDS CiLoop, TLC

CONSTANTS review1, sec1, m1, b1

MCModelOf == [o \in Option |-> m1]
MCTaskOf == [o \in Option |-> IF o = sec1 THEN "security_analysis" ELSE "ci_review"]
MCTask == {"ci_review", "security_analysis"}
SameBuild == [a \in Attempt |-> b1]
AttemptSymmetry == Permutations(Attempt)

=============================================================================
