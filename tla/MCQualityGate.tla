--------------------------- MODULE MCQualityGate ----------------------------
(***************************************************************************)
(* One run of three findings rated by two concurrent requests, with the    *)
(* deployed threshold 0.8: two verdicts of three decide the gate, and two  *)
(* requests are what it takes to compute it from a partial set.            *)
(***************************************************************************)
EXTENDS QualityGate

CONSTANTS run1

MCRunOf == [f \in Finding |-> run1]

=============================================================================
