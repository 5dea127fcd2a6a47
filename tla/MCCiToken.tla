----------------------------- MODULE MCCiToken ------------------------------
(***************************************************************************)
(* Two dashboard tabs and three token values, so that a rotation can store *)
(* a value after both tabs have been shown another.                        *)
(***************************************************************************)
EXTENDS CiToken

=============================================================================
