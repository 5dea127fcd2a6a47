---------------------------- MODULE MCAdmission -----------------------------
(***************************************************************************)
(* Two spellings of one address and two more, one Google identity, one     *)
(* challenge for two requests; a bucket of one attempt that takes two      *)
(* seconds to fill.                                                        *)
(***************************************************************************)
EXTENDS SignIn

MCEmail == {"ann@x", "Ann@x", "bob@x", "cy@x"}
MCLower == [e \in MCEmail |-> IF e = "Ann@x" THEN "ann@x" ELSE e]

CONSTANT s1
MCGoogle == {[email |-> e, subject |-> s1] : e \in {"Ann@x"}}

=============================================================================
