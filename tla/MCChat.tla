------------------------------- MODULE MCChat -------------------------------
(***************************************************************************)
(* A turn and an ingestion whose estimates fit the cap together, and just  *)
(* so; a call may use up to one token more than its estimate, so that the  *)
(* hour can end up over the cap and a turn can run out of budget before    *)
(* any of its calls, its retry and its answer included.  One retry is a    *)
(* turn that loses a query and recovers.  One visit races the turn for the *)
(* first message.  Two turns meet only in the tally, where the ingestion   *)
(* stands for the other one.                                               *)
(***************************************************************************)
EXTENDS Chat

=============================================================================
