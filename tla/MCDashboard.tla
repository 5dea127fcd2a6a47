---------------------------- MODULE MCDashboard -----------------------------
(***************************************************************************)
(* A run of CI and a demo run dated a day back, two findings each, at a    *)
(* threshold of a half that a run meets exactly; tokens whose costs round  *)
(* up, down and from an exact half; a cheaper, a dearer and a half-priced  *)
(* pick; a window of one day and no window.                                *)
(***************************************************************************)
EXTENDS DemoSeed, TLC

MCRunOf == "f1" :> "r1" @@ "f2" :> "r1" @@ "f3" :> "d1" @@ "f4" :> "d1"
MCDaysAgo == "d1" :> 1
MCDemoUse == "d1" :> [in |-> 3, out |-> 1]
MCTokenUse == {[in |-> 1, out |-> 0], [in |-> 3, out |-> 1]}
Cheap == [in |-> 1, out |-> 2]
Dear == [in |-> 4, out |-> 11]
Half == [in |-> 4, out |-> NULL]
MCPrices == {[selected |-> Cheap, baseline |-> Dear], [selected |-> Dear, baseline |-> Cheap],
             [selected |-> Cheap, baseline |-> Half]}

=============================================================================
