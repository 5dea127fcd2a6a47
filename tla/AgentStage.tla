---------------------------- MODULE AgentStage ------------------------------
(***************************************************************************)
(* What a Jenkins stage sees of the agent (agent/__main__, agent/errors):  *)
(* it reads its configuration, works until it has a gate or gives up, and  *)
(* with a gate it exits by that gate or, if the run cannot be handed in,   *)
(* by the code of a failure.  Around both calls to the API an exception    *)
(* that is no AgentError ends the process by a traceback: with status 1,   *)
(* the code of a failed gate.                                              *)
(* AgentRun opens the work; CiLoop opens what goes on around it.           *)
(***************************************************************************)

VARIABLES
    stage,          \* "starting", "working", the gate it has come to, or "exited"
    exit

stageVars == <<stage, exit>>

Gate == {"pass", "fail"}

\* EXIT_MALFORMED, _REFUSED, _CONFIG, _CEILING.
Failure == {2, 3, 4, 124}

Configure ==
    /\ stage = "starting"
    /\ stage' = "working"
    /\ UNCHANGED exit

Decide(g) ==
    /\ stage = "working"
    /\ stage' = g
    /\ UNCHANGED exit

ExitByGate ==
    /\ stage \in Gate
    /\ exit' = IF stage = "pass" THEN 0 ELSE 1
    /\ stage' = "exited"

\* Only the work itself is malformed, refused or over a ceiling.
GiveUp(code) ==
    /\ stage = "working" \/ (stage \in {"starting"} \cup Gate /\ code = 4)
    /\ exit' = code
    /\ stage' = "exited"

\* What agent/remote does not turn into a RemoteError passes main by.
Traceback ==
    /\ stage \in {"starting"} \cup Gate
    /\ exit' = 1
    /\ stage' = "exited"

Next ==
    \/ Configure \/ ExitByGate \/ Traceback
    \/ \E g \in Gate : Decide(g)
    \/ \E code \in Failure : GiveUp(code)

Init == stage = "starting"

Spec == Init /\ [][Next]_stageVars

=============================================================================
