----------------------------- MODULE MCAgentRun -----------------------------
(***************************************************************************)
(* Two attempts and ceilings of two, so that a step can exhaust a ceiling  *)
(* exactly or jump over it; a row of each kind that the gate tells apart.  *)
(***************************************************************************)
EXTENDS AgentRun

MCFailSeverities == [t \in {"review", "security"} |->
    IF t = "review" THEN {"high", "critical"} ELSE {"critical"}]

OneRow(severity, shape) == {[severity |-> severity, shape |-> shape]}
MCReport == {{}, OneRow("critical", "usable"), OneRow("critical", "unusable"),
             OneRow("high", "usable"), OneRow("low", "broken")}

=============================================================================
