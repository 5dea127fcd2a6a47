--------------------------- MODULE FeedbackLedger ---------------------------
(***************************************************************************)
(* What the quality gate (app/quality/service.py) promises its readers: a  *)
(* ledger in which rating a finding and re-gating its run are ONE step.    *)
(* A run appears when the agent's result is ingested, carries one verdict  *)
(* per finding (latest wins), and disappears with its project.             *)
(* Module QualityGate shows how the request handlers implement it.         *)
(***************************************************************************)
EXTENDS Integers, FiniteSets

CONSTANTS
    Run,            \* ids of ci_run rows
    Finding,        \* ids of ci_finding rows
    RunOf,          \* CiFinding.ci_run_id: the run each finding belongs to
    ThresholdNum,   \* QUALITY_THRESHOLD = ThresholdNum / ThresholdDen
    ThresholdDen

ASSUME FindingAssumption == Finding # {}
ASSUME RunOfAssumption == RunOf \in [Finding -> Run]
ASSUME ThresholdAssumption ==
    /\ ThresholdDen \in Nat \ {0}
    /\ ThresholdNum \in 0 .. ThresholdDen

VARIABLES
    row,            \* Run -> "absent" | "live" | "deleted"
    verdict,        \* Finding -> the stored FindingFeedback.verdict, or "unrated"
    quality         \* Run -> CiRun.quality_ok: "null" | "ok" | "risk"

ledger == <<row, verdict, quality>>

Verdict == {"accept", "reject"}
VerdictMap == [Finding -> Verdict \cup {"unrated"}]
Gate == {"null", "ok", "risk"}

FindingsOf(run) == {f \in Finding : RunOf[f] = run}
Rated(vs, run) == {f \in FindingsOf(run) : vs[f] # "unrated"}
Accepted(vs, run) == {f \in FindingsOf(run) : vs[f] = "accept"}

\* quality_ok is NULL while nothing is rated, else accepted/rated >= threshold.
recompute_quality(vs, run) ==
    IF Rated(vs, run) = {} THEN "null"
    ELSE IF Cardinality(Accepted(vs, run)) * ThresholdDen
              >= ThresholdNum * Cardinality(Rated(vs, run))
         THEN "ok" ELSE "risk"

-----------------------------------------------------------------------------

LedgerInit ==
    /\ row = [run \in Run |-> "absent"]
    /\ verdict = [f \in Finding |-> "unrated"]
    /\ quality = [run \in Run |-> "null"]

\* ingest_run: quality_ok is left NULL on insert.
Ingest(run) ==
    /\ row[run] = "absent"
    /\ row' = [row EXCEPT ![run] = "live"]
    /\ UNCHANGED <<verdict, quality>>

\* One verdict and the gate recomputed from ALL verdicts of the run, at once.
Rate(f, v) ==
    LET vs == [verdict EXCEPT ![f] = v] IN
    /\ row[RunOf[f]] = "live"
    /\ verdict' = vs
    /\ quality' = [quality EXCEPT ![RunOf[f]] = recompute_quality(vs, RunOf[f])]
    /\ UNCHANGED row

\* delete_project: the FK cascade removes the run, its findings and feedback.
Delete(run) ==
    /\ row[run] = "live"
    /\ row' = [row EXCEPT ![run] = "deleted"]
    /\ verdict' = [f \in Finding |-> IF RunOf[f] = run THEN "unrated" ELSE verdict[f]]
    /\ quality' = [quality EXCEPT ![run] = "null"]

LedgerNext ==
    \/ \E run \in Run : Ingest(run) \/ Delete(run)
    \/ \E f \in Finding, v \in Verdict : Rate(f, v)

LedgerSpec == LedgerInit /\ [][LedgerNext]_ledger

=============================================================================
