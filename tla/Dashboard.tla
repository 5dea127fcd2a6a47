----------------------------- MODULE Dashboard ------------------------------
(***************************************************************************)
(* The savings of one project (app/savings): each ingested run is costed   *)
(* at the selected and at the baseline model's prices of that moment, the  *)
(* quality gate decides which savings are banked, and the dashboard adds   *)
(* them up.  The gate is the ledger's (FeedbackLedger, which the handlers  *)
(* of QualityGate implement).  The dashboard reads the runs in one         *)
(* statement and the verdicts in a later one.                              *)
(***************************************************************************)
EXTENDS FeedbackLedger, FiniteSetsExt

CONSTANTS
    TokenUse,       \* what an ingest may report: [in, out]
    Prices,         \* what the two models may cost: [selected, baseline], each [in, out]
    NULL,           \* an SQL NULL, which either half of a model's price may be
    PerMtok,        \* tokens a price is quoted for
    Window,         \* windows in days, Forever among them
    Forever,        \* range "all"
    MaxDay          \* bound: days that pass

ASSUME MoneyAssumption ==
    /\ PerMtok \in Nat \ {0}
    /\ \A t \in TokenUse : t.in \in Nat /\ t.out \in Nat
    /\ \A p \in Prices, who \in {"selected", "baseline"} :
          p[who].in \in Nat \cup {NULL} /\ p[who].out \in Nat \cup {NULL}
    /\ NULL \notin Int
ASSUME RowsAssumption == IsFiniteSet(Run) /\ IsFiniteSet(Finding)
ASSUME WindowAssumption == Forever \in Window /\ Window \subseteq Nat /\ MaxDay \in 0 .. Forever

VARIABLES
    day,            \* now, in days
    cost,           \* Run -> created_at and the money columns
    view,           \* the dashboard request: its step and the runs it has loaded
    shown,          \* the KPIs it answered with
    disturbed       \* a write was committed between its two reads (history)

dashVars == <<ledger, day, cost, view, shown, disturbed>>

Null == [actual |-> NULL, baseline |-> NULL, savings |-> NULL]
NoCost == [day |-> 0, money |-> Null]
NoView == [step |-> "idle", runs |-> <<>>]
NotShown == [status |-> "none"]

DashTypeOK ==
    /\ verdict \in VerdictMap /\ quality \in [Run -> Gate]
    /\ day \in 0 .. MaxDay
    /\ \A run \in Run :
          /\ cost[run].day \in Int
          /\ LET m == cost[run].money
             IN  m = Null \/ (m.actual \in Nat /\ m.baseline \in Nat /\ m.savings \in Int)
    /\ view.step \in {"idle", "loaded"} /\ DOMAIN view.runs \subseteq Run
    /\ shown.status \in {"none", "banking", "quality_risk", "unrated"}
    /\ disturbed \in BOOLEAN

DashInit ==
    /\ LedgerInit
    /\ day = 0 /\ cost = [run \in Run |-> NoCost]
    /\ view = NoView /\ shown = NotShown /\ disturbed = FALSE

-----------------------------------------------------------------------------
\* app/savings/service: one run's cost.

\* _money, ROUND_HALF_UP, of a price times tokens.
HalfUp(n, d) == (2 * n + d) \div (2 * d)
Blend(t, p) == t.in * p.in + t.out * p.out
CostOf(t, p) == HalfUp(Blend(t, p), PerMtok)

\* price_for: a model without both prices is not priced at all.
Unpriced(p) == NULL \in {p.in, p.out}

\* Mutant of compute_savings: the difference is rounded, not the costs.
compute_savings_late(t, p) ==
    IF Unpriced(p.selected) \/ Unpriced(p.baseline) THEN Null
    ELSE [actual |-> CostOf(t, p.selected), baseline |-> CostOf(t, p.baseline),
          savings |-> HalfUp(Blend(t, p.baseline) - Blend(t, p.selected), PerMtok)]

\* The trio is NULL when either model is unpriced.
compute_savings(t, p) ==
    IF Unpriced(p.selected) \/ Unpriced(p.baseline) THEN Null
    ELSE [actual |-> CostOf(t, p.selected), baseline |-> CostOf(t, p.baseline),
          savings |-> CostOf(t, p.baseline) - CostOf(t, p.selected)]

-----------------------------------------------------------------------------
\* app/savings/aggregate: R maps the loaded runs to [money, quality].

Amount(n) == IF n = NULL THEN 0 ELSE n
SumOf(R, S, column) == SumFunctionOnSet([run \in S |-> Amount(R[run].money[column])], S)

\* Mutant of Banked: a run is banked unless it failed.
BankedUnlessRisk(R) == {run \in DOMAIN R : R[run].quality # "risk"}

Banked(R) == {run \in DOMAIN R : R[run].quality = "ok"}
AtRisk(R) == {run \in DOMAIN R : R[run].quality = "risk"}
Ungated(R) == {run \in DOMAIN R : R[run].quality = "null"}

\* Mutant of Status: a rate at the threshold does not pass.
StatusStrict(vs, S) ==
    LET rated == UNION {Rated(vs, run) : run \in S}
        accepted == UNION {Accepted(vs, run) : run \in S}
    IN  IF rated = {} THEN "unrated"
        ELSE IF Cardinality(accepted) * ThresholdDen > ThresholdNum * Cardinality(rated)
             THEN "banking" ELSE "quality_risk"

\* The acceptance rate over every finding in the window, against the threshold.
Status(vs, S) ==
    LET rated == UNION {Rated(vs, run) : run \in S}
        accepted == UNION {Accepted(vs, run) : run \in S}
    IN  IF rated = {} THEN "unrated"
        ELSE IF Cardinality(accepted) * ThresholdDen >= ThresholdNum * Cardinality(rated)
             THEN "banking" ELSE "quality_risk"

\* The page without its two monthly projections, thirty days of spend and savings.
assemble(R, vs) ==
    [status |-> Status(vs, DOMAIN R),
     cumulative |-> SumOf(R, Banked(R), "savings"),
     baseline_total |-> SumOf(R, Banked(R), "baseline"),
     spend |-> SumOf(R, DOMAIN R, "actual"),
     quality_risk |-> SumOf(R, AtRisk(R), "savings"),
     banked_runs |-> Cardinality(Banked(R)),
     quality_risk_runs |-> Cardinality(AtRisk(R)),
     unrated_runs |-> Cardinality(Ungated(R))]

-----------------------------------------------------------------------------

\* A commit of somebody else, between the dashboard's reads or not.
Write == disturbed' = (view.step = "loaded") /\ view' = view /\ shown' = NotShown

\* ingest_run with the prices of the moment.
IngestRun(run) ==
    /\ Ingest(run)
    /\ \E t \in TokenUse, p \in Prices :
          cost' = [cost EXCEPT ![run] = [day |-> day, money |-> compute_savings(t, p)]]
    /\ Write
    /\ UNCHANGED day

RateFinding(f, v) == Rate(f, v) /\ Write /\ UNCHANGED <<day, cost>>

DayPasses ==
    /\ day < MaxDay
    /\ day' = day + 1
    /\ UNCHANGED <<ledger, cost, view, shown, disturbed>>

\* project_savings: the runs created since the cutoff, with their stored gates.
LoadRuns(range) ==
    LET window == {run \in Run : row[run] = "live" /\ cost[run].day >= day - range}
    IN  /\ view.step = "idle"
        /\ view' = [step |-> "loaded",
                    runs |-> [run \in window |-> [money |-> cost[run].money,
                                                  quality |-> quality[run]]]]
        /\ shown' = NotShown /\ disturbed' = FALSE
        /\ UNCHANGED <<ledger, day, cost>>

\* project_savings: the verdicts on those runs as they are now, and the answer.
LoadVerdicts ==
    /\ view.step = "loaded"
    /\ shown' = assemble(view.runs, verdict)
    /\ view' = [view EXCEPT !.step = "idle"]
    /\ UNCHANGED <<ledger, day, cost, disturbed>>

DashNext ==
    \/ \E run \in Run : IngestRun(run)
    \/ \E f \in Finding, v \in Verdict : RateFinding(f, v)
    \/ DayPasses
    \/ \E range \in Window : LoadRuns(range)
    \/ LoadVerdicts

DashSpec == DashInit /\ [][DashNext]_dashVars

-----------------------------------------------------------------------------

\* The money on the page adds up to the last digit: the headline is what the banked
\* runs would have cost less what they did cost, and nothing is dropped on the way
\* from all spending to headline, quality risk and runs not rated yet.
HeadlineReconciles ==
    shown # NotShown =>
        LET R == view.runs IN
        /\ shown.cumulative = shown.baseline_total - SumOf(R, Banked(R), "actual")
        /\ shown.cumulative + shown.quality_risk + SumOf(R, Ungated(R), "savings")
              = SumOf(R, DOMAIN R, "baseline") - shown.spend

\* The overall status and the per-run gates tell one story, though one is computed
\* from verdicts and the other from stored gates: "banking" shows a banked run,
\* "quality_risk" a failed one, and "unrated" neither.  A rating committed between
\* the two reads is the exception.
StatusIsEarned ==
    shown # NotShown /\ ~disturbed =>
        CASE shown.status = "banking" -> shown.banked_runs > 0
          [] shown.status = "quality_risk" -> shown.quality_risk_runs > 0
          [] shown.status = "unrated" -> shown.banked_runs + shown.quality_risk_runs = 0

\* Undisturbed, the headline banks exactly the savings of the runs whose verdicts
\* pass the threshold: the stored gates and the costs of another day do not drift.
HeadlineIsHonest ==
    [][shown' # shown /\ shown' # NotShown /\ ~disturbed =>
          shown'.cumulative =
              SumOf(view.runs,
                    {run \in DOMAIN view.runs : recompute_quality(verdict, run) = "ok"},
                    "savings")]_shown

=============================================================================
