----------------------------- MODULE Recommend ------------------------------
(***************************************************************************)
(* The deterministic recommender (app/recommend): score_and_rank over the  *)
(* catalog rows of the requested tasks that the agent can run, the choice  *)
(* of a baseline, and the profile and options it stores.  The catalog and  *)
(* the runtime table change while a request is between its two reads.      *)
(***************************************************************************)
EXTENDS Integers, FiniteSets, Sequences

CONSTANTS
    RowId,          \* benchmark_result ids, naturals: the id breaks ties
    Model,          \* models, numbered in the order of their names
    TaskType,
    ModelOf,        \* RowId -> Model
    TaskOf,         \* RowId -> TaskType
    GroupOf,        \* RowId -> (benchmark, metric)
    Score, Cost,    \* values of score and cost_per_mtok
    Weight,         \* quality weights: rank_weight_low, _medium, _high
    Unit,           \* what a weight is out of
    Quantum,        \* rank_score is rounded to 1 / Quantum
    ShortlistSize,  \* recommendation_shortlist_size
    BaselineFor,    \* TaskType -> the configured baseline model
    OnlyRunnable,   \* recommend_only_runnable
    MaxEdits        \* bound: catalog and runtime changes during one request

ASSUME KeyAssumption == RowId \subseteq Nat /\ IsFiniteSet(RowId)
ASSUME ModelAssumption == Model \subseteq Nat /\ ModelOf \in [RowId -> Model]
ASSUME TaskAssumption == TaskOf \in [RowId -> TaskType] /\ BaselineFor \in [TaskType -> Model]
ASSUME ValueAssumption == Score \subseteq Nat /\ Cost \subseteq Nat
ASSUME UnitAssumption ==
    /\ Unit \in Nat \ {0} /\ Weight \subseteq 0 .. Unit
    /\ Quantum \in Nat \ {0} /\ ShortlistSize \in Nat \ {0} /\ MaxEdits \in Nat
    /\ OnlyRunnable \in BOOLEAN

VARIABLES
    results,        \* benchmark_result: the keys with a score and a cost -> values
    enabled,        \* models with an enabled agent_runtime_config
    request,        \* the request in flight: its tasks, weight and candidate rows
    offer,          \* what the last request stored and answered
    ranked,         \* the rows the offer was ranked from (history)
    edits

recommendVars == <<results, enabled, request, offer, ranked, edits>>

Values == [score : Score, cost : Cost]
Catalog == UNION {[K -> Values] : K \in SUBSET RowId}
Idle == [tasks |-> {}, weight |-> 0, candidates |-> <<>>]
NoOffer ==
    [status |-> "none", weight |-> 0, shortlist |-> <<>>, baseline |-> 0, selection |-> "none"]
Refused == [NoOffer EXCEPT !.status = "422"]

RecommendTypeOK ==
    /\ results \in Catalog /\ enabled \subseteq Model
    /\ request.tasks \subseteq TaskType /\ request.weight \in Weight \cup {0}
    /\ request.candidates \in Catalog
    /\ offer.status \in {"none", "422", "stored"}
    /\ \A i \in DOMAIN offer.shortlist : offer.shortlist[i] \in RowId
    /\ offer.status = "stored" => /\ offer.baseline \in RowId /\ offer.weight \in Weight
                                  /\ offer.selection \in {"configured", "fallback"}
                                  /\ Len(offer.shortlist) \in 1 .. ShortlistSize
    /\ ranked \in Catalog
    /\ edits \in 0 .. MaxEdits

RecommendInit ==
    /\ results = <<>> /\ enabled \in SUBSET Model
    /\ request = Idle /\ offer = NoOffer /\ ranked = <<>> /\ edits = 0

-----------------------------------------------------------------------------
\* Scoring.  C is a catalog: keys -> [score, cost].

Limit(f, K) == [k \in K |-> f[k]]

\* max(..), and 1 where that is 0: every value is 0 then and so is its quotient.
Top(S) == LET m == CHOOSE n \in S : \A o \in S : n >= o IN IF m > 0 THEN m ELSE 1
TopScore(C) == Top({C[k].score : k \in DOMAIN C})
TopCost(C) == Top({C[k].cost : k \in DOMAIN C})

\* Decimal.quantize: half to even.
HalfEven(n, d) ==
    LET q == n \div d
        r == n % d
    IN  IF 2 * r > d \/ (2 * r = d /\ q % 2 = 1) THEN q + 1 ELSE q

\* Mutant of RankScore: the weights are swapped.
RankScoreSwapped(C, k, w) ==
    LET s == TopScore(C)
        c == TopCost(C)
    IN  HalfEven(((Unit - w) * C[k].score * c + w * (c - C[k].cost) * s) * Quantum, Unit * s * c)

\* w_q * score / max_score + w_c * (1 - cost / max_cost), in units of 1 / Quantum.
RankScore(C, k, w) ==
    LET s == TopScore(C)
        c == TopCost(C)
    IN  HalfEven((w * C[k].score * c + (Unit - w) * (c - C[k].cost) * s) * Quantum, Unit * s * c)

\* Mutant of Before: equal scores are ordered by name alone.
BeforeByName(C, w, j, k) ==
    \/ RankScore(C, j, w) > RankScore(C, k, w)
    \/ /\ RankScore(C, j, w) = RankScore(C, k, w)
       /\ ModelOf[j] < ModelOf[k] \/ (ModelOf[j] = ModelOf[k] /\ j < k)

\* The sort key: score descending, then cheaper, then model name, then id.
Before(C, w, j, k) ==
    \/ RankScore(C, j, w) > RankScore(C, k, w)
    \/ /\ RankScore(C, j, w) = RankScore(C, k, w)
       /\ \/ C[j].cost < C[k].cost
          \/ /\ C[j].cost = C[k].cost
             /\ ModelOf[j] < ModelOf[k] \/ (ModelOf[j] = ModelOf[k] /\ j < k)

Rank(C, w, k) == 1 + Cardinality({j \in DOMAIN C : Before(C, w, j, k)})

Ranking(C, w) ==
    [i \in 1 .. Cardinality(DOMAIN C) |-> CHOOSE k \in DOMAIN C : Rank(C, w, k) = i]

\* Exactly one comparability group, else MultipleComparabilityGroups.
Comparable(C) == Cardinality({GroupOf[k] : k \in DOMAIN C}) = 1

\* Only models the agent can run, unless that leaves nothing.
ById(C, on) ==
    LET runnable == {k \in DOMAIN C : ModelOf[k] \in on}
    IN  IF OnlyRunnable /\ runnable # {} THEN Limit(C, runnable) ELSE C

\* _task_type_of: the task of the first ranked row.
TaskRanked(order) == TaskOf[order[1]]

\* Mutant of Baseline: it falls back to the cheapest row.
BaselineCheapest(C, order) ==
    LET named == {k \in DOMAIN C : ModelOf[k] = BaselineFor[TaskRanked(order)]}
        cheapest == {k \in DOMAIN C : \A j \in DOMAIN C : C[j].cost >= C[k].cost}
        Lowest(K) == CHOOSE k \in K : \A j \in K : k <= j
    IN  IF named # {} THEN [key |-> Lowest(named), selection |-> "configured"]
                      ELSE [key |-> Lowest(cheapest), selection |-> "fallback"]

\* _pick_baseline: the task's configured model (lowest id) if it is ranked, else the
\* dearest row (lowest id).
Baseline(C, order) ==
    LET named == {k \in DOMAIN C : ModelOf[k] = BaselineFor[TaskRanked(order)]}
        dearest == {k \in DOMAIN C : \A j \in DOMAIN C : C[j].cost <= C[k].cost}
        Lowest(K) == CHOOSE k \in K : \A j \in K : k <= j
    IN  IF named # {} THEN [key |-> Lowest(named), selection |-> "configured"]
                      ELSE [key |-> Lowest(dearest), selection |-> "fallback"]

Shortlist(order) ==
    SubSeq(order, 1, IF Len(order) < ShortlistSize THEN Len(order) ELSE ShortlistSize)

-----------------------------------------------------------------------------

\* recommend: the candidate rows of the requested tasks.
SelectRows ==
    /\ request = Idle
    /\ \E tasks \in SUBSET TaskType \ {{}}, w \in Weight :
          request' = [tasks |-> tasks, weight |-> w,
                      candidates |-> Limit(results, {k \in DOMAIN results : TaskOf[k] \in tasks})]
    /\ offer' = NoOffer /\ ranked' = <<>> /\ edits' = 0
    /\ UNCHANGED <<results, enabled>>

\* The runtimes, the ranking, and profile, options and evidence in one commit.
RankAndStore ==
    LET C == ById(request.candidates, enabled)
        order == Ranking(C, request.weight)
        baseline == Baseline(C, order)
    IN  /\ request # Idle
        /\ IF Comparable(C)
           THEN /\ offer' = [status |-> "stored", weight |-> request.weight,
                             shortlist |-> Shortlist(order),
                             baseline |-> baseline.key, selection |-> baseline.selection]
                /\ ranked' = C
           ELSE offer' = Refused /\ ranked' = <<>>
        /\ request' = Idle
        /\ UNCHANGED <<results, enabled, edits>>

\* Edits before a request are free, during it they are bounded; after it they wait for
\* the next one, as nothing stored is read again.
Editing ==
    IF request = Idle THEN offer = NoOffer /\ UNCHANGED edits
                      ELSE edits < MaxEdits /\ edits' = edits + 1

\* upsert_catalog_row: a row appears or gets new values.
UpsertRow(k) ==
    /\ Editing
    /\ \E v \in Values :
          results' = [j \in DOMAIN results \cup {k} |-> IF j = k THEN v ELSE results[j]]
    /\ UNCHANGED <<enabled, request, offer, ranked>>

\* The seed or an operator turns a runtime configuration on or off.
ToggleRuntime(m) ==
    /\ Editing
    /\ enabled' = IF m \in enabled THEN enabled \ {m} ELSE enabled \cup {m}
    /\ UNCHANGED <<results, request, offer, ranked>>

RecommendNext ==
    \/ SelectRows \/ RankAndStore
    \/ \E k \in RowId : UpsertRow(k)
    \/ \E m \in Model : ToggleRuntime(m)

RecommendSpec == RecommendInit /\ [][RecommendNext]_recommendVars

-----------------------------------------------------------------------------

\* The weighted value of a row as an exact fraction over ExactUnit(C).
Exact(C, k, w) ==
    w * C[k].score * TopCost(C) + (Unit - w) * (TopCost(C) - C[k].cost) * TopScore(C)
ExactUnit(C) == Unit * TopScore(C) * TopCost(C)

Position(k) == CHOOSE i \in DOMAIN offer.shortlist : offer.shortlist[i] = k
Offered == {offer.shortlist[i] : i \in DOMAIN offer.shortlist}
Precedes(j, k) == j \in Offered /\ (k \in Offered => Position(j) < Position(k))

\* Rounding loses nothing that matters: a row worth more than another by over a
\* quantum, at the request's weights, is offered before it; no row is offered twice
\* and none is left out while a worse one is in.
OrderFollowsWeights ==
    offer.status = "stored" =>
        /\ Len(offer.shortlist) = Cardinality(Offered)
        /\ \A j \in DOMAIN ranked, k \in Offered :
              (Exact(ranked, j, offer.weight) - Exact(ranked, k, offer.weight)) * Quantum
                  > ExactUnit(ranked) => Precedes(j, k)

\* Whatever the weights and the rounding, a row that scores no less and costs less
\* than another is offered before it.
CheaperAndNoWorseWins ==
    offer.status = "stored" =>
        \A j \in DOMAIN ranked, k \in Offered :
            ranked[j].score >= ranked[k].score /\ ranked[j].cost < ranked[k].cost
            => Precedes(j, k)

\* Savings are measured against the configured model where it is ranked, and else
\* against a row that no ranked one is dearer than.
BaselineIsFair ==
    offer.status = "stored" =>
        /\ offer.baseline \in DOMAIN ranked
        /\ \/ ModelOf[offer.baseline] = BaselineFor[TaskOf[offer.baseline]]
           \/ /\ \A k \in DOMAIN ranked : ranked[k].cost <= ranked[offer.baseline].cost
              /\ \A k \in DOMAIN ranked : ModelOf[k] # BaselineFor[TaskOf[offer.baseline]]

=============================================================================
