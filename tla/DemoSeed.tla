------------------------------ MODULE DemoSeed ------------------------------
(***************************************************************************)
(* The demo project (app/demo/seed): a hook that runs after every deploy   *)
(* sets the project up commit by commit, each step skipping what is there, *)
(* counts the project's runs, and only if there are none replaces them by  *)
(* demo runs of its own making, with verdicts, gates and back-dated costs. *)
(* The hook can die between two commits and the next deploy starts over;   *)
(* the dashboard and the project's CI go on meanwhile (Dashboard).         *)
(***************************************************************************)
EXTENDS Dashboard

CONSTANTS
    Demo,           \* the runs make_runs makes up
    DaysAgo,        \* how many days back each is dated
    DemoUse         \* its tokens

ASSUME DemoAssumption ==
    /\ Demo \subseteq Run /\ DaysAgo \in [Demo -> Nat \ {0}] /\ DemoUse \in [Demo -> TokenUse]

VARIABLES
    setup,          \* how far the project is set up
    hook,           \* the hook's next step, or "idle"
    late            \* runs ingested since the hook found none (history)

demoVars == <<setup, hook, late>>
seedVars == <<dashVars, demoVars>>

SetupStage == {"none", "created", "connected", "minted"}

SeedInit ==
    /\ DashInit
    /\ setup = "none" /\ hook = "idle" /\ late = {}

Live == {run \in Run : row[run] = "live"}

\* get_user, create_project or the existing row, connect_jenkins and ci_setup: each
\* commits, and each leaves alone what an earlier firing has committed.
SetUp(before, stage, from, to) ==
    /\ hook = before
    /\ setup' = IF setup = from THEN to ELSE setup
    /\ hook' = stage
    /\ UNCHANGED <<dashVars, late>>

EnsureProject == SetUp("idle", "connecting", "none", "created")
ConnectJenkins == SetUp("connecting", "minting", "created", "connected")
MintToken == SetUp("minting", "counting", "connected", "minted")

\* Mutant of CountRuns: every deploy seeds again.
CountRunsForced ==
    /\ hook = "counting"
    /\ hook' = "seeding"
    /\ late' = {}
    /\ UNCHANGED <<dashVars, setup>>

\* Skip-if-present.
CountRuns ==
    /\ hook = "counting"
    /\ hook' = IF Live = {} THEN "seeding" ELSE "idle"
    /\ late' = {}
    /\ UNCHANGED <<dashVars, setup>>

\* The verdicts of a demo run: none, all accepted, or max(2, half) rejected.
Rejects(n) == IF (n + 1) \div 2 < 2 THEN 2 ELSE (n + 1) \div 2
DemoVerdicts(run) ==
    {vs \in [FindingsOf(run) -> Verdict \cup {"unrated"}] :
        LET n == Cardinality(FindingsOf(run))
            Of(v) == {f \in FindingsOf(run) : vs[f] = v}
        IN  Of("unrated") \in {{}, FindingsOf(run)} /\ Cardinality(Of("reject")) \in {0, Rejects(n)}}

\* quality_ok of a demo run, at the seeder's own threshold of 0.8.
DemoQuality(vs, run) ==
    IF Rated(vs, run) = {} THEN "null"
    ELSE IF Cardinality(Accepted(vs, run)) * 5 >= 4 * Cardinality(Rated(vs, run))
         THEN "ok" ELSE "risk"

\* The seeder's _cost: half even, and a half of the price that is missing counts 0.
HalfEven(n, d) ==
    LET q == n \div d
        rest == 2 * (n % d)
    IN  IF rest > d \/ (rest = d /\ q % 2 = 1) THEN q + 1 ELSE q
DemoCost(t, p) == HalfEven(t.in * Amount(p.in) + t.out * Amount(p.out), PerMtok)
DemoMoney(t, p) ==
    [actual |-> DemoCost(t, p.selected), baseline |-> DemoCost(t, p.baseline),
     savings |-> DemoCost(t, p.baseline) - DemoCost(t, p.selected)]

\* seed_runs, one transaction: what runs the project has by now are deleted, findings
\* and feedback with them, and the demo runs take their place.
SeedRuns ==
    /\ hook = "seeding"
    /\ \E vs \in VerdictMap, p \in Prices :
          /\ \A run \in Demo : [f \in FindingsOf(run) |-> vs[f]] \in DemoVerdicts(run)
          /\ \A f \in Finding : RunOf[f] \notin Demo => vs[f] = "unrated"
          /\ row' = [run \in Run |-> IF run \in Demo THEN "live"
                                     ELSE IF run \in Live THEN "deleted" ELSE row[run]]
          /\ verdict' = vs
          /\ quality' = [run \in Run |-> IF run \in Demo THEN DemoQuality(vs, run) ELSE "null"]
          /\ cost' = [run \in Run |->
                IF run \in Demo
                THEN [day |-> day - DaysAgo[run], money |-> DemoMoney(DemoUse[run], p)]
                ELSE cost[run]]
    /\ Write
    /\ hook' = "idle" /\ late' = {}
    /\ UNCHANGED <<day, setup>>

\* The hook's pod is killed: what it has committed stays.
HookDies ==
    /\ hook # "idle"
    /\ hook' = "idle" /\ late' = {}
    /\ UNCHANGED <<dashVars, setup>>

\* The owner's CI posts a run: that takes a token, rotated from the minted one.
IngestLive(run) ==
    /\ setup = "minted" /\ run \notin Demo
    /\ IngestRun(run)
    /\ late' = IF hook = "seeding" THEN late \cup {run} ELSE late
    /\ UNCHANGED <<setup, hook>>

SeedNext ==
    \/ EnsureProject \/ ConnectJenkins \/ MintToken \/ CountRuns \/ SeedRuns \/ HookDies
    \/ \E run \in Run : IngestLive(run)
    \/ /\ \/ \E f \in Finding, v \in Verdict : RateFinding(f, v)
          \/ DayPasses
          \/ \E range \in Window : LoadRuns(range)
          \/ LoadVerdicts
       /\ UNCHANGED demoVars

SeedSpec == SeedInit /\ [][SeedNext]_seedVars

-----------------------------------------------------------------------------

\* "Never a per-deploy reset that would wipe live demo activity": whenever hooks fire,
\* die and fire again, a run goes only if it came after this hook found none, and a
\* verdict on a run that stays is never touched by a hook.
HookSparesActivity ==
    [][/\ \A run \in Live : row'[run] = "live" \/ run \in late
       /\ hook' # hook =>
             \A f \in Finding : verdict[f] # "unrated" =>
                 verdict'[f] = verdict[f] \/ RunOf[f] \in late]_seedVars

=============================================================================
