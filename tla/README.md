# ModelMatch backend: a verification project

TLA+ models of the ModelMatch backend (FastAPI application `app/`, CI agent `agent/`),
model-checked with TLC; what the passing runs say of safety is also proved with TLAPS, for every
value of the constants. `PROJECT.json` is the index: the components and their status, the runs,
for every definition the source lines it stands for, the mutants that show each property can fail,
the hazards, the findings and the theorems.

Run a model with `tlc -config MCX.cfg MCX.tla`, check a proof with `tlapm X_proofs.tla`.

## 1. The system

A user registers, describes a task, gets models recommended from a catalog of published
benchmark results, and picks one for a project. The project is connected to Jenkins: each
build runs the agent container, which asks the backend for its configuration, lets the chosen
model review or scan the code, and POSTs the run. The user rates the findings; the rating
decides the run's quality gate. A chat explains recommendations from the catalog. Several
gunicorn workers and replicas serve this from one Postgres at READ COMMITTED.

| component | state | operations | what is hard | what makes it correct |
|---|---|---|---|---|
| quality gate (`app/quality`) | `finding_feedback`, `ci_run.quality_ok` | rate a finding | two ratings of one run; project deleted under a rating; worker death | the stored gate is that of all stored verdicts |
| CI token (`app/ci/service`, `app/projects/jenkins_service`) | `jenkins_connection` | connect, ci-setup, rotate | check on an unlocked copy, then write; token committed before it is shown | a stored token was shown, or the owner can get one; editing the connection keeps it |
| projects (`app/projects/service`) | `project` | create, PATCH, delete | two PATCHes merge column by column | the task is the one the option was ranked on |
| CI loop (`agent/`, `app/ci/service`, `app/auth/deps`) | `ci_run`, `ci_finding`, the agent process | agent-config, ingest | answers lost or broken off after a commit, reruns of a build, re-picks and deletes in between | exit 0 never claims a verdict that is not stored, nor does exit 1 but by a traceback; a build counts once |
| hourly token budget (`app/llm_budget`) | `llm_usage` | reserve, release, reconcile | replicas near the cap, hour rollover, crash with a reservation | the tally is exact; admitted calls fit the cap |
| account admission (`app/auth`, `app/demo/onboarding`) | `user`, example projects, `auth_rate_bucket`, `google_login_nonce` | register, password login, challenge, Google sign-in | count-then-insert at the capacity, case variants of an e-mail, provisioning fails; a bucket topped up lazily by a clock that can be set; nonces swept while sign-ins are on their way; two locks in one transaction | capacity, unique e-mails, account and examples together; at most a burst at once and a rate a minute; a challenge signs in once; every request is answered |
| catalog and ingestion (`app/catalog`, `app/ingest`) | `benchmark_result`, `source_document` | POST /benchmarks, seed, ingest a source, import a RealVuln report | check-then-write of the one-group rule; commit per row; two ingests of one source; a report that is re-imported for its prices | one (benchmark, metric) per task; an ingested source has rows |
| agent pipeline (`agent/`) | one process, its OpenCode child, the attempt loop | review, scan, parse, gate, POST | ceilings shared by attempts, refusals, malformed output, a child that stalls or outlives an error, exceptions that no handler expects | exit 0 is an examined pass; no child is left behind; the agent ends |
| chat (`app/chat`) | `chat_message`, `retrieval_trace`, `llm_call` | ask, open | two openers, ids drawn before they can be seen, a budget refusal between two calls, project deleted before the answer is stored, a query without a timeout | a turn is stored whole or not at all and costs what its row says; the opener opens |
| recommendation (`app/recommend`) | `requirements_profile`, `recommendation_option` | score, rank, pick a baseline | rounding ties, zero scores and costs, the catalog changing between two reads | the order follows the weights; the baseline is the configured model or as dear as any |
| savings and dashboard (`app/savings`) | money columns of `ci_run`; the rest is derived | cost at ingest, aggregate | rounding, thresholds met exactly, two reads of one answer | totals reconcile; the headline banks passing runs only |
| demo seed (`app/demo/seed`) | the demo project's rows | set up, skip or seed, on every deploy | count, then delete in a later transaction; death between commits; costs rounded in its own way | a deploy takes nothing away that was there when it looked; demo runs add up with real ones |

The parts meet in five places. The project row is read by both CI endpoints, hence by
everything a run is labelled and costed with; `ProjectStore` is the shared base of the models
that need it. The connection row carries the token that `CiLoop` authenticates with. The run
row created by the ingest is what `submit_feedback` locks. The token tally is shared by
ingestion and chat. The demo seed writes the same runs and verdicts as the ingest and the
rating, and the dashboard adds them all up.

## 2. The modules

| module | models | proofs |
|---|---|---|
| `FeedbackLedger` | what the quality gate promises: rating and re-gating are one step | |
| `QualityGate` | `submit_feedback` statement by statement; implements `FeedbackLedger` | `Ledger_proofs` |
| `CiToken` | connect, ci-setup, rotate over one unlocked connection row | `CiToken_proofs` |
| `ProjectStore` | PATCH and delete of one project row, the runtime configs | `CiLoop_proofs` |
| `AgentStage` | what the Jenkins stage sees of an agent: a gate, an exit code | |
| `CiLoop` | the agent container and its two endpoints; extends `ProjectStore`; each attempt keeps `AgentStage` | `CiLoop_proofs` |
| `AgentRun` | one agent process, from its configuration to its exit code; implements `AgentStage` | `AgentRun_proofs` |
| `TokenBudget` | the hourly tally and the callers that reserve in it | `Chat_proofs` |
| `Chat` | a project's chat: turns, openers, deletion; extends `TokenBudget` | `Chat_proofs` |
| `Recommend` | scoring, ranking and baseline over a changing catalog | `Catalog_proofs` |
| `Dashboard` | costs at ingest and the dashboard's totals; extends `FeedbackLedger` | `Ledger_proofs` |
| `DemoSeed` | the deploy hook that seeds the demo project; extends `Dashboard` | `Ledger_proofs` |
| `TokenBucket` | what the rate limit promises: a burst, and so many a minute | |
| `AuthBucket` | the row of the rate bucket and its UPSERT; implements `TokenBucket` in `SignIn` | |
| `Admission` | account creation under the advisory lock | `SignIn_proofs` |
| `SignIn` | all authentication endpoints: limit, challenge, nonce, account; extends `Admission` and `AuthBucket` | `SignIn_proofs` |
| `CatalogStore` | catalog writers, the ingestion of a source, the import of a report | `Catalog_proofs` |
| `SumTheorems` | nothing of the code: lemmas about sums over finite sets, for `Chat_proofs`, `Ledger_proofs` and `Catalog_proofs` | itself |

Conventions. One action is one database statement or one commit, because other transactions
can come in between at READ COMMITTED; the steps of a handler that touch nothing shared are
folded into the next action. `pc` is the step a handler has reached. A worker that dies is a
`Crash`, `Drop` or `KillHandler`: its uncommitted writes are gone, its committed ones stay and
nobody is answered. `Close`, `End`, `Answer` and `Release` are `get_db` closing the session.
A variable marked "history" is read by properties only. An operator whose comment starts with
"Mutant of" is not part of the model: it is a plausible bug, which the property named in
`PROJECT.json` catches.

**QualityGate.** `LoadFinding` is `db.get(CiFinding)`; `LockRun` the `SELECT ... FOR UPDATE`;
`Forbid` `require_owner`; `Upsert` the `INSERT ... ON CONFLICT`; `Recompute` `_run_verdicts` and
`recompute_quality`; `Commit` and `Reply` the commit and the answer, which reads the expired
run again. The threshold is a fraction, compared exactly (the code divides floats; the deployed
0.8 and the small counts of a run agree on both).

**CiToken.** A session reads the row (`Load`), decides on that copy, and writes the columns it
changed. `SetupMint` is the mint of `ci_setup`, `Rotate` that of `rotate_ci_token`; `Deliver` is
`_setup_out`, which runs after the commit and can still refuse. Tokens are opaque values; a
dead one may be minted again, which keeps the state space finite without a bound on mints.

**ProjectStore.** `LoadProject` copies the row into the session; `SavePatch` validates against
the copy and writes the columns whose value differs from it, which is what SQLAlchemy emits.
Name, baseline and preferences are independent columns that nothing modelled reads.

**CiLoop.** Each attempt is a container (`agent`) and the handler serving its current call
(`handler`), separate because the handler of an ingest outlives an agent that stopped waiting; one
that serves a configuration writes nothing and is dropped with its agent. `Work` stands for the
whole scan, which `AgentRun` opens: its result is a gate, or one of the exits without one.
`Timeout` is an answer that does not come (`RemoteError`, exit 4); `AnswerBreaksOff` one that
cannot be read, whose exception `agent/remote.py` does not turn into a `RemoteError`: the process
ends by a traceback, with Python's status 1, which is also the code of a failed gate. The history
variable `broken` keeps these attempts apart, so that `VerdictIsRecorded` says what exit 1 is
worth otherwise. Both modules are held to the same small contract, `AgentStage`: read the
configuration, work until there is a gate or give up, and with a gate exit by it or, if the run
cannot be handed in, with code 4; and around either call to the API possibly by a traceback, with
code 1. `AgentRun` implements it as it stands (`ImplementsStage`); in `CiLoop` a build starts
several agents, and every step of each is one of the contract (`AttemptsAreAgents`). `image` is
the task of the image pasted into Jenkins: `ServeConfig` includes the agent's `_check_image_task`.

**AgentRun.** `Resolve` is everything before the model is called; it and the POST in `Conclude`
may fail with a handled error (4) or an unhandled one (1). The review is one call (`CallModel`).
The security task loops: `StartAttempt` passes on what is left of the ceilings (`Remaining`, never
less than one), `ReadLine` is the body of the stream loop, with the ceilings tested at its end,
`CloseOutput`, `ChildExits` and `WaitTimeout` the wait for the child, `BreakStream` an exception
and its `finally`, `Judge` the loop body after the child and `Decide` the code after the loop,
which counts the files read first and may trip over an odd event there (`Aborts`); `Conclude` is
the POST and the exit code. An answer is a shape (nothing, prose, prose around a report, a report
alone), a refusal marker and the rows it reports. Time passes in seconds, and only while the agent
waits for its child.

**TokenBudget.** `Add` is the atomic floor-at-zero upsert, one committed statement. The hour a
caller reserves in was read from the clock before the statement, so it may be past. A prompt is
estimated at four characters a token (`app/llm/base.py:36`), which is no upper bound: a call may
use `Overrun` tokens more. `AdmittedFitsCap` says what the cap is worth then. A settled overrun
is in the tally and made up for; what can exceed the cap are the overruns of the calls in
flight at once and of calls whose worker died with the answer in hand. With `Overrun = 0` it is
the cap itself.

**Chat.** `Turn`s are callers of the budget. `at` is the step of `answer_question`; the two model
calls are `ReserveCall`, `CallAnswers` or `CallFails`, and the `Settle` inside `SqlGenerated` and
`AnswerGenerated`; `Throttled` is the 429. `CheckSql`, `QueryAnswers` and `QueryFails` are the
gate and the read-only query. `InsertQuestion`, `InsertAnswer` and `CommitTurn` are
`_persist_turn`: its flush draws the ids of the two messages, which is the order they are read in,
and only its commit shows them. `Look`, `InsertOpener` and `EndVisit` are the check, the flush and
the commit of `ensure_opener`. `inserted` has the rows of open transactions, whose ids a rollback
leaves out. A flush locks the project row by its foreign key, so `DeleteProject` waits for flushed
turns and openers, and a flush after the deletion fails. `OpenerComesFirst` is about ids and has
an exception, the visits in `raced`: a message was in flight when they looked, or was inserted
between their look and their opener. Then the opener may stand behind it, a turn that no visit
could have seen included. Texts are reduced to what they decide; the savings summary a turn starts
with is read only.

**Recommend.** `SelectRows` is the first query of `recommend`, `RankAndStore` the rest up to its
one commit; `UpsertRow` and `ToggleRuntime` are other transactions. Scores are exact fractions
rounded half to even, as `Decimal.quantize` does, to a configurable quantum (the code: 10^-6).

**Dashboard.** `IngestRun` and `RateFinding` are the ledger's steps with the cost columns added,
`LoadRuns` and `LoadVerdicts` the two reads of `project_savings`; `assemble` is the pure
function of the same name. Amounts are integers in units of the last stored digit, and days
stand for timestamps. A price has two halves, either of which may be missing; `compute_savings` then
has no costs at all (`Unpriced`). The monthly projections, which divide totals by the days
since the first run, are left out.

**DemoSeed.** The hook of a deploy, commit by commit: `EnsureProject`, `ConnectJenkins` and
`MintToken` skip what an earlier firing committed, `CountRuns` is the skip-if-present test and
`SeedRuns` the one transaction that deletes and inserts. Demo runs are costed by the seeder's own
`_cost` (half to even, a missing half of a price is 0), gated at its own threshold and dated back.
The owner's CI can post from the moment there is a token; the dashboard reads throughout. One hook
runs at a time, as the deployment tool starts them. The function's docstring says that seeding
never wipes live activity. `HookSparesActivity` states it with the one exception the code leaves:
a run ingested after the count found none goes with the delete, which does not look again.

**Admission.** `Begin` is what the route does before the lock; `LockRegistration` to `Commit` is
the critical section under `pg_advisory_xact_lock`, provisioning included. `SeedNewUserExamples`
is the setting of that name: without it `Provision` has nothing to do. The runs have the default,
the theorem both.

**SignIn.** `Limit` is the committed UPSERT in front of every authentication endpoint; nothing but
the row's tokens and its age is kept, and `Level` works out what has come in since. The database's
clock runs by the second and can be set back (`ClockSetBack`) and forward (`ClockSetForward`). A
second between the two is paid for as it should be, but a clock set forward tops the row up at
once. The promise (`TokenBucket`) therefore counts by the database's clock: `ahead` is what it was
set forward, and a bucket may gain that much in a step (`Skip`). A Google sign-in is
`IssueChallenge` (nothing is stored), `Verify` (the challenge and Google's credential are checked
before the database is asked anything), `ConsumeNonce` (the sweep of expired nonces and the insert
of its own, taken as one step of one transaction) and then `SignInKnown`, or `SignUp` into the
steps of `Admission`. The nonce is committed with the account, or without one when the address
turns out to be taken; no capacity, a lock timeout and failed examples roll it back (`Commits`).
`Unobstructed` is Postgres: a DELETE waits for the transaction that deleted the same rows, an
INSERT for the one that inserted the same key. The database and the application are taken to agree
on when a challenge has expired. `ChallengeUsedOnce` has an exception, the nonces in `late`: a
sign-in verified in time whose insert comes after the expiry finds a swept table. Its window is
the time between the two, seconds at most.

**CatalogStore.** A writer is a request, the seed or an ingest with a list of valid rows.
`CheckTask` and `WriteRow` are the two statements of `upsert_catalog_row`, which commits, and
with the first row commits the ingest's `source_document`. Prices, dates and the parsing of a
row are abstracted to the rows that came out valid. `ImportReport` is the RealVuln import:
`build_rows` picks the scanners that are mapped, scored and priced and not run locally, and the
rows are written by the same steps. Its hash covers the scores only, so a report that is marked
ingested is imported again, which is why a report of which nothing was usable may be marked.

## 3. Runs

Bounds are in the `.cfg` files; the module headers say why they are enough.

| run | question | bounds |
|---|---|---|
| `quality_gate` | is the stored gate that of all verdicts, is the ledger implemented, does every rating end? | 1 run, 3 findings, 2 requests, threshold 4/5 |
| `ci_token` | is a stored token one that was shown, can the owner always get one? | 2 tabs, 1 lost answer, 1 disabled runtime |
| `ci_token_race` | does ci-setup mint once? No: two first fetches both mint | 2 tabs |
| `project_race` | does the task follow the option? Not if two PATCHes overlap | 2 PATCHes, 6 options, 3 models |
| `ci_loop` | do exit codes, stored runs and the project agree, whatever is lost, deleted, re-picked, repeated? is each attempt an `AgentStage`? | 2 attempts of one build, 2 options, 1 PATCH at a time, 1 rotation |
| `agent_run` | what does an exit code mean, are the ceilings shared, does the agent end and its child with it, is it an `AgentStage`? | 2 attempts, ceilings of 2, steps of 0 to 2 tokens, 5 reports |
| `chat` | are turns whole, is the tally exact, does a call fit the cap, does every question end or hang in its query? | 1 turn, 1 ingestion, 1 visit, cap 2, estimates of 1 exceeded by up to 1, 1 retry, 2 hours, 1 crash |
| `recommend` | does the offer follow the weights, is the baseline fair? | 4 rows, 2 models, one of them with two rows of a task, 2 tasks, 3 scores, 2 costs, quantum 1/3, 1 edit during a request |
| `dashboard` | do the totals reconcile, do status and gates agree, does a deploy spare what is there? | 1 run of CI, 1 demo run, 4 findings, 2 token mixes, 3 price pairs, one without the half of a price, 2 windows, 2 days |
| `admission` | capacity, unique e-mails, examples; is the rate limit a bucket, does a challenge sign in once, is every request answered? | 2 requests, 4 spellings, 1 Google identity, 1 challenge, capacity 2, a burst of 1 that takes 2 seconds to fill, 1 second set back, 2 set forward |
| `catalog` | does an ingested source have rows, does a task keep one group while writes do not race? | 2 writers, lists of 1 and 2 rows, 2 groups, 1 source, 1 report, 1 crash |
| `catalog_race` | does a task always keep one group? No: two writers both see it unowned | the same, no crash |

Two of each racing party are enough for the races here: each is a check of one party against a
write of another; a third adds interleavings of the same pairs. Two verdicts of three decide a 0.8
gate both ways. Two rows are the shortest list of which a part can be lost. Capacity 2 with two
requests lets one fill it while the other is between its count and its insert. Two ceilings of two
are met exactly, exceeded by a step and exhausted by the attempt before. A cap that two calls fit
exactly refuses a turn at its first call, its retry or its answer, depending on what the ingestion
holds and on what calls used beyond their estimates; two turns meet only in the tally, where the
ingestion stands for the other. Three rows of one task let an irrelevant row change the
normalisation of the other two, and a quantum of a third makes different rows tie. Where the
configured model of a task is not runnable or not there, the baseline is one of two rows with
different costs. Two runs are enough for a total that mixes gates, and for a hook to find one, or
none and lose one. One challenge for two requests is a challenge used twice; a bucket of one
attempt is full, part filled and empty, its age reaches the point beyond which more changes
nothing, and two seconds set forward fill it at a stroke. Each passing run takes at most four
minutes with two workers and searches between some thousand and seven million distinct states. The
type invariants are proved (section 4) and no run spends its time on them; TLC finds them true on
the same instances.

The three violation runs are disagreements between the code and its own documentation, quoted
under "findings": mint-once (`docs/runbook.md:185`), task and option
(`app/projects/service.py:34`), and one group per task (`app/catalog/service.py:28`). For each
there is a passing property that says what does hold: `OnlyLossLeavesTokenUnshown`,
`TaskFollowsOption` with one PATCH at a time (proved), `UnracedTasksOwnOneGroup`.

More disagreements, which the models follow the code in and no run is about:

* `agent/README.md:89` has `1` as "gate **fail** — a blocking finding", `:116` "Any fetch failure is
  exit `4`", and `:80-81` promises a last line of JSON "never a traceback". `agent/remote.py:54-67` and
  `:105` let `http.client.IncompleteRead` and the like, `UnicodeDecodeError` and `ValueError` through, and
  `agent/__main__.py:145-149` and `:196-204` catch `AgentError` only: status 1 and a traceback, before
  there is a gate or after a pass was stored. `AgentStage`, `AgentRun` and `CiLoop` have that exit.
* `docs/runbook.md:167-168` lists the exit code "`3` token ceiling exceeded". In the code 3 is a refusal
  and a ceiling is 124 (`agent/errors.py`, and `agent/README.md:95-99` says when it moved).
  `ExitTellsLastAttempt` is about the code's numbers.
* The docstring of `app/demo/seed.py:16-19` says the runs are reset and "Re-firing on every sync just
  restores the demo to a known-good state". `seed_demo_data` skips as soon as there is a run
  (`:355-364`), as its own docstring says (`:343-349`). `DemoSeed` and `HookSparesActivity` follow the
  function; the module's docstring describes what `force=True` does. The exception in `late` is the
  other side of it: a run ingested between the count and the delete is deleted, "live demo activity"
  or not.
* `app/savings/service.py:140-146` treats a model with one price as unpriced, `app/demo/seed.py:151-152`
  as one whose other half is free. Demo runs of such a model have costs where ingested ones have none;
  the totals reconcile all the same (`HeadlineReconciles`).

Fairness. `QualityGate`: a started handler goes on (weak), and a request that keeps waiting for a
row lock gets it (strong: Postgres queues waiters). `SignIn`: a request that was let through goes
on, its wait for the registration lock bounded by `lock_timeout`; one that keeps waiting for a
nonce gets it (strong: Postgres queues waiters); the database's clock goes on. `CiToken`: handlers
go on, a disabled runtime is enabled again, and the owner keeps trying as the setup page asks
(strong, since the button comes and goes). `AgentRun`: the agent goes on, time passes, and a child
that keeps its output open writes another event some day; the last is an assumption on OpenCode,
without which the agent waits for ever, as its clock is read only after an event. The event may
mean nothing: `EveryRunEnds` is what the wall clock is for. `Chat`: a question that was asked is
worked on, and the provider answers or fails (its SDK has a timeout). Nothing is assumed of the
query the model wrote: it runs without a statement timeout (`app/chat/execute.py:33-38`) and may
never return, so `EveryTurnEnds` says that a turn ends or stays in its query for ever. Crashes,
deletes, arrivals and timeouts are never forced. No other run assumes fairness.

## 4. Proofs

Every invariant and every safety action property or refinement of a passing run is a theorem,
for all constants that satisfy the named assumptions of the modules and whatever the number of
requests, workers, rows and crashes. Each strengthened invariant named below also holds on the
instance of its run, where TLC evaluated it.

What is assumed. The `ASSUME`s of the modules, which TLC evaluates in the runs: mostly types of
constants, and that the sets summed over or ranked are finite (`CallerAssumption`,
`RowsAssumption`, `KeyAssumption`), that a visit is not a turn, that the unpriced `Null` is no
number, that tokens do not run out. Some theorems have one of three further hypotheses, none of
which can be dropped:

* `OnePatchAtATime`, two PATCHes of a project do not overlap: `project_race` is the
  counterexample without it.
* `AboveHalf`, the configured threshold is above one half. The demo seed gates its runs at a
  constant 0.8 (`app/demo/seed.py`), while the configured threshold is free. Its verdicts are
  all accepted or at least half rejected, so any threshold above a half gates them as 0.8 does;
  at exactly one half a demo run of four findings with two rejected is stored as a risk and
  would pass. The deployed 0.8 satisfies it.
* `OneTaskPerGroup`, a (benchmark, metric) measures one task. `upsert_catalog_row` refuses a
  second group for a task, not a second task for a group, so this is how the bundled catalog is
  filled and no rule of the code. The comment at `app/recommend/service.py:230` counts on it:
  without it a request for two tasks of one group ranks them together, and the baseline may be
  the configured model of the one or a row of the other.

**`Ledger_proofs`: quality gate, dashboard, demo seed.**

* `IInv` is type correctness, `GateMatchesVerdicts`, `TransactionHoldsRun` and
  `PendingGateIsFresh`. The gate alone is not inductive: a commit stores a gate computed earlier,
  so one needs that what the handler read is still the truth (`PendingGateIsFresh`), which holds
  because it has held the row since (`TransactionHoldsRun`). From it follow `StoredGateIsExact`
  and, action by action, `HandlersImplementLedger`: only the commit, the ingest and the delete
  map to ledger steps, everything else stutters.
* `HeadlineAddsUp`. `MoneyInv`: every stored or loaded trio of amounts has savings equal to
  baseline less actual, or nothing at all; sums of the trios then do too, which is where
  `SumTheorems` comes in.
* `ProjectStatusEarned`: a page counts accepted and rated findings of many runs together; the
  margins by which the runs clear the threshold add up (`Margin`), so runs that all pass pass
  together. `DemoStatusEarned` and `HeadlineHonest` add what the loaded gates are (`GatesMatch`,
  and `ViewCurrent` while nothing was written between the two reads).
* `ActivityIsSpared`: verdicts belong to live runs, and the runs that are there while the hook
  seeds came after its count (`LiveAreLate`), so the delete takes nothing it had seen.
* `DashboardTypes`: costs are never negative, those of the seeder's rounding included.

**`CiLoop_proofs`: projects and the CI loop.** `SerialPatchesKeepTask` rests on `LoadedIsStored`.
`LoopInv` matches the two sides of a call: a handler serves the call its agent waits for, with the
gate the agent has (`CallsMatch`); between the commit and the answer the run is there
(`StoredHasRun`), which gives `VerdictsAreRecorded` for the attempts that did not end by a
traceback; the unique key gives `BuildsCountOnce`. While no PATCH has met an attempt, its copies
of the project row are the row (`UndisturbedIsCurrent`), which gives `RunsRecordWhatRan`.
`RunsAreOfOneVersion` is about every attempt and needs that each copy in flight is a consistent
one (`RowsAreConsistent`). `AttemptsImplementStage` maps each step of each attempt to
`AgentStage`.

**`AgentRun_proofs`.** An exit code is decided a step or two after the facts it rests on, so the
invariant says of each step what it knows (`StepKnows`): a killed child has ended the run, the
refusal flag is that of the last answer, and a gate is the gate of the answer at hand.
`PassMeansExamined`, `CodesTellLastAttempt` and `NoChildOutlives` follow, for all ceilings,
numbers of attempts, fail severities and reports. `AgentKeepsContract` maps every step to one of
`AgentStage`, tracebacks included, or a stutter. `AttemptsShareCeilings` rests on
`SharesCeilings`: what an attempt was left, with what the earlier ones used, exceeds a ceiling by
at most one for each of them, since an attempt is never given less than one.

**`CiToken_proofs`.** `NoTokenIsLost` rests on `TokenInHand`: while no answer was lost and no
runtime disabled, the stored token was shown or is in the hands of the request that minted it
last. That request need not be the one that minted first: two first fetches mint twice, and it is
the overwritten token that nobody has to show. `TokenIsKept` is a property of the steps alone.

**`Chat_proofs`: budget and chat.** `BudgetInv` has the tally as an exact account
(`TallyAccounts`), which the floor at zero would falsify if it ever cut; it does not, because the
tally covers the reservations in it (`Covered`). `CapHolds` needs what admitted calls may still
add (`Exposed`) and how much dead workers can hide (`LossBounded`). `ChatInv` adds what a turn has
in hand at each step: calls only where the code makes them (`BusyTurns`), the tokens of the
responses kept so far (`TokensAddUp`), and what it has flushed: rows of open transactions belong
to a turn or visit that is at its flush (`OpenRowsOwned`), a flushed turn has its question and its
answer there in order (`FlushesAreWhole`), and a flushed opener holds the project row
(`OpenersLock`), so that a deletion leaves no flush to be committed after it. `OrderInv` has the
order of ids: all ids were drawn from the sequence, there is no message, open or committed, while
an unraced visit has an empty look (`EmptyLook`), and an unraced opener is least among both
(`OpenersFirst`). It is inductive over the four ways in which rows change (`InsertKeepsOrder`,
`NothingNewKeepsOrder`).

**`SignIn_proofs`: admission and sign-in.** The invariant of `Admission` says of each step under
the lock what it knows: nobody else is past the lock, so the identity is still free and there is
still room; `CapacityHolds`, `EmailsStayUnique` and, for either value of the setting,
`ExamplesComeWithAccount` follow. `SignInCreatesAccounts` is a refinement: every step of the
endpoints is one of `Admission` or leaves it alone, so what is proved there holds behind the limit
and the nonce (`SignInWithinCapacity`). `ChallengesUsedOnce` rests on who holds a nonce: two
sign-ins never hold the same one, one that holds it is its first unless it is late, what was swept
had expired, and the nonce of a challenge still valid is in the table. `RowIsBucket` maps the row
to the `TokenBucket`: taking resets the age, so no second fills it twice, a step back of the clock
is a second that brings less, and a step forward is a `Skip` that brings what it leaves out.

**`Catalog_proofs`: catalog and recommendation.** `UnracedWritesKeepOneGroup`: until a race, a row
about to be written still fits (`CheckedFits`). `IngestedSourcesHaveRows` rests on the shape of
open transactions: an open source belongs to one writer, which has written no row of it yet.
For `OffersFollowWeights` and `CheaperComesFirst`, rounding half to even stays within half a unit
and keeps the order (`RoundedWithinHalf`, `RoundingKeepsOrder`); the sort key is a strict total
order of the rows (`RowsAreOrdered`); in a strict total order of finitely many rows every
position is taken by exactly one (`PositionsAreTaken`), so the ranking lists each row once and the
shortlist is its beginning (`ShortlistIsTop`). What is stored is then a function of the catalog
that was read (`RecommendInv`), whatever is written afterwards. `BaselinesAreFair` needs
`OneTaskPerGroup`.

**`SumTheorems`.** A fold is a recursive function, and the induction theorems of the library take
an operator, which the provers here cannot instantiate. Each induction is therefore done by hand:
a subset of least cardinality that is a counterexample is not empty, and without one of its
elements it is none. The same argument gives the positions of the ranking.

Type correctness is `QualityGateTypes`, `DashboardTypes`, `ConnectionTypes`, `LoopTypes`,
`AgentTypes`, `ChatTypes`, `AdmissionTypes`, `CatalogTypes` and `RecommendTypes`.

Only model-checked: liveness (`EveryRequestEnds`, `OwnerGetsToken`, `EveryRunEnds`,
`EveryTurnEnds`, `EverySignInEnds`, `BucketRefills`), as TLAPS proves no liveness under fairness
here; and what the violation runs refute.

## 5. Not modelled, and the plan

Abstracted everywhere: HTTP parsing and response wording, hashing (a token is its own hash), SQL
beyond what decides visibility and uniqueness, prices and texts. Left out: schema migrations,
configuration loading, logging and metrics, the LLM adapters (a call answers or fails), blob and
secret stores, the Jenkins snippet text, the bundled seed data and the texts of demo findings. The
answer of `submit_feedback` may pair one request's rate with another's gate
(`app/quality/service.py:146`); the model has the step (`Reply`) but no property is stated about
the display. The 500 that the loser of a check-then-insert race gets is modelled as a refusal
everywhere.

The operator role (`app/auth/operator.py`) is one short transaction under an advisory lock of its
own, run by hand from a shell; nothing else writes its column, so there is nothing for its steps
to interleave with. The keyword prefill is a stateless table. The percentage, the series and the
drill-in of the dashboard show again what the totals are made of, and its monthly projections
scale them. Fetching RealVuln's files and rewriting the seed file (`--write-seed`) happen on a
developer's machine. The price and provenance columns that `upsert_catalog_row` compares with a
copy it loaded earlier are not in `CatalogStore`: two writers of one row may leave a mix of both
writers' columns there. The hook of a deploy resets the task of an existing demo project and fills
in its preferences; an owner's PATCH at the same moment meets it like another PATCH, which is what
`project_race` shows. A chat's `llm_call` row has no run and therefore survives its project;
`DeleteProject` of `Chat` keeps it.

Planned, most important first:

1. The price columns of the catalog as data of `CatalogStore`, with what two writers may mix.
2. The steps that liveness rests on as theorems: that a request or a turn which is not answered
   has a step to take, by the same case splits as the invariants.
3. A type invariant for the hook's own variables of `DemoSeed`.
