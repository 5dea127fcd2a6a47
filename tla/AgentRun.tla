------------------------------ MODULE AgentRun ------------------------------
(***************************************************************************)
(* One execution of the CI agent, from its configuration to its exit code  *)
(* (agent/__main__): the review task, one call to the model about a diff   *)
(* (agent/review), and the security task, up to MaxAttempts runs of the    *)
(* OpenCode child process that share the ceilings (agent/security).  The   *)
(* child writes an event per line; the ceilings are tested when one has    *)
(* been read.  Time is counted while the agent waits for the child.        *)
(* Module CiLoop has the two calls to the API and what goes on behind.     *)
(***************************************************************************)
EXTENDS Integers, FiniteSets

CONSTANTS
    MaxAttempts, MaxSteps, MaxSeconds,  \* AGENT_MAX_ATTEMPTS, _STEPS, _SECONDS
    TokenCeiling,       \* effective_token_ceiling
    StepTokens,         \* bound: largest input + output of one step or one call
    FailSeverities,     \* task -> effective_fail_severities
    Report              \* bound: the sets of rows a model's answer may report

ASSUME CeilingAssumption ==
    {MaxAttempts, MaxSteps, MaxSeconds, TokenCeiling, StepTokens} \subseteq Nat \ {0}

\* A row of an answer: its severity after map_severity, and whether to_findings
\* (or the schema of the review) takes it, drops it, or stumbles over it.
Row == [severity : {"critical", "high", "low"}, shape : {"usable", "unusable", "broken"}]
ASSUME ReportAssumption == Report \subseteq SUBSET Row

VARIABLES
    task,               \* "review" | "security"
    pc,
    attempt, elapsed,   \* attempts begun, seconds of the finished ones
    totals, run,        \* usage of the finished attempts, and of this one
    limit,              \* the ceilings passed to this attempt
    silent,             \* seconds since the child's last line
    child,              \* "none" | "running" | "exited" | "failed" | "killed"
    answer,             \* the text of the last attempt or call
    refused,            \* the loop's flag
    gate,               \* AgentRunResult.gate, or "none"
    asked, posted,      \* was the result to be POSTed, was it
    exit

scan == <<attempt, elapsed, totals, run, limit, silent, child, refused>>
result == <<gate, asked, posted>>
vars == <<task, pc, scan, answer, result, exit>>

Usage == [tokens : Nat, steps : Nat]
NoUsage == [tokens |-> 0, steps |-> 0]
Running == 999

\* What the text is: nothing, prose, prose around a JSON report, the JSON alone;
\* does it contain a refusal marker; what it reports.
Answer == [text : {"blank", "prose", "embedded", "json"}, marker : {"refusal", "no"},
           rows : Report \cup {{}}]
Blank == [text |-> "blank", marker |-> "no", rows |-> {}]
Text == {a \in Answer : a.text # "blank" /\ (a.text = "prose" => a.rows = {})}

TypeOK ==
    /\ task \in {"review", "security"}
    /\ pc \in {"resolving", "calling", "attempting", "streaming", "waiting", "judging",
               "deciding", "concluding", "exited"}
    /\ attempt \in 0 .. MaxAttempts
    /\ elapsed \in Nat /\ silent \in Nat
    /\ totals \in Usage
    /\ run \in [tokens : Nat, steps : Nat, seconds : Nat]
    /\ limit \in [tokens : Nat, steps : Nat, seconds : Nat]
    /\ child \in {"none", "running", "exited", "failed", "killed"}
    /\ answer \in Answer
    /\ refused \in BOOLEAN
    /\ gate \in {"none", "pass", "fail"}
    /\ asked \in BOOLEAN /\ posted \in BOOLEAN
    /\ exit \in {0, 1, 2, 3, 4, 124, Running}

Init ==
    /\ task \in {"review", "security"}
    /\ pc = "resolving"
    /\ attempt = 0 /\ elapsed = 0 /\ totals = NoUsage
    /\ run = [tokens |-> 0, steps |-> 0, seconds |-> 0]
    /\ limit = [tokens |-> TokenCeiling, steps |-> MaxSteps, seconds |-> MaxSeconds]
    /\ silent = 0 /\ child = "none"
    /\ answer = Blank /\ refused = FALSE
    /\ gate = "none" /\ asked = FALSE /\ posted = FALSE /\ exit = Running

Exits(code) == pc' = "exited" /\ exit' = code

-----------------------------------------------------------------------------
\* Configuration, and the review.

\* AgentConfig, _resolve, _check_image_task, the credential, the client or the
\* OpenCode binary, the diff or the workspace: any of them may be amiss.  An answer
\* of the API that is cut short, or no UTF-8, or carries no number where one is due,
\* and an address that is none, raise what main does not catch: status 1.
Resolve ==
    /\ pc = "resolving"
    /\ \/ Exits(4)
       \/ Exits(1)
       \/ pc' = (IF task = "review" THEN "calling" ELSE "attempting") /\ UNCHANGED exit
    /\ UNCHANGED <<task, scan, answer, result>>

\* review's preflight: prompt and output budget exceed the ceiling.
Preflight ==
    /\ pc = "calling"
    /\ Exits(124)
    /\ UNCHANGED <<task, scan, answer, result>>

\* The gate of an answer's usable rows; broken rows raise.
GateOf(rows) ==
    IF \E r \in rows : r.shape = "usable" /\ r.severity \in FailSeverities[task]
    THEN "fail" ELSE "pass"

\* parse_findings is strict: the JSON alone, every row valid.
Parsed(a) ==
    IF a.text = "json"
    THEN IF \A r \in a.rows : r.shape = "usable" THEN GateOf(a.rows) ELSE "malformed"
    ELSE IF a.marker = "refusal" THEN "refused" ELSE "malformed"

\* The call fails, or is over the ceiling, or its answer is parsed.
CallModel ==
    /\ pc = "calling"
    /\ UNCHANGED <<task, attempt, elapsed, run, limit, silent, child, refused, asked, posted>>
    /\ \/ Exits(4) /\ UNCHANGED <<totals, answer, gate>>
       \/ \E n \in 0 .. StepTokens, a \in Text \cup {Blank} :
            /\ totals' = [tokens |-> n, steps |-> 0]
            /\ answer' = a
            /\ IF n > TokenCeiling THEN Exits(124) /\ UNCHANGED gate
               ELSE IF Parsed(a) \in {"pass", "fail"}
               THEN gate' = Parsed(a) /\ pc' = "concluding" /\ UNCHANGED exit
               ELSE Exits(IF Parsed(a) = "refused" THEN 3 ELSE 2) /\ UNCHANGED gate

-----------------------------------------------------------------------------
\* The security loop.

AtLeastOne(n) == IF n < 1 THEN 1 ELSE n

\* Mutant of Remaining: every attempt has the whole wall clock.
RemainingFullClock ==
    [tokens |-> AtLeastOne(TokenCeiling - totals.tokens),
     steps |-> AtLeastOne(MaxSteps - totals.steps),
     seconds |-> MaxSeconds]

\* What the finished attempts leave of the ceilings.
Remaining ==
    [tokens |-> AtLeastOne(TokenCeiling - totals.tokens),
     steps |-> AtLeastOne(MaxSteps - totals.steps),
     seconds |-> AtLeastOne(MaxSeconds - elapsed)]

StartAttempt ==
    /\ pc = "attempting"
    /\ attempt' = attempt + 1
    /\ limit' = Remaining
    /\ run' = [tokens |-> 0, steps |-> 0, seconds |-> 0] /\ silent' = 0
    /\ child' = "running" /\ answer' = Blank
    /\ pc' = "streaming"
    /\ UNCHANGED <<task, elapsed, totals, refused, result, exit>>

\* The attempt is over: its usage and its time count.
Finish(r) ==
    /\ totals' = [tokens |-> totals.tokens + r.tokens, steps |-> totals.steps + r.steps]
    /\ elapsed' = elapsed + r.seconds
    /\ run' = [tokens |-> 0, steps |-> 0, seconds |-> 0]
    /\ silent' = 0

\* After the loop the examined files are counted before anything else, and an odd
\* event raises there: 4, whatever the loop came to.
Aborts(code) == Exits(code) \/ Exits(4)

Over(used, max) == max # 0 /\ used > max

\* Mutant of Tripped: no wall clock.
TrippedByWork(r) == Over(r.tokens, limit.tokens) \/ Over(r.steps, limit.steps)

Tripped(r) ==
    \/ Over(r.tokens, limit.tokens) \/ Over(r.steps, limit.steps)
    \/ Over(r.seconds, limit.seconds)

\* A line of the event stream: a step's usage, a piece of the text, or anything
\* else; a ceiling kills the process group and ends the loop.  (A line that is no
\* JSON is skipped before the ceilings are tested: it is as good as silence.)
ReadLine(r, a) ==
    /\ pc = "streaming" /\ child = "running"
    /\ answer' = a
    /\ IF Tripped(r)
       THEN Finish(r) /\ child' = "killed" /\ Aborts(124)
       ELSE run' = r /\ silent' = 0 /\ UNCHANGED <<totals, elapsed, child, pc, exit>>
    /\ UNCHANGED <<task, attempt, limit, refused, result>>

Line ==
    \/ \E n \in 0 .. StepTokens :
          ReadLine([run EXCEPT !.tokens = @ + n, !.steps = @ + 1], answer)
    \/ \E a \in Text : (answer.marker = "refusal" => a.marker = "refusal") /\ ReadLine(run, a)
    \/ ReadLine(run, answer)

\* Mutant of BreakStream: no finally.
BreakStreamLeavingChild ==
    /\ pc = "streaming" /\ child = "running"
    /\ Exits(4)
    /\ UNCHANGED <<task, scan, answer, result>>

\* Mutant of BreakStream: the odd number is no AgentError, and passes main by.
BreakStreamRaises ==
    /\ pc = "streaming" /\ child = "running"
    /\ child' = "killed"
    /\ Exits(1)
    /\ UNCHANGED <<task, attempt, elapsed, totals, run, limit, silent, refused, answer,
                   result>>

\* An event whose numbers are none raises; finally kills the child.
BreakStream ==
    /\ pc = "streaming" /\ child = "running"
    /\ child' = "killed"
    /\ Exits(4)
    /\ UNCHANGED <<task, attempt, elapsed, totals, run, limit, silent, refused, answer,
                   result>>

\* The child closes its output; the agent waits for its exit what is left of the
\* clock, at least a second.
CloseOutput ==
    /\ pc = "streaming" /\ child = "running"
    /\ limit' = [limit EXCEPT !.seconds = run.seconds + AtLeastOne(@ - run.seconds)]
    /\ pc' = "waiting"
    /\ UNCHANGED <<task, attempt, elapsed, totals, run, silent, child, refused, answer,
                   result, exit>>

ChildExits ==
    /\ pc = "waiting" /\ child = "running"
    /\ child' \in {"exited", "failed"}
    /\ Finish(run)
    /\ pc' = "judging"
    /\ UNCHANGED <<task, attempt, limit, refused, answer, result, exit>>

WaitTimeout ==
    /\ pc = "waiting" /\ child = "running" /\ run.seconds >= limit.seconds
    /\ child' = "killed"
    /\ Finish(run)
    /\ Aborts(124)
    /\ UNCHANGED <<task, attempt, limit, refused, answer, result>>

\* A second passes without a line (bound: twice the clock).
Tick ==
    /\ child = "running" /\ pc \in {"streaming", "waiting"}
    /\ run.seconds < IF pc = "streaming" THEN 2 * MaxSeconds + 1 ELSE limit.seconds
    /\ run' = [run EXCEPT !.seconds = @ + 1]
    /\ silent' = IF pc = "streaming" THEN silent + 1 ELSE silent
    /\ UNCHANGED <<task, pc, attempt, elapsed, totals, limit, child, refused, answer, result, exit>>

Reports(a) == a.text \in {"json", "embedded"}

Again == pc' = IF attempt < MaxAttempts THEN "attempting" ELSE "deciding"

\* Mutant of Judge: an attempt that is no refusal leaves the flag as it was.
JudgeKeepsFlag ==
    /\ pc = "judging"
    /\ UNCHANGED <<task, attempt, elapsed, totals, run, limit, silent, child, answer,
                   result>>
    /\ IF child = "failed" /\ answer.text = "blank"
       THEN Exits(4) /\ UNCHANGED refused
       ELSE /\ refused' = (refused \/ answer.marker = "refusal")
            /\ IF answer.marker # "refusal" /\ Reports(answer) THEN pc' = "deciding" ELSE Again
            /\ UNCHANGED exit

\* Died without a word: no retry.  A refusal marker anywhere in the text comes
\* before the report; a refusal and a text without a report are retried.
Judge ==
    /\ pc = "judging"
    /\ UNCHANGED <<task, attempt, elapsed, totals, run, limit, silent, child, answer,
                   result>>
    /\ IF child = "failed" /\ answer.text = "blank"
       THEN Exits(4) /\ UNCHANGED refused
       ELSE /\ refused' = (answer.marker = "refusal")
            /\ IF answer.marker # "refusal" /\ Reports(answer) THEN pc' = "deciding" ELSE Again
            /\ UNCHANGED exit

\* After the loop: refused, malformed, or the gate of the rows (a row that is no
\* Semgrep row at all raises).
Decide ==
    /\ pc = "deciding"
    /\ UNCHANGED <<task, scan, answer, asked, posted>>
    /\ \/ refused /\ Aborts(3) /\ UNCHANGED gate
       \/ ~ refused /\ ~ Reports(answer) /\ Aborts(2) /\ UNCHANGED gate
       \/ ~ refused /\ Reports(answer) /\ Exits(4) /\ UNCHANGED gate
       \/ /\ ~ refused /\ Reports(answer)
          /\ \A r \in answer.rows : r.shape # "broken"
          /\ gate' = GateOf(answer.rows) /\ pc' = "concluding" /\ UNCHANGED exit

-----------------------------------------------------------------------------
\* The result.

GateExit == IF gate = "pass" THEN 0 ELSE 1

\* Mutant of Conclude: the exit code is the gate's even if the POST failed.
ConcludeAnyway ==
    /\ pc = "concluding"
    /\ \/ asked' = FALSE /\ UNCHANGED posted
       \/ asked' = TRUE /\ posted' \in BOOLEAN
    /\ Exits(GateExit)
    /\ UNCHANGED <<task, scan, answer, gate>>

\* With MODELMATCH_POST_RESULT the run is POSTed.  That needs the API and a build
\* id, and may fail: 4, whatever the gate, or a traceback (see Resolve): 1, whatever
\* the gate.
Conclude ==
    /\ pc = "concluding"
    /\ \/ asked' = FALSE /\ Exits(GateExit) /\ UNCHANGED posted
       \/ asked' = TRUE /\ Exits(GateExit) /\ posted' = TRUE
       \/ asked' = TRUE /\ Exits(4) /\ UNCHANGED posted
       \/ asked' = TRUE /\ Exits(1) /\ UNCHANGED posted
    /\ UNCHANGED <<task, scan, answer, gate>>

Child == Line \/ BreakStream \/ CloseOutput \/ ChildExits

Agent == Resolve \/ Preflight \/ CallModel \/ StartAttempt \/ WaitTimeout \/ Judge \/ Decide
         \/ Conclude

Next == Agent \/ Child \/ Tick

Spec == Init /\ [][Next]_vars

\* The agent goes on, time passes, and a child that has not closed its output
\* writes another event some day, which may mean nothing.
FairSpec == Spec /\ WF_vars(Agent) /\ WF_vars(Child) /\ WF_vars(Tick)

-----------------------------------------------------------------------------

\* Exit 0 is the only pass: whatever was retried, cut off or lost on the way, the
\* model has reported on the code, reported nothing blocking in a row that can be
\* posted (others are dropped), was not cut off, and the run is on the dashboard if
\* it was to be posted.
PassIsExamined ==
    exit = 0 =>
        /\ Reports(answer)
        /\ \A r \in answer.rows : r.shape = "usable" => r.severity \notin FailSeverities[task]
        /\ child # "killed"
        /\ asked => posted

\* The codes that are no verdict name what the LAST attempt came to, not an earlier
\* one: 3 a refusal, 2 an answer without a usable report, 124 a ceiling.
ExitTellsLastAttempt ==
    /\ exit = 3 => answer.marker = "refusal"
    /\ exit = 2 => ~ Reports(answer) \/ task = "review"
    /\ exit = 124 => child = "killed" \/ task = "review"
    /\ exit \in {0, 1} /\ task = "security" => answer.marker # "refusal"

\* The attempts share the ceilings.  Together they exceed tokens and steps by the
\* step that trips and by one for each attempt begun on an exhausted ceiling; the
\* clock is read when a line has come, so only a child that says nothing outlasts it.
CeilingsHold ==
    /\ task = "security" =>
          /\ totals.tokens + run.tokens <= TokenCeiling + MaxAttempts - 1 + StepTokens
          /\ totals.steps + run.steps <= MaxSteps + MaxAttempts
    /\ pc = "streaming" => run.seconds - silent <= AtLeastOne(MaxSeconds - elapsed)

\* However the attempt ended, its child does not outlive it.
ChildIsGone == pc \notin {"streaming", "waiting"} => child # "running"

\* What the steps before an exit know: inductive together with the type invariant.
StepKnows ==
    /\ pc = "exited" <=> exit # Running
    /\ pc \in {"resolving", "calling"} => attempt = 0
    /\ pc = "resolving" => answer = Blank
    /\ pc = "calling" => task = "review"
    /\ pc = "attempting" => attempt < MaxAttempts
    /\ child = "killed" => pc = "exited"
    /\ pc = "deciding" => (refused <=> answer.marker = "refusal")
    /\ pc = "concluding" =>
          /\ Reports(answer)
          /\ gate = GateOf(answer.rows)
          /\ task = "security" => answer.marker # "refusal"

IInv == TypeOK /\ StepKnows /\ ChildIsGone /\ PassIsExamined /\ ExitTellsLastAttempt

Stage == INSTANCE AgentStage WITH
    stage <- CASE pc = "exited" -> "exited"
               [] pc = "resolving" -> "starting"
               [] pc = "concluding" -> gate
               [] OTHER -> "working",
    exit <- exit

\* The agent keeps the contract that Jenkins and CiLoop go by: whatever path it takes
\* through attempts, ceilings and parsers, 0 is the pass it had come to; 1 is the
\* fail it had come to, or a traceback around one of the two calls to the API and
\* never one out of the work between them; and a gate once reached is lost only
\* where the run is posted.
ImplementsStage == Stage!Spec

\* The agent ends, even if the child chatters for ever without finishing a step.
EveryRunEnds == <>(pc = "exited")

=============================================================================
