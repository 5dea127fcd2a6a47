------------------------------- MODULE CiLoop -------------------------------
(***************************************************************************)
(* The CI loop of one project: Jenkins starts the agent (agent/__main__,   *)
(* agent/remote), which fetches its configuration, scans, and POSTs the    *)
(* run; the API handlers (app/auth/deps.require_project_token, app/ci/     *)
(* service.agent_config and ingest_run) serve it, while the owner PATCHes, *)
(* rotates the token or deletes the project (ProjectStore, CiToken).       *)
(* A handler outlives an agent that stopped waiting, and a worker may die  *)
(* at any point without an answer.  Two attempts may carry one build id:   *)
(* Jenkins keeps BUILD_TAG when a stage is restarted.                      *)
(***************************************************************************)
EXTENDS ProjectStore

CONSTANTS
    Attempt,            \* executions of the agent container
    Build, BuildOf,     \* the BUILD_TAG each execution sees
    MaxRotations        \* bound: token rotations in a behaviour

ASSUME BuildAssumption == BuildOf \in [Attempt -> Build]
ASSUME RotationAssumption == MaxRotations \in Nat

VARIABLES
    stored,             \* generation of the stored CI token
    credential, image,  \* what Jenkins has: pasted token, task of the pasted image
    agent,              \* Attempt -> the agent process
    handler,            \* Attempt -> the API handler serving its current call
    runs,               \* the project's ci_run rows
    repicked,           \* attempts whose project was PATCHed on the way (history)
    broken              \* attempts that ended by a traceback (history)

jenkins == <<stored, credential, image>>
history == <<repicked, broken>>
vars == <<storeVars, jenkins, agent, handler, runs, history>>

Gate == {"pass", "fail"}
AgentAt == {"queued", "fetching", "working", "posting", "exited"}
HandlerAt == {"none", "received", "resolved", "authorized", "unique", "stored"}

\* A ci_run row; `did` is history: the configuration the agent worked with.
Run == [build : Build, attempt : Attempt, option : Option, task : Task, gate : Gate, did : Row]

\* agent/errors.py: 0 pass, 1 gate fail, and Python's own status after a traceback;
\* 4 stands for every other exit without a gate (2 malformed, 3 refusal, 4 config/API
\* failure, 124 ceiling).
Exit == {0, 1, 4}
Running == 999      \* has not exited

TypeOK ==
    /\ StoreTypeOK
    /\ stored \in 0 .. MaxRotations /\ credential \in 0 .. MaxRotations
    /\ image \in Task
    /\ agent \in [Attempt -> [at : AgentAt, token : 0 .. MaxRotations, did : Row,
                              gate : Gate \cup {"none"}, exit : Exit \cup {Running}]]
    /\ handler \in [Attempt -> [at : HandlerAt, call : {"config", "ingest"},
                                token : 0 .. MaxRotations, gate : Gate, did : Row, row : Row]]
    /\ runs \subseteq Run
    /\ repicked \subseteq Attempt /\ broken \subseteq Attempt

Idle == [at |-> "none", call |-> "config", token |-> 0, gate |-> "pass",
         did |-> NoRow, row |-> NoRow]

\* The owner has connected Jenkins, pasted the snippet and the first token.
Init ==
    /\ StoreInit
    /\ stored = 0 /\ credential = 0 /\ image = task
    /\ agent = [a \in Attempt |-> [at |-> "queued", token |-> 0, did |-> NoRow,
                                   gate |-> "none", exit |-> Running]]
    /\ handler = [a \in Attempt |-> Idle]
    /\ runs = {} /\ repicked = {} /\ broken = {}

-----------------------------------------------------------------------------
\* The agent.

Call(a, endpoint, token, gate) ==
    handler' = [handler EXCEPT ![a] = [at |-> "received", call |-> endpoint, token |-> token,
                                       gate |-> gate, did |-> agent[a].did, row |-> NoRow]]

Waiting(a) == agent[a].at \in {"fetching", "posting"}

Exits(a, status) ==
    agent' = [agent EXCEPT ![a] = [at |-> "exited", token |-> 0, did |-> NoRow,
                                   gate |-> "none", exit |-> status]]

Respond(a) == handler' = [handler EXCEPT ![a] = Idle]

\* The handler on the other side knows nothing of an agent that is gone.  One that
\* serves a configuration only reads, so it is of no more interest.
HangsUp(a) == IF agent[a].at = "fetching" THEN Respond(a) ELSE UNCHANGED handler

\* docker run with the credential bound; fetch_agent_config.
Start(a) ==
    /\ agent[a].at = "queued"
    /\ agent' = [agent EXCEPT ![a].at = "fetching", ![a].token = credential]
    /\ Call(a, "config", credential, "pass")
    /\ UNCHANGED <<storeVars, jenkins, runs, history>>

\* http_timeout or a broken connection: RemoteError, exit 4, no retry.
Timeout(a) ==
    /\ Waiting(a)
    /\ HangsUp(a) /\ Exits(a, 4)
    /\ UNCHANGED <<storeVars, jenkins, runs, history>>

\* The answer breaks off in the middle, or is no HTTP or no UTF-8: http.client's and
\* the decoder's exceptions are no RemoteError, and nothing above catches them.  The
\* process ends by a traceback, with status 1, and whatever the handler has done or
\* is still to do.
AnswerBreaksOff(a) ==
    /\ Waiting(a)
    /\ HangsUp(a) /\ Exits(a, 1)
    /\ broken' = broken \cup {a}
    /\ UNCHANGED <<storeVars, jenkins, runs, repicked>>

\* review / run_security (AgentRun): a gate and a POST, or one of the failure exits.
\* What the POST carries is the handler's from here on.
Work(a) ==
    /\ agent[a].at = "working"
    /\ \/ \E g \in Gate :
            /\ agent' = [agent EXCEPT ![a] = [at |-> "posting", token |-> 0, did |-> NoRow,
                                              gate |-> g, exit |-> Running]]
            /\ Call(a, "ingest", agent[a].token, g)
       \/ Exits(a, 4) /\ UNCHANGED handler
    /\ UNCHANGED <<storeVars, jenkins, runs, history>>

-----------------------------------------------------------------------------
\* The API.

Serving(a, step) == handler[a].at = step
\* Behind require_project_token nothing looks at the token again.
Advance(a, step) == handler' = [handler EXCEPT ![a].at = step, ![a].token = 0]
\* Behind the commit the copy of the project row is not used again.
Committed(a) ==
    handler' = [handler EXCEPT ![a].at = "stored", ![a].row = NoRow, ![a].did = NoRow]

\* Mutant of Refuse: the HTTP status becomes the exit code.
RefuseWithStatus(a, status) ==
    /\ Respond(a)
    /\ IF Waiting(a) THEN Exits(a, status) ELSE UNCHANGED agent
    /\ UNCHANGED runs

\* An error answer: any HTTPError is exit 4 for the agent that still waits.
Refuse(a, status) ==
    /\ Respond(a)
    /\ IF Waiting(a) THEN Exits(a, 4) ELSE UNCHANGED agent
    /\ UNCHANGED runs

\* require_project_token, db.get(Project): the row every later step works on.
ResolveProject(a) ==
    /\ Serving(a, "received")
    /\ IF project = "live"
       THEN /\ handler' = [handler EXCEPT ![a].at = "resolved",
                              ![a].row = [option |-> option, task |-> task]]
            /\ UNCHANGED <<agent, runs>>
       ELSE Refuse(a, 404)
    /\ UNCHANGED <<storeVars, jenkins, history>>

\* require_project_token, the connection: absent or another hash is a 401.
VerifyToken(a) ==
    /\ Serving(a, "resolved")
    /\ IF project = "live" /\ handler[a].token = stored
       THEN Advance(a, "authorized") /\ UNCHANGED <<agent, runs>>
       ELSE Refuse(a, 401)
    /\ UNCHANGED <<storeVars, jenkins, history>>

\* agent_config: 422 without an enabled runtime config.  The agent refuses a
\* task its image was not built for (_check_image_task, exit 4).
ServeConfig(a) ==
    /\ Serving(a, "authorized") /\ handler[a].call = "config"
    /\ IF ModelOf[handler[a].row.option] \in enabled
       THEN /\ Respond(a)
            /\ IF agent[a].at # "fetching" THEN UNCHANGED agent
               ELSE IF handler[a].row.task # image THEN Exits(a, 4)
               ELSE agent' = [agent EXCEPT ![a].at = "working", ![a].did = handler[a].row]
            /\ UNCHANGED runs
       ELSE Refuse(a, 422)
    /\ UNCHANGED <<storeVars, jenkins, history>>

Recorded(build) == \E run \in runs : run.build = build

\* ingest_run: a build id that is already stored is a 409.
CheckBuild(a) ==
    /\ Serving(a, "authorized") /\ handler[a].call = "ingest"
    /\ IF Recorded(BuildOf[a])
       THEN Refuse(a, 409)
       ELSE Advance(a, "unique") /\ UNCHANGED <<agent, runs>>
    /\ UNCHANGED <<storeVars, jenkins, history>>

\* The ci_run row built from the project row the handler resolved.
NewRun(a, row) ==
    [build |-> BuildOf[a], attempt |-> a, option |-> row.option, task |-> row.task,
     gate |-> handler[a].gate, did |-> handler[a].did]

\* Mutant of InsertRun: no uq_ci_run_project_build behind the check.
InsertRunUnconstrained(a) ==
    /\ Serving(a, "unique")
    /\ IF project = "live"
       THEN /\ runs' = runs \cup {NewRun(a, handler[a].row)}
            /\ Committed(a) /\ UNCHANGED agent
       ELSE Refuse(a, 500)
    /\ UNCHANGED <<storeVars, jenkins, history>>

\* Mutant of InsertRun: the project's task is read again when the run is built.
InsertRunTaskReloaded(a) ==
    /\ Serving(a, "unique")
    /\ IF project = "live" /\ ~Recorded(BuildOf[a])
       THEN /\ runs' = runs \cup {NewRun(a, [handler[a].row EXCEPT !.task = task])}
            /\ Committed(a) /\ UNCHANGED agent
       ELSE Refuse(a, 500)
    /\ UNCHANGED <<storeVars, jenkins, history>>

\* Mutant of InsertRun: the project row is refreshed before the run is built.
InsertRunRefreshed(a) ==
    /\ Serving(a, "unique")
    /\ IF project = "live" /\ ~Recorded(BuildOf[a])
       THEN /\ runs' = runs \cup {NewRun(a, [option |-> option, task |-> task])}
            /\ Committed(a) /\ UNCHANGED agent
       ELSE Refuse(a, 500)
    /\ UNCHANGED <<storeVars, jenkins, history>>

\* The run and its findings commit, with the model of the row's option and the
\* row's task; the unique and the foreign key turn a lost race into a 500.
InsertRun(a) ==
    /\ Serving(a, "unique")
    /\ IF project = "live" /\ ~Recorded(BuildOf[a])
       THEN /\ runs' = runs \cup {NewRun(a, handler[a].row)}
            /\ Committed(a) /\ UNCHANGED agent
       ELSE Refuse(a, 500)
    /\ UNCHANGED <<storeVars, jenkins, history>>

\* Mutant of Acknowledge: the agent's exit code ignores its gate.
AcknowledgeAsPass(a) ==
    /\ Serving(a, "stored")
    /\ Respond(a)
    /\ IF agent[a].at = "posting" THEN Exits(a, 0) ELSE UNCHANGED agent
    /\ UNCHANGED <<storeVars, jenkins, runs, history>>

\* 201; the agent exits by its gate.  (Reading the run back for the answer fails
\* when the project has just been deleted: 500.)
Acknowledge(a) ==
    /\ Serving(a, "stored")
    /\ IF project = "live"
       THEN /\ Respond(a)
            /\ IF agent[a].at = "posting"
               THEN Exits(a, IF agent[a].gate = "pass" THEN 0 ELSE 1)
               ELSE UNCHANGED agent
            /\ UNCHANGED runs
       ELSE Refuse(a, 500)
    /\ UNCHANGED <<storeVars, jenkins, history>>

\* A worker dies: what is not committed is rolled back, nobody is told.
KillHandler(a) ==
    /\ handler[a].at # "none"
    /\ Respond(a)
    /\ UNCHANGED <<storeVars, jenkins, agent, runs, history>>

-----------------------------------------------------------------------------
\* The owner and the operator.

RotateToken ==
    /\ project = "live" /\ stored < MaxRotations
    /\ stored' = stored + 1
    /\ UNCHANGED <<storeVars, credential, image, agent, handler, runs, history>>

\* The snippet of the current task and the current token are pasted into Jenkins.
PasteSetup ==
    /\ project = "live"
    /\ credential' = stored /\ image' = task
    /\ UNCHANGED <<storeVars, stored, agent, handler, runs, history>>

\* Between the reads of the project for its configuration and for its POST.
OnTheWay(a) == agent[a].at \in {"fetching", "working"} \/ handler[a].at = "received"

OwnerPatches ==
    /\ \E e \in Editor : Patch(e)
    /\ repicked' = IF columns' = columns THEN repicked
                   ELSE repicked \cup {a \in Attempt : OnTheWay(a)}
    /\ UNCHANGED <<jenkins, agent, handler, runs, broken>>

\* The FK cascade removes the runs with the project.
OwnerDeletes ==
    /\ DeleteProject
    /\ runs' = {}
    /\ UNCHANGED <<jenkins, agent, handler, history>>

OperatorSeeds ==
    /\ \E m \in Model : SetRuntime(m)
    /\ UNCHANGED <<jenkins, agent, handler, runs, history>>

Handle(a) ==
    \/ ResolveProject(a) \/ VerifyToken(a) \/ ServeConfig(a)
    \/ CheckBuild(a) \/ InsertRun(a) \/ Acknowledge(a)

Next ==
    \/ \E a \in Attempt : \/ Start(a) \/ Timeout(a) \/ AnswerBreaksOff(a) \/ Work(a)
                          \/ Handle(a) \/ KillHandler(a)
    \/ RotateToken \/ PasteSetup \/ OwnerPatches \/ OwnerDeletes \/ OperatorSeeds

Spec == Init /\ [][Next]_vars

-----------------------------------------------------------------------------

\* A build that ended green, or red by its gate, has left exactly that verdict on the
\* dashboard, as long as the project is there: lost answers, dead workers and
\* restarted stages never turn an unrecorded scan into a pass.  A red build whose
\* agent ended by a traceback says nothing: its run may be stored, as a pass even.
VerdictIsRecorded ==
    \A a \in Attempt : agent[a].exit = 0 \/ (agent[a].exit = 1 /\ a \notin broken) =>
        \/ project = "deleted"
        \/ \E run \in runs : /\ run.attempt = a
                             /\ run.gate = IF agent[a].exit = 0 THEN "pass" ELSE "fail"

Stage(a) == INSTANCE AgentStage WITH
    stage <- CASE agent[a].at = "exited" -> "exited"
               [] agent[a].at \in {"queued", "fetching"} -> "starting"
               [] agent[a].at = "posting" -> agent[a].gate
               [] OTHER -> "working",
    exit <- agent[a].exit

\* Seen from Jenkins every attempt is an agent as AgentRun opens it: whatever the API
\* answers, loses or refuses, its exit code is its own gate's, a failure's, or that of
\* a traceback around one of its two calls.
AttemptsAreAgents ==
    /\ \A a \in Attempt : Stage(a)!Init
    /\ [][\A a \in Attempt : agent'[a] # agent[a] =>
              [Stage(a)!Next]_(Stage(a)!stageVars)]_agent

\* Savings are summed over runs, so a build must count once, although the check
\* for an existing run and the insert are two statements.
OneRunPerBuild ==
    \A run1, run2 \in runs : run1.build = run2.build => run1 = run2

\* A run is costed on the option and labelled with the task of ONE version of the
\* project row, not on a mix of before and after a concurrent re-pick.
RunFromOneRowVersion == \A run \in runs : run.task = TaskOf[run.option]

\* A stored run names the option (hence the model it is costed on) and the task the
\* agent worked with, unless the project was PATCHed between the two reads of its
\* row, the agent's configuration and the authentication of its POST.
UndisturbedRunRecordsWhatRan ==
    \A run \in runs : run.attempt \notin repicked =>
        run.did = [option |-> run.option, task |-> run.task]

=============================================================================
