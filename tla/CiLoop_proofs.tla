---------------------------- MODULE CiLoop_proofs ---------------------------
(***************************************************************************)
(* The CI loop of a project, for any attempts, build ids, options, tasks,  *)
(* models and token rotations.  First the project row under PATCHes that   *)
(* do not overlap (with two that do, its task parts from its option: the   *)
(* run MCProjectStoreRace), then the loop around it.                       *)
(***************************************************************************)
EXTENDS CiLoop, TLAPS

USE OptionAssumption DEF history

-----------------------------------------------------------------------------
\* The project row.

OnePatchAtATime == \A e1, e2 \in Editor : e1 = e2

RowInv == TaskFollowsOption /\ LoadedIsStored

LEMMA NoRowIsRow == NoRow \in Row /\ NoRow.task = TaskOf[NoRow.option]
<1>1. (CHOOSE o \in Option : TRUE) \in Option
  OBVIOUS
<1> QED
  BY <1>1 DEF NoRow, Row

\* An accepted PATCH turns a row into a row, and a consistent one into a
\* consistent one.
LEMMA EditedIsConsistent ==
    ASSUME NEW e \in Editor, loaded[e] \in Row,
           NEW o \in Option \cup {Omitted}, NEW t \in Task \cup {Omitted}
    PROVE  /\ Edited(e, o, t) \in Row
           /\ loaded[e].task = TaskOf[loaded[e].option] =>
                 Edited(e, o, t).task = TaskOf[Edited(e, o, t).option]
<1>1. CASE o # Omitted
  BY <1>1 DEF Edited, Row
<1>2. CASE o = Omitted /\ t # Omitted
  BY <1>2 DEF Edited, Row
<1>3. CASE o = Omitted /\ t = Omitted
  BY <1>3 DEF Edited, Row
<1> QED
  BY <1>1, <1>2, <1>3

\* PATCHes and deletions keep the types of the project row and of its copies.
LEMMA StoreTyping == StoreTypeOK /\ [StoreNext]_storeVars => StoreTypeOK'
<1> SUFFICES ASSUME StoreTypeOK, [StoreNext]_storeVars PROVE StoreTypeOK'
    OBVIOUS
<1> USE DEF columns, StoreTypeOK
<1>1. ASSUME NEW e \in Editor, LoadProject(e) PROVE StoreTypeOK'
  BY <1>1 DEF LoadProject, Row
<1>2. ASSUME NEW e \in Editor,
             NEW o \in Option \cup {Omitted}, NEW t \in Task \cup {Omitted},
             SavePatch(e, o, t)
      PROVE  StoreTypeOK'
  <2>1. option' \in Option /\ task' \in Task
    BY <1>2, EditedIsConsistent DEF SavePatch, Row
  <2> QED
    BY <1>2, <2>1, NoRowIsRow DEF SavePatch, Close
<1>3. CASE DeleteProject
  BY <1>3 DEF DeleteProject
<1>4. ASSUME NEW m \in Model, SetRuntime(m) PROVE StoreTypeOK'
  BY <1>4 DEF SetRuntime
<1>5. CASE UNCHANGED storeVars
  BY <1>5 DEF storeVars
<1> QED
  BY <1>1, <1>2, <1>3, <1>4, <1>5 DEF StoreNext, Patch

\* While PATCHes take turns, a loaded copy is the stored row, and a save keeps option
\* and task together.
LEMMA RowStep ==
    ASSUME OnePatchAtATime
    PROVE  StoreTypeOK /\ RowInv /\ [StoreNext]_storeVars => RowInv'
<1> SUFFICES ASSUME StoreTypeOK, RowInv, [StoreNext]_storeVars PROVE RowInv'
    OBVIOUS
<1> USE DEF RowInv, columns
<1>1. ASSUME NEW e \in Editor, LoadProject(e) PROVE RowInv'
  BY <1>1 DEF LoadProject, StoreTypeOK, TaskFollowsOption, LoadedIsStored, Row
<1>2. ASSUME NEW e \in Editor,
             NEW o \in Option \cup {Omitted}, NEW t \in Task \cup {Omitted},
             SavePatch(e, o, t)
      PROVE  RowInv'
  <2>1. loaded[e] = [option |-> option, task |-> task] /\ loaded[e] \in Row
    BY <1>2 DEF SavePatch, LoadedIsStored, StoreTypeOK
  <2>2. Edited(e, o, t).task = TaskOf[Edited(e, o, t).option]
    BY <2>1, EditedIsConsistent DEF TaskFollowsOption
  <2>3. \/ option' = option /\ task' = task
        \/ option' = Edited(e, o, t).option /\ task' = Edited(e, o, t).task
    BY <1>2, <2>1 DEF SavePatch
  <2>4. TaskFollowsOption'
    BY <2>2, <2>3 DEF TaskFollowsOption
  <2>5. LoadedIsStored'
    BY <1>2 DEF OnePatchAtATime, SavePatch, Close, StoreTypeOK, LoadedIsStored
  <2> QED
    BY <2>4, <2>5
<1>3. CASE DeleteProject
  BY <1>3 DEF DeleteProject, TaskFollowsOption, LoadedIsStored
<1>4. ASSUME NEW m \in Model, SetRuntime(m) PROVE RowInv'
  BY <1>4 DEF SetRuntime, TaskFollowsOption, LoadedIsStored
<1>5. CASE UNCHANGED storeVars
  BY <1>5 DEF storeVars, TaskFollowsOption, LoadedIsStored
<1> QED
  BY <1>1, <1>2, <1>3, <1>4, <1>5 DEF StoreNext, Patch

\* The first row is one of a checked PATCH.
LEMMA StoreInitial == StoreInit => StoreTypeOK /\ RowInv
BY NoRowIsRow
   DEF StoreInit, RowInv, StoreTypeOK, TaskFollowsOption, LoadedIsStored

\* The task follows the option through any sequence of PATCHes that do not
\* overlap, each of which changes the columns it names and no others.
THEOREM SerialPatchesKeepTask ==
    ASSUME OnePatchAtATime
    PROVE  StoreSpec => []TaskFollowsOption
<1>1. StoreSpec => [](StoreTypeOK /\ RowInv)
  BY StoreInitial, StoreTyping, RowStep, PTL DEF StoreSpec
<1> QED
  BY <1>1, PTL DEF RowInv

-----------------------------------------------------------------------------
\* The loop: its types.

\* Every step of the loop is a step of the project row or leaves it alone.
LEMMA LoopStepsStore == Next => [StoreNext]_storeVars
<1> SUFFICES ASSUME Next PROVE StoreNext \/ UNCHANGED storeVars
  OBVIOUS
<1>1. ASSUME NEW a \in Attempt,
             \/ Start(a) \/ Timeout(a) \/ AnswerBreaksOff(a) \/ Work(a)
             \/ Handle(a) \/ KillHandler(a)
      PROVE  UNCHANGED storeVars
  BY <1>1 DEF Start, Timeout, AnswerBreaksOff, Work, Handle, KillHandler, ResolveProject, VerifyToken,
              ServeConfig, CheckBuild, InsertRun, Acknowledge
<1>2. CASE RotateToken \/ PasteSetup
  BY <1>2 DEF RotateToken, PasteSetup
<1>3. CASE OwnerPatches \/ OwnerDeletes \/ OperatorSeeds
  BY <1>3 DEF OwnerPatches, OwnerDeletes, OperatorSeeds, StoreNext
<1> QED
  BY <1>1, <1>2, <1>3 DEF Next

LEMMA RowIsRow ==
    ASSUME StoreTypeOK
    PROVE  [option |-> option, task |-> task] \in Row
BY DEF StoreTypeOK, Row

AgentRecord == [at : AgentAt, token : 0 .. MaxRotations, did : Row,
                gate : Gate \cup {"none"}, exit : Exit \cup {Running}]
HandlerRecord == [at : HandlerAt, call : {"config", "ingest"}, token : 0 .. MaxRotations,
                  gate : Gate, did : Row, row : Row]

LEMMA IdleIsHandler == Idle \in HandlerRecord
BY NoRowIsRow, RotationAssumption DEF Idle, HandlerRecord, HandlerAt, Gate

LEMMA AgentMoves ==
    ASSUME NEW r \in AgentRecord, NEW at \in AgentAt, NEW token \in 0 .. MaxRotations,
           NEW did \in Row, NEW gate \in Gate
    PROVE  /\ [r EXCEPT !.at = at, !.token = token] \in AgentRecord
           /\ [r EXCEPT !.at = at, !.did = did] \in AgentRecord
           /\ [r EXCEPT !.at = at, !.gate = gate] \in AgentRecord
<1> DEFINE r1 == [r EXCEPT !.at = at]
<1>1. r1 \in AgentRecord
  BY DEF AgentRecord
<1>2. /\ [r1 EXCEPT !.token = token] \in AgentRecord
      /\ [r1 EXCEPT !.did = did] \in AgentRecord
      /\ [r1 EXCEPT !.gate = gate] \in AgentRecord
  <2> HIDE DEF r1
  <2> QED
    BY <1>1 DEF AgentRecord
<1>3. /\ [r EXCEPT !.at = at, !.token = token] = [r1 EXCEPT !.token = token]
      /\ [r EXCEPT !.at = at, !.did = did] = [r1 EXCEPT !.did = did]
      /\ [r EXCEPT !.at = at, !.gate = gate] = [r1 EXCEPT !.gate = gate]
  OBVIOUS
<1> QED
  BY <1>2, <1>3

\* Types: every step.
LEMMA TypeStep == TypeOK /\ [Next]_vars => TypeOK'
<1> SUFFICES ASSUME TypeOK, [Next]_vars PROVE TypeOK'
  OBVIOUS
<1>0. StoreTypeOK'
  BY LoopStepsStore, StoreTyping DEF TypeOK, vars
<1> USE RotationAssumption DEF TypeOK, jenkins
<1> DEFINE Typed(ag, h) == ag \in [Attempt -> AgentRecord] /\ h \in [Attempt -> HandlerRecord]
<1>a. Typed(agent, handler)
  BY DEF AgentRecord, HandlerRecord
<1>b. ASSUME NEW a \in Attempt, NEW e \in Exit, Exits(a, e) PROVE agent' \in [Attempt -> AgentRecord]
  BY <1>a, <1>b, NoRowIsRow DEF Exits, AgentRecord, AgentAt
<1>c. ASSUME NEW a \in Attempt, Respond(a) PROVE handler' \in [Attempt -> HandlerRecord]
  BY <1>a, <1>c, IdleIsHandler DEF Respond
<1>d. ASSUME NEW a \in Attempt, NEW status, Refuse(a, status)
      PROVE  Typed(agent', handler') /\ runs' = runs
  BY <1>a, <1>b, <1>c, <1>d DEF Refuse, Exit
<1>e. ASSUME NEW a \in Attempt, NEW step \in HandlerAt, Advance(a, step)
      PROVE  handler' \in [Attempt -> HandlerRecord]
  <2> DEFINE h == [handler[a] EXCEPT !.at = step]
  <2>1. h \in HandlerRecord
    BY <1>a DEF HandlerRecord
  <2>2. [h EXCEPT !.token = 0] \in HandlerRecord
    <3> HIDE DEF h
    <3> QED
      BY <2>1 DEF HandlerRecord
  <2>3. handler' = [handler EXCEPT ![a] = [h EXCEPT !.token = 0]]
    BY <1>a, <1>e DEF Advance
  <2> HIDE DEF h
  <2> QED
    BY <1>a, <2>2, <2>3
<1>f. ASSUME Typed(agent', handler'), runs' = runs, UNCHANGED <<storeVars, jenkins, history>>
      PROVE  TypeOK'
  BY <1>0, <1>f DEF AgentRecord, HandlerRecord
<1>g. ASSUME NEW a \in Attempt, NEW endpoint \in {"config", "ingest"},
             NEW token \in 0 .. MaxRotations, NEW gate \in Gate, Call(a, endpoint, token, gate)
      PROVE  handler' \in [Attempt -> HandlerRecord]
  <2>1. [at |-> "received", call |-> endpoint, token |-> token, gate |-> gate,
         did |-> agent[a].did, row |-> NoRow] \in HandlerRecord
    BY <1>a, NoRowIsRow DEF AgentRecord, HandlerRecord, HandlerAt
  <2> QED
    BY <1>a, <1>g, <2>1 DEF Call
<1>1. ASSUME NEW a \in Attempt, Start(a) PROVE TypeOK'
  <2>1. handler' \in [Attempt -> HandlerRecord]
    BY <1>g, <1>1 DEF Start, Gate
  <2>2. [agent[a] EXCEPT !.at = "fetching", !.token = credential] \in AgentRecord
    BY <1>a, AgentMoves DEF AgentAt
  <2>3. agent' = [agent EXCEPT ![a] = [agent[a] EXCEPT !.at = "fetching", !.token = credential]]
    BY <1>a, <1>1 DEF Start
  <2> QED
    BY <1>a, <1>f, <1>1, <2>1, <2>2, <2>3 DEF Start
<1>2. ASSUME NEW a \in Attempt, Timeout(a) PROVE TypeOK'
  BY <1>a, <1>b, <1>c, <1>f, <1>2 DEF Timeout, HangsUp, Exit
<1>18. ASSUME NEW a \in Attempt, AnswerBreaksOff(a) PROVE TypeOK'
  <2>1. Typed(agent', handler')
    BY <1>a, <1>b, <1>c, <1>18 DEF AnswerBreaksOff, HangsUp, Exit
  <2> QED
    BY <1>0, <1>18, <2>1 DEF AnswerBreaksOff, AgentRecord, HandlerRecord
<1>3. ASSUME NEW a \in Attempt, Work(a) PROVE TypeOK'
  <2>1. CASE Exits(a, 4) /\ UNCHANGED handler
    BY <1>a, <1>b, <1>f, <1>3, <2>1 DEF Work, Exit
  <2>2. ASSUME NEW g \in Gate,
               agent' = [agent EXCEPT ![a] = [at |-> "posting", token |-> 0, did |-> NoRow,
                                              gate |-> g, exit |-> Running]],
               Call(a, "ingest", agent[a].token, g)
        PROVE  Typed(agent', handler')
    <3>1. handler' \in [Attempt -> HandlerRecord]
      BY <1>a, <1>g, <2>2 DEF AgentRecord
    <3>2. [at |-> "posting", token |-> 0, did |-> NoRow, gate |-> g, exit |-> Running]
             \in AgentRecord
      BY NoRowIsRow DEF AgentRecord, AgentAt
    <3> QED
      BY <1>a, <2>2, <3>1, <3>2
  <2> QED
    BY <1>f, <1>3, <2>1, <2>2 DEF Work
<1>4. ASSUME NEW a \in Attempt, ResolveProject(a) PROVE TypeOK'
  <2>1. CASE project = "live"
    <3>1. handler' \in [Attempt -> HandlerRecord]
      <4> DEFINE h == [handler[a] EXCEPT !.at = "resolved"]
                 row == [option |-> option, task |-> task]
      <4>1. h \in HandlerRecord /\ row \in Row
        BY <1>a, RowIsRow DEF HandlerRecord, HandlerAt
      <4>2. handler' = [handler EXCEPT ![a] = [h EXCEPT !.row = row]]
        BY <1>a, <1>4, <2>1 DEF ResolveProject
      <4> HIDE DEF h, row
      <4>3. [h EXCEPT !.row = row] \in HandlerRecord
        BY <4>1 DEF HandlerRecord
      <4> QED
        BY <1>a, <4>2, <4>3
    <3> QED
      BY <1>a, <1>f, <1>4, <2>1, <3>1 DEF ResolveProject
  <2>2. CASE project # "live"
    BY <1>d, <1>f, <1>4, <2>2 DEF ResolveProject
  <2> QED
    BY <2>1, <2>2
<1>5. ASSUME NEW a \in Attempt, VerifyToken(a) PROVE TypeOK'
  BY <1>a, <1>d, <1>e, <1>f, <1>5 DEF VerifyToken, HandlerAt
<1>6. ASSUME NEW a \in Attempt, ServeConfig(a) PROVE TypeOK'
  <2>1. CASE agent' = [agent EXCEPT ![a].at = "working", ![a].did = handler[a].row]
    <3>1. agent' \in [Attempt -> AgentRecord]
      <4>1. [agent[a] EXCEPT !.at = "working", !.did = handler[a].row] \in AgentRecord
        BY <1>a, AgentMoves DEF HandlerRecord, AgentAt
      <4>2. agent' = [agent EXCEPT ![a] =
                         [agent[a] EXCEPT !.at = "working", !.did = handler[a].row]]
        BY <1>a, <2>1
      <4> QED
        BY <1>a, <4>1, <4>2
    <3> QED
      BY <1>c, <1>d, <1>f, <1>6, <2>1, <3>1 DEF ServeConfig
  <2> QED
    BY <1>a, <1>b, <1>c, <1>d, <1>f, <1>6, <2>1 DEF ServeConfig, Exit
<1>7. ASSUME NEW a \in Attempt, CheckBuild(a) PROVE TypeOK'
  BY <1>a, <1>d, <1>e, <1>f, <1>7 DEF CheckBuild, HandlerAt
<1>8. ASSUME NEW a \in Attempt, InsertRun(a) PROVE TypeOK'
  <2>1. CASE Refuse(a, 500)
    BY <1>d, <1>f, <1>8, <2>1 DEF InsertRun
  <2>2. CASE runs' = runs \cup {NewRun(a, handler[a].row)} /\ Committed(a) /\ UNCHANGED agent
    <3>1. NewRun(a, handler[a].row) \in Run
      BY <1>a, BuildAssumption DEF NewRun, Run, HandlerRecord, Row
    <3>2. handler' \in [Attempt -> HandlerRecord]
      <4> DEFINE h == [handler[a] EXCEPT !.at = "stored"]
                 done == [[h EXCEPT !.row = NoRow] EXCEPT !.did = NoRow]
      <4>1. h \in HandlerRecord
        BY <1>a DEF HandlerRecord, HandlerAt
      <4>2. handler' = [handler EXCEPT ![a] = done]
        BY <1>a, <2>2 DEF Committed
      <4> HIDE DEF h
      <4>3. [h EXCEPT !.row = NoRow] \in HandlerRecord
        BY <4>1, NoRowIsRow DEF HandlerRecord
      <4>4. done \in HandlerRecord
        BY <4>3, NoRowIsRow DEF HandlerRecord
      <4> QED
        BY <1>a, <4>2, <4>4
    <3> QED
      BY <1>0, <1>a, <1>8, <2>2, <3>1, <3>2 DEF InsertRun, AgentRecord, HandlerRecord
  <2> QED
    BY <1>8, <2>1, <2>2 DEF InsertRun
<1>9. ASSUME NEW a \in Attempt, Acknowledge(a) PROVE TypeOK'
  <2>1. CASE project = "live"
    BY <1>a, <1>b, <1>c, <1>f, <1>9, <2>1 DEF Acknowledge, Exit
  <2>2. CASE project # "live"
    BY <1>d, <1>f, <1>9, <2>2 DEF Acknowledge
  <2> QED
    BY <2>1, <2>2
<1>10. ASSUME NEW a \in Attempt, KillHandler(a) PROVE TypeOK'
  BY <1>a, <1>c, <1>f, <1>10 DEF KillHandler
<1>11. CASE RotateToken
  BY <1>0, <1>11 DEF RotateToken
<1>12. CASE PasteSetup
  BY <1>0, <1>12 DEF PasteSetup, StoreTypeOK
<1>13. CASE OwnerPatches
  BY <1>0, <1>13 DEF OwnerPatches
<1>14. CASE OwnerDeletes
  BY <1>0, <1>14 DEF OwnerDeletes
<1>15. CASE OperatorSeeds
  BY <1>0, <1>15 DEF OperatorSeeds
<1>16. CASE UNCHANGED vars
  BY <1>0, <1>16 DEF vars
<1> QED
  BY <1>1, <1>2, <1>3, <1>4, <1>5, <1>6, <1>7, <1>8, <1>9, <1>10, <1>11, <1>12, <1>13,
     <1>14, <1>15, <1>16, <1>18 DEF Next, Handle

\* Types: the first state.
LEMMA TypeInitial == Init => TypeOK
<1> SUFFICES ASSUME Init PROVE TypeOK
  OBVIOUS
<1>1. StoreTypeOK
  BY StoreInitial DEF Init
<1>2. Idle \in HandlerRecord
  BY IdleIsHandler
<1> QED
  BY <1>1, <1>2, NoRowIsRow, RotationAssumption
     DEF Init, TypeOK, AgentAt, StoreTypeOK, HandlerRecord

\* Attempts, handlers and stored runs have their types, however often a build is
\* repeated (agent/__main__, app/ci/service).
THEOREM LoopTypes == Spec => []TypeOK
BY TypeInitial, TypeStep, PTL DEF Spec

-----------------------------------------------------------------------------
\* The loop: what its runs and exit codes say.

\* A handler serves the call its agent waits for, with the gate the agent has;
\* an agent that waits for nothing has none behind it.
CallsMatch ==
    \A a \in Attempt :
        /\ agent[a].at \in {"queued", "working"} => handler[a].at = "none"
        /\ agent[a].at = "fetching" /\ handler[a].at # "none" => handler[a].call = "config"
        /\ agent[a].at = "posting" /\ handler[a].at # "none" =>
              handler[a].call = "ingest" /\ handler[a].gate = agent[a].gate
        /\ handler[a].at \in {"unique", "stored"} => handler[a].call = "ingest"
        /\ agent[a].at = "posting" => agent[a].gate \in Gate
        /\ agent[a].exit = Running <=> agent[a].at # "exited"

\* Between the commit and the answer the run is there to be acknowledged.
StoredHasRun ==
    \A a \in Attempt : handler[a].at = "stored" /\ project = "live" =>
        \E run \in runs : run.attempt = a /\ run.gate = handler[a].gate

HasRow == {"resolved", "authorized", "unique", "stored"}
Columns == [option |-> option, task |-> task]

\* While no PATCH has met an attempt on its way, what it holds is what is stored:
\* the configuration on its way to the agent, the agent's, and the one its POST
\* carries until the project is read again.
UndisturbedIsCurrent ==
    \A a \in Attempt \ repicked :
        /\ agent[a].at = "fetching" /\ handler[a].at \in HasRow => handler[a].row = Columns
        /\ agent[a].at = "working" => agent[a].did = Columns
        /\ handler[a].call = "ingest" /\ handler[a].at = "received" =>
              handler[a].did = Columns
        /\ handler[a].call = "ingest" /\ handler[a].at \in HasRow =>
              handler[a].did = handler[a].row

LoopInv ==
    /\ CallsMatch /\ StoredHasRun /\ VerdictIsRecorded /\ OneRunPerBuild
    /\ UndisturbedIsCurrent /\ UndisturbedRunRecordsWhatRan

\* The loop: the first state.
LEMMA LoopInitial == Init => LoopInv
<1> SUFFICES ASSUME Init PROVE LoopInv
  OBVIOUS
<1>1. \A a \in Attempt : /\ agent[a].at = "queued" /\ agent[a].exit = Running
                         /\ handler[a].at = "none" /\ handler[a].call = "config"
  BY DEF Init, Idle
<1>2. runs = {}
  BY DEF Init
<1> QED
  BY <1>1, <1>2 DEF LoopInv, CallsMatch, StoredHasRun, VerdictIsRecorded, OneRunPerBuild,
     UndisturbedIsCurrent, UndisturbedRunRecordsWhatRan, Running, HasRow

\* An attempt that gives up, a handler that ends without an answer to act on.
LEMMA LeavingKeepsLoop ==
    ASSUME TypeOK, LoopInv, NEW a \in Attempt,
           handler' = handler \/ Respond(a),
           agent' = agent \/ Exits(a, 4) \/ (Exits(a, 1) /\ a \in broken'),
           broken \subseteq broken',
           UNCHANGED <<storeVars, runs, repicked>>
    PROVE  LoopInv'
<1>1. ASSUME NEW b \in Attempt
      PROVE  /\ \/ agent'[b] = agent[b]
                \/ agent'[b].at = "exited" /\ agent'[b].exit = 4
                \/ agent'[b].at = "exited" /\ agent'[b].exit = 1 /\ b \in broken'
             /\ handler'[b] = handler[b] \/
                  (handler'[b].at = "none" /\ handler'[b].call = "config")
  BY DEF Exits, Respond, Idle, TypeOK
<1>2. UNCHANGED <<project, Columns, runs, repicked>>
  BY DEF storeVars, Columns
<1>3. CallsMatch'
  BY <1>1 DEF LoopInv, CallsMatch, Running
<1>4. StoredHasRun'
  BY <1>1, <1>2 DEF LoopInv, StoredHasRun
<1>5. VerdictIsRecorded'
  BY <1>1, <1>2 DEF LoopInv, VerdictIsRecorded
<1>6. UndisturbedIsCurrent'
  BY <1>1, <1>2 DEF LoopInv, UndisturbedIsCurrent, HasRow
<1> QED
  BY <1>2, <1>3, <1>4, <1>5, <1>6 DEF LoopInv, OneRunPerBuild, UndisturbedRunRecordsWhatRan

\* A handler goes one step on with the row it has, or reads the row.
LEMMA AdvancingKeepsLoop ==
    ASSUME TypeOK, LoopInv, NEW a \in Attempt, NEW step \in HasRow \ {"stored"},
           \/ handler[a].at \in HasRow /\ Advance(a, step)
           \/ /\ handler[a].at = "received"
              /\ handler' = [handler EXCEPT ![a].at = step, ![a].row = Columns],
           step = "unique" => handler[a].call = "ingest",
           UNCHANGED <<storeVars, agent, runs, history>>
    PROVE  LoopInv'
<1>1. /\ \A b \in Attempt \ {a} : handler'[b] = handler[b]
      /\ handler'[a].at = step /\ handler'[a].call = handler[a].call
      /\ handler'[a].gate = handler[a].gate /\ handler'[a].did = handler[a].did
      /\ \/ handler[a].at = "received" /\ handler'[a].row = Columns
         \/ handler[a].at \in HasRow /\ handler'[a].row = handler[a].row
  BY DEF Advance, TypeOK
<1>2. UNCHANGED <<project, Columns>>
  BY DEF storeVars, Columns
<1>3. CallsMatch'
  BY <1>1 DEF LoopInv, CallsMatch, HasRow
<1>4. StoredHasRun'
  BY <1>1, <1>2 DEF LoopInv, StoredHasRun, HasRow
<1>5. VerdictIsRecorded'
  BY <1>2 DEF LoopInv, VerdictIsRecorded
<1>6. UndisturbedIsCurrent'
  BY <1>1, <1>2 DEF LoopInv, UndisturbedIsCurrent, HasRow
<1> QED
  BY <1>3, <1>4, <1>5, <1>6 DEF LoopInv, OneRunPerBuild, UndisturbedRunRecordsWhatRan

\* The commit of a run.
LEMMA InsertingKeepsLoop ==
    ASSUME TypeOK, LoopInv, NEW a \in Attempt, Serving(a, "unique"), ~Recorded(BuildOf[a]),
           runs' = runs \cup {NewRun(a, handler[a].row)},
           Committed(a), UNCHANGED <<storeVars, agent, history>>
    PROVE  LoopInv'
<1> DEFINE new == NewRun(a, handler[a].row)
<1>1. /\ \A b \in Attempt \ {a} : handler'[b] = handler[b]
      /\ handler'[a].at = "stored" /\ handler'[a].call = handler[a].call
      /\ handler'[a].gate = handler[a].gate /\ handler'[a].did = handler'[a].row
  BY DEF Committed, TypeOK
<1>2. UNCHANGED <<project, Columns>>
  BY DEF storeVars, Columns
<1>3. /\ new.build = BuildOf[a] /\ new.attempt = a /\ new.gate = handler[a].gate
      /\ new.did = handler[a].did
      /\ new.option = handler[a].row.option /\ new.task = handler[a].row.task
  BY DEF NewRun
<1>4. handler[a].at = "unique" /\ handler[a].call = "ingest"
  BY DEF Serving, LoopInv, CallsMatch
<1> HIDE DEF new
<1>5. CallsMatch'
  BY <1>1, <1>4 DEF LoopInv, CallsMatch
<1>6. StoredHasRun'
  BY <1>1, <1>2, <1>3 DEF LoopInv, StoredHasRun, new
<1>7. VerdictIsRecorded'
  BY <1>2 DEF LoopInv, VerdictIsRecorded
<1>8. OneRunPerBuild'
  BY <1>3 DEF LoopInv, OneRunPerBuild, Recorded, new
<1>9. UndisturbedIsCurrent'
  BY <1>1, <1>2, <1>4 DEF LoopInv, CallsMatch, UndisturbedIsCurrent, HasRow
<1>10. a \notin repicked => new.did = [option |-> new.option, task |-> new.task]
  <2>1. a \notin repicked => handler[a].did = handler[a].row
    BY <1>4 DEF LoopInv, UndisturbedIsCurrent, HasRow
  <2>2. handler[a].row = [option |-> handler[a].row.option, task |-> handler[a].row.task]
    BY DEF TypeOK, Row
  <2> QED
    BY <1>3, <2>1, <2>2
<1>11. UndisturbedRunRecordsWhatRan'
  BY <1>3, <1>10 DEF LoopInv, UndisturbedRunRecordsWhatRan, new
<1> QED
  BY <1>5, <1>6, <1>7, <1>8, <1>9, <1>11 DEF LoopInv

\* The loop: every step, action by action.
LEMMA LoopStep == TypeOK /\ LoopInv /\ [Next]_vars => LoopInv'
<1> SUFFICES ASSUME TypeOK, LoopInv, [Next]_vars PROVE LoopInv'
  OBVIOUS
<1> USE DEF jenkins
<1>1. ASSUME NEW a \in Attempt, NEW status, Refuse(a, status), UNCHANGED <<storeVars, history>>
      PROVE  LoopInv'
  BY <1>1, LeavingKeepsLoop DEF Refuse
<1>2. ASSUME NEW a \in Attempt, Start(a) PROVE LoopInv'
  <2>1. /\ \A b \in Attempt \ {a} : handler'[b] = handler[b] /\ agent'[b] = agent[b]
        /\ agent'[a].at = "fetching" /\ agent'[a].exit = agent[a].exit
        /\ handler'[a].at = "received" /\ handler'[a].call = "config"
        /\ agent[a].at = "queued"
    BY <1>2 DEF Start, Call, TypeOK
  <2>2. UNCHANGED <<project, Columns, runs, history>>
    BY <1>2 DEF Start, storeVars, Columns
  <2>3. CallsMatch'
    BY <2>1 DEF LoopInv, CallsMatch
  <2>4. StoredHasRun' /\ VerdictIsRecorded'
    BY <2>1, <2>2 DEF LoopInv, StoredHasRun, VerdictIsRecorded
  <2>5. UndisturbedIsCurrent'
    BY <2>1, <2>2 DEF LoopInv, UndisturbedIsCurrent, HasRow
  <2> QED
    BY <2>2, <2>3, <2>4, <2>5 DEF LoopInv, OneRunPerBuild, UndisturbedRunRecordsWhatRan
<1>3. ASSUME NEW a \in Attempt, Timeout(a) PROVE LoopInv'
  BY <1>3, LeavingKeepsLoop DEF Timeout, HangsUp
<1>17. ASSUME NEW a \in Attempt, AnswerBreaksOff(a) PROVE LoopInv'
  BY <1>17, LeavingKeepsLoop DEF AnswerBreaksOff, HangsUp
<1>4. ASSUME NEW a \in Attempt, Work(a) PROVE LoopInv'
  <2>1. CASE Exits(a, 4) /\ UNCHANGED handler
    BY <1>4, <2>1, LeavingKeepsLoop DEF Work
  <2>2. ASSUME NEW g \in Gate, Call(a, "ingest", agent[a].token, g),
               agent' = [agent EXCEPT ![a] = [at |-> "posting", token |-> 0, did |-> NoRow,
                                              gate |-> g, exit |-> Running]]
        PROVE  LoopInv'
    <3>1. /\ \A b \in Attempt \ {a} : handler'[b] = handler[b] /\ agent'[b] = agent[b]
          /\ agent'[a].at = "posting" /\ agent'[a].exit = agent[a].exit /\ agent'[a].gate = g
          /\ handler'[a].at = "received" /\ handler'[a].call = "ingest"
          /\ handler'[a].gate = g /\ handler'[a].did = agent[a].did
          /\ agent[a].at = "working"
      <4>1. agent[a].at = "working" /\ agent[a].exit = Running
        BY <1>4 DEF Work, LoopInv, CallsMatch
      <4>2. /\ \A b \in Attempt \ {a} : agent'[b] = agent[b]
            /\ agent'[a].at = "posting" /\ agent'[a].exit = agent[a].exit /\ agent'[a].gate = g
        BY <2>2, <4>1 DEF TypeOK
      <4>3. /\ \A b \in Attempt \ {a} : handler'[b] = handler[b]
            /\ handler'[a].at = "received" /\ handler'[a].call = "ingest"
            /\ handler'[a].gate = g /\ handler'[a].did = agent[a].did
        BY <2>2 DEF Call, TypeOK
      <4> QED
        BY <4>1, <4>2, <4>3
    <3>2. UNCHANGED <<project, Columns, runs, history>>
      BY <1>4 DEF Work, storeVars, Columns
    <3>3. CallsMatch'
      BY <3>1 DEF LoopInv, CallsMatch
    <3>4. StoredHasRun' /\ VerdictIsRecorded'
      BY <3>1, <3>2 DEF LoopInv, StoredHasRun, VerdictIsRecorded
    <3>5. UndisturbedIsCurrent'
      BY <3>1, <3>2 DEF LoopInv, UndisturbedIsCurrent, HasRow
    <3> QED
      BY <3>2, <3>3, <3>4, <3>5 DEF LoopInv, OneRunPerBuild, UndisturbedRunRecordsWhatRan
  <2> QED
    BY <1>4, <2>1, <2>2 DEF Work
<1>5. ASSUME NEW a \in Attempt, ResolveProject(a) PROVE LoopInv'
  BY <1>1, <1>5, AdvancingKeepsLoop DEF ResolveProject, Serving, HasRow, Columns
<1>6. ASSUME NEW a \in Attempt, VerifyToken(a) PROVE LoopInv'
  <2>1. CASE Advance(a, "authorized") /\ UNCHANGED <<agent, runs>>
    <3>1. handler[a].at \in HasRow /\ "authorized" \in HasRow \ {"stored"}
      BY <1>6 DEF VerifyToken, Serving, HasRow
    <3> QED
      BY <1>6, <2>1, <3>1, AdvancingKeepsLoop DEF VerifyToken
  <2> QED
    BY <1>1, <1>6, <2>1 DEF VerifyToken
<1>7. ASSUME NEW a \in Attempt, ServeConfig(a) PROVE LoopInv'
  <2>1. CASE agent[a].at = "fetching" /\ Respond(a)
              /\ agent' = [agent EXCEPT ![a].at = "working", ![a].did = handler[a].row]
    <3>1. /\ \A b \in Attempt \ {a} : handler'[b] = handler[b] /\ agent'[b] = agent[b]
          /\ agent'[a].at = "working" /\ agent'[a].exit = agent[a].exit
          /\ agent'[a].did = handler[a].row
          /\ handler'[a].at = "none" /\ handler'[a].call = "config"
          /\ handler[a].at \in HasRow /\ agent[a].at = "fetching"
      BY <1>7, <2>1 DEF ServeConfig, Serving, Respond, Idle, HasRow, TypeOK
    <3>2. UNCHANGED <<project, Columns, runs, history>>
      BY <1>7, <2>1 DEF ServeConfig, Refuse, storeVars, Columns
    <3>3. CallsMatch'
      BY <3>1 DEF LoopInv, CallsMatch
    <3>4. StoredHasRun' /\ VerdictIsRecorded'
      BY <3>1, <3>2 DEF LoopInv, StoredHasRun, VerdictIsRecorded
    <3>5. UndisturbedIsCurrent'
      BY <3>1, <3>2 DEF LoopInv, UndisturbedIsCurrent, HasRow
    <3> QED
      BY <3>2, <3>3, <3>4, <3>5 DEF LoopInv, OneRunPerBuild, UndisturbedRunRecordsWhatRan
  <2>2. CASE (agent' = agent \/ Exits(a, 4)) /\ Respond(a) /\ runs' = runs
    BY <1>7, <2>2, LeavingKeepsLoop DEF ServeConfig
  <2> QED
    BY <1>1, <1>7, <2>1, <2>2 DEF ServeConfig
<1>8. ASSUME NEW a \in Attempt, CheckBuild(a) PROVE LoopInv'
  <2>1. CASE Advance(a, "unique") /\ UNCHANGED <<agent, runs>>
    <3>1. handler[a].at \in HasRow /\ "unique" \in HasRow \ {"stored"}
      BY <1>8 DEF CheckBuild, Serving, HasRow
    <3> QED
      BY <1>8, <2>1, <3>1, AdvancingKeepsLoop DEF CheckBuild
  <2> QED
    BY <1>1, <1>8, <2>1 DEF CheckBuild
<1>9. ASSUME NEW a \in Attempt, InsertRun(a) PROVE LoopInv'
  BY <1>1, <1>9, InsertingKeepsLoop DEF InsertRun
<1>10. ASSUME NEW a \in Attempt, Acknowledge(a) PROVE LoopInv'
  <2>1. CASE project # "live"
    BY <1>1, <1>10, <2>1 DEF Acknowledge
  <2>2. CASE project = "live" /\ agent[a].at # "posting"
    BY <1>10, <2>2, LeavingKeepsLoop DEF Acknowledge
  <2>3. CASE project = "live" /\ agent[a].at = "posting"
    <3>1. /\ \A b \in Attempt \ {a} : handler'[b] = handler[b] /\ agent'[b] = agent[b]
          /\ agent'[a].at = "exited"
          /\ agent'[a].exit = IF agent[a].gate = "pass" THEN 0 ELSE 1
          /\ handler'[a].at = "none" /\ handler'[a].call = "config"
          /\ handler[a].at = "stored"
      BY <1>10, <2>3 DEF Acknowledge, Serving, Respond, Exits, Idle, TypeOK
    <3>2. UNCHANGED <<project, Columns, runs, history>>
      BY <1>10, <2>3 DEF Acknowledge, storeVars, Columns
    <3>3. CallsMatch'
      BY <3>1 DEF LoopInv, CallsMatch, Running
    <3>4. StoredHasRun'
      BY <3>1, <3>2 DEF LoopInv, StoredHasRun
    <3>5. \E run \in runs : run.attempt = a /\ run.gate = agent[a].gate
      BY <2>3, <3>1 DEF LoopInv, StoredHasRun, CallsMatch
    <3>6. agent[a].gate \in Gate
      BY <2>3 DEF LoopInv, CallsMatch
    <3>7. VerdictIsRecorded'
      BY <3>1, <3>2, <3>5, <3>6 DEF LoopInv, VerdictIsRecorded, Gate
    <3>8. UndisturbedIsCurrent'
      BY <3>1, <3>2 DEF LoopInv, UndisturbedIsCurrent
    <3> QED
      BY <3>2, <3>3, <3>4, <3>7, <3>8 DEF LoopInv, OneRunPerBuild, UndisturbedRunRecordsWhatRan
  <2> QED
    BY <2>1, <2>2, <2>3
<1>11. ASSUME NEW a \in Attempt, KillHandler(a) PROVE LoopInv'
  BY <1>11, LeavingKeepsLoop DEF KillHandler
<1>12. ASSUME UNCHANGED <<project, columns, agent, handler, runs, history>> PROVE LoopInv'
  BY <1>12 DEF columns, Columns, LoopInv, CallsMatch, StoredHasRun, VerdictIsRecorded,
     OneRunPerBuild, UndisturbedIsCurrent, UndisturbedRunRecordsWhatRan
<1>13. CASE RotateToken \/ PasteSetup \/ OperatorSeeds
  BY <1>12, <1>13 DEF RotateToken, PasteSetup, OperatorSeeds, SetRuntime, storeVars, columns
<1>14. CASE OwnerPatches
  <2>1. /\ UNCHANGED <<project, agent, handler, runs, broken>>
        /\ repicked \subseteq repicked'
        /\ Columns' = Columns \/ \A a \in Attempt \ repicked' : ~OnTheWay(a)
    BY <1>14 DEF OwnerPatches, Patch, LoadProject, SavePatch, columns, Columns
  <2>2. CallsMatch' /\ StoredHasRun' /\ VerdictIsRecorded' /\ OneRunPerBuild'
    BY <2>1 DEF LoopInv, CallsMatch, StoredHasRun, VerdictIsRecorded, OneRunPerBuild
  <2>3. UndisturbedIsCurrent'
    BY <2>1 DEF LoopInv, UndisturbedIsCurrent, OnTheWay
  <2>4. UndisturbedRunRecordsWhatRan'
    BY <2>1 DEF LoopInv, UndisturbedRunRecordsWhatRan
  <2> QED
    BY <2>2, <2>3, <2>4 DEF LoopInv
<1>15. CASE OwnerDeletes
  BY <1>15 DEF OwnerDeletes, DeleteProject, columns, Columns, LoopInv, CallsMatch, StoredHasRun,
     VerdictIsRecorded, OneRunPerBuild, UndisturbedIsCurrent, UndisturbedRunRecordsWhatRan
<1>16. CASE UNCHANGED vars
  BY <1>12, <1>16 DEF vars, storeVars, columns
<1> QED
  BY <1>2, <1>3, <1>4, <1>5, <1>6, <1>7, <1>8, <1>9, <1>10, <1>11, <1>13, <1>14, <1>15,
     <1>16, <1>17 DEF Next, Handle

LEMMA LoopInvariant == Spec => []LoopInv
BY TypeInitial, TypeStep, LoopInitial, LoopStep, PTL DEF Spec

\* Whatever is lost, refused or killed on the way, and whatever the owner and the
\* operator do: a green or gate-red build has its verdict on the dashboard.  (A red one
\* that ended by a traceback does not say what its gate was.)
THEOREM VerdictsAreRecorded == Spec => []VerdictIsRecorded
BY LoopInvariant, PTL DEF LoopInv

\* Any number of attempts that carry one build id leave one run.
THEOREM BuildsCountOnce == Spec => []OneRunPerBuild
BY LoopInvariant, PTL DEF LoopInv

\* A run that no PATCH met on its way is filed under what the agent worked with.
THEOREM RunsRecordWhatRan == Spec => []UndisturbedRunRecordsWhatRan
BY LoopInvariant, PTL DEF LoopInv

-----------------------------------------------------------------------------
\* The loop: which version of the project row a run is built from.

\* Every row a handler holds is a version of the project row.
RowsAreConsistent ==
    \A a \in Attempt : handler[a].row.task = TaskOf[handler[a].row.option]

VersionInv == RowInv /\ RowsAreConsistent /\ RunFromOneRowVersion

\* Versions: the first state.
LEMMA VersionInitial == Init => VersionInv
BY StoreInitial, NoRowIsRow
   DEF Init, VersionInv, RowsAreConsistent, RunFromOneRowVersion, Idle

\* A handler takes its row from the project or keeps it.
LEMMA HandlersReadTheRow ==
    ASSUME TypeOK, Next, NEW a \in Attempt
    PROVE  \/ handler'[a].row = handler[a].row
           \/ handler'[a].row = NoRow
           \/ handler'[a].row = [option |-> option, task |-> task]
<1> DEFINE Goal == \/ handler'[a].row = handler[a].row
                   \/ handler'[a].row = NoRow
                   \/ handler'[a].row = [option |-> option, task |-> task]
<1>1. ASSUME NEW b \in Attempt, handler' = handler \/ Respond(b) PROVE Goal
  BY <1>1 DEF Respond, Idle, TypeOK
<1>2. ASSUME NEW b \in Attempt, NEW step, Advance(b, step) PROVE Goal
  BY <1>2 DEF Advance, TypeOK
<1>8. ASSUME NEW b \in Attempt, Committed(b) PROVE Goal
  BY <1>8 DEF Committed, TypeOK
<1>3. ASSUME NEW b \in Attempt, Start(b) \/ Work(b) PROVE Goal
  <2>1. ASSUME NEW endpoint, NEW token, NEW gate, Call(b, endpoint, token, gate) PROVE Goal
    BY <2>1 DEF Call, TypeOK
  <2> QED
    BY <1>1, <1>3, <2>1 DEF Start, Work
<1>4. ASSUME NEW b \in Attempt, ResolveProject(b) PROVE Goal
  <2>1. CASE project = "live"
    BY <1>4, <2>1 DEF ResolveProject, TypeOK
  <2> QED
    BY <1>1, <1>4, <2>1 DEF ResolveProject, Refuse
<1>5. ASSUME NEW b \in Attempt, VerifyToken(b) \/ CheckBuild(b) \/ InsertRun(b) PROVE Goal
  BY <1>1, <1>2, <1>5, <1>8 DEF VerifyToken, CheckBuild, InsertRun, Refuse
<1>6. ASSUME NEW b \in Attempt, \/ Timeout(b) \/ AnswerBreaksOff(b) \/ ServeConfig(b)
                                \/ Acknowledge(b) \/ KillHandler(b)
      PROVE  Goal
  BY <1>1, <1>6 DEF Timeout, AnswerBreaksOff, HangsUp, ServeConfig, Acknowledge, KillHandler, Refuse
<1>7. CASE RotateToken \/ PasteSetup \/ OwnerPatches \/ OwnerDeletes \/ OperatorSeeds
  BY <1>7 DEF RotateToken, PasteSetup, OwnerPatches, OwnerDeletes, OperatorSeeds
<1> QED
  BY <1>3, <1>4, <1>5, <1>6, <1>7 DEF Next, Handle

\* Runs are added from the row of a handler, or removed.
LEMMA RunsComeFromRows ==
    ASSUME Next, NEW run \in runs', run \notin runs
    PROVE  \E a \in Attempt : run = NewRun(a, handler[a].row)
<1>1. ASSUME NEW a \in Attempt,
             \/ Start(a) \/ Timeout(a) \/ AnswerBreaksOff(a) \/ Work(a)
             \/ Handle(a) \/ KillHandler(a)
      PROVE  runs' \subseteq runs \/ runs' = runs \cup {NewRun(a, handler[a].row)}
  BY <1>1 DEF Start, Timeout, AnswerBreaksOff, Work, Handle, KillHandler, ResolveProject, VerifyToken,
              ServeConfig, CheckBuild, InsertRun, Acknowledge, Refuse
<1>2. CASE RotateToken \/ PasteSetup \/ OwnerPatches \/ OwnerDeletes \/ OperatorSeeds
  BY <1>2 DEF RotateToken, PasteSetup, OwnerPatches, OwnerDeletes, OperatorSeeds
<1> QED
  BY <1>1, <1>2 DEF Next

\* Versions: every step.
LEMMA VersionStep ==
    ASSUME OnePatchAtATime
    PROVE  TypeOK /\ VersionInv /\ [Next]_vars => VersionInv'
<1> SUFFICES ASSUME TypeOK, VersionInv, [Next]_vars PROVE VersionInv'
  OBVIOUS
<1>1. RowInv'
  BY LoopStepsStore, RowStep DEF TypeOK, VersionInv, vars
<1>2. RowsAreConsistent'
  <2>1. CASE Next
    BY <2>1, HandlersReadTheRow, NoRowIsRow
       DEF VersionInv, RowInv, RowsAreConsistent, TaskFollowsOption
  <2>2. CASE UNCHANGED vars
    BY <2>2 DEF vars, VersionInv, RowsAreConsistent
  <2> QED
    BY <2>1, <2>2
<1>3. RunFromOneRowVersion'
  <2>1. ASSUME NEW a \in Attempt
        PROVE  NewRun(a, handler[a].row).task = TaskOf[NewRun(a, handler[a].row).option]
    BY DEF NewRun, VersionInv, RowsAreConsistent
  <2>2. CASE Next
    BY <2>1, <2>2, RunsComeFromRows DEF VersionInv, RunFromOneRowVersion
  <2>3. CASE UNCHANGED vars
    BY <2>3 DEF vars, VersionInv, RunFromOneRowVersion
  <2> QED
    BY <2>2, <2>3
<1> QED
  BY <1>1, <1>2, <1>3 DEF VersionInv

LEMMA VersionInvariant ==
    ASSUME OnePatchAtATime
    PROVE  Spec => []VersionInv
BY TypeInitial, TypeStep, VersionInitial, VersionStep, PTL DEF Spec

\* The option a run is costed on and the task it is labelled with are of one
\* version of the project row, whenever PATCHes do not overlap.
THEOREM RunsAreOfOneVersion ==
    ASSUME OnePatchAtATime
    PROVE  Spec => []RunFromOneRowVersion
BY VersionInvariant, PTL DEF VersionInv

\* The agents, the API and the operator leave the project consistent.
THEOREM LoopKeepsTask ==
    ASSUME OnePatchAtATime
    PROVE  Spec => []TaskFollowsOption
BY VersionInvariant, PTL DEF VersionInv, RowInv

-----------------------------------------------------------------------------
\* The loop: every attempt is an agent (AgentStage).

LEMMA AgentStep ==
    ASSUME TypeOK, LoopInv, Next, NEW a \in Attempt, agent'[a] # agent[a]
    PROVE  [Stage(a)!Next]_(Stage(a)!stageVars)
<1> DEFINE Goal == [Stage(a)!Next]_(Stage(a)!stageVars)
<1>1. ASSUME NEW b \in Attempt, b # a,
             \/ Start(b) \/ Timeout(b) \/ AnswerBreaksOff(b) \/ Work(b)
             \/ Handle(b) \/ KillHandler(b)
      PROVE  FALSE
  BY <1>1 DEF Start, Timeout, AnswerBreaksOff, Work, Handle, KillHandler, ResolveProject, VerifyToken,
              ServeConfig, CheckBuild, InsertRun, Acknowledge, Refuse, Exits, TypeOK
<1>2. CASE Start(a)
  BY <1>2 DEF Start, TypeOK, Stage!stageVars
<1>11. CASE AnswerBreaksOff(a)
  BY <1>11 DEF AnswerBreaksOff, Waiting, Exits, TypeOK, LoopInv, CallsMatch, Gate,
               Stage!Next, Stage!Traceback, Stage!Gate
<1>3. CASE Exits(a, 4) /\ agent[a].at \in {"fetching", "working", "posting"}
  BY <1>3 DEF Exits, TypeOK, LoopInv, CallsMatch, Gate,
              Stage!Next, Stage!GiveUp, Stage!Failure, Stage!Gate
<1>4. ASSUME NEW status, Refuse(a, status) PROVE Goal
  BY <1>3, <1>4 DEF Refuse, Waiting
<1>5. CASE Timeout(a)
  BY <1>3, <1>5 DEF Timeout, Waiting
<1>6. CASE Work(a)
  <2>1. ASSUME NEW g \in Gate,
               agent' = [agent EXCEPT ![a] = [at |-> "posting", token |-> 0, did |-> NoRow,
                                              gate |-> g, exit |-> Running]]
        PROVE  Goal
    <3>1. agent'[a].at = "posting" /\ agent'[a].gate = g /\ agent'[a].exit = Running
      BY <2>1 DEF TypeOK
    <3>2. agent[a].at = "working" /\ agent[a].exit = Running
      BY <1>6 DEF Work, LoopInv, CallsMatch
    <3> QED
      BY <3>1, <3>2 DEF Stage!Next, Stage!Decide, Stage!Gate, Gate
  <2> QED
    BY <1>3, <1>6, <2>1 DEF Work
<1>7. CASE ServeConfig(a)
  <2>1. CASE agent[a].at = "fetching"
              /\ agent' = [agent EXCEPT ![a].at = "working", ![a].did = handler[a].row]
    BY <2>1 DEF TypeOK, Stage!Next, Stage!Configure
  <2> QED
    BY <1>3, <1>4, <1>7, <2>1 DEF ServeConfig
<1>8. CASE Acknowledge(a)
  <2>1. CASE project = "live"
    BY <1>8, <2>1 DEF Acknowledge, Exits, TypeOK, LoopInv, CallsMatch, Gate,
                      Stage!Next, Stage!ExitByGate, Stage!Gate
  <2> QED
    BY <1>4, <1>8, <2>1 DEF Acknowledge
<1>9. CASE ResolveProject(a) \/ VerifyToken(a) \/ CheckBuild(a) \/ InsertRun(a) \/ KillHandler(a)
  BY <1>4, <1>9 DEF ResolveProject, VerifyToken, CheckBuild, InsertRun, KillHandler
<1>10. CASE RotateToken \/ PasteSetup \/ OwnerPatches \/ OwnerDeletes \/ OperatorSeeds
  BY <1>10 DEF RotateToken, PasteSetup, OwnerPatches, OwnerDeletes, OperatorSeeds
<1> QED
  BY <1>1, <1>2, <1>5, <1>6, <1>7, <1>8, <1>9, <1>10, <1>11 DEF Next, Handle

\* Whatever the API answers, loses or refuses, and however its workers die, what
\* Jenkins sees of an attempt is an agent: its exit code is its own gate's, a failure's,
\* or that of a traceback around one of its two calls.
THEOREM AttemptsImplementStage == Spec => AttemptsAreAgents
<1>1. Init => \A a \in Attempt : Stage(a)!Init
  BY DEF Init, Stage!Init
<1>2. TypeOK /\ LoopInv /\ [Next]_vars =>
        [\A a \in Attempt : agent'[a] # agent[a] =>
            [Stage(a)!Next]_(Stage(a)!stageVars)]_agent
  BY AgentStep DEF vars
<1> QED
  BY <1>1, <1>2, LoopTypes, LoopInvariant, PTL DEF Spec, AttemptsAreAgents

=============================================================================
