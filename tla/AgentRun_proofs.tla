-------------------------- MODULE AgentRun_proofs ---------------------------
(***************************************************************************)
(* What an exit code of the agent means, for all ceilings and reports.  An *)
(* exit is decided one or two steps after the facts it rests on, so the    *)
(* invariant says of each such step what it knows (StepKnows): a killed    *)
(* child has ended the run, the refusal flag is that of the last answer,   *)
(* and a gate is the gate of the answer at hand.                           *)
(***************************************************************************)
EXTENDS AgentRun, TLAPS

\* The ceilings, one by one.
LEMMA CeilingsAreNaturals ==
    /\ MaxAttempts \in Nat /\ MaxSteps \in Nat /\ MaxSeconds \in Nat
    /\ TokenCeiling \in Nat /\ StepTokens \in Nat /\ MaxAttempts > 0
  BY CeilingAssumption

\* What the strict parser makes of an answer.
LEMMA ParsedKinds ==
    ASSUME NEW a
    PROVE  /\ Parsed(a) \in {"pass", "fail", "malformed", "refused"}
           /\ Parsed(a) \in {"pass", "fail"} => Reports(a) /\ Parsed(a) = GateOf(a.rows)
           /\ Parsed(a) = "refused" => a.marker = "refusal"
  BY DEF Parsed, Reports, GateOf

\* A passing gate saw nothing that blocks.
LEMMA GateKinds ==
    ASSUME NEW rows
    PROVE  /\ GateOf(rows) \in {"pass", "fail"}
           /\ GateOf(rows) = "pass" =>
                 \A r \in rows : r.shape = "usable" => r.severity \notin FailSeverities[task]
  BY DEF GateOf

\* Where the loop goes after the child.
LEMMA JudgeMoves ==
    ASSUME Judge
    PROVE  /\ pc' \in {"exited", "attempting", "deciding"} /\ exit' \in {exit, 4}
           /\ refused' \in {refused, TRUE, FALSE}
<1>1. CASE child = "failed" /\ answer.text = "blank"
  BY <1>1 DEF Judge, Exits
<1>2. CASE ~(child = "failed" /\ answer.text = "blank")
  <2>1. refused' \in {TRUE, FALSE} /\ exit' = exit
    BY <1>2 DEF Judge
  <2>2. pc' \in {"attempting", "deciding"}
    BY <1>2 DEF Judge, Again
  <2> QED
    BY <2>1, <2>2
<1> QED
  BY <1>1, <1>2

\* Types are kept by a line, whatever it is.
LEMMA LineTypes == TypeOK /\ Line => TypeOK'
<1> SUFFICES ASSUME TypeOK, Line PROVE TypeOK'
  OBVIOUS
<1>1. ASSUME NEW r \in [tokens : Nat, steps : Nat, seconds : Nat], NEW a \in Answer,
             ReadLine(r, a)
      PROVE  TypeOK'
  BY <1>1, CeilingsAreNaturals DEF TypeOK, Running, ReadLine, Finish, Aborts, Exits, result, Usage
<1>2. run \in [tokens : Nat, steps : Nat, seconds : Nat] /\ answer \in Answer
  BY DEF TypeOK
<1>3. ASSUME NEW n \in 0 .. StepTokens
      PROVE  [run EXCEPT !.tokens = @ + n, !.steps = @ + 1]
                 \in [tokens : Nat, steps : Nat, seconds : Nat]
  <2>1. run.tokens + n \in Nat /\ run.steps + 1 \in Nat
    BY <1>2, CeilingsAreNaturals
  <2> QED
    BY <1>2, <2>1
<1>4. CASE \E n \in 0 .. StepTokens :
               ReadLine([run EXCEPT !.tokens = @ + n, !.steps = @ + 1], answer)
  BY <1>1, <1>2, <1>3, <1>4
<1>5. CASE \E a \in Text : ReadLine(run, a)
  BY <1>1, <1>2, <1>5 DEF Text
<1>6. CASE ReadLine(run, answer)
  BY <1>1, <1>2, <1>6
<1> QED
  BY <1>4, <1>5, <1>6 DEF Line

\* Types are kept: counters stay naturals, attempts within their maximum.
LEMMA TypeStep == TypeOK /\ StepKnows /\ [Next]_vars => TypeOK'
<1> SUFFICES ASSUME TypeOK, StepKnows, [Next]_vars PROVE TypeOK'
  OBVIOUS
<1> USE CeilingsAreNaturals DEF TypeOK, Running
<1>1. CASE Resolve
  BY <1>1 DEF Resolve, Exits, scan, result
<1>2. CASE Preflight
  BY <1>2 DEF Preflight, Exits, scan, result
<1>3. CASE CallModel
  <2>1. CASE Exits(4) /\ UNCHANGED <<totals, answer, gate>>
    BY <1>3, <2>1 DEF CallModel, Exits
  <2>2. ASSUME NEW n \in 0 .. StepTokens, NEW a \in Text \cup {Blank},
               totals' = [tokens |-> n, steps |-> 0], answer' = a,
               IF n > TokenCeiling THEN Exits(124) /\ UNCHANGED gate
               ELSE IF Parsed(a) \in {"pass", "fail"}
               THEN gate' = Parsed(a) /\ pc' = "concluding" /\ UNCHANGED exit
               ELSE Exits(IF Parsed(a) = "refused" THEN 3 ELSE 2) /\ UNCHANGED gate
        PROVE  TypeOK'
    <3>1. totals' \in Usage
      BY <2>2 DEF Usage
    <3>2. answer' \in Answer
      BY <2>2 DEF Text, Blank, Answer
    <3>3. /\ gate' \in {"none", "pass", "fail"} /\ pc' \in {"concluding", "exited"}
          /\ exit' \in {exit, 2, 3, 124}
      BY <2>2 DEF Exits
    <3> QED
      BY <1>3, <3>1, <3>2, <3>3 DEF CallModel
  <2> QED
    BY <1>3, <2>1, <2>2 DEF CallModel
<1>4. CASE StartAttempt
  BY <1>4 DEF StartAttempt, Remaining, AtLeastOne, Blank, result, Answer, Usage, StepKnows
<1>5. CASE WaitTimeout
  BY <1>5 DEF WaitTimeout, Finish, Aborts, Exits, result, Usage
<1>6. CASE Judge
  <2>1. /\ pc' \in {"exited", "attempting", "deciding"} /\ exit' \in {exit, 4}
        /\ refused' \in BOOLEAN
    BY <1>6, JudgeMoves
  <2> QED
    BY <1>6, <2>1 DEF Judge, result
<1>7. CASE Decide
  BY <1>7, GateKinds DEF Decide, Aborts, Exits, scan
<1>8. CASE Conclude
  <2>1. pc' = "exited" /\ exit' \in {0, 1, 4}
    BY <1>8 DEF Conclude, Exits, GateExit
  <2>2. asked' \in BOOLEAN /\ posted' \in BOOLEAN
    BY <1>8 DEF Conclude
  <2> QED
    BY <1>8, <2>1, <2>2 DEF Conclude, scan
<1>9. CASE Line
  BY <1>9, LineTypes
<1>10. CASE BreakStream
  BY <1>10 DEF BreakStream, Exits, result
<1>11. CASE CloseOutput
  BY <1>11 DEF CloseOutput, AtLeastOne, result
<1>12. CASE ChildExits
  BY <1>12 DEF ChildExits, Finish, Usage, result
<1>13. CASE Tick
  BY <1>13 DEF Tick, result
<1>14. CASE UNCHANGED vars
  BY <1>14 DEF vars, scan, result
<1> QED
  BY <1>1, <1>2, <1>3, <1>4, <1>5, <1>6, <1>7, <1>8, <1>9, <1>10, <1>11, <1>12, <1>13,
     <1>14 DEF Next, Agent, Child

\* The gate is judged anew only with the answer.
LEMMA GateKeeps == UNCHANGED <<task, answer>> => GateOf(answer.rows)' = GateOf(answer.rows)
  BY DEF GateOf

\* Whatever the line is, it is read.
LEMMA LineReads == Line => \E r, a : ReadLine(r, a)
<1>1. CASE \E n \in 0 .. StepTokens :
               ReadLine([run EXCEPT !.tokens = @ + n, !.steps = @ + 1], answer)
  BY <1>1
<1>2. CASE \E a \in Text : ReadLine(run, a)
  BY <1>2
<1>3. CASE ReadLine(run, answer)
  BY <1>3
<1> QED
  BY <1>1, <1>2, <1>3 DEF Line

\* Every step leaves the next one knowing what it needs.
LEMMA KnowsStep == IInv /\ [Next]_vars => StepKnows' /\ ChildIsGone'
<1> SUFFICES ASSUME IInv, [Next]_vars PROVE StepKnows' /\ ChildIsGone'
  OBVIOUS
<1> USE CeilingsAreNaturals DEF IInv, TypeOK, StepKnows, ChildIsGone, Running
<1>1. CASE Resolve
  BY <1>1 DEF Resolve, Exits, scan, result
<1>2. CASE Preflight
  BY <1>2 DEF Preflight, Exits, scan, result
<1>3. CASE CallModel
  <2>1. CASE Exits(4)
    BY <1>3, <2>1 DEF CallModel, Exits
  <2>2. ASSUME NEW n, NEW a, answer' = a,
               IF n > TokenCeiling THEN Exits(124) /\ UNCHANGED gate
               ELSE IF Parsed(a) \in {"pass", "fail"}
               THEN gate' = Parsed(a) /\ pc' = "concluding" /\ UNCHANGED exit
               ELSE Exits(IF Parsed(a) = "refused" THEN 3 ELSE 2) /\ UNCHANGED gate
        PROVE  StepKnows' /\ ChildIsGone'
    <3>1. CASE pc' = "exited" /\ exit' \in {2, 3, 124}
      BY <1>3, <3>1 DEF CallModel
    <3>2. CASE gate' = Parsed(a) /\ Parsed(a) \in {"pass", "fail"} /\ pc' = "concluding"
               /\ UNCHANGED exit
      <4>1. Reports(answer)' /\ gate' = GateOf(a.rows)
        BY <2>2, <3>2, ParsedKinds DEF Reports
      <4>2. GateOf(a.rows) = GateOf(answer.rows)'
        BY <1>3, <2>2 DEF CallModel, GateOf
      <4> QED
        BY <1>3, <3>2, <4>1, <4>2 DEF CallModel
    <3> QED
      BY <2>2, <3>1, <3>2 DEF Exits
  <2> QED
    BY <1>3, <2>1, <2>2 DEF CallModel
<1>4. CASE StartAttempt
  BY <1>4 DEF StartAttempt, Remaining, AtLeastOne, Blank, result, Answer, Usage
<1>5. CASE WaitTimeout
  BY <1>5 DEF WaitTimeout, Finish, Aborts, Exits, result, Usage
<1>6. CASE Judge
  <2>1. \/ pc' = "exited" /\ exit' = 4
        \/ /\ pc' \in {"attempting", "deciding"} /\ UNCHANGED exit
           /\ pc' = "attempting" => attempt < MaxAttempts
           /\ refused' <=> answer.marker = "refusal"
    <3>1. CASE child = "failed" /\ answer.text = "blank"
      BY <1>6, <3>1 DEF Judge, Exits
    <3>2. CASE ~ (child = "failed" /\ answer.text = "blank")
      <4>1. refused' = (answer.marker = "refusal") /\ UNCHANGED exit
        BY <1>6, <3>2 DEF Judge
      <4>2. pc' \in {"attempting", "deciding"} /\ (pc' = "attempting" => attempt < MaxAttempts)
        BY <1>6, <3>2 DEF Judge, Again
      <4> QED
        BY <4>1, <4>2
    <3> QED
      BY <3>1, <3>2
  <2> QED
    BY <1>6, <2>1 DEF Judge, result
<1>7. CASE Decide
  <2>1. CASE pc' = "exited" /\ exit' \in {2, 3, 4}
    BY <1>7, <2>1 DEF Decide, scan
  <2>2. CASE /\ ~ refused /\ Reports(answer) /\ gate' = GateOf(answer.rows)
             /\ pc' = "concluding" /\ UNCHANGED exit
    <3>1. Reports(answer)' /\ gate' = GateOf(answer.rows)'
      BY <1>7, <2>2, GateKeeps DEF Decide, Reports
    <3> QED
      BY <1>7, <2>2, <3>1 DEF Decide, scan
  <2> QED
    BY <1>7, <2>1, <2>2 DEF Decide, Aborts, Exits
<1>8. CASE Conclude
  BY <1>8 DEF Conclude, Exits, GateExit, scan
<1>9. CASE Line
  <2>1. PICK r, a : ReadLine(r, a)
    BY <1>9, LineReads
  <2> QED
    BY <2>1 DEF ReadLine, Finish, Aborts, Exits, result
<1>10. CASE BreakStream
  BY <1>10 DEF BreakStream, Exits, result
<1>11. CASE CloseOutput
  BY <1>11 DEF CloseOutput, result
<1>12. CASE ChildExits
  BY <1>12 DEF ChildExits, Finish, result
<1>13. CASE Tick
  BY <1>13 DEF Tick, result
<1>14. CASE UNCHANGED vars
  BY <1>14, GateKeeps DEF vars, scan, result
<1> QED
  BY <1>1, <1>2, <1>3, <1>4, <1>5, <1>6, <1>7, <1>8, <1>9, <1>10, <1>11, <1>12, <1>13,
     <1>14 DEF Next, Agent, Child

\* A run that has ended keeps what its exit code says; one that ends says what it knows.
LEMMA ExitStep == IInv /\ [Next]_vars => PassIsExamined' /\ ExitTellsLastAttempt'
<1> SUFFICES ASSUME IInv, [Next]_vars PROVE PassIsExamined' /\ ExitTellsLastAttempt'
  OBVIOUS
<1> USE DEF IInv, TypeOK, StepKnows, PassIsExamined, ExitTellsLastAttempt, Running
<1>1. CASE Resolve
  BY <1>1 DEF Resolve, Blank, Exits, scan, result
<1>2. CASE Preflight
  BY <1>2 DEF Preflight, Exits, scan, result
<1>3. CASE CallModel
  <2>1. exit' \in {2, 3, 4, 124, Running} /\ task' = "review"
    BY <1>3 DEF CallModel, Exits
  <2>2. exit' = 3 => answer'.marker = "refusal"
    BY <1>3, ParsedKinds DEF CallModel, Exits
  <2> QED
    BY <2>1, <2>2
<1>4. CASE StartAttempt
  BY <1>4 DEF StartAttempt, Remaining, AtLeastOne, Blank, result, Answer, Usage
<1>5. CASE WaitTimeout
  BY <1>5 DEF WaitTimeout, Finish, Aborts, Exits, result, Usage
<1>6. CASE Judge
  BY <1>6 DEF Judge, Exits, Again, result
<1>7. CASE Decide
  BY <1>7 DEF Decide, Aborts, Exits, scan, Reports
<1>8. CASE Conclude
  <2>1. exit' \in {0, 1, 4}
    BY <1>8 DEF Conclude, Exits, GateExit
  <2>2. exit' = 0 => gate = "pass" /\ (asked' => posted')
    BY <1>8 DEF Conclude, Exits, GateExit
  <2>3. exit' = 0 => PassIsExamined'
    <3>1. UNCHANGED <<task, answer, child>> /\ child # "killed" /\ Reports(answer)
      BY <1>8 DEF Conclude, scan
    <3>2. gate = GateOf(answer.rows)
      BY <1>8 DEF Conclude
    <3> QED
      BY <2>2, <3>1, <3>2, GateKinds DEF Reports
  <2> QED
    BY <1>8, <2>1, <2>3 DEF Conclude, scan
<1>9. CASE Line
  <2>1. PICK r, a : ReadLine(r, a)
    BY <1>9, LineReads
  <2> QED
    BY <2>1 DEF ReadLine, Finish, Aborts, Exits, result
<1>10. CASE BreakStream
  BY <1>10 DEF BreakStream, Exits, result
<1>11. CASE CloseOutput
  BY <1>11 DEF CloseOutput, result
<1>12. CASE ChildExits
  BY <1>12 DEF ChildExits, Finish, result
<1>13. CASE Tick
  BY <1>13 DEF Tick, result
<1>14. CASE UNCHANGED vars
  BY <1>14 DEF vars, scan, result
<1> QED
  BY <1>1, <1>2, <1>3, <1>4, <1>5, <1>6, <1>7, <1>8, <1>9, <1>10, <1>11, <1>12, <1>13,
     <1>14 DEF Next, Agent, Child

\* The invariant holds of every execution, fair or not.
THEOREM AgentInvariant == Spec => []IInv
<1>1. Init => IInv
  <2> SUFFICES ASSUME Init PROVE IInv
    OBVIOUS
  <2>1. TypeOK
    <3>1. answer \in Answer
      BY DEF Init, Answer, Blank
    <3>2. totals \in Usage /\ attempt \in 0 .. MaxAttempts
      BY CeilingsAreNaturals DEF Init, Usage, NoUsage
    <3>3. /\ run \in [tokens : Nat, steps : Nat, seconds : Nat]
          /\ limit \in [tokens : Nat, steps : Nat, seconds : Nat]
      BY CeilingsAreNaturals DEF Init
    <3>4. refused \in BOOLEAN /\ asked \in BOOLEAN /\ posted \in BOOLEAN
      BY DEF Init
    <3> QED
      BY <3>1, <3>2, <3>3, <3>4 DEF Init, TypeOK, Running
  <2>2. StepKnows /\ ChildIsGone /\ PassIsExamined /\ ExitTellsLastAttempt
    BY CeilingsAreNaturals DEF Init, StepKnows, ChildIsGone, PassIsExamined,
       ExitTellsLastAttempt, Running
  <2> QED
    BY <2>1, <2>2 DEF IInv
<1>2. IInv /\ [Next]_vars => IInv'
  BY TypeStep, KnowsStep, ExitStep DEF IInv
<1> QED
  BY <1>1, <1>2, PTL DEF Spec

\* Type correctness of the agent.
THEOREM AgentTypes == Spec => []TypeOK
<1>1. IInv => TypeOK
  BY DEF IInv
<1> QED
  BY <1>1, AgentInvariant, PTL

\* Exit 0 means an examined, unblocked and, if asked for, posted run.
THEOREM PassMeansExamined == Spec => []PassIsExamined
<1>1. IInv => PassIsExamined
  BY DEF IInv
<1> QED
  BY <1>1, AgentInvariant, PTL

\* The other codes tell what the last attempt came to.
THEOREM CodesTellLastAttempt == Spec => []ExitTellsLastAttempt
<1>1. IInv => ExitTellsLastAttempt
  BY DEF IInv
<1> QED
  BY <1>1, AgentInvariant, PTL

\* No OpenCode process outlives its attempt.
THEOREM NoChildOutlives == Spec => []ChildIsGone
<1>1. IInv => ChildIsGone
  BY DEF IInv
<1> QED
  BY <1>1, AgentInvariant, PTL

\* Every step is a step of the contract or leaves what Jenkins sees alone: a gate is
\* reached where the answer is judged, and an exit is by that gate or by a failure.
LEMMA ContractStep == IInv /\ [Next]_vars => [Stage!Next]_(Stage!stageVars)
<1> SUFFICES ASSUME IInv, [Next]_vars PROVE [Stage!Next]_(Stage!stageVars)
  OBVIOUS
<1> DEFINE Working == pc \notin {"resolving", "exited", "concluding"}
<1>1. ASSUME Working, pc' \notin {"resolving", "exited", "concluding"}, UNCHANGED exit
      PROVE  UNCHANGED Stage!stageVars
  BY <1>1 DEF Stage!stageVars
<1>2. ASSUME Working, pc' = "exited", exit' \in {2, 3, 4, 124}
      PROVE  Stage!Next
  BY <1>2 DEF Stage!Next, Stage!GiveUp, Stage!Failure
<1>3. ASSUME Working, pc' = "concluding", gate' \in {"pass", "fail"}, UNCHANGED exit
      PROVE  Stage!Next
  BY <1>3 DEF Stage!Next, Stage!Decide, Stage!Gate
<1>4. CASE Resolve
  <2>1. CASE Exits(4)
    BY <1>4, <2>1 DEF Resolve, Exits, Stage!Next, Stage!GiveUp, Stage!Failure, Stage!Gate
  <2>2. CASE Exits(1)
    BY <1>4, <2>2 DEF Resolve, Exits, Stage!Next, Stage!Traceback, Stage!Gate
  <2>3. CASE pc' \in {"calling", "attempting"} /\ UNCHANGED exit
    BY <1>4, <2>3 DEF Resolve, Stage!Next, Stage!Configure
  <2> QED
    BY <1>4, <2>1, <2>2, <2>3 DEF Resolve
<1>5. CASE Preflight
  BY <1>2, <1>5 DEF Preflight, Exits
<1>6. CASE CallModel
  <2>1. \/ pc' = "exited" /\ exit' \in {2, 3, 4, 124}
        \/ pc' = "concluding" /\ gate' \in {"pass", "fail"} /\ UNCHANGED exit
    BY <1>6 DEF CallModel, Exits
  <2> QED
    BY <1>2, <1>3, <1>6, <2>1 DEF CallModel
<1>7. CASE StartAttempt
  BY <1>1, <1>7 DEF StartAttempt
<1>8. CASE WaitTimeout
  BY <1>2, <1>8 DEF WaitTimeout, Aborts, Exits
<1>9. CASE Judge
  <2>1. \/ pc' = "exited" /\ exit' = 4
        \/ pc' \in {"attempting", "deciding"} /\ UNCHANGED exit
    BY <1>9 DEF Judge, Exits, Again
  <2> QED
    BY <1>1, <1>2, <1>9, <2>1 DEF Judge
<1>10. CASE Decide
  <2>1. \/ pc' = "exited" /\ exit' \in {2, 3, 4}
        \/ pc' = "concluding" /\ gate' = GateOf(answer.rows) /\ UNCHANGED exit
    BY <1>10 DEF Decide, Aborts, Exits
  <2> QED
    BY <1>2, <1>3, <1>10, <2>1, GateKinds DEF Decide
<1>11. CASE Conclude
  <2>1. pc = "concluding" /\ pc' = "exited" /\ exit' \in {GateExit, 1, 4}
    BY <1>11 DEF Conclude, Exits
  <2>2. gate \in {"pass", "fail"}
    BY <2>1, GateKinds DEF IInv, StepKnows
  <2>3. CASE exit' = GateExit
    BY <2>1, <2>2, <2>3 DEF GateExit, Stage!Next, Stage!ExitByGate, Stage!Gate
  <2>4. CASE exit' = 4
    BY <2>1, <2>2, <2>4 DEF Stage!Next, Stage!GiveUp, Stage!Failure, Stage!Gate
  <2>5. CASE exit' = 1
    BY <2>1, <2>2, <2>5 DEF Stage!Next, Stage!Traceback, Stage!Gate
  <2> QED
    BY <2>1, <2>3, <2>4, <2>5
<1>12. CASE Line
  <2>1. PICK r, a : ReadLine(r, a)
    BY <1>12, LineReads
  <2>2. \/ pc' = "exited" /\ exit' \in {4, 124}
        \/ UNCHANGED <<pc, exit>>
    BY <2>1 DEF ReadLine, Aborts, Exits
  <2> QED
    BY <1>1, <1>2, <2>1, <2>2 DEF ReadLine
<1>13. CASE BreakStream
  BY <1>2, <1>13 DEF BreakStream, Exits
<1>14. CASE CloseOutput
  BY <1>1, <1>14 DEF CloseOutput
<1>15. CASE ChildExits
  BY <1>1, <1>15 DEF ChildExits
<1>16. CASE Tick
  BY <1>1, <1>16 DEF Tick
<1>17. CASE UNCHANGED vars
  BY <1>17 DEF vars, result, Stage!stageVars
<1> QED
  BY <1>4, <1>5, <1>6, <1>7, <1>8, <1>9, <1>10, <1>11, <1>12, <1>13, <1>14, <1>15, <1>16,
     <1>17 DEF Next, Agent, Child

\* The agent keeps the contract of module AgentStage, for all ceilings and reports.
THEOREM AgentKeepsContract == Spec => ImplementsStage
<1>1. Init => Stage!Init
  BY DEF Init, Stage!Init
<1>2. IInv /\ [Next]_vars => [Stage!Next]_(Stage!stageVars)
  BY ContractStep
<1> QED
  BY <1>1, <1>2, AgentInvariant, PTL DEF Spec, ImplementsStage, Stage!Spec

-----------------------------------------------------------------------------
\* The ceilings.

\* What an attempt was left of a ceiling, or one, with what the earlier ones used
\* exceeds the ceiling by at most one for each of them; an attempt that goes on is
\* within what it was left.
SharesCeilings ==
    /\ task = "security" =>
          /\ pc \in {"streaming", "waiting"} =>
                /\ run.tokens <= limit.tokens
                /\ totals.tokens + limit.tokens <= TokenCeiling + attempt - 1
                /\ run.steps <= limit.steps
                /\ totals.steps + limit.steps <= MaxSteps + attempt - 1
          /\ pc \notin {"streaming", "waiting", "exited"} =>
                /\ run.tokens = 0 /\ run.steps = 0
                /\ totals.tokens <= TokenCeiling + attempt - 1
                /\ totals.steps <= MaxSteps + attempt - 1
    /\ pc = "streaming" =>
          /\ limit.tokens >= 1 /\ limit.steps >= 1
          /\ limit.seconds = AtLeastOne(MaxSeconds - elapsed)

\* The numbers an execution counts with.
LEMMA Counters ==
    ASSUME TypeOK
    PROVE  /\ totals.tokens \in Nat /\ totals.steps \in Nat
           /\ run.tokens \in Nat /\ run.steps \in Nat /\ run.seconds \in Nat
           /\ limit.tokens \in Nat /\ limit.steps \in Nat /\ limit.seconds \in Nat
           /\ attempt \in Nat /\ attempt <= MaxAttempts
           /\ elapsed \in Nat /\ silent \in Nat
BY CeilingsAreNaturals DEF TypeOK, Usage

LEMMA LeftOfOne == \A n \in Int : AtLeastOne(n) \in Nat /\ AtLeastOne(n) >= 1
BY DEF AtLeastOne

\* An attempt that goes on, or ends within its limits, keeps to the ceilings.
LEMMA WithinLimits ==
    ASSUME TypeOK, SharesCeilings, task = "security", pc \in {"streaming", "waiting"}
    PROVE  /\ totals.tokens + run.tokens <= TokenCeiling + attempt - 1
           /\ totals.steps + run.steps <= MaxSteps + attempt - 1
           /\ totals.tokens + run.tokens <= TokenCeiling + MaxAttempts - 1 + StepTokens
           /\ totals.steps + run.steps <= MaxSteps + MaxAttempts
<1>1. /\ run.tokens <= limit.tokens /\ totals.tokens + limit.tokens <= TokenCeiling + attempt - 1
      /\ run.steps <= limit.steps /\ totals.steps + limit.steps <= MaxSteps + attempt - 1
  BY DEF SharesCeilings
<1> QED
  BY <1>1, Counters, CeilingsAreNaturals

\* A line adds at most one step to what the attempt has used.
LEMMA LineStepKeepsCeilings ==
    ASSUME TypeOK, StepKnows, SharesCeilings,
           NEW n \in 0 .. StepTokens, NEW k \in 0 .. 1, NEW r, NEW a,
           r.tokens = run.tokens + n, r.steps = run.steps + k, r.seconds = run.seconds,
           ReadLine(r, a)
    PROVE  SharesCeilings' /\ CeilingsHold'
<1>1. /\ r.tokens = run.tokens + n /\ r.steps = run.steps + k /\ r.seconds = run.seconds
      /\ n \in Nat /\ n <= StepTokens /\ k \in Nat /\ k <= 1
  BY CeilingsAreNaturals
<1>2. pc = "streaming" /\ UNCHANGED <<task, attempt, limit>>
  BY DEF ReadLine
<1>3. CASE Tripped(r)
  <2>1. /\ pc' = "exited" /\ run'.tokens = 0 /\ run'.steps = 0
        /\ totals'.tokens = totals.tokens + r.tokens
        /\ totals'.steps = totals.steps + r.steps
    BY <1>3 DEF ReadLine, Finish, Aborts, Exits
  <2>2. task = "security" =>
          /\ totals.tokens + run.tokens <= TokenCeiling + attempt - 1
          /\ totals.steps + run.steps <= MaxSteps + attempt - 1
    BY <1>2, WithinLimits
  <2>3. task' = "security" =>
          /\ totals'.tokens + run'.tokens <= TokenCeiling + MaxAttempts - 1 + StepTokens
          /\ totals'.steps + run'.steps <= MaxSteps + MaxAttempts
    BY <1>1, <1>2, <2>1, <2>2, Counters, CeilingsAreNaturals
  <2> QED
    BY <2>1, <2>3 DEF SharesCeilings, CeilingsHold
<1>4. CASE ~ Tripped(r)
  <2>1. /\ pc' = pc /\ run' = r /\ silent' = 0 /\ UNCHANGED <<totals, elapsed>>
    BY <1>4 DEF ReadLine
  <2>2. /\ limit.tokens >= 1 /\ limit.steps >= 1
        /\ limit.seconds = AtLeastOne(MaxSeconds - elapsed)
    BY <1>2 DEF SharesCeilings
  <2>3. limit.seconds >= 1
    BY <2>2, LeftOfOne, Counters, CeilingsAreNaturals
  <2>4. r.tokens <= limit.tokens /\ r.steps <= limit.steps /\ r.seconds <= limit.seconds
    <3>1. ~ Over(r.tokens, limit.tokens) /\ ~ Over(r.steps, limit.steps)
          /\ ~ Over(r.seconds, limit.seconds)
      BY <1>4 DEF Tripped
    <3> QED
      BY <1>1, <2>2, <2>3, <3>1, Counters DEF Over
  <2>5. SharesCeilings'
    BY <1>2, <2>1, <2>2, <2>4 DEF SharesCeilings
  <2>6. task' = "security" =>
          /\ totals'.tokens + run'.tokens <= TokenCeiling + MaxAttempts - 1 + StepTokens
          /\ totals'.steps + run'.steps <= MaxSteps + MaxAttempts
    <3>1. task = "security" =>
            /\ totals.tokens + limit.tokens <= TokenCeiling + attempt - 1
            /\ totals.steps + limit.steps <= MaxSteps + attempt - 1
      BY <1>2 DEF SharesCeilings
    <3> QED
      BY <1>1, <1>2, <2>1, <2>4, <3>1, Counters, CeilingsAreNaturals
  <2>7. run'.seconds - silent' <= AtLeastOne(MaxSeconds - elapsed')
    BY <1>1, <2>1, <2>2, <2>4, Counters
  <2> QED
    BY <2>5, <2>6, <2>7 DEF CeilingsHold
<1> QED
  BY <1>3, <1>4

\* The ceilings are tested on every line that is read.
LEMMA LineKeepsCeilings ==
    ASSUME TypeOK, StepKnows, SharesCeilings, Line
    PROVE  SharesCeilings' /\ CeilingsHold'
<1>1. /\ run.tokens = run.tokens + 0 /\ run.steps = run.steps + 0
      /\ run.seconds = run.seconds
  BY Counters
<1>2. ASSUME NEW n \in 0 .. StepTokens, NEW r,
             r = [run EXCEPT !.tokens = @ + n, !.steps = @ + 1]
      PROVE  /\ r.tokens = run.tokens + n /\ r.steps = run.steps + 1
             /\ r.seconds = run.seconds
  BY <1>2 DEF TypeOK
<1>3. 0 \in 0 .. StepTokens /\ 0 \in 0 .. 1 /\ 1 \in 0 .. 1
  BY CeilingsAreNaturals
<1>4. ASSUME NEW a, ReadLine(run, a) PROVE SharesCeilings' /\ CeilingsHold'
  BY <1>1, <1>3, <1>4, LineStepKeepsCeilings
<1>5. ASSUME NEW n \in 0 .. StepTokens,
             ReadLine([run EXCEPT !.tokens = @ + n, !.steps = @ + 1], answer)
      PROVE  SharesCeilings' /\ CeilingsHold'
  <2>1. PICK r : r = [run EXCEPT !.tokens = @ + n, !.steps = @ + 1]
    OBVIOUS
  <2>2. ReadLine(r, answer)
    BY <1>5, <2>1
  <2>3. r.tokens = run.tokens + n /\ r.steps = run.steps + 1 /\ r.seconds = run.seconds
    BY <1>2, <2>1
  <2> QED
    BY <1>3, <2>2, <2>3, LineStepKeepsCeilings
<1> QED
  BY <1>4, <1>5 DEF Line

\* What an attempt is left.
LEMMA StartKeepsCeilings ==
    ASSUME TypeOK, SharesCeilings, StartAttempt
    PROVE  SharesCeilings' /\ CeilingsHold'
<1>1. /\ pc = "attempting" /\ pc' = "streaming" /\ attempt' = attempt + 1
      /\ UNCHANGED <<task, totals, elapsed>>
      /\ run'.tokens = 0 /\ run'.steps = 0 /\ run'.seconds = 0 /\ silent' = 0
      /\ limit'.tokens = AtLeastOne(TokenCeiling - totals.tokens)
      /\ limit'.steps = AtLeastOne(MaxSteps - totals.steps)
      /\ limit'.seconds = AtLeastOne(MaxSeconds - elapsed)
  BY DEF StartAttempt, Remaining
<1>2. limit'.tokens >= 1 /\ limit'.steps >= 1 /\ limit'.tokens \in Nat /\ limit'.steps \in Nat
  BY <1>1, LeftOfOne, Counters, CeilingsAreNaturals
<1>3. AtLeastOne(MaxSeconds - elapsed) >= 1 /\ AtLeastOne(MaxSeconds - elapsed) \in Nat
  BY LeftOfOne, Counters, CeilingsAreNaturals
<1>4. task = "security" =>
         /\ totals.tokens <= TokenCeiling + attempt - 1
         /\ totals.steps <= MaxSteps + attempt - 1
  BY <1>1 DEF SharesCeilings
<1>5. task = "security" =>
         /\ totals.tokens + limit'.tokens <= TokenCeiling + attempt' - 1
         /\ totals.steps + limit'.steps <= MaxSteps + attempt' - 1
  BY <1>1, <1>4, Counters, CeilingsAreNaturals DEF AtLeastOne
<1>6. task = "security" =>
         /\ totals.tokens <= TokenCeiling + MaxAttempts - 1 + StepTokens
         /\ totals.steps <= MaxSteps + MaxAttempts
  BY <1>4, Counters, CeilingsAreNaturals
<1>7. SharesCeilings'
  BY <1>1, <1>2, <1>5 DEF SharesCeilings
<1>8. CeilingsHold'
  BY <1>1, <1>3, <1>6, Counters DEF CeilingsHold
<1> QED
  BY <1>7, <1>8

\* The attempt is over, within its limits.
LEMMA FinishKeepsCeilings ==
    ASSUME TypeOK, SharesCeilings, pc = "waiting", pc' \in {"judging", "exited"},
           Finish(run), UNCHANGED <<task, attempt>>
    PROVE  SharesCeilings' /\ CeilingsHold'
<1>1. /\ run'.tokens = 0 /\ run'.steps = 0
      /\ totals'.tokens = totals.tokens + run.tokens
      /\ totals'.steps = totals.steps + run.steps
  BY DEF Finish
<1>2. task' = "security" =>
         /\ totals'.tokens <= TokenCeiling + attempt' - 1
         /\ totals'.steps <= MaxSteps + attempt' - 1
         /\ totals'.tokens + run'.tokens <= TokenCeiling + MaxAttempts - 1 + StepTokens
         /\ totals'.steps + run'.steps <= MaxSteps + MaxAttempts
  BY <1>1, WithinLimits, Counters
<1> QED
  BY <1>1, <1>2 DEF SharesCeilings, CeilingsHold

\* Steps that count nothing.
LEMMA QuietKeepsCeilings ==
    ASSUME TypeOK, SharesCeilings, CeilingsHold,
           UNCHANGED <<task, attempt, elapsed, totals, silent>>,
           run'.tokens = run.tokens, run'.steps = run.steps, run'.seconds = run.seconds,
           limit'.tokens = limit.tokens, limit'.steps = limit.steps,
           limit'.seconds = limit.seconds \/ pc' # "streaming",
           \/ pc' = pc \/ pc' = "exited"
           \/ pc = "streaming" /\ pc' = "waiting"
           \/ {pc, pc'} \cap {"streaming", "waiting", "exited"} = {}
    PROVE  SharesCeilings' /\ CeilingsHold'
<1>1. SharesCeilings'
  BY DEF SharesCeilings
<1>2. CeilingsHold'
  BY DEF CeilingsHold
<1> QED
  BY <1>1, <1>2

\* The ceilings: every step.
LEMMA CeilingsStep ==
    ASSUME TypeOK, StepKnows, SharesCeilings, CeilingsHold, [Next]_vars
    PROVE  SharesCeilings' /\ CeilingsHold'
<1>1. CASE Resolve \/ Preflight \/ Judge \/ Decide \/ Conclude \/ BreakStream
           \/ UNCHANGED vars
  <2>1. UNCHANGED <<task, attempt, elapsed, totals, run, limit, silent>>
    BY <1>1 DEF Resolve, Preflight, Judge, Decide, Conclude, BreakStream, vars, scan
  <2>2. \/ pc' = pc \/ pc' = "exited"
        \/ {pc, pc'} \cap {"streaming", "waiting", "exited"} = {}
    BY <1>1 DEF Resolve, Preflight, Judge, Decide, Conclude, BreakStream, vars, Exits, Again
  <2> QED
    BY <2>1, <2>2, QuietKeepsCeilings
<1>2. CASE CallModel
  <2>1. task' = "review" /\ pc' # "streaming"
    BY <1>2 DEF CallModel, StepKnows, Exits
  <2> QED
    BY <2>1 DEF SharesCeilings, CeilingsHold
<1>3. CASE CloseOutput
  <2>1. /\ pc = "streaming" /\ pc' = "waiting"
        /\ UNCHANGED <<task, attempt, elapsed, totals, run, silent>>
        /\ limit'.tokens = limit.tokens /\ limit'.steps = limit.steps
    BY <1>3 DEF CloseOutput, TypeOK
  <2> QED
    BY <2>1, QuietKeepsCeilings
<1>4. CASE ChildExits \/ WaitTimeout
  <2>1. /\ pc = "waiting" /\ pc' \in {"judging", "exited"}
        /\ Finish(run) /\ UNCHANGED <<task, attempt>>
    BY <1>4 DEF ChildExits, WaitTimeout, Aborts, Exits
  <2> QED
    BY <2>1, FinishKeepsCeilings
<1>5. CASE Tick
  <2>1. /\ pc' = pc /\ UNCHANGED <<task, attempt, elapsed, totals, limit>>
        /\ run'.tokens = run.tokens /\ run'.steps = run.steps
        /\ run'.seconds = run.seconds + 1
        /\ pc = "streaming" => silent' = silent + 1
    BY <1>5 DEF Tick, TypeOK
  <2>2. SharesCeilings'
    BY <2>1 DEF SharesCeilings
  <2>3. CeilingsHold'
    <3>1. pc = "streaming" => run'.seconds - silent' = run.seconds - silent
      BY <2>1, Counters
    <3> QED
      BY <2>1, <3>1 DEF CeilingsHold
  <2> QED
    BY <2>2, <2>3
<1> QED
  BY <1>1, <1>2, <1>3, <1>4, <1>5, StartKeepsCeilings, LineKeepsCeilings
  DEF Next, Agent, Child

\* The attempts of a run share its ceilings, whatever the ceilings and the steps.
THEOREM AttemptsShareCeilings == Spec => []CeilingsHold
<1>1. Init => SharesCeilings /\ CeilingsHold
  BY CeilingAssumption DEF Init, NoUsage, SharesCeilings, CeilingsHold
<1>2. IInv /\ (SharesCeilings /\ CeilingsHold) /\ [Next]_vars => (SharesCeilings /\ CeilingsHold)'
  BY CeilingsStep DEF IInv
<1> QED
  BY <1>1, <1>2, AgentInvariant, PTL DEF Spec

=============================================================================
