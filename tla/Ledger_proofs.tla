---------------------------- MODULE Ledger_proofs ----------------------------
(***************************************************************************)
(* The verdicts and gates of runs, and what is counted on them, for any    *)
(* number of runs, findings and requests.                                  *)
(*                                                                         *)
(* QualityGate: whoever is inside its transaction holds its run's row      *)
(* (TransactionHoldsRun), hence no other handler commits a verdict on that *)
(* run, hence the gate it is about to store is computed from the verdicts  *)
(* its commit leaves behind (PendingGateIsFresh), hence stored gates and   *)
(* stored verdicts always agree (GateMatchesVerdicts).                     *)
(*                                                                         *)
(* Dashboard and DemoSeed: the money is about sums over sets of runs       *)
(* (SumTheorems).  The overall status is an acceptance rate over all       *)
(* findings of a window, the gates are rates of one run each: both are     *)
(* signs of sums of one margin.                                            *)
(***************************************************************************)
EXTENDS QualityGate, DemoSeed, SumTheorems


USE RunOfAssumption, FindingAssumption, NoRequestAssumption

\* recompute_quality reads nothing but the verdicts of the run's own findings.
LEMMA GateReadsOwnFindings ==
    ASSUME NEW run \in Run, NEW vs \in VerdictMap, NEW ws \in VerdictMap,
           \A f \in FindingsOf(run) : vs[f] = ws[f]
    PROVE  recompute_quality(vs, run) = recompute_quality(ws, run)
<1>1. Rated(vs, run) = Rated(ws, run)
  BY DEF Rated, FindingsOf
<1>2. Accepted(vs, run) = Accepted(ws, run)
  BY DEF Accepted, FindingsOf
<1> QED
  BY <1>1, <1>2 DEF recompute_quality

\* It answers NULL, ok or risk and nothing else.
LEMMA GateRange ==
    ASSUME NEW run, NEW vs
    PROVE  recompute_quality(vs, run) \in Gate
BY DEF recompute_quality, Gate

\* A run without a rated finding is un-gated.
LEMMA UnratedIsNull ==
    ASSUME NEW run \in Run, NEW vs \in VerdictMap,
           \A f \in FindingsOf(run) : vs[f] = "unrated"
    PROVE  recompute_quality(vs, run) = "null"
BY DEF recompute_quality, Rated, FindingsOf

LEMMA AnyFindingIsFinding == AnyFinding \in Finding
BY DEF AnyFinding

LEMMA OwnViewType ==
    ASSUME TypeOK, NEW r \in Request
    PROVE  OwnView(r) \in VerdictMap
BY DEF TypeOK, OwnView, VerdictMap

\* What a request asks for is its own.
LEMMA RequestAsks ==
    ASSUME NEW r \in Request, LoadFinding(r)
    PROVE  \E g \in Finding, v \in Verdict, c \in {"owner", "stranger"} :
               /\ target' = [target EXCEPT ![r] = g]
               /\ say' = [say EXCEPT ![r] = v]
               /\ caller' = [caller EXCEPT ![r] = c]
BY DEF LoadFinding

-----------------------------------------------------------------------------

\* Initially no run exists, nothing is rated and no handler has started.
LEMMA InitIInv == Init => IInv
<1> SUFFICES ASSUME Init PROVE IInv
  OBVIOUS
<1> USE DEF Init, LedgerInit
<1>1. TypeOK
  BY AnyFindingIsFinding DEF TypeOK, VerdictMap, Gate, Verdict, Step, NoAnswer, NothingRated
<1>2. GateMatchesVerdicts
  BY UnratedIsNull DEF GateMatchesVerdicts, VerdictMap, FindingsOf
<1>3. TransactionHoldsRun /\ PendingGateIsFresh
  BY DEF TransactionHoldsRun, PendingGateIsFresh, InTransaction
<1> QED
  BY <1>1, <1>2, <1>3 DEF IInv

\* Every step keeps every variable in its type.
LEMMA NextTypeOK == TypeOK /\ [Next]_vars => TypeOK'
<1> SUFFICES ASSUME TypeOK, [Next]_vars PROVE TypeOK'
  OBVIOUS
<1> USE DEF TypeOK, Step, InTransaction, Gate, Verdict
<1>1. ASSUME NEW r \in Request, LoadFinding(r) PROVE TypeOK'
  <2>1. PICK f \in Finding, v \in Verdict, c \in {"owner", "stranger"} :
            /\ target' = [target EXCEPT ![r] = f]
            /\ say' = [say EXCEPT ![r] = v]
            /\ caller' = [caller EXCEPT ![r] = c]
            /\ \/ pc' = [pc EXCEPT ![r] = "loaded"] /\ UNCHANGED answer
               \/ Answer(r, 404, "null")
    BY <1>1 DEF LoadFinding
  <2>2. UNCHANGED <<row, verdict, quality, lock, seen>>
    BY <1>1 DEF LoadFinding
  <2> QED
    BY <2>1, <2>2 DEF Answer
<1>2. ASSUME NEW r \in Request, LockRun(r) PROVE TypeOK'
  BY <1>2 DEF LockRun
<1>3. ASSUME NEW r \in Request, LockMissingRun(r) PROVE TypeOK'
  BY <1>3 DEF LockMissingRun, Answer
<1>4. ASSUME NEW r \in Request, Forbid(r) PROVE TypeOK'
  BY <1>4 DEF Forbid, Answer, Unlock
<1>5. ASSUME NEW r \in Request, Upsert(r) PROVE TypeOK'
  BY <1>5 DEF Upsert
<1>6. ASSUME NEW r \in Request, Recompute(r) PROVE TypeOK'
  BY <1>6, OwnViewType DEF Recompute
<1>7. ASSUME NEW r \in Request, Commit(r) PROVE TypeOK'
  <2>1. recompute_quality(seen[r], RunFor(r)) \in Gate
    BY GateRange
  <2> QED
    BY <1>7, <2>1, OwnViewType DEF Commit, Unlock
<1>8. ASSUME NEW r \in Request, Reply(r) PROVE TypeOK'
  <2>1. RunFor(r) \in Run
    BY DEF RunFor
  <2>2. PICK code \in {200, 500}, gate \in Gate : Answer(r, code, gate)
    BY <1>8, <2>1 DEF Reply
  <2> QED
    BY <1>8, <2>2 DEF Reply, Answer
<1>9. ASSUME NEW r \in Request, Finish(r) PROVE TypeOK'
  BY <1>9, AnyFindingIsFinding DEF Finish, Release, NoAnswer, NothingRated, VerdictMap
<1>10. ASSUME NEW r \in Request, Crash(r) PROVE TypeOK'
  BY <1>10, AnyFindingIsFinding DEF Crash, Release, Unlock, NoAnswer, NothingRated, VerdictMap
<1>11. ASSUME NEW run \in Run, InsertRun(run) PROVE TypeOK'
  BY <1>11 DEF InsertRun, Ingest, handler
<1>12. ASSUME NEW run \in Run, DeleteRun(run) PROVE TypeOK'
  <2>1. verdict' \in VerdictMap
    BY <1>12 DEF DeleteRun, Delete, VerdictMap
  <2> QED
    BY <1>12, <2>1 DEF DeleteRun, Delete, handler
<1>13. CASE UNCHANGED vars
  BY <1>13 DEF vars, handler
<1> QED
  BY <1>1, <1>2, <1>3, <1>4, <1>5, <1>6, <1>7, <1>8, <1>9, <1>10, <1>11, <1>12, <1>13
     DEF Next, Handle

-----------------------------------------------------------------------------

\* A handler keeps its run's row, live and locked, from lock to commit.
LEMMA NextHoldsRun ==
    TypeOK /\ TransactionHoldsRun /\ [Next]_vars => TransactionHoldsRun'
<1> SUFFICES ASSUME TypeOK, TransactionHoldsRun, [Next]_vars PROVE TransactionHoldsRun'
  OBVIOUS
<1> USE DEF TypeOK, TransactionHoldsRun, InTransaction, RunFor
<1>1. ASSUME NEW r \in Request, LoadFinding(r) PROVE TransactionHoldsRun'
  <2>1. PICK f \in Finding : target' = [target EXCEPT ![r] = f]
    BY <1>1 DEF LoadFinding
  <2>2. PICK s \in {"loaded", "answered"} : pc' = [pc EXCEPT ![r] = s]
    BY <1>1 DEF LoadFinding, Answer
  <2> QED
    BY <1>1, <2>1, <2>2 DEF LoadFinding
<1>2. ASSUME NEW r \in Request, LockRun(r) PROVE TransactionHoldsRun'
  BY <1>2 DEF LockRun
<1>3. ASSUME NEW r \in Request, LockMissingRun(r) PROVE TransactionHoldsRun'
  BY <1>3 DEF LockMissingRun, Answer
<1>4. ASSUME NEW r \in Request, Forbid(r) PROVE TransactionHoldsRun'
  BY <1>4 DEF Forbid, Answer, Unlock
<1>5. ASSUME NEW r \in Request, Upsert(r) PROVE TransactionHoldsRun'
  BY <1>5 DEF Upsert
<1>6. ASSUME NEW r \in Request, Recompute(r) PROVE TransactionHoldsRun'
  BY <1>6 DEF Recompute
<1>7. ASSUME NEW r \in Request, Commit(r) PROVE TransactionHoldsRun'
  BY <1>7 DEF Commit, Unlock
<1>8. ASSUME NEW r \in Request, Reply(r) PROVE TransactionHoldsRun'
  <2>1. pc' = [pc EXCEPT ![r] = "answered"]
    BY <1>8 DEF Reply, Answer
  <2> QED
    BY <1>8, <2>1 DEF Reply
<1>9. ASSUME NEW r \in Request, Finish(r) PROVE TransactionHoldsRun'
  BY <1>9 DEF Finish, Release
<1>10. ASSUME NEW r \in Request, Crash(r) PROVE TransactionHoldsRun'
  BY <1>10 DEF Crash, Release, Unlock
<1>11. ASSUME NEW run \in Run, InsertRun(run) PROVE TransactionHoldsRun'
  BY <1>11 DEF InsertRun, Ingest, handler
<1>12. ASSUME NEW run \in Run, DeleteRun(run) PROVE TransactionHoldsRun'
  BY <1>12 DEF DeleteRun, Delete, handler
<1>13. CASE UNCHANGED vars
  BY <1>13 DEF vars, handler
<1> QED
  BY <1>1, <1>2, <1>3, <1>4, <1>5, <1>6, <1>7, <1>8, <1>9, <1>10, <1>11, <1>12, <1>13
     DEF Next, Handle

\* Only Commit and DeleteRun write verdicts, and neither can touch the run of
\* another handler that has already computed its gate.
LEMMA NextFresh ==
    TypeOK /\ TransactionHoldsRun /\ PendingGateIsFresh /\ [Next]_vars => PendingGateIsFresh'
<1> SUFFICES ASSUME TypeOK, TransactionHoldsRun, PendingGateIsFresh, [Next]_vars,
                    NEW q \in Request, (pc[q] = "recomputed")',
                    NEW f \in Finding, RunOf[f] = RunOf[target'[q]]
             PROVE  seen'[q][f] = (OwnView(q)')[f]
  BY DEF PendingGateIsFresh, FindingsOf, RunFor
<1> USE DEF TypeOK, OwnView, VerdictMap
<1> DEFINE Undisturbed == /\ pc[q] = "recomputed"
                          /\ seen'[q] = seen[q]
                          /\ target'[q] = target[q]
                          /\ say'[q] = say[q]
<1>a. ASSUME Undisturbed, verdict'[f] = verdict[f] PROVE seen'[q][f] = (OwnView(q)')[f]
  <2>1. seen[q][f] = OwnView(q)[f]
    BY <1>a DEF PendingGateIsFresh, FindingsOf, RunFor
  <2>2. OwnView(q)[f] = IF f = target[q] THEN say[q] ELSE verdict[f]
    OBVIOUS
  <2>3. (OwnView(q)')[f] = IF f = target'[q] THEN say'[q] ELSE verdict'[f]
    BY NextTypeOK
  <2> QED
    BY <1>a, <2>1, <2>2, <2>3
<1>b. ASSUME Undisturbed PROVE lock[RunOf[f]] = q
  BY <1>b DEF TransactionHoldsRun, InTransaction, RunFor
<1>1. ASSUME NEW r \in Request, LoadFinding(r) PROVE Undisturbed /\ verdict' = verdict
  <2>1. PICK g \in Finding, v \in Verdict, c \in {"owner", "stranger"} :
            /\ target' = [target EXCEPT ![r] = g]
            /\ say' = [say EXCEPT ![r] = v]
            /\ caller' = [caller EXCEPT ![r] = c]
    BY <1>1, RequestAsks
  <2>2. PICK s \in {"loaded", "answered"} : pc' = [pc EXCEPT ![r] = s]
    BY <1>1 DEF LoadFinding, Answer
  <2> QED
    BY <1>1, <2>1, <2>2 DEF LoadFinding
<1>2. ASSUME NEW r \in Request,
             LockRun(r) \/ LockMissingRun(r) \/ Forbid(r) \/ Upsert(r)
      PROVE  Undisturbed /\ verdict' = verdict
  BY <1>2 DEF LockRun, LockMissingRun, Forbid, Upsert, Answer
<1>3. ASSUME NEW r \in Request, Recompute(r) PROVE seen'[q][f] = (OwnView(q)')[f]
  <2>1. CASE q = r
    BY <1>3, <2>1 DEF Recompute
  <2>2. CASE q # r
    BY <1>3, <2>2, <1>a DEF Recompute
  <2> QED
    BY <2>1, <2>2
<1>4. ASSUME NEW r \in Request, Commit(r) PROVE Undisturbed /\ verdict'[f] = verdict[f]
  <2>1. q # r /\ Undisturbed
    BY <1>4 DEF Commit
  <2>2. lock[RunFor(r)] = r
    BY <1>4 DEF Commit, TransactionHoldsRun, InTransaction
  <2>3. f # target[r]
    BY <2>1, <2>2, <1>b DEF RunFor
  <2> QED
    BY <1>4, <2>1, <2>3 DEF Commit
<1>5. ASSUME NEW r \in Request, Reply(r) PROVE Undisturbed /\ verdict' = verdict
  <2>1. pc' = [pc EXCEPT ![r] = "answered"]
    BY <1>5 DEF Reply, Answer
  <2> QED
    BY <1>5, <2>1 DEF Reply
<1>6. ASSUME NEW r \in Request, Finish(r) \/ Crash(r) PROVE Undisturbed /\ verdict' = verdict
  BY <1>6 DEF Finish, Crash, Release
<1>7. ASSUME NEW run \in Run, InsertRun(run) PROVE Undisturbed /\ verdict' = verdict
  BY <1>7 DEF InsertRun, Ingest, handler
<1>8. ASSUME NEW run \in Run, DeleteRun(run) PROVE Undisturbed /\ verdict'[f] = verdict[f]
  <2>1. Undisturbed
    BY <1>8 DEF DeleteRun, handler
  <2>2. RunOf[f] # run
    BY <1>8, <2>1, <1>b DEF DeleteRun
  <2> QED
    BY <1>8, <2>1, <2>2 DEF DeleteRun, Delete
<1>9. CASE UNCHANGED vars
  BY <1>9, <1>a DEF vars, handler
<1> QED
  BY <1>a, <1>1, <1>2, <1>3, <1>4, <1>5, <1>6, <1>7, <1>8, <1>9 DEF Next, Handle

\* Stored gates follow stored verdicts: Commit writes both for its own run.
LEMMA NextGateMatches == IInv /\ [Next]_vars => GateMatchesVerdicts'
<1> SUFFICES ASSUME IInv, [Next]_vars, NEW run \in Run
             PROVE  quality'[run] = recompute_quality(verdict', run)
  BY DEF GateMatchesVerdicts, recompute_quality, Rated, Accepted, FindingsOf
<1> USE DEF IInv, TypeOK
<1>0. quality[run] = recompute_quality(verdict, run) /\ verdict' \in VerdictMap
  BY NextTypeOK DEF GateMatchesVerdicts
<1>a. CASE UNCHANGED <<verdict, quality>>
  BY <1>0, <1>a
<1>1. ASSUME NEW r \in Request, Commit(r)
      PROVE  quality'[run] = recompute_quality(verdict', run)
  <2>1. RunFor(r) \in Run /\ OwnView(r) \in VerdictMap
    BY OwnViewType DEF RunFor
  <2>2. CASE run = RunFor(r)
    <3>1. \A f \in FindingsOf(run) : seen[r][f] = OwnView(r)[f]
      BY <1>1, <2>2 DEF Commit, PendingGateIsFresh
    <3>2. recompute_quality(seen[r], run) = recompute_quality(OwnView(r), run)
      BY <2>1, <3>1, GateReadsOwnFindings
    <3> QED
      BY <1>1, <2>1, <2>2, <3>2 DEF Commit
  <2>3. CASE run # RunFor(r)
    <3>1. \A f \in FindingsOf(run) : verdict[f] = OwnView(r)[f]
      BY <2>3 DEF FindingsOf, OwnView, RunFor, VerdictMap
    <3>2. recompute_quality(verdict, run) = recompute_quality(OwnView(r), run)
      BY <2>1, <3>1, GateReadsOwnFindings
    <3> QED
      BY <1>0, <1>1, <2>1, <2>3, <3>2 DEF Commit
  <2> QED
    BY <2>2, <2>3
<1>2. ASSUME NEW gone \in Run, DeleteRun(gone)
      PROVE  quality'[run] = recompute_quality(verdict', run)
  <2>1. CASE run = gone
    <3>1. \A f \in FindingsOf(run) : verdict'[f] = "unrated"
      BY <1>2, <2>1 DEF DeleteRun, Delete, FindingsOf
    <3> QED
      BY <1>0, <1>2, <2>1, <3>1, UnratedIsNull DEF DeleteRun, Delete
  <2>2. CASE run # gone
    <3>1. \A f \in FindingsOf(run) : verdict[f] = verdict'[f]
      BY <1>2, <2>2 DEF DeleteRun, Delete, FindingsOf
    <3>2. recompute_quality(verdict, run) = recompute_quality(verdict', run)
      BY <1>0, <3>1, GateReadsOwnFindings
    <3> QED
      BY <1>0, <1>2, <2>2, <3>2 DEF DeleteRun, Delete
  <2> QED
    BY <2>1, <2>2
<1>3. ASSUME NEW r \in Request,
             \/ LoadFinding(r) \/ LockRun(r) \/ LockMissingRun(r) \/ Forbid(r) \/ Upsert(r)
             \/ Recompute(r) \/ Reply(r) \/ Finish(r) \/ Crash(r)
      PROVE  UNCHANGED <<verdict, quality>>
  BY <1>3 DEF LoadFinding, LockRun, LockMissingRun, Forbid, Upsert, Recompute, Reply,
              Finish, Crash
<1>4. ASSUME NEW new \in Run, InsertRun(new) PROVE UNCHANGED <<verdict, quality>>
  BY <1>4 DEF InsertRun, Ingest
<1>5. CASE UNCHANGED vars
  BY <1>5, <1>a DEF vars
<1> QED
  BY <1>a, <1>1, <1>2, <1>3, <1>4, <1>5 DEF Next, Handle

-----------------------------------------------------------------------------

\* IInv is inductive.
THEOREM QualityGateInvariant == Spec => []IInv
<1>1. IInv /\ [Next]_vars => IInv'
  BY NextTypeOK, NextHoldsRun, NextFresh, NextGateMatches DEF IInv
<1> QED
  BY InitIInv, <1>1, PTL DEF Spec

\* Type correctness of every reachable state, for any runs, findings, handlers.
THEOREM QualityGateTypes == Spec => []TypeOK
<1>1. IInv => TypeOK
  BY DEF IInv
<1> QED
  BY <1>1, QualityGateInvariant, PTL

\* The lost-update hazard of submit_feedback cannot happen: whatever the
\* interleaving of handlers, crashes, ingests and deletes, the stored gate of
\* every run is the gate of all its stored verdicts.
THEOREM StoredGateIsExact == Spec => []GateMatchesVerdicts
<1>1. IInv => GateMatchesVerdicts
  BY DEF IInv
<1> QED
  BY <1>1, QualityGateInvariant, PTL

\* Every step of the interleaved handlers is a step of the ledger or a stutter.
THEOREM HandlersImplementLedger == Spec => ImplementsLedger
<1>1. Init => LedgerInit
  BY DEF Init
<1>2. IInv /\ [Next]_vars => [LedgerNext]_ledger
  <2> SUFFICES ASSUME IInv, [Next]_vars PROVE [LedgerNext]_ledger
    OBVIOUS
  <2> USE DEF IInv, TypeOK
  <2>1. ASSUME NEW r \in Request, Commit(r) PROVE LedgerNext
    <3>1. target[r] \in Finding /\ say[r] \in Verdict /\ RunFor(r) = RunOf[target[r]]
      BY DEF RunFor
    <3>2. row[RunFor(r)] = "live"
      BY <2>1 DEF Commit, TransactionHoldsRun, InTransaction
    <3>3. \A f \in FindingsOf(RunFor(r)) : seen[r][f] = OwnView(r)[f]
      BY <2>1 DEF Commit, PendingGateIsFresh
    <3>4. recompute_quality(seen[r], RunFor(r)) = recompute_quality(OwnView(r), RunFor(r))
      BY <3>1, <3>3, OwnViewType, GateReadsOwnFindings DEF RunFor
    <3>5. Rate(target[r], say[r])
      BY <2>1, <3>1, <3>2, <3>4 DEF Commit, Rate, OwnView
    <3> QED
      BY <3>1, <3>5 DEF LedgerNext
  <2>2. ASSUME NEW run \in Run, InsertRun(run) \/ DeleteRun(run) PROVE LedgerNext
    BY <2>2 DEF InsertRun, DeleteRun, LedgerNext
  <2>3. ASSUME NEW r \in Request,
               \/ LoadFinding(r) \/ LockRun(r) \/ LockMissingRun(r) \/ Forbid(r) \/ Upsert(r)
               \/ Recompute(r) \/ Reply(r) \/ Finish(r) \/ Crash(r)
        PROVE  UNCHANGED ledger
    BY <2>3 DEF LoadFinding, LockRun, LockMissingRun, Forbid, Upsert, Recompute, Reply,
                Finish, Crash, ledger
  <2>4. CASE UNCHANGED vars
    BY <2>4 DEF vars, ledger
  <2> QED
    BY <2>1, <2>2, <2>3, <2>4 DEF Next, Handle
<1> QED
  BY <1>1, <1>2, QualityGateInvariant, PTL DEF Spec, ImplementsLedger, LedgerSpec


-----------------------------------------------------------------------------
\* Savings.


USE ThresholdAssumption, RowsAssumption

-----------------------------------------------------------------------------
\* Money.

Money ==
    {Null} \cup {m \in [actual : Int, baseline : Int, savings : Int] :
                    m.savings = m.baseline - m.actual}

\* The money columns of what is loaded, as summands.
Column(R, column) == [run \in DOMAIN R |-> Amount(R[run].money[column])]

Loaded(R) ==
    /\ DOMAIN R \subseteq Run
    /\ \A run \in DOMAIN R : R[run].money \in Money /\ R[run].quality \in Gate

LEMMA AmountsAddUp ==
    ASSUME NEW m \in Money
    PROVE  /\ Amount(m.actual) \in Int /\ Amount(m.baseline) \in Int /\ Amount(m.savings) \in Int
           /\ Amount(m.savings) = Amount(m.baseline) - Amount(m.actual)
<1>1. CASE m = Null
  BY <1>1 DEF Null, Amount
<1>2. CASE m # Null
  <2>1. /\ m.actual \in Int /\ m.baseline \in Int /\ m.savings \in Int
        /\ m.savings = m.baseline - m.actual
    BY <1>2 DEF Money
  <2> QED
    BY <2>1, MoneyAssumption DEF Amount
<1> QED
  BY <1>1, <1>2

LEMMA ColumnsAddUp ==
    ASSUME NEW R, Loaded(R), NEW run \in DOMAIN R
    PROVE  /\ Column(R, "actual")[run] \in Int /\ Column(R, "baseline")[run] \in Int
           /\ Column(R, "savings")[run] \in Int
           /\ Column(R, "savings")[run] = Column(R, "baseline")[run] - Column(R, "actual")[run]
<1>1. R[run].money \in Money
  BY DEF Loaded
<1> QED
  BY <1>1, AmountsAddUp DEF Column

LEMMA SumOfColumn ==
    ASSUME NEW R, Loaded(R), NEW S \in SUBSET DOMAIN R,
           NEW column \in {"actual", "baseline", "savings"}
    PROVE  /\ IsFiniteSet(S)
           /\ SumOf(R, S, column) = Sum(Column(R, column), S)
           /\ SumOf(R, S, column) \in Int
<1> DEFINE F == [run \in S |-> Amount(R[run].money[column])]
<1>1. IsFiniteSet(S)
  BY FS_Subset DEF Loaded
<1>2. \A run \in S : Column(R, column)[run] \in Int /\ F[run] = Column(R, column)[run]
  BY ColumnsAddUp DEF Column
<1>3. SumOf(R, S, column) = Sum(F, S)
  BY DEF SumOf, Sum
<1> HIDE DEF F
<1> QED
  BY <1>1, <1>2, <1>3, SumEqual, SumType

\* What a set of runs saved is what they would have cost less what they did cost.
LEMMA SavingsReconcile ==
    ASSUME NEW R, Loaded(R), NEW S \in SUBSET DOMAIN R
    PROVE  SumOf(R, S, "savings") = SumOf(R, S, "baseline") - SumOf(R, S, "actual")
<1>1. \A run \in S : /\ Column(R, "baseline")[run] \in Int /\ Column(R, "actual")[run] \in Int
                     /\ Column(R, "savings")[run] =
                           Column(R, "baseline")[run] - Column(R, "actual")[run]
  BY ColumnsAddUp
<1>2. Sum(Column(R, "savings"), S) =
         Sum(Column(R, "baseline"), S) - Sum(Column(R, "actual"), S)
  BY <1>1, SumOfColumn, SumOfDifference
<1> QED
  BY <1>2, SumOfColumn

\* Banked, at risk and not rated yet are all there is.
LEMMA GatesPartition ==
    ASSUME NEW R, Loaded(R)
    PROVE  SumOf(R, DOMAIN R, "savings") =
              SumOf(R, Banked(R), "savings") + SumOf(R, AtRisk(R), "savings")
              + SumOf(R, Ungated(R), "savings")
<1> DEFINE F == Column(R, "savings")
           D == DOMAIN R
<1>1. IsFiniteSet(D) /\ \A run \in D : F[run] \in Int
  BY ColumnsAddUp, SumOfColumn
<1>2. /\ Banked(R) \in SUBSET D /\ AtRisk(R) \in SUBSET D /\ Ungated(R) \in SUBSET D
      /\ D \ Banked(R) \in SUBSET D /\ D \in SUBSET D
      /\ AtRisk(R) \in SUBSET (D \ Banked(R))
      /\ (D \ Banked(R)) \ AtRisk(R) = Ungated(R)
  BY DEF Banked, AtRisk, Ungated, Loaded, Gate
<1>3. /\ SumOf(R, D, "savings") = Sum(F, D) /\ SumOf(R, Banked(R), "savings") = Sum(F, Banked(R))
      /\ SumOf(R, AtRisk(R), "savings") = Sum(F, AtRisk(R))
      /\ SumOf(R, Ungated(R), "savings") = Sum(F, Ungated(R))
      /\ Sum(F, Banked(R)) \in Int /\ Sum(F, AtRisk(R)) \in Int /\ Sum(F, Ungated(R)) \in Int
  BY <1>2, SumOfColumn
<1>4. IsFiniteSet(D \ Banked(R)) /\ \A run \in D \ Banked(R) : F[run] \in Int
  BY <1>1, FS_Subset
<1> HIDE DEF F, D
<1>5. Sum(F, D) = Sum(F, Banked(R)) + Sum(F, D \ Banked(R))
  BY <1>1, <1>2, SumOfParts
<1>6. Sum(F, D \ Banked(R)) = Sum(F, AtRisk(R)) + Sum(F, (D \ Banked(R)) \ AtRisk(R))
  BY <1>2, <1>4, SumOfParts
<1>7. Sum(F, D) = Sum(F, Banked(R)) + Sum(F, AtRisk(R)) + Sum(F, Ungated(R))
  <2>1. Sum(F, (D \ Banked(R)) \ AtRisk(R)) = Sum(F, Ungated(R))
    BY <1>2
  <2> QED
    BY <1>3, <1>5, <1>6, <2>1
<1> QED
  BY <1>3, <1>7 DEF D

\* What the page says of loaded runs reconciles.
Reconciles(s, R) ==
    /\ s.cumulative = s.baseline_total - SumOf(R, Banked(R), "actual")
    /\ s.cumulative + s.quality_risk + SumOf(R, Ungated(R), "savings")
          = SumOf(R, DOMAIN R, "baseline") - s.spend

LEMMA PageReconciles ==
    ASSUME NEW R, Loaded(R), NEW vs
    PROVE  Reconciles(assemble(R, vs), R)
<1> DEFINE s == assemble(R, vs)
<1>1. /\ s.cumulative = SumOf(R, Banked(R), "savings")
      /\ s.baseline_total = SumOf(R, Banked(R), "baseline")
      /\ s.spend = SumOf(R, DOMAIN R, "actual")
      /\ s.quality_risk = SumOf(R, AtRisk(R), "savings")
  BY DEF assemble
<1> HIDE DEF s
<1>2. Banked(R) \in SUBSET DOMAIN R /\ DOMAIN R \in SUBSET DOMAIN R
  BY DEF Banked
<1>3. /\ SumOf(R, Banked(R), "savings") =
            SumOf(R, Banked(R), "baseline") - SumOf(R, Banked(R), "actual")
      /\ SumOf(R, DOMAIN R, "savings") =
            SumOf(R, DOMAIN R, "baseline") - SumOf(R, DOMAIN R, "actual")
  BY <1>2, SavingsReconcile
<1>4. /\ SumOf(R, Banked(R), "actual") \in Int /\ SumOf(R, Banked(R), "baseline") \in Int
      /\ SumOf(R, DOMAIN R, "actual") \in Int /\ SumOf(R, DOMAIN R, "baseline") \in Int
      /\ SumOf(R, AtRisk(R), "savings") \in Int /\ SumOf(R, Ungated(R), "savings") \in Int
  <2>1. AtRisk(R) \in SUBSET DOMAIN R /\ Ungated(R) \in SUBSET DOMAIN R
    BY DEF AtRisk, Ungated
  <2> QED
    BY <1>2, <2>1, SumOfColumn
<1>5. SumOf(R, DOMAIN R, "savings") =
         SumOf(R, Banked(R), "savings") + SumOf(R, AtRisk(R), "savings")
         + SumOf(R, Ungated(R), "savings")
  BY GatesPartition
<1>6. Reconciles(s, R)
  BY <1>1, <1>3, <1>4, <1>5 DEF Reconciles
<1> QED
  BY <1>6 DEF s

-----------------------------------------------------------------------------
\* Gates and rates.

\* By how much a run's accepted findings clear the threshold, times a denominator.
Margin(vs) ==
    [run \in Run |-> Cardinality(Accepted(vs, run)) * ThresholdDen
                     - ThresholdNum * Cardinality(Rated(vs, run))]

AllRated(vs, S) == UNION {Rated(vs, run) : run \in S}
AllAccepted(vs, S) == UNION {Accepted(vs, run) : run \in S}

LEMMA FindingCounts ==
    ASSUME NEW vs, NEW S
    PROVE  /\ IsFiniteSet(AllRated(vs, S)) /\ IsFiniteSet(AllAccepted(vs, S))
           /\ Cardinality(AllRated(vs, S)) \in Nat /\ Cardinality(AllAccepted(vs, S)) \in Nat
           /\ \A run : /\ IsFiniteSet(Rated(vs, run)) /\ IsFiniteSet(Accepted(vs, run))
                       /\ Cardinality(Rated(vs, run)) \in Nat
                       /\ Cardinality(Accepted(vs, run)) \in Nat
                       /\ Accepted(vs, run) \subseteq Rated(vs, run)
<1>1. \A run : /\ Rated(vs, run) \subseteq Finding /\ Accepted(vs, run) \subseteq Finding
               /\ Accepted(vs, run) \subseteq Rated(vs, run)
  BY DEF Rated, Accepted, FindingsOf
<1>2. AllRated(vs, S) \subseteq Finding /\ AllAccepted(vs, S) \subseteq Finding
  BY <1>1 DEF AllRated, AllAccepted
<1> QED
  BY <1>1, <1>2, FS_Subset, FS_CardinalityType

LEMMA MarginType ==
    ASSUME NEW vs, NEW run \in Run
    PROVE  Margin(vs)[run] \in Int
<1>1. ThresholdDen \in Nat /\ ThresholdNum \in Nat
  OBVIOUS
<1>2. Cardinality(Accepted(vs, run)) \in Nat /\ Cardinality(Rated(vs, run)) \in Nat
  BY FindingCounts, Zenon
<1>3. \A p, q, r, t \in Nat : p * q - r * t \in Int
  OBVIOUS
<1>4. Cardinality(Accepted(vs, run)) * ThresholdDen
         - ThresholdNum * Cardinality(Rated(vs, run)) \in Int
  BY <1>1, <1>2, <1>3
<1> QED
  BY <1>4 DEF Margin

\* One run more: its findings are no other run's.
LEMMA OneRunMore ==
    ASSUME NEW vs, NEW S, NEW c \in S
    PROVE  /\ Cardinality(AllRated(vs, S)) =
                 Cardinality(AllRated(vs, S \ {c})) + Cardinality(Rated(vs, c))
           /\ Cardinality(AllAccepted(vs, S)) =
                 Cardinality(AllAccepted(vs, S \ {c})) + Cardinality(Accepted(vs, c))
<1>1. /\ AllRated(vs, S) = AllRated(vs, S \ {c}) \cup Rated(vs, c)
      /\ AllRated(vs, S \ {c}) \cap Rated(vs, c) = {}
  BY DEF AllRated, Rated, FindingsOf
<1>2. /\ AllAccepted(vs, S) = AllAccepted(vs, S \ {c}) \cup Accepted(vs, c)
      /\ AllAccepted(vs, S \ {c}) \cap Accepted(vs, c) = {}
  BY DEF AllAccepted, Accepted, FindingsOf
<1>3. Cardinality({}) = 0
  BY FS_EmptySet
<1>4. /\ Cardinality(AllRated(vs, S)) =
            Cardinality(AllRated(vs, S \ {c})) + Cardinality(Rated(vs, c)) - 0
      /\ Cardinality(AllAccepted(vs, S)) =
            Cardinality(AllAccepted(vs, S \ {c})) + Cardinality(Accepted(vs, c)) - 0
  BY <1>1, <1>2, <1>3, FindingCounts, FS_Union
<1> QED
  BY <1>4, FindingCounts

\* The window's rate clears the threshold by the sum of its runs' margins.
LEMMA RatesAddUp ==
    ASSUME NEW vs, NEW S \in SUBSET Run
    PROVE  Sum(Margin(vs), S) =
              Cardinality(AllAccepted(vs, S)) * ThresholdDen
              - ThresholdNum * Cardinality(AllRated(vs, S))
<1> DEFINE Whole(T) == Cardinality(AllAccepted(vs, T)) * ThresholdDen
                       - ThresholdNum * Cardinality(AllRated(vs, T))
           Bad == {T \in SUBSET S : Sum(Margin(vs), T) # Whole(T)}
<1> SUFFICES ASSUME Bad # {} PROVE FALSE
  OBVIOUS
<1>1. IsFiniteSet(S)
  BY FS_Subset
<1>2. PICK T \in Bad : \A x \in T : T \ {x} \notin Bad
  BY <1>1, MinimalSubset
<1>3. T # {}
  <2>1. AllAccepted(vs, {}) = {} /\ AllRated(vs, {}) = {}
    BY DEF AllAccepted, AllRated
  <2>2. Cardinality({}) = 0
    BY FS_EmptySet
  <2>3. 0 * ThresholdDen - ThresholdNum * 0 = 0
    OBVIOUS
  <2>4. Whole({}) = 0
    BY <2>1, <2>2, <2>3
  <2> QED
    BY <2>4, SumEmpty
<1>4. PICK c \in T : TRUE
  BY <1>3
<1>5. Sum(Margin(vs), T \ {c}) = Whole(T \ {c})
  BY <1>2, <1>4
<1>6. Sum(Margin(vs), T) = Margin(vs)[c] + Sum(Margin(vs), T \ {c})
  <2>1. IsFiniteSet(T) /\ \A run \in T : Margin(vs)[run] \in Int
    BY <1>1, MarginType, FS_Subset
  <2> QED
    BY <1>4, <2>1, SumTakesOut
<1>7. Margin(vs)[c] = Cardinality(Accepted(vs, c)) * ThresholdDen
                      - ThresholdNum * Cardinality(Rated(vs, c))
  BY <1>4 DEF Margin
<1>8. \A a, b, r, s \in Nat :
         (a * ThresholdDen - ThresholdNum * r) + (b * ThresholdDen - ThresholdNum * s)
            = (b + a) * ThresholdDen - ThresholdNum * (s + r)
  <2>1. ThresholdDen \in Int /\ ThresholdNum \in Int
    OBVIOUS
  <2>2. \A x, y, a, b, r, s \in Int :
           (a * x - y * r) + (b * x - y * s) = (b + a) * x - y * (s + r)
    OBVIOUS
  <2> QED
    BY <2>1, <2>2
<1>9. Whole(T) = (Cardinality(AllAccepted(vs, T \ {c})) + Cardinality(Accepted(vs, c))) * ThresholdDen
                 - ThresholdNum * (Cardinality(AllRated(vs, T \ {c})) + Cardinality(Rated(vs, c)))
  BY <1>4, OneRunMore
<1>10. Margin(vs)[c] + Whole(T \ {c}) = Whole(T)
  BY <1>7, <1>8, <1>9, FindingCounts
<1>11. Sum(Margin(vs), T) # Whole(T)
  BY <1>2
<1> HIDE DEF Whole
<1> QED
  BY <1>5, <1>6, <1>10, <1>11

\* A gate is the sign of its run's margin.
LEMMA GateIsSign ==
    ASSUME NEW vs, NEW run \in Run
    PROVE  /\ Rated(vs, run) = {} =>
                 Margin(vs)[run] = 0 /\ recompute_quality(vs, run) = "null"
           /\ recompute_quality(vs, run) = "null" => Rated(vs, run) = {}
           /\ recompute_quality(vs, run) = "ok" <=> Rated(vs, run) # {} /\ Margin(vs)[run] >= 0
           /\ recompute_quality(vs, run) = "risk" <=> Rated(vs, run) # {} /\ Margin(vs)[run] < 0
           /\ recompute_quality(vs, run) \in Gate
<1> DEFINE a == Cardinality(Accepted(vs, run)) * ThresholdDen
           r == ThresholdNum * Cardinality(Rated(vs, run))
<1>1. a \in Nat /\ r \in Nat
  <2>1. \A m, n \in Nat : m * n \in Nat
    OBVIOUS
  <2>2. ThresholdDen \in Nat /\ ThresholdNum \in Nat
    OBVIOUS
  <2>3. Cardinality(Accepted(vs, run)) \in Nat /\ Cardinality(Rated(vs, run)) \in Nat
    BY FindingCounts, Zenon
  <2> QED
    BY <2>1, <2>2, <2>3
<1>2. Margin(vs)[run] = a - r
  BY DEF Margin
<1>3. recompute_quality(vs, run) =
         IF Rated(vs, run) = {} THEN "null" ELSE IF a >= r THEN "ok" ELSE "risk"
  BY DEF recompute_quality
<1>4. Rated(vs, run) = {} => a = 0 /\ r = 0
  <2>1. Rated(vs, run) = {} => Accepted(vs, run) = {}
    BY FindingCounts
  <2>2. 0 * ThresholdDen = 0 /\ ThresholdNum * 0 = 0
    OBVIOUS
  <2> QED
    BY <2>1, <2>2, FS_EmptySet
<1> HIDE DEF a, r
<1> QED
  BY <1>1, <1>2, <1>3, <1>4 DEF Gate

\* Where every gate is that of its run's verdicts, the overall status is earned.
LEMMA StatusOfGates ==
    ASSUME NEW R, Loaded(R), NEW vs,
           \A run \in DOMAIN R : R[run].quality = recompute_quality(vs, run)
    PROVE  /\ Status(vs, DOMAIN R) \in {"banking", "quality_risk", "unrated"}
           /\ Status(vs, DOMAIN R) = "banking" => Banked(R) # {}
           /\ Status(vs, DOMAIN R) = "quality_risk" => AtRisk(R) # {}
           /\ Status(vs, DOMAIN R) = "unrated" => Banked(R) = {} /\ AtRisk(R) = {}
<1> DEFINE D == DOMAIN R
           a == Cardinality(AllAccepted(vs, D)) * ThresholdDen
           r == ThresholdNum * Cardinality(AllRated(vs, D))
           margin == Sum(Margin(vs), D)
<1>1. D \in SUBSET Run /\ IsFiniteSet(D)
  BY FS_Subset DEF Loaded
<1>2. a \in Nat /\ r \in Nat
  <2>1. \A m, n \in Nat : m * n \in Nat
    OBVIOUS
  <2>2. /\ ThresholdDen \in Nat /\ ThresholdNum \in Nat
        /\ Cardinality(AllAccepted(vs, D)) \in Nat /\ Cardinality(AllRated(vs, D)) \in Nat
    BY FindingCounts
  <2> QED
    BY <2>1, <2>2
<1>3. margin = a - r
  BY <1>1, RatesAddUp
<1>4. Status(vs, D) = IF AllRated(vs, D) = {} THEN "unrated"
                      ELSE IF a >= r THEN "banking" ELSE "quality_risk"
  BY DEF Status, AllRated, AllAccepted
<1>5. AllRated(vs, D) = {} <=> \A run \in D : Rated(vs, run) = {}
  BY DEF AllRated
<1>6. \A run \in D : run \in Run /\ Margin(vs)[run] \in Int
  BY <1>1, MarginType
<1>7. \A run \in D :
         /\ run \in Banked(R) <=> Rated(vs, run) # {} /\ Margin(vs)[run] >= 0
         /\ run \in AtRisk(R) <=> Rated(vs, run) # {} /\ Margin(vs)[run] < 0
         /\ Rated(vs, run) = {} => Margin(vs)[run] = 0
  <2> SUFFICES ASSUME NEW run \in D
               PROVE  /\ run \in Banked(R) <=> Rated(vs, run) # {} /\ Margin(vs)[run] >= 0
                      /\ run \in AtRisk(R) <=> Rated(vs, run) # {} /\ Margin(vs)[run] < 0
                      /\ Rated(vs, run) = {} => Margin(vs)[run] = 0
    OBVIOUS
  <2>1. run \in Run
    BY <1>6
  <2>2. /\ run \in Banked(R) <=> recompute_quality(vs, run) = "ok"
        /\ run \in AtRisk(R) <=> recompute_quality(vs, run) = "risk"
    BY DEF Banked, AtRisk
  <2> QED
    BY <2>1, <2>2, GateIsSign
<1>8. Banked(R) \subseteq D /\ AtRisk(R) \subseteq D
  BY DEF Banked, AtRisk
<1> HIDE DEF D
<1>9. ASSUME NEW c \in D, Rated(vs, c) # {}, Banked(R) = {} PROVE margin < 0
  <2>1. \A run \in D : Margin(vs)[run] <= 0
    BY <1>6, <1>7, <1>9
  <2>2. Margin(vs)[c] < 0 /\ Margin(vs)[c] \in Int
    BY <1>6, <1>7, <1>9
  <2>3. IsFiniteSet(D \ {c})
    BY <1>1, FS_Subset
  <2>4. Sum(Margin(vs), D \ {c}) <= 0 /\ Sum(Margin(vs), D \ {c}) \in Int
    <3> DEFINE Z == [run \in D \ {c} |-> 0]
    <3>1. \A run \in D \ {c} : Z[run] = 0
      OBVIOUS
    <3> HIDE DEF Z
    <3>2. Sum(Z, D \ {c}) = 0
      BY <2>3, <3>1, SumOfZeros
    <3>3. \A run \in D \ {c} : Margin(vs)[run] \in Int /\ Z[run] \in Int /\ Margin(vs)[run] <= Z[run]
      BY <1>6, <2>1, <3>1
    <3>4. Sum(Margin(vs), D \ {c}) <= Sum(Z, D \ {c})
      BY <2>3, <3>3, SumMonotone
    <3>5. Sum(Margin(vs), D \ {c}) \in Int
      BY <2>3, <3>3, SumType
    <3> QED
      BY <3>2, <3>4, <3>5
  <2>5. margin = Margin(vs)[c] + Sum(Margin(vs), D \ {c})
    BY <1>1, <1>6, SumTakesOut
  <2> HIDE DEF margin
  <2> QED
    BY <2>2, <2>4, <2>5
<1>10. ASSUME AtRisk(R) = {} PROVE margin >= 0
  <2>1. \A run \in D : Margin(vs)[run] \in Nat
    BY <1>6, <1>7, <1>10
  <2>2. margin \in Nat
    BY <1>1, <2>1, SumNotNegative
  <2> HIDE DEF margin
  <2> QED
    BY <2>2
<1>11. ASSUME \A run \in D : Rated(vs, run) = {} PROVE Banked(R) = {} /\ AtRisk(R) = {}
  BY <1>7, <1>8, <1>11
<1> HIDE DEF a, r, margin
<1>12. Status(vs, D) = "banking" => Banked(R) # {}
  BY <1>2, <1>3, <1>4, <1>5, <1>9
<1>13. Status(vs, D) = "quality_risk" => AtRisk(R) # {}
  BY <1>2, <1>3, <1>4, <1>10
<1>14. Status(vs, D) = "unrated" => Banked(R) = {} /\ AtRisk(R) = {}
  BY <1>4, <1>5, <1>11
<1>15. Status(vs, D) \in {"banking", "quality_risk", "unrated"}
  BY <1>4
<1> QED
  BY <1>12, <1>13, <1>14, <1>15 DEF D

-----------------------------------------------------------------------------
\* The headline: every trio that is stored or loaded adds up, hence the page does.

ViewIsRecord == view = [step |-> view.step, runs |-> view.runs]
MoneyInv ==
    /\ day \in Nat
    /\ cost \in [Run -> [day : Int, money : Money]]
    /\ verdict \in VerdictMap
    /\ quality \in [Run -> Gate]
    /\ ViewIsRecord
    /\ Loaded(view.runs)
    /\ HeadlineReconciles

LEMMA WholeQuotients ==
    ASSUME NEW n \in Int, NEW d \in Nat \ {0}
    PROVE  n \div d \in Int /\ n % d \in Int
OBVIOUS

LEMMA RoundedCosts ==
    ASSUME NEW n \in Nat
    PROVE  HalfUp(n, PerMtok) \in Int /\ HalfEven(n, PerMtok) \in Int
<1>1. PerMtok \in Nat \ {0} /\ 2 * PerMtok \in Nat \ {0} /\ 2 * n + PerMtok \in Int /\ n \in Int
  BY MoneyAssumption
<1>2. HalfUp(n, PerMtok) \in Int
  BY <1>1, WholeQuotients DEF HalfUp
<1>3. n \div PerMtok \in Int
  BY <1>1, WholeQuotients
<1>4. HalfEven(n, PerMtok) = n \div PerMtok \/ HalfEven(n, PerMtok) = (n \div PerMtok) + 1
  BY DEF HalfEven
<1> QED
  BY <1>2, <1>3, <1>4

LEMMA BlendType ==
    ASSUME NEW t \in TokenUse, NEW p \in Prices, NEW who \in {"selected", "baseline"},
           ~Unpriced(p[who])
    PROVE  Blend(t, p[who]) \in Nat
<1>1. t.in \in Nat /\ t.out \in Nat /\ p[who].in \in Nat /\ p[who].out \in Nat
  BY MoneyAssumption DEF Unpriced
<1>2. \A a, b, c, d \in Nat : a * b + c * d \in Nat
  OBVIOUS
<1>3. t.in * p[who].in + t.out * p[who].out \in Nat
  BY <1>1, <1>2
<1> QED
  BY <1>3 DEF Blend

\* A half of a price that is missing counts nothing, so the blend is a number all the same.
LEMMA HalvesType ==
    ASSUME NEW t \in TokenUse, NEW p \in Prices, NEW who \in {"selected", "baseline"}
    PROVE  t.in * Amount(p[who].in) + t.out * Amount(p[who].out) \in Nat
<1>1. t.in \in Nat /\ t.out \in Nat
  BY MoneyAssumption
<1>2. Amount(p[who].in) \in Nat /\ Amount(p[who].out) \in Nat
  BY MoneyAssumption DEF Amount
<1>3. \A a, b, c, d \in Nat : a * b + c * d \in Nat
  OBVIOUS
<1> QED
  BY <1>1, <1>2, <1>3

LEMMA TrioIsMoney ==
    ASSUME NEW a \in Int, NEW b \in Int
    PROVE  [actual |-> a, baseline |-> b, savings |-> b - a] \in Money
<1>1. b - a \in Int
  OBVIOUS
<1> QED
  BY <1>1 DEF Money

LEMMA IngestCostIsMoney ==
    ASSUME NEW t \in TokenUse, NEW p \in Prices
    PROVE  compute_savings(t, p) \in Money
<1>1. CASE Unpriced(p.selected) \/ Unpriced(p.baseline)
  BY <1>1 DEF compute_savings, Money
<1>2. CASE ~(Unpriced(p.selected) \/ Unpriced(p.baseline))
  <2>1. ~Unpriced(p["selected"]) /\ ~Unpriced(p["baseline"])
    BY <1>2
  <2>2. Blend(t, p["selected"]) \in Nat /\ Blend(t, p["baseline"]) \in Nat
    BY <2>1, BlendType
  <2>3. CostOf(t, p.selected) \in Int /\ CostOf(t, p.baseline) \in Int
    BY <2>2, RoundedCosts DEF CostOf
  <2> QED
    BY <1>2, <2>3, TrioIsMoney DEF compute_savings
<1> QED
  BY <1>1, <1>2

LEMMA DemoCostIsMoney ==
    ASSUME NEW t \in TokenUse, NEW p \in Prices
    PROVE  DemoMoney(t, p) \in Money
<1>1. \A who \in {"selected", "baseline"} : DemoCost(t, p[who]) \in Int
  <2> SUFFICES ASSUME NEW who \in {"selected", "baseline"} PROVE DemoCost(t, p[who]) \in Int
    OBVIOUS
  <2>1. t.in * Amount(p[who].in) + t.out * Amount(p[who].out) \in Nat
    BY HalvesType
  <2> QED
    BY <2>1, RoundedCosts DEF DemoCost
<1>2. DemoCost(t, p.selected) \in Int /\ DemoCost(t, p.baseline) \in Int
  BY <1>1
<1> QED
  BY <1>2, TrioIsMoney DEF DemoMoney

LEMMA GateOfVerdicts ==
    ASSUME NEW vs, NEW run
    PROVE  recompute_quality(vs, run) \in Gate /\ DemoQuality(vs, run) \in Gate
BY DEF recompute_quality, DemoQuality, Gate

\* But for the seeding transaction, the hook lives beside an ordinary project.
LEMMA HookBesideDashboard ==
    ASSUME [SeedNext]_seedVars
    PROVE  SeedRuns \/ [DashNext]_dashVars
<1>1. CASE EnsureProject \/ ConnectJenkins \/ MintToken \/ CountRuns \/ HookDies
  BY <1>1 DEF EnsureProject, ConnectJenkins, MintToken, CountRuns, HookDies, SetUp
<1>2. ASSUME NEW run \in Run, IngestLive(run) PROVE DashNext
  BY <1>2 DEF IngestLive, DashNext
<1>3. CASE \/ \E f \in Finding, v \in Verdict : RateFinding(f, v)
           \/ DayPasses
           \/ \E range \in Window : LoadRuns(range)
           \/ LoadVerdicts
  BY <1>3 DEF DashNext
<1>4. CASE UNCHANGED seedVars
  BY <1>4 DEF seedVars
<1> QED
  BY <1>1, <1>2, <1>3, <1>4 DEF SeedNext

LEMMA MoneyInvInit ==
    ASSUME DashInit
    PROVE  MoneyInv
<1> USE DEF DashInit, LedgerInit, NoCost, NoView, NotShown
<1>1. Null \in Money
  BY DEF Money
<1>2. /\ day \in Nat /\ cost \in [Run -> [day : Int, money : Money]]
      /\ verdict \in VerdictMap /\ quality \in [Run -> Gate]
  BY <1>1 DEF VerdictMap, Gate
<1>3. ViewIsRecord /\ Loaded(view.runs)
  BY DEF ViewIsRecord, Loaded
<1>4. HeadlineReconciles
  BY DEF HeadlineReconciles
<1> QED
  BY <1>2, <1>3, <1>4 DEF MoneyInv

\* A write takes the answer off the page and leaves what is loaded alone.
LEMMA MoneyAfterWrite ==
    ASSUME MoneyInv, Write, day' = day, cost' \in [Run -> [day : Int, money : Money]],
           verdict' \in VerdictMap, quality' \in [Run -> Gate]
    PROVE  MoneyInv'
<1>1. view' = view /\ shown' = NotShown
  BY DEF Write
<1> QED
  BY <1>1 DEF MoneyInv, ViewIsRecord, HeadlineReconciles

LEMMA MoneyUntouched ==
    ASSUME MoneyInv, UNCHANGED dashVars
    PROVE  MoneyInv'
BY DEF MoneyInv, ViewIsRecord, HeadlineReconciles, dashVars, ledger, SumOf

LEMMA MoneyInvSeed ==
    ASSUME MoneyInv, SeedRuns
    PROVE  MoneyInv'
<1>1. PICK vs \in VerdictMap, p \in Prices :
         /\ verdict' = vs
         /\ quality' = [run \in Run |-> IF run \in Demo THEN DemoQuality(vs, run) ELSE "null"]
         /\ cost' = [run \in Run |->
               IF run \in Demo
               THEN [day |-> day - DaysAgo[run], money |-> DemoMoney(DemoUse[run], p)]
               ELSE cost[run]]
  BY DEF SeedRuns
<1>2. \A run \in Demo : day - DaysAgo[run] \in Int /\ DemoMoney(DemoUse[run], p) \in Money
  BY DemoAssumption, DemoCostIsMoney DEF MoneyInv
<1>3. cost' \in [Run -> [day : Int, money : Money]]
  BY <1>1, <1>2 DEF MoneyInv
<1>4. quality' \in [Run -> Gate]
  BY <1>1, GateOfVerdicts DEF Gate
<1>5. Write /\ day' = day
  BY DEF SeedRuns
<1> QED
  BY <1>1, <1>3, <1>4, <1>5, MoneyAfterWrite

LEMMA MoneyInvStep ==
    ASSUME MoneyInv, [DashNext]_dashVars
    PROVE  MoneyInv'
<1>1. CASE UNCHANGED dashVars
  BY <1>1, MoneyUntouched
<1>2. ASSUME NEW run \in Run, IngestRun(run) PROVE MoneyInv'
  <2>1. PICK t \in TokenUse, p \in Prices :
           cost' = [cost EXCEPT ![run] = [day |-> day, money |-> compute_savings(t, p)]]
    BY <1>2 DEF IngestRun
  <2>2. compute_savings(t, p) \in Money
    BY IngestCostIsMoney
  <2>3. cost' \in [Run -> [day : Int, money : Money]]
    BY <2>1, <2>2 DEF MoneyInv
  <2>4. Write /\ day' = day /\ verdict' = verdict /\ quality' = quality
    BY <1>2 DEF IngestRun, Ingest
  <2> QED
    BY <2>3, <2>4, MoneyAfterWrite DEF MoneyInv
<1>3. ASSUME NEW f \in Finding, NEW v \in Verdict, RateFinding(f, v) PROVE MoneyInv'
  <2>1. Write /\ day' = day /\ cost' = cost
    BY <1>3 DEF RateFinding
  <2>2. /\ verdict' = [verdict EXCEPT ![f] = v]
        /\ quality' = [quality EXCEPT ![RunOf[f]] =
                          recompute_quality([verdict EXCEPT ![f] = v], RunOf[f])]
    BY <1>3 DEF RateFinding, Rate
  <2>3. verdict' \in VerdictMap
    BY <2>2 DEF MoneyInv, VerdictMap
  <2>4. quality' \in [Run -> Gate]
    BY <2>2, GateOfVerdicts DEF MoneyInv
  <2> QED
    BY <2>1, <2>3, <2>4, MoneyAfterWrite DEF MoneyInv
<1>4. CASE DayPasses
  <2>1. /\ day' = day + 1
        /\ cost' = cost /\ verdict' = verdict /\ quality' = quality
        /\ view' = view /\ shown' = shown
    BY <1>4 DEF DayPasses, ledger
  <2> QED
    BY <2>1 DEF MoneyInv, ViewIsRecord, HeadlineReconciles
<1>5. ASSUME NEW range \in Window, LoadRuns(range) PROVE MoneyInv'
  <2> DEFINE window == {run \in Run : row[run] = "live" /\ cost[run].day >= day - range}
             R == [run \in window |-> [money |-> cost[run].money,
                                       quality |-> quality[run]]]
  <2>1. view' = [step |-> "loaded", runs |-> R]
    BY <1>5 DEF LoadRuns
  <2>2. /\ day' = day /\ cost' = cost /\ verdict' = verdict /\ quality' = quality
        /\ shown' = NotShown
    BY <1>5 DEF LoadRuns, ledger
  <2>3. Loaded(R)
    BY DEF Loaded, MoneyInv
  <2>4. view'.runs = R /\ ViewIsRecord'
    BY <2>1 DEF ViewIsRecord
  <2> HIDE DEF R
  <2>5. Loaded(view'.runs) /\ HeadlineReconciles'
    BY <2>2, <2>3, <2>4 DEF HeadlineReconciles
  <2> QED
    BY <2>2, <2>4, <2>5 DEF MoneyInv
<1>6. CASE LoadVerdicts
  <2>1. /\ shown' = assemble(view.runs, verdict)
        /\ view' = [view EXCEPT !.step = "idle"]
        /\ day' = day /\ cost' = cost /\ verdict' = verdict /\ quality' = quality
    BY <1>6 DEF LoadVerdicts, ledger
  <2>2. view'.runs = view.runs /\ ViewIsRecord'
    BY <2>1 DEF MoneyInv, ViewIsRecord
  <2>3. Reconciles(shown', view'.runs)
    BY <2>1, <2>2, PageReconciles DEF MoneyInv
  <2>4. HeadlineReconciles'
    BY <2>3 DEF HeadlineReconciles, Reconciles
  <2> QED
    BY <2>1, <2>2, <2>4 DEF MoneyInv
<1> QED
  BY <1>1, <1>2, <1>3, <1>4, <1>5, <1>6 DEF DashNext

\* The money on the dashboard adds up for all prices, token mixes, windows and runs,
\* whatever CI, ratings and demo seeds do between its two reads (app/savings/service).
THEOREM HeadlineAddsUp == SeedSpec => []HeadlineReconciles
<1>1. SeedInit => MoneyInv
  BY MoneyInvInit DEF SeedInit
<1>2. MoneyInv /\ [SeedNext]_seedVars => MoneyInv'
  BY HookBesideDashboard, MoneyInvSeed, MoneyInvStep
<1>3. MoneyInv => HeadlineReconciles
  BY DEF MoneyInv
<1> QED
  BY <1>1, <1>2, <1>3, PTL DEF SeedSpec

-----------------------------------------------------------------------------
\* Gates: stored ones are those of the stored verdicts, loaded ones those of the
\* verdicts read later, if nothing was written in between.

GatesMatch == \A run \in Run : quality[run] = recompute_quality(verdict, run)
ViewCurrent ==
    view.step = "loaded" /\ ~disturbed =>
        \A run \in DOMAIN view.runs : view.runs[run].quality = recompute_quality(verdict, run)
GateInv ==
    /\ MoneyInv
    /\ disturbed \in BOOLEAN
    /\ GatesMatch
    /\ ViewCurrent
    /\ StatusIsEarned

\* A rating says nothing of other runs.
LEMMA OtherGates ==
    ASSUME NEW f \in Finding, NEW v, NEW run, RunOf[f] # run, NEW vs \in VerdictMap
    PROVE  recompute_quality([vs EXCEPT ![f] = v], run) = recompute_quality(vs, run)
<1>1. \A g \in FindingsOf(run) : [vs EXCEPT ![f] = v][g] = vs[g]
  BY DEF FindingsOf, VerdictMap
<1>2. /\ Rated([vs EXCEPT ![f] = v], run) = Rated(vs, run)
      /\ Accepted([vs EXCEPT ![f] = v], run) = Accepted(vs, run)
  BY <1>1 DEF Rated, Accepted
<1> QED
  BY <1>2 DEF recompute_quality

\* The seeder's threshold is a constant of its own.  Demo verdicts are all accepted or
\* at least half rejected, so any configured threshold above a half gates them alike.
AboveHalf == 2 * ThresholdNum > ThresholdDen

LEMMA RejectsHalf ==
    ASSUME NEW n \in Nat
    PROVE  Rejects(n) \in Nat /\ 2 * Rejects(n) >= n
BY DEF Rejects

LEMMA ThresholdsAgree ==
    ASSUME AboveHalf, NEW a \in Nat, NEW n \in Nat, n > 0, a = n \/ 2 * a <= n
    PROVE  a * 5 >= 4 * n <=> a * ThresholdDen >= ThresholdNum * n
<1>1. CASE a = n
  <2>1. \A x, y, m \in Nat : x <= y => m * y >= x * m
    OBVIOUS
  <2>2. ThresholdNum \in Nat /\ ThresholdDen \in Nat /\ ThresholdNum <= ThresholdDen
    OBVIOUS
  <2>3. n * ThresholdDen >= ThresholdNum * n
    BY <2>1, <2>2
  <2> QED
    BY <1>1, <2>3
<1>2. CASE 2 * a <= n /\ a # n
  <2>1. \A x, y, m, k \in Nat : m > 0 /\ 2 * k <= m /\ 2 * x > y => k * y < x * m
    <3> SUFFICES ASSUME NEW x \in Nat, NEW y \in Nat, NEW m \in Nat, NEW k \in Nat,
                        m > 0, 2 * k <= m, 2 * x > y
                 PROVE  k * y < x * m
      OBVIOUS
    <3>1. \A b, c, e \in Nat : b <= c => b * e <= c * e
      OBVIOUS
    <3>2. (2 * k) * y <= m * y
      BY <3>1
    <3>3. \A b, c, e \in Nat : e > 0 /\ b < c => e * b < e * c
      OBVIOUS
    <3>4. m * y < m * (2 * x)
      BY <3>3
    <3>5. (2 * k) * y = 2 * (k * y) /\ m * (2 * x) = 2 * (x * m)
      OBVIOUS
    <3>6. k * y \in Int /\ x * m \in Int /\ m * y \in Int
      OBVIOUS
    <3> QED
      BY <3>2, <3>4, <3>5, <3>6
  <2>2. ThresholdNum \in Nat /\ ThresholdDen \in Nat /\ 2 * ThresholdNum > ThresholdDen
    BY DEF AboveHalf
  <2>3. a * ThresholdDen < ThresholdNum * n
    BY <1>2, <2>1, <2>2
  <2>4. a * ThresholdDen \in Int /\ ThresholdNum * n \in Int
    BY <2>2
  <2>5. a * 5 < 4 * n
    BY <1>2
  <2> QED
    BY <2>3, <2>4, <2>5
<1> QED
  BY <1>1, <1>2

LEMMA DemoGates ==
    ASSUME AboveHalf, NEW vs \in VerdictMap, NEW run,
           [f \in FindingsOf(run) |-> vs[f]] \in DemoVerdicts(run)
    PROVE  DemoQuality(vs, run) = recompute_quality(vs, run)
<1> DEFINE F == FindingsOf(run)
           own == [f \in F |-> vs[f]]
           Of(v) == {f \in F : own[f] = v}
           n == Cardinality(F)
           a == Cardinality(Accepted(vs, run))
           k == Cardinality(Of("reject"))
<1>1. Of("unrated") \in {{}, F} /\ k \in {0, Rejects(n)}
  BY DEF DemoVerdicts
<1>2. IsFiniteSet(F) /\ n \in Nat
  BY FS_Subset, FS_CardinalityType DEF FindingsOf
<1>3. CASE Rated(vs, run) = {}
  BY <1>3 DEF DemoQuality, recompute_quality
<1>4. CASE Rated(vs, run) # {}
  <2>1. Of("unrated") # F
    BY <1>4 DEF Rated
  <2>2. Of("unrated") = {}
    BY <1>1, <2>1
  <2>3. Rated(vs, run) = F
    BY <2>2 DEF Rated
  <2>4. Accepted(vs, run) = F \ Of("reject")
    BY <2>2 DEF Accepted, FindingsOf, VerdictMap, Verdict
  <2>5. Of("reject") \subseteq F
    OBVIOUS
  <2>6. F \cap Of("reject") = Of("reject")
    OBVIOUS
  <2>7. a = n - k
    BY <1>2, <2>4, <2>6, FS_Difference
  <2>8. n > 0
    <3>1. n # 0
      BY <1>2, <1>4, <2>3, FS_EmptySet
    <3> HIDE DEF n
    <3> QED
      BY <1>2, <3>1
  <2>9. a \in Nat /\ k \in Nat
    BY <1>2, <2>4, <2>5, FS_Subset, FS_CardinalityType
  <2>10. Rejects(n) \in Nat /\ 2 * Rejects(n) >= n
    BY <1>2, RejectsHalf
  <2> HIDE DEF n, a, k
  <2>11. a = n \/ 2 * a <= n
    BY <1>1, <1>2, <2>7, <2>9, <2>10
  <2>12. a * 5 >= 4 * n <=> a * ThresholdDen >= ThresholdNum * n
    BY <1>2, <2>8, <2>9, <2>11, ThresholdsAgree
  <2>13. /\ DemoQuality(vs, run) = IF a * 5 >= 4 * n THEN "ok" ELSE "risk"
         /\ recompute_quality(vs, run) =
               IF a * ThresholdDen >= ThresholdNum * n THEN "ok" ELSE "risk"
    BY <1>4, <2>3 DEF DemoQuality, recompute_quality, n, a
  <2> QED
    BY <2>12, <2>13
<1> QED
  BY <1>3, <1>4

LEMMA GateInvInit ==
    ASSUME DashInit
    PROVE  GateInv
<1> USE DEF DashInit, LedgerInit
<1>1. MoneyInv
  BY MoneyInvInit
<1>2. \A run \in Run : Rated(verdict, run) = {}
  BY DEF Rated, FindingsOf
<1>3. GatesMatch
  BY <1>2 DEF GatesMatch, recompute_quality
<1>4. disturbed \in BOOLEAN /\ ViewCurrent
  BY DEF ViewCurrent, NoView
<1>5. StatusIsEarned
  BY DEF StatusIsEarned
<1> QED
  BY <1>1, <1>3, <1>4, <1>5 DEF GateInv

\* A write between the reads is noticed, any other is read by both.
LEMMA GatesAfterWrite ==
    ASSUME GateInv, MoneyInv', Write, GatesMatch'
    PROVE  GateInv'
<1>1. view' = view /\ shown' = NotShown /\ disturbed' = (view.step = "loaded")
  BY DEF Write
<1>2. disturbed' \in BOOLEAN /\ ViewCurrent'
  BY <1>1 DEF ViewCurrent
<1>3. StatusIsEarned'
  BY <1>1 DEF StatusIsEarned
<1> QED
  BY <1>2, <1>3 DEF GateInv

LEMMA GatesUntouched ==
    ASSUME GateInv, MoneyInv',
           verdict' = verdict /\ quality' = quality /\ view' = view /\ shown' = shown
           /\ disturbed' = disturbed
    PROVE  GateInv'
BY DEF GateInv, GatesMatch, ViewCurrent, StatusIsEarned

LEMMA GateInvSeed ==
    ASSUME AboveHalf, GateInv, SeedRuns
    PROVE  GateInv'
<1>1. PICK vs \in VerdictMap :
         /\ \A run \in Demo : [f \in FindingsOf(run) |-> vs[f]] \in DemoVerdicts(run)
         /\ \A f \in Finding : RunOf[f] \notin Demo => vs[f] = "unrated"
         /\ verdict' = vs
         /\ quality' = [run \in Run |-> IF run \in Demo THEN DemoQuality(vs, run) ELSE "null"]
  BY DEF SeedRuns
<1>2. \A run \in Demo : DemoQuality(vs, run) = recompute_quality(vs, run)
  BY <1>1, DemoGates
<1>3. \A run \in Run : run \notin Demo => Rated(vs, run) = {}
  BY <1>1 DEF Rated, FindingsOf
<1>4. \A run \in Run : run \notin Demo => recompute_quality(vs, run) = "null"
  BY <1>3 DEF recompute_quality
<1>5. GatesMatch'
  BY <1>1, <1>2, <1>4 DEF GatesMatch
<1>6. Write
  BY DEF SeedRuns
<1>7. MoneyInv'
  BY MoneyInvSeed DEF GateInv
<1> QED
  BY <1>7, <1>5, <1>6, GatesAfterWrite

LEMMA GateInvStep ==
    ASSUME GateInv, [DashNext]_dashVars
    PROVE  GateInv'
<1>0. MoneyInv'
  BY MoneyInvStep DEF GateInv
<1>1. CASE DayPasses \/ UNCHANGED dashVars
  <2>1. verdict' = verdict /\ quality' = quality /\ view' = view /\ shown' = shown
        /\ disturbed' = disturbed
    BY <1>1 DEF DayPasses, dashVars, ledger
  <2> QED
    BY <1>0, <2>1, GatesUntouched
<1>2. ASSUME NEW run \in Run, IngestRun(run) PROVE GateInv'
  <2>1. Write /\ verdict' = verdict /\ quality' = quality
    BY <1>2 DEF IngestRun, Ingest
  <2>2. GatesMatch'
    BY <2>1 DEF GateInv, GatesMatch
  <2> QED
    BY <1>0, <2>1, <2>2, GatesAfterWrite
<1>3. ASSUME NEW f \in Finding, NEW v \in Verdict, RateFinding(f, v) PROVE GateInv'
  <2> DEFINE vs == [verdict EXCEPT ![f] = v]
  <2>1. /\ Write
        /\ verdict' = vs
        /\ quality' = [quality EXCEPT ![RunOf[f]] = recompute_quality(vs, RunOf[f])]
    BY <1>3 DEF RateFinding, Rate
  <2>2. ASSUME NEW run \in Run, RunOf[f] # run
        PROVE  recompute_quality(vs, run) = recompute_quality(verdict, run)
    <3>1. verdict \in VerdictMap
      BY DEF GateInv, MoneyInv
    <3> QED
      BY <2>2, <3>1, OtherGates
  <2> HIDE DEF vs
  <2>3. GatesMatch'
    BY <2>1, <2>2 DEF GateInv, GatesMatch, MoneyInv
  <2> QED
    BY <1>0, <2>1, <2>3, GatesAfterWrite
<1>4. ASSUME NEW range \in Window, LoadRuns(range) PROVE GateInv'
  <2> DEFINE window == {run \in Run : row[run] = "live" /\ cost[run].day >= day - range}
             R == [run \in window |-> [money |-> cost[run].money,
                                       quality |-> quality[run]]]
  <2>1. view' = [step |-> "loaded", runs |-> R]
    BY <1>4 DEF LoadRuns
  <2>2. verdict' = verdict /\ quality' = quality /\ shown' = NotShown /\ disturbed' = FALSE
    BY <1>4 DEF LoadRuns, ledger
  <2>3. \A run \in DOMAIN R : R[run].quality = recompute_quality(verdict, run)
    BY DEF GateInv, GatesMatch
  <2>4. view'.runs = R
    BY <2>1
  <2> HIDE DEF R
  <2>5. ViewCurrent'
    BY <2>2, <2>3, <2>4 DEF ViewCurrent
  <2>6. GatesMatch' /\ StatusIsEarned'
    BY <2>2 DEF GateInv, GatesMatch, StatusIsEarned
  <2> QED
    BY <1>0, <2>2, <2>5, <2>6 DEF GateInv
<1>5. CASE LoadVerdicts
  <2> DEFINE R == view.runs
  <2>1. /\ view.step = "loaded"
        /\ shown' = assemble(R, verdict)
        /\ view' = [view EXCEPT !.step = "idle"]
        /\ verdict' = verdict /\ quality' = quality /\ disturbed' = disturbed
    BY <1>5 DEF LoadVerdicts, ledger
  <2>2. view'.step = "idle"
    BY <2>1 DEF GateInv, MoneyInv, ViewIsRecord
  <2>3. /\ shown'.status = Status(verdict, DOMAIN R)
        /\ shown'.banked_runs = Cardinality(Banked(R))
        /\ shown'.quality_risk_runs = Cardinality(AtRisk(R))
    BY <2>1 DEF assemble
  <2>4. Loaded(R) /\ IsFiniteSet(Banked(R)) /\ IsFiniteSet(AtRisk(R))
    <3>1. Loaded(R)
      BY DEF GateInv, MoneyInv
    <3>2. Banked(R) \subseteq Run /\ AtRisk(R) \subseteq Run
      BY <3>1 DEF Loaded, Banked, AtRisk
    <3> QED
      BY <3>1, <3>2, FS_Subset
  <2>5. /\ Cardinality(Banked(R)) \in Nat /\ Cardinality(AtRisk(R)) \in Nat
        /\ Cardinality(Banked(R)) = 0 <=> Banked(R) = {}
        /\ Cardinality(AtRisk(R)) = 0 <=> AtRisk(R) = {}
    BY <2>4, FS_CardinalityType, FS_EmptySet
  <2>6. ~disturbed => \A run \in DOMAIN R : R[run].quality = recompute_quality(verdict, run)
    BY <2>1 DEF GateInv, ViewCurrent
  <2>7. ~disturbed =>
           /\ Status(verdict, DOMAIN R) \in {"banking", "quality_risk", "unrated"}
           /\ Status(verdict, DOMAIN R) = "banking" => Banked(R) # {}
           /\ Status(verdict, DOMAIN R) = "quality_risk" => AtRisk(R) # {}
           /\ Status(verdict, DOMAIN R) = "unrated" => Banked(R) = {} /\ AtRisk(R) = {}
    BY <2>4, <2>6, StatusOfGates
  <2> HIDE DEF R
  <2>8. ~disturbed =>
           /\ shown'.status \in {"banking", "quality_risk", "unrated"}
           /\ shown'.status = "banking" => shown'.banked_runs > 0
           /\ shown'.status = "quality_risk" => shown'.quality_risk_runs > 0
           /\ shown'.status = "unrated" => shown'.banked_runs + shown'.quality_risk_runs = 0
    BY <2>3, <2>5, <2>7
  <2>9. StatusIsEarned'
    BY <2>1, <2>8 DEF StatusIsEarned
  <2>10. GatesMatch' /\ ViewCurrent' /\ disturbed' \in BOOLEAN
    BY <2>1, <2>2 DEF GateInv, GatesMatch, ViewCurrent
  <2> QED
    BY <1>0, <2>9, <2>10 DEF GateInv
<1> QED
  BY <1>1, <1>2, <1>3, <1>4, <1>5 DEF DashNext

\* The overall status is borne out by the gates of the runs it is about, unless somebody
\* wrote between the two reads (app/savings/aggregate): an acceptance rate over all
\* findings clears the threshold only if some run's does, and misses it only if some
\* run's does.  For an ordinary project that is so at every threshold ...
THEOREM ProjectStatusEarned == DashSpec => []StatusIsEarned
<1>1. DashInit => GateInv
  BY GateInvInit
<1>2. GateInv /\ [DashNext]_dashVars => GateInv'
  BY GateInvStep
<1>3. GateInv => StatusIsEarned
  BY DEF GateInv
<1> QED
  BY <1>1, <1>2, <1>3, PTL DEF DashSpec

\* ... and for the demo project at every threshold above a half.
THEOREM DemoStatusEarned ==
    ASSUME AboveHalf
    PROVE  SeedSpec => []StatusIsEarned
<1>1. SeedInit => GateInv
  BY GateInvInit DEF SeedInit
<1>2. GateInv /\ [SeedNext]_seedVars => GateInv'
  BY HookBesideDashboard, GateInvSeed, GateInvStep
<1>3. GateInv => StatusIsEarned
  BY DEF GateInv
<1> QED
  BY <1>1, <1>2, <1>3, PTL DEF SeedSpec

AnswersHonestly ==
    shown' # shown /\ shown' # NotShown /\ ~disturbed =>
        shown'.cumulative =
            SumOf(view.runs,
                  {run \in DOMAIN view.runs : recompute_quality(verdict, run) = "ok"},
                  "savings")

\* The answer banks the savings of the runs whose verdicts pass (app/savings/service).
THEOREM HeadlineHonest ==
    ASSUME AboveHalf
    PROVE  SeedSpec => HeadlineIsHonest
<1>1. SeedInit => GateInv
  BY GateInvInit DEF SeedInit
<1>2. GateInv /\ [SeedNext]_seedVars => GateInv'
  BY HookBesideDashboard, GateInvSeed, GateInvStep
<1>3. GateInv /\ [SeedNext]_seedVars => AnswersHonestly
  <2> SUFFICES ASSUME GateInv, [SeedNext]_seedVars, shown' # shown, shown' # NotShown, ~disturbed
               PROVE  shown'.cumulative =
                         SumOf(view.runs,
                               {run \in DOMAIN view.runs : recompute_quality(verdict, run) = "ok"},
                               "savings")
    BY DEF AnswersHonestly
  <2>1. LoadVerdicts
    BY DEF SeedNext, seedVars, dashVars, EnsureProject, ConnectJenkins, MintToken, CountRuns,
           HookDies, SetUp, SeedRuns, IngestLive, IngestRun, RateFinding, Write, DayPasses, LoadRuns
  <2>2. shown'.cumulative = SumOf(view.runs, Banked(view.runs), "savings")
    BY <2>1 DEF LoadVerdicts, assemble
  <2>3. \A run \in DOMAIN view.runs : view.runs[run].quality = recompute_quality(verdict, run)
    BY <2>1 DEF LoadVerdicts, GateInv, ViewCurrent
  <2>4. Banked(view.runs) = {run \in DOMAIN view.runs : recompute_quality(verdict, run) = "ok"}
    BY <2>3 DEF Banked
  <2> QED
    BY <2>2, <2>4
<1>4. SeedSpec => [][AnswersHonestly]_shown
  BY <1>1, <1>2, <1>3, PTL DEF SeedSpec
<1> QED
  BY <1>4, PTL DEF HeadlineIsHonest, AnswersHonestly

-----------------------------------------------------------------------------
\* What a deploy takes away.

VerdictsOnLive == \A f \in Finding : verdict[f] # "unrated" => row[RunOf[f]] = "live"
LiveAreLate == hook = "seeding" => Live \subseteq late
SpareInv ==
    /\ row \in [Run -> {"absent", "live", "deleted"}]
    /\ verdict \in VerdictMap
    /\ VerdictsOnLive
    /\ LiveAreLate

LEMMA SpareInvStep ==
    ASSUME SpareInv, [SeedNext]_seedVars
    PROVE  SpareInv'
<1> USE DEF SpareInv, VerdictsOnLive, LiveAreLate, Live
<1>1. CASE UNCHANGED seedVars \/ EnsureProject \/ ConnectJenkins \/ MintToken \/ HookDies
  <2>1. \/ row' = row /\ verdict' = verdict /\ hook' # "seeding"
        \/ UNCHANGED seedVars
    BY <1>1 DEF EnsureProject, ConnectJenkins, MintToken, HookDies, SetUp, dashVars, ledger
  <2>2. row' = row /\ verdict' = verdict /\ (hook' = "seeding" => hook = "seeding" /\ late' = late)
    BY <2>1 DEF seedVars, dashVars, ledger, demoVars
  <2> QED
    BY <2>2
<1>2. CASE CountRuns
  <2>1. row' = row /\ verdict' = verdict /\ hook' = IF Live = {} THEN "seeding" ELSE "idle"
    BY <1>2 DEF CountRuns, dashVars, ledger
  <2>2. hook' = "seeding" => Live' = {}
    BY <2>1
  <2> QED
    BY <2>1, <2>2
<1>3. CASE SeedRuns
  <2>1. PICK vs \in VerdictMap :
           /\ \A f \in Finding : RunOf[f] \notin Demo => vs[f] = "unrated"
           /\ row' = [run \in Run |-> IF run \in Demo THEN "live"
                                      ELSE IF run \in Live THEN "deleted" ELSE row[run]]
           /\ verdict' = vs
    BY <1>3 DEF SeedRuns
  <2>2. row' \in [Run -> {"absent", "live", "deleted"}]
    BY <2>1
  <2>3. VerdictsOnLive'
    BY <2>1
  <2>4. hook' # "seeding"
    BY <1>3 DEF SeedRuns
  <2> QED
    BY <2>1, <2>2, <2>3, <2>4
<1>4. ASSUME NEW run \in Run, IngestLive(run) PROVE SpareInv'
  <2>1. /\ row' = [row EXCEPT ![run] = "live"] /\ verdict' = verdict
        /\ hook' = hook /\ late' = IF hook = "seeding" THEN late \cup {run} ELSE late
    BY <1>4 DEF IngestLive, IngestRun, Ingest
  <2> QED
    BY <2>1
<1>5. ASSUME NEW f \in Finding, NEW v \in Verdict, RateFinding(f, v), UNCHANGED demoVars
      PROVE  SpareInv'
  <2>1. /\ row[RunOf[f]] = "live" /\ row' = row /\ verdict' = [verdict EXCEPT ![f] = v]
        /\ hook' = hook /\ late' = late
    BY <1>5 DEF RateFinding, Rate, demoVars
  <2>2. verdict' \in VerdictMap
    BY <2>1 DEF VerdictMap
  <2>3. VerdictsOnLive'
    BY <2>1 DEF VerdictMap
  <2> QED
    BY <2>1, <2>2, <2>3
<1>6. CASE /\ DayPasses \/ (\E range \in Window : LoadRuns(range)) \/ LoadVerdicts
           /\ UNCHANGED demoVars
  <2>1. row' = row /\ verdict' = verdict /\ hook' = hook /\ late' = late
    BY <1>6 DEF DayPasses, LoadRuns, LoadVerdicts, demoVars, ledger
  <2> QED
    BY <2>1
<1> QED
  BY <1>1, <1>2, <1>3, <1>4, <1>5, <1>6 DEF SeedNext

\* "Never a per-deploy reset that would wipe live demo activity" (app/demo/seed), but for
\* the runs that came between the hook's count and its seeding transaction.
THEOREM ActivityIsSpared == SeedSpec => HookSparesActivity
<1> DEFINE Spares ==
        /\ \A run \in Live : row'[run] = "live" \/ run \in late
        /\ hook' # hook =>
              \A f \in Finding : verdict[f] # "unrated" =>
                  verdict'[f] = verdict[f] \/ RunOf[f] \in late
<1>1. SeedInit => SpareInv
  BY DEF SeedInit, DashInit, LedgerInit, SpareInv, VerdictMap, VerdictsOnLive, LiveAreLate
<1>2. SpareInv /\ [SeedNext]_seedVars => SpareInv'
  BY SpareInvStep
<1>3. SpareInv /\ [SeedNext]_seedVars => [Spares]_seedVars
  <2> SUFFICES ASSUME SpareInv, SeedNext PROVE Spares
    OBVIOUS
  <2>1. CASE SeedRuns
    <3>1. Live \subseteq late
      BY <2>1 DEF SeedRuns, SpareInv, LiveAreLate
    <3>2. \A f \in Finding : verdict[f] # "unrated" => RunOf[f] \in Live
      BY DEF SpareInv, VerdictsOnLive, Live
    <3> QED
      BY <3>1, <3>2
  <2>2. CASE EnsureProject \/ ConnectJenkins \/ MintToken \/ CountRuns \/ HookDies
    <3>1. row' = row /\ verdict' = verdict
      BY <2>2 DEF EnsureProject, ConnectJenkins, MintToken, CountRuns, HookDies, SetUp,
                  dashVars, ledger
    <3> QED
      BY <3>1 DEF Live
  <2>3. ASSUME NEW run \in Run, IngestLive(run) PROVE Spares
    <3>1. row' = [row EXCEPT ![run] = "live"] /\ hook' = hook
      BY <2>3 DEF IngestLive, IngestRun, Ingest
    <3> QED
      BY <3>1 DEF Live, SpareInv
  <2>4. CASE /\ \/ \E f \in Finding, v \in Verdict : RateFinding(f, v)
                \/ DayPasses
                \/ \E range \in Window : LoadRuns(range)
                \/ LoadVerdicts
             /\ UNCHANGED demoVars
    <3>1. row' = row /\ hook' = hook
      BY <2>4 DEF RateFinding, Rate, DayPasses, LoadRuns, LoadVerdicts, ledger, demoVars
    <3> QED
      BY <3>1 DEF Live
  <2> QED
    BY <2>1, <2>2, <2>3, <2>4 DEF SeedNext
<1>4. SeedSpec => [][Spares]_seedVars
  BY <1>1, <1>2, <1>3, PTL DEF SeedSpec
<1> QED
  BY <1>4 DEF HookSparesActivity

-----------------------------------------------------------------------------
\* Types of the dashboard.

LEMMA CostsNotNegative ==
    ASSUME NEW n \in Nat
    PROVE  HalfUp(n, PerMtok) \in Nat /\ HalfEven(n, PerMtok) \in Nat
<1>1. \A m \in Nat, d \in Nat \ {0} : m \div d \in Nat
  OBVIOUS
<1>2. 2 * n + PerMtok \in Nat /\ 2 * PerMtok \in Nat \ {0} /\ PerMtok \in Nat \ {0}
  BY MoneyAssumption
<1>3. HalfUp(n, PerMtok) \in Nat
  BY <1>1, <1>2 DEF HalfUp
<1>4. n \div PerMtok \in Nat
  BY <1>1, <1>2
<1>5. HalfEven(n, PerMtok) = n \div PerMtok \/ HalfEven(n, PerMtok) = (n \div PerMtok) + 1
  BY DEF HalfEven
<1> QED
  BY <1>3, <1>4, <1>5

Priced(m) == m = Null \/ (m.actual \in Nat /\ m.baseline \in Nat /\ m.savings \in Int)

LEMMA CostsArePriced ==
    ASSUME NEW t \in TokenUse, NEW p \in Prices
    PROVE  Priced(compute_savings(t, p)) /\ Priced(DemoMoney(t, p))
<1>1. ASSUME NEW a \in Nat, NEW b \in Nat
      PROVE  Priced([actual |-> a, baseline |-> b, savings |-> b - a])
  <2>1. b - a \in Int
    OBVIOUS
  <2> QED
    BY <2>1 DEF Priced
<1>2. Priced(compute_savings(t, p))
  <2>1. CASE Unpriced(p.selected) \/ Unpriced(p.baseline)
    BY <2>1 DEF compute_savings, Priced
  <2>2. CASE ~(Unpriced(p.selected) \/ Unpriced(p.baseline))
    <3>1. ~Unpriced(p["selected"]) /\ ~Unpriced(p["baseline"])
      BY <2>2
    <3>2. Blend(t, p["selected"]) \in Nat /\ Blend(t, p["baseline"]) \in Nat
      BY <3>1, BlendType
    <3>3. CostOf(t, p.selected) \in Nat /\ CostOf(t, p.baseline) \in Nat
      BY <3>2, CostsNotNegative DEF CostOf
    <3> QED
      BY <1>1, <2>2, <3>3 DEF compute_savings
  <2> QED
    BY <2>1, <2>2
<1>3. \A who \in {"selected", "baseline"} : DemoCost(t, p[who]) \in Nat
  <2> SUFFICES ASSUME NEW who \in {"selected", "baseline"} PROVE DemoCost(t, p[who]) \in Nat
    OBVIOUS
  <2>1. t.in * Amount(p[who].in) + t.out * Amount(p[who].out) \in Nat
    BY HalvesType
  <2> QED
    BY <2>1, CostsNotNegative DEF DemoCost
<1>4. DemoCost(t, p.selected) \in Nat /\ DemoCost(t, p.baseline) \in Nat
  BY <1>3
<1> QED
  BY <1>1, <1>2, <1>4 DEF DemoMoney

DashInv == MoneyInv /\ DashTypeOK

LEMMA DashTypesInParts ==
    DashTypeOK <=> /\ verdict \in VerdictMap /\ quality \in [Run -> Gate]
                   /\ day \in 0 .. MaxDay
                   /\ \A run \in Run : cost[run].day \in Int /\ Priced(cost[run].money)
                   /\ view.step \in {"idle", "loaded"} /\ DOMAIN view.runs \subseteq Run
                   /\ shown.status \in {"none", "banking", "quality_risk", "unrated"}
                   /\ disturbed \in BOOLEAN
BY DEF DashTypeOK, Priced

LEMMA NextDashTypesInParts ==
    DashTypeOK' <=> /\ verdict' \in VerdictMap /\ quality' \in [Run -> Gate]
                    /\ day' \in 0 .. MaxDay
                    /\ \A run \in Run : cost'[run].day \in Int /\ Priced(cost'[run].money)
                    /\ view'.step \in {"idle", "loaded"} /\ DOMAIN view'.runs \subseteq Run
                    /\ shown'.status \in {"none", "banking", "quality_risk", "unrated"}
                    /\ disturbed' \in BOOLEAN
BY DEF DashTypeOK, Priced

LEMMA DashTypesInit == DashInit => DashTypeOK
<1> SUFFICES ASSUME DashInit PROVE DashTypeOK
  OBVIOUS
<1>1. verdict \in VerdictMap /\ quality \in [Run -> Gate]
  BY MoneyInvInit DEF MoneyInv
<1>2. day \in 0 .. MaxDay
  BY WindowAssumption DEF DashInit
<1>3. \A run \in Run : cost[run].day \in Int /\ Priced(cost[run].money)
  BY DEF DashInit, NoCost, Priced
<1>4. view.step = "idle" /\ view.runs = <<>> /\ shown.status = "none" /\ disturbed \in BOOLEAN
  BY DEF DashInit, NoView, NotShown
<1> QED
  BY <1>1, <1>2, <1>3, <1>4, DashTypesInParts

\* A write takes the answer off the page.
LEMMA TypesAfterWrite ==
    ASSUME DashTypeOK, Write, day' = day, verdict' \in VerdictMap, quality' \in [Run -> Gate],
           \A run \in Run : cost'[run].day \in Int /\ Priced(cost'[run].money)
    PROVE  DashTypeOK'
<1>1. view' = view /\ shown'.status = "none" /\ disturbed' \in BOOLEAN
  BY DEF Write, NotShown
<1> QED
  BY <1>1, DashTypesInParts, NextDashTypesInParts

LEMMA DashTypesSeed ==
    ASSUME DashInv, SeedRuns
    PROVE  DashTypeOK'
<1>1. verdict' \in VerdictMap /\ quality' \in [Run -> Gate]
  BY MoneyInvSeed DEF DashInv, MoneyInv
<1>2. PICK p \in Prices :
         cost' = [run \in Run |->
               IF run \in Demo
               THEN [day |-> day - DaysAgo[run], money |-> DemoMoney(DemoUse[run], p)]
               ELSE cost[run]]
  BY DEF SeedRuns
<1>3. day \in Int
  BY DEF DashInv, MoneyInv
<1>4. ASSUME NEW run \in Run PROVE cost'[run].day \in Int /\ Priced(cost'[run].money)
  <2>1. CASE run \in Demo
    <3>1. cost'[run] = [day |-> day - DaysAgo[run], money |-> DemoMoney(DemoUse[run], p)]
      BY <1>2, <2>1
    <3>2. day - DaysAgo[run] \in Int /\ DemoUse[run] \in TokenUse
      BY <1>3, <2>1, DemoAssumption
    <3> QED
      BY <3>1, <3>2, CostsArePriced
  <2>2. CASE run \notin Demo
    <3>1. cost'[run] = cost[run]
      BY <1>2, <2>2
    <3> QED
      BY <3>1, DashTypesInParts DEF DashInv
  <2> QED
    BY <2>1, <2>2
<1>5. Write /\ day' = day
  BY DEF SeedRuns
<1> QED
  BY <1>1, <1>4, <1>5, TypesAfterWrite DEF DashInv

LEMMA DashTypesStep ==
    ASSUME DashInv, [DashNext]_dashVars
    PROVE  DashTypeOK'
<1>1. DashTypeOK /\ \A run \in Run : cost[run].day \in Int /\ Priced(cost[run].money)
  BY DashTypesInParts DEF DashInv
<1>2. verdict' \in VerdictMap /\ quality' \in [Run -> Gate]
  BY MoneyInvStep DEF DashInv, MoneyInv
<1>3. CASE UNCHANGED dashVars
  <2>1. UNCHANGED <<verdict, quality, day, cost, view, shown, disturbed>>
    BY <1>3 DEF dashVars, ledger
  <2> QED
    BY <1>1, <2>1, DashTypesInParts, NextDashTypesInParts
<1>4. ASSUME NEW run \in Run, IngestRun(run) PROVE DashTypeOK'
  <2>1. PICK t \in TokenUse, p \in Prices :
           cost' = [cost EXCEPT ![run] = [day |-> day, money |-> compute_savings(t, p)]]
    BY <1>4 DEF IngestRun
  <2>2. day \in Int /\ Priced(compute_savings(t, p)) /\ cost \in [Run -> [day : Int, money : Money]]
    BY CostsArePriced DEF DashInv, MoneyInv
  <2>3. ASSUME NEW r \in Run PROVE cost'[r].day \in Int /\ Priced(cost'[r].money)
    <3>1. CASE r = run
      <4>1. cost'[r] = [day |-> day, money |-> compute_savings(t, p)]
        BY <2>1, <2>2, <3>1
      <4> QED
        BY <2>2, <4>1
    <3>2. CASE r # run
      <4>1. cost'[r] = cost[r]
        BY <2>1, <2>2, <3>2
      <4> QED
        BY <1>1, <4>1
    <3> QED
      BY <3>1, <3>2
  <2>4. Write /\ day' = day
    BY <1>4 DEF IngestRun
  <2> QED
    BY <1>1, <1>2, <2>3, <2>4, TypesAfterWrite
<1>5. ASSUME NEW f \in Finding, NEW v \in Verdict, RateFinding(f, v) PROVE DashTypeOK'
  <2>1. Write /\ day' = day /\ cost' = cost
    BY <1>5 DEF RateFinding
  <2> QED
    BY <1>1, <1>2, <2>1, TypesAfterWrite
<1>6. CASE DayPasses
  <2>1. day' \in 0 .. MaxDay
    BY <1>1, <1>6, WindowAssumption DEF DayPasses, DashTypeOK
  <2>2. UNCHANGED <<cost, view, shown, disturbed>>
    BY <1>6 DEF DayPasses
  <2> QED
    BY <1>1, <1>2, <2>1, <2>2, DashTypesInParts, NextDashTypesInParts
<1>7. ASSUME NEW range \in Window, LoadRuns(range) PROVE DashTypeOK'
  <2>1. view'.step = "loaded" /\ DOMAIN view'.runs \subseteq Run
    BY <1>7 DEF LoadRuns
  <2>2. shown'.status = "none" /\ disturbed' \in BOOLEAN /\ day' = day /\ cost' = cost
    BY <1>7 DEF LoadRuns, NotShown
  <2> QED
    BY <1>1, <1>2, <2>1, <2>2, DashTypesInParts, NextDashTypesInParts
<1>8. CASE LoadVerdicts
  <2>1. shown'.status = Status(verdict, DOMAIN view.runs)
    BY <1>8 DEF LoadVerdicts, assemble
  <2>2. shown'.status \in {"banking", "quality_risk", "unrated"}
    BY <2>1 DEF Status
  <2>3. view' = [view EXCEPT !.step = "idle"] /\ disturbed' = disturbed /\ day' = day /\ cost' = cost
    BY <1>8 DEF LoadVerdicts
  <2>4. view'.step = "idle" /\ view'.runs = view.runs
    BY <2>3 DEF DashInv, MoneyInv, ViewIsRecord
  <2> QED
    BY <1>1, <1>2, <2>2, <2>3, <2>4, DashTypesInParts, NextDashTypesInParts
<1> QED
  BY <1>3, <1>4, <1>5, <1>6, <1>7, <1>8 DEF DashNext

\* Costs are never negative and pages show one of three statuses, whoever writes: CI,
\* ratings or the demo seed (app/savings).
THEOREM DashboardTypes == SeedSpec => []DashTypeOK
<1>1. SeedInit => DashInv
  BY MoneyInvInit, DashTypesInit DEF SeedInit, DashInv
<1>2. DashInv /\ [SeedNext]_seedVars => DashInv'
  BY HookBesideDashboard, MoneyInvSeed, MoneyInvStep, DashTypesSeed, DashTypesStep DEF DashInv
<1>3. DashInv => DashTypeOK
  BY DEF DashInv
<1> QED
  BY <1>1, <1>2, <1>3, PTL DEF SeedSpec

=============================================================================
