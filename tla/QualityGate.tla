---------------------------- MODULE QualityGate -----------------------------
(***************************************************************************)
(* submit_feedback (app/quality/service.py) as the database transaction it *)
(* is.  Request handlers of several gunicorn workers run concurrently over *)
(* one Postgres at READ COMMITTED: a statement sees what is committed when *)
(* it runs plus the writes of its own transaction.  A handler              *)
(*   loads the finding, locks the finding's run FOR UPDATE, checks the     *)
(*   owner, upserts the verdict, reads every verdict of the run, stores    *)
(*   the gate, commits, and only then builds its answer from the run row,  *)
(*   which the commit has expired and which is therefore read again.       *)
(* A handler's worker may die at any point: Postgres rolls back.           *)
(***************************************************************************)
EXTENDS FeedbackLedger

CONSTANTS
    Request,        \* concurrent POST /findings/{id}/feedback handlers
    NoRequest       \* nobody holds the row lock

ASSUME NoRequestAssumption == NoRequest \notin Request

VARIABLES
    lock,           \* Run -> the request whose transaction locked the ci_run row
    pc,             \* Request -> where the handler is
    target,         \* Request -> finding_id (path parameter)
    caller,         \* Request -> "owner" | "stranger": whose token it carries
    say,            \* Request -> payload.verdict
    seen,           \* Request -> `verdicts`, what _run_verdicts returned
    answer          \* Request -> [code, gate] sent to the client

handler == <<pc, target, caller, say, seen, answer>>
vars == <<row, verdict, quality, lock, handler>>

InTransaction == {"locked", "upserted", "recomputed"}
Step == {"idle", "loaded", "committed", "answered"} \cup InTransaction
NoAnswer == [code |-> 0, gate |-> "null"]

TypeOK ==
    /\ row \in [Run -> {"absent", "live", "deleted"}]
    /\ verdict \in VerdictMap
    /\ quality \in [Run -> Gate]
    /\ lock \in [Run -> Request \cup {NoRequest}]
    /\ pc \in [Request -> Step]
    /\ target \in [Request -> Finding]
    /\ caller \in [Request -> {"owner", "stranger"}]
    /\ say \in [Request -> Verdict]
    /\ seen \in [Request -> VerdictMap]
    /\ answer \in [Request -> [code : {0, 200, 403, 404, 500}, gate : Gate]]

RunFor(r) == RunOf[target[r]]
AnyFinding == CHOOSE f \in Finding : TRUE
NothingRated == [f \in Finding |-> "unrated"]

Init ==
    /\ LedgerInit
    /\ lock = [run \in Run |-> NoRequest]
    /\ pc = [r \in Request |-> "idle"]
    /\ target = [r \in Request |-> AnyFinding]
    /\ caller = [r \in Request |-> "owner"]
    /\ say = [r \in Request |-> "accept"]
    /\ seen = [r \in Request |-> NothingRated]
    /\ answer = [r \in Request |-> NoAnswer]

Answer(r, code, gate) ==
    /\ pc' = [pc EXCEPT ![r] = "answered"]
    /\ answer' = [answer EXCEPT ![r] = [code |-> code, gate |-> gate]]

\* The handler slot is free again (its locals carry no meaning while idle).
Release(r) ==
    /\ pc' = [pc EXCEPT ![r] = "idle"]
    /\ target' = [target EXCEPT ![r] = AnyFinding]
    /\ caller' = [caller EXCEPT ![r] = "owner"]
    /\ say' = [say EXCEPT ![r] = "accept"]
    /\ seen' = [seen EXCEPT ![r] = NothingRated]
    /\ answer' = [answer EXCEPT ![r] = NoAnswer]

Unlock(r) == lock' = [run \in Run |-> IF lock[run] = r THEN NoRequest ELSE lock[run]]

-----------------------------------------------------------------------------

\* db.get(CiFinding, finding_id): 404 when there is no such row.
LoadFinding(r) ==
    /\ pc[r] = "idle"
    /\ \E f \in Finding, v \in Verdict, c \in {"owner", "stranger"} :
        /\ target' = [target EXCEPT ![r] = f]
        /\ say' = [say EXCEPT ![r] = v]
        /\ caller' = [caller EXCEPT ![r] = c]
        /\ IF row[RunOf[f]] = "live"
           THEN pc' = [pc EXCEPT ![r] = "loaded"] /\ UNCHANGED answer
           ELSE Answer(r, 404, "null")
    /\ UNCHANGED <<row, verdict, quality, lock, seen>>

\* Mutant of LockRun: a plain SELECT, no FOR UPDATE.
LockRunPlainSelect(r) ==
    /\ pc[r] = "loaded"
    /\ row[RunFor(r)] = "live"
    /\ lock' = [lock EXCEPT ![RunFor(r)] = r]
    /\ pc' = [pc EXCEPT ![r] = "locked"]
    /\ UNCHANGED <<row, verdict, quality, target, caller, say, seen, answer>>

\* SELECT ... FOR UPDATE waits for the transaction that holds the row.
LockRun(r) ==
    /\ pc[r] = "loaded"
    /\ row[RunFor(r)] = "live"
    /\ lock[RunFor(r)] = NoRequest
    /\ lock' = [lock EXCEPT ![RunFor(r)] = r]
    /\ pc' = [pc EXCEPT ![r] = "locked"]
    /\ UNCHANGED <<row, verdict, quality, target, caller, say, seen, answer>>

\* The run was deleted meanwhile: `run` is None and run.project_id raises.
LockMissingRun(r) ==
    /\ pc[r] = "loaded"
    /\ row[RunFor(r)] # "live"
    /\ Answer(r, 500, "null")
    /\ UNCHANGED <<row, verdict, quality, lock, target, caller, say, seen>>

\* Mutant of Forbid: the session is left open, and with it the row lock.
ForbidLeavesSession(r) ==
    /\ pc[r] = "locked"
    /\ caller[r] # "owner"
    /\ Answer(r, 403, "null")
    /\ UNCHANGED <<row, verdict, quality, lock, target, caller, say, seen>>

\* require_owner: 403; closing the session rolls back and frees the row.
Forbid(r) ==
    /\ pc[r] = "locked"
    /\ caller[r] # "owner"
    /\ Unlock(r)
    /\ Answer(r, 403, "null")
    /\ UNCHANGED <<row, verdict, quality, target, caller, say, seen>>

\* _run_verdicts: committed rows overlaid with the transaction's own upsert.
OwnView(r) == [verdict EXCEPT ![target[r]] = say[r]]

\* Mutant of Upsert: the verdict is committed before the gate is recomputed.
UpsertCommits(r) ==
    /\ pc[r] = "locked"
    /\ caller[r] = "owner"
    /\ verdict' = OwnView(r)
    /\ pc' = [pc EXCEPT ![r] = "upserted"]
    /\ UNCHANGED <<row, quality, lock, target, caller, say, seen, answer>>

\* INSERT ... ON CONFLICT DO UPDATE, visible to this transaction only.
Upsert(r) ==
    /\ pc[r] = "locked"
    /\ caller[r] = "owner"
    /\ pc' = [pc EXCEPT ![r] = "upserted"]
    /\ UNCHANGED <<row, verdict, quality, lock, target, caller, say, seen, answer>>

\* recompute_quality over every verdict of the run.
Recompute(r) ==
    /\ pc[r] = "upserted"
    /\ seen' = [seen EXCEPT ![r] = OwnView(r)]
    /\ pc' = [pc EXCEPT ![r] = "recomputed"]
    /\ UNCHANGED <<row, verdict, quality, lock, target, caller, say, answer>>

\* run.quality_ok is flushed and everything commits: verdict and gate together.
Commit(r) ==
    /\ pc[r] = "recomputed"
    /\ verdict' = OwnView(r)
    /\ quality' = [quality EXCEPT ![RunFor(r)] = recompute_quality(seen[r], RunFor(r))]
    /\ Unlock(r)
    /\ pc' = [pc EXCEPT ![r] = "committed"]
    /\ UNCHANGED <<row, target, caller, say, seen, answer>>

\* FeedbackOut(...): `run` expired at commit, so run.quality_ok is loaded anew;
\* a run deleted in between makes that load raise.
Reply(r) ==
    /\ pc[r] = "committed"
    /\ IF row[RunFor(r)] = "live"
       THEN Answer(r, 200, quality[RunFor(r)])
       ELSE Answer(r, 500, "null")
    /\ UNCHANGED <<row, verdict, quality, lock, target, caller, say, seen>>

\* The client has the answer; the handler slot serves another request.
Finish(r) ==
    /\ pc[r] = "answered"
    /\ Release(r)
    /\ UNCHANGED <<row, verdict, quality, lock>>

\* The worker is killed (gunicorn timeout, pod eviction): uncommitted work is lost.
Crash(r) ==
    /\ pc[r] \in InTransaction \cup {"loaded", "committed"}
    /\ Unlock(r)
    /\ Release(r)
    /\ UNCHANGED <<row, verdict, quality>>

InsertRun(run) ==
    /\ Ingest(run)
    /\ UNCHANGED <<lock, handler>>

\* The cascade's DELETE waits for the row lock like any other writer.
DeleteRun(run) ==
    /\ lock[run] = NoRequest
    /\ Delete(run)
    /\ UNCHANGED <<lock, handler>>

Handle(r) ==
    \/ LoadFinding(r) \/ LockRun(r) \/ LockMissingRun(r) \/ Forbid(r)
    \/ Upsert(r) \/ Recompute(r) \/ Commit(r) \/ Reply(r) \/ Finish(r)

Next ==
    \/ \E r \in Request : Handle(r) \/ Crash(r)
    \/ \E run \in Run : InsertRun(run) \/ DeleteRun(run)

Spec == Init /\ [][Next]_vars

\* A started handler keeps running (weak fairness); Postgres queues the waiters
\* of a row lock, so one that keeps waiting is served (strong fairness).
HandlerFairness(r) ==
    /\ WF_vars(LockMissingRun(r) \/ Forbid(r) \/ Upsert(r) \/ Recompute(r)
               \/ Commit(r) \/ Reply(r))
    /\ SF_vars(LockRun(r))

FairSpec == Spec /\ \A r \in Request : HandlerFairness(r)

-----------------------------------------------------------------------------

\* The stored gate of every run is the gate of ALL its stored verdicts, however
\* the feedback POSTs on its findings interleave: the row lock in submit_feedback
\* keeps one handler from storing a gate computed from a partial verdict set.
GateMatchesVerdicts ==
    \A run \in Run : quality[run] = recompute_quality(verdict, run)

\* Whoever is between its SELECT FOR UPDATE and its commit holds the run's row,
\* so the run cannot be deleted under it and nobody else is re-gating that run.
TransactionHoldsRun ==
    \A r \in Request : pc[r] \in InTransaction =>
        /\ lock[RunFor(r)] = r
        /\ row[RunFor(r)] = "live"

\* What a handler is about to store is the gate of the verdicts as they will be
\* once it commits: nothing it read between lock and commit has gone stale.
PendingGateIsFresh ==
    \A r \in Request : pc[r] = "recomputed" =>
        \A f \in FindingsOf(RunFor(r)) : seen[r][f] = OwnView(r)[f]

\* Taken together these are inductive: the invariant the proofs use.
IInv == TypeOK /\ GateMatchesVerdicts /\ TransactionHoldsRun /\ PendingGateIsFresh

\* The interleaved handlers implement the ledger in which rating a finding and
\* re-gating its run are one step (a crash or a refused request is a stutter).
ImplementsLedger == LedgerSpec

\* Every feedback request that found its finding is eventually answered or dies
\* with its worker: nobody waits for the run's row lock for ever.
EveryRequestEnds ==
    \A r \in Request : pc[r] = "loaded" ~> pc[r] \in {"answered", "idle"}

=============================================================================
