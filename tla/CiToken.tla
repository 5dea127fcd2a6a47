------------------------------ MODULE CiToken -------------------------------
(***************************************************************************)
(* The Jenkins connection of one project and the CI ingest token stored on *)
(* it: PUT /projects/{id}/jenkins (app/projects/jenkins_service.py), GET   *)
(* .../ci-setup and POST .../ci-setup/rotate (app/ci/service.py).          *)
(* Each handler reads the connection row into its session, decides on that *)
(* copy, and commits only the columns it changed; no row is locked.  The   *)
(* plaintext of a new token exists only in the handler, after the commit   *)
(* that stored its hash, until the answer reaches the user.                *)
(***************************************************************************)
EXTENDS Integers, FiniteSets

CONSTANTS
    Session,        \* concurrent requests of the owner's browser tabs
    NoToken,        \* ci_token_hash IS NULL; also: no plaintext in hand
    Token,          \* token values; one that is dead may be minted "again", so
                    \* one more than the sessions suffice for unbounded minting
    MaxDrops,       \* bound: answers lost in a behaviour
    MaxDisables     \* bound: times the runtime config is disabled

ASSUME TokensSuffice == IsFiniteSet(Session) /\ Cardinality(Token) > Cardinality(Session)
ASSUME BoundsAssumption == MaxDrops \in Nat /\ MaxDisables \in Nat
ASSUME NoTokenAssumption == NoToken \notin Token

VARIABLES
    project,        \* "live" | "deleted"
    conn,           \* the jenkins_connection row: "absent" | "present"
    stored,         \* the token whose hash is in ci_token_hash
    setupMints,     \* how many tokens ci_setup stored, counted up to 2 (history)
    runtime,        \* is the selected model's runtime config enabled
    pc, kind,       \* Session -> handler step, endpoint
    saw,            \* Session -> the row as the handler's session loaded it
    plain,          \* Session -> the plaintext the handler holds
    code,           \* Session -> status of the last answer
    shown,          \* {stored} once an answer delivered its plaintext, else {}
    drops, disables \* how many of each so far

row == <<project, conn, stored>>
request == <<pc, kind, saw, plain, code>>
vars == <<row, setupMints, runtime, request, shown, drops, disables>>

Kind == {"connect", "setup", "rotate"}
TokenOrNone == Token \cup {NoToken}
Unread == [conn |-> "absent", stored |-> NoToken]

TypeOK ==
    /\ project \in {"live", "deleted"}
    /\ conn \in {"absent", "present"}
    /\ project = "deleted" => conn = "absent"
    /\ stored \in TokenOrNone
    /\ conn = "absent" => stored = NoToken
    /\ setupMints \in 0 .. 2
    /\ runtime \in {"enabled", "disabled"}
    /\ pc \in [Session -> {"idle", "loaded", "committed"}]
    /\ kind \in [Session -> Kind]
    /\ saw \in [Session -> [conn : {"absent", "present"}, stored : TokenOrNone]]
    /\ plain \in [Session -> TokenOrNone]
    /\ code \in [Session -> {0, 200, 404, 422, 500}]
    /\ shown \subseteq {stored} \cap Token
    /\ drops \in 0 .. MaxDrops
    /\ disables \in 0 .. MaxDisables

Init ==
    /\ project = "live" /\ conn = "absent" /\ stored = NoToken
    /\ setupMints = 0
    /\ runtime = "enabled"
    /\ pc = [s \in Session |-> "idle"]
    /\ kind = [s \in Session |-> "setup"]
    /\ saw = [s \in Session |-> Unread]
    /\ plain = [s \in Session |-> NoToken]
    /\ code = [s \in Session |-> 0]
    /\ shown = {} /\ drops = 0 /\ disables = 0

\* The handler answers and its session closes.
Answer(s, status) ==
    /\ pc' = [pc EXCEPT ![s] = "idle"]
    /\ code' = [code EXCEPT ![s] = status]
    /\ saw' = [saw EXCEPT ![s] = Unread]
    /\ plain' = [plain EXCEPT ![s] = NoToken]
    /\ UNCHANGED kind

Committed(s, token) ==
    /\ pc' = [pc EXCEPT ![s] = "committed"]
    /\ plain' = [plain EXCEPT ![s] = token]
    /\ UNCHANGED <<kind, saw, code>>

-----------------------------------------------------------------------------

\* _require_owned_project, then the SELECT of the connection row: 404 without
\* the project, and for ci_setup and rotate also without the connection.
Load(s, k) ==
    /\ pc[s] = "idle"
    /\ kind' = [kind EXCEPT ![s] = k]
    /\ IF project = "deleted" \/ (k # "connect" /\ conn = "absent")
       THEN /\ code' = [code EXCEPT ![s] = 404]
            /\ UNCHANGED <<pc, saw, plain>>
       ELSE /\ pc' = [pc EXCEPT ![s] = "loaded"]
            /\ saw' = [saw EXCEPT ![s] = [conn |-> conn, stored |-> stored]]
            /\ code' = [code EXCEPT ![s] = 0]
            /\ UNCHANGED plain
    /\ UNCHANGED <<row, setupMints, runtime, shown, drops, disables>>

\* connect_jenkins saw no row: INSERT.  The unique project_id or the foreign key
\* makes it fail when another request connected or deleted the project first.
InsertConnection(s) ==
    /\ pc[s] = "loaded" /\ kind[s] = "connect" /\ saw[s].conn = "absent"
    /\ IF project = "live" /\ conn = "absent"
       THEN conn' = "present" /\ Answer(s, 200)
       ELSE Answer(s, 500) /\ UNCHANGED conn
    /\ UNCHANGED <<project, stored, setupMints, runtime, shown, drops, disables>>

\* Mutant of UpdateConnection: the row is written back as it was loaded.
UpdateWholeRow(s) ==
    /\ pc[s] = "loaded" /\ kind[s] = "connect" /\ saw[s].conn = "present"
    /\ IF conn = "present"
       THEN stored' = saw[s].stored /\ Answer(s, 200)
       ELSE Answer(s, 500) /\ UNCHANGED stored
    /\ UNCHANGED <<project, conn, setupMints, runtime, shown, drops, disables>>

\* connect_jenkins saw a row: base_url, job_name and status are updated, the
\* token column is not; the UPDATE of a row that is gone raises StaleDataError.
UpdateConnection(s) ==
    /\ pc[s] = "loaded" /\ kind[s] = "connect" /\ saw[s].conn = "present"
    /\ Answer(s, IF conn = "present" THEN 200 ELSE 500)
    /\ UNCHANGED <<row, setupMints, runtime, shown, drops, disables>>

\* mint_token, ci_token_hash := hash_token(...), commit: a token nobody holds.
StoreFreshToken(s) ==
    \/ /\ conn = "present"
       /\ \E t \in Token \ ({stored} \cup {plain[q] : q \in Session}) :
             stored' = t /\ Committed(s, t)
       /\ shown' = {}
    \/ /\ conn = "absent"
       /\ Answer(s, 500)
       /\ UNCHANGED <<stored, shown>>

CountMint == IF conn = "present" /\ setupMints < 2 THEN setupMints + 1 ELSE setupMints

\* ci_setup on a connection that had no token when it was read.
SetupMint(s) ==
    /\ pc[s] = "loaded" /\ kind[s] = "setup" /\ saw[s].stored = NoToken
    /\ StoreFreshToken(s)
    /\ setupMints' = CountMint
    /\ UNCHANGED <<project, conn, runtime, drops, disables>>

\* ci_setup on a connection that had one: nothing to write, token=None.
SetupAgain(s) ==
    /\ pc[s] = "loaded" /\ kind[s] = "setup" /\ saw[s].stored # NoToken
    /\ Committed(s, NoToken)
    /\ UNCHANGED <<row, setupMints, runtime, shown, drops, disables>>

\* rotate_ci_token replaces whatever is stored.
Rotate(s) ==
    /\ pc[s] = "loaded" /\ kind[s] = "rotate"
    /\ StoreFreshToken(s)
    /\ UNCHANGED <<project, conn, setupMints, runtime, drops, disables>>

\* Mutant of Deliver: the plaintext does not make it into the answer.
DeliverWithoutToken(s) ==
    /\ pc[s] = "committed"
    /\ Answer(s, 200)
    /\ UNCHANGED <<row, setupMints, runtime, shown, drops, disables>>

\* _setup_out: AFTER the commit the project is read again (500 if it is gone) and
\* the selected runtime config is required (422 if it is disabled).
Deliver(s) ==
    /\ pc[s] = "committed"
    /\ IF project = "live" /\ runtime = "enabled"
       THEN /\ shown' = shown \cup ({plain[s]} \cap ({stored} \ {NoToken}))
            /\ Answer(s, 200)
       ELSE /\ Answer(s, IF project = "live" THEN 422 ELSE 500)
            /\ UNCHANGED shown
    /\ UNCHANGED <<row, setupMints, runtime, drops, disables>>

\* The worker dies or the connection drops: no answer, and no rollback of what
\* was committed.
Drop(s) ==
    /\ pc[s] # "idle" /\ drops < MaxDrops
    /\ drops' = drops + 1
    /\ Answer(s, 0)
    /\ UNCHANGED <<row, setupMints, runtime, shown, disables>>

\* The operator's catalog seed disables the model's runtime config, or enables it.
SetRuntime ==
    /\ \/ /\ runtime = "enabled" /\ disables < MaxDisables
          /\ runtime' = "disabled" /\ disables' = disables + 1
       \/ /\ runtime = "disabled"
          /\ runtime' = "enabled" /\ UNCHANGED disables
    /\ UNCHANGED <<row, setupMints, request, shown, drops>>

\* delete_project: the connection goes with the project.
DeleteProject ==
    /\ project = "live"
    /\ project' = "deleted" /\ conn' = "absent" /\ stored' = NoToken /\ shown' = {}
    /\ UNCHANGED <<setupMints, runtime, request, drops, disables>>

Handle(s) ==
    \/ InsertConnection(s) \/ UpdateConnection(s) \/ SetupMint(s) \/ SetupAgain(s)
    \/ Rotate(s) \/ Deliver(s)

Next ==
    \/ \E s \in Session : (\E k \in Kind : Load(s, k)) \/ Handle(s) \/ Drop(s)
    \/ SetRuntime
    \/ DeleteProject

Spec == Init /\ [][Next]_vars

\* The owner connects, fetches the snippet, and regenerates while the stored
\* token is one no answer has shown: what the setup page offers and asks for.
OwnerPersists ==
    /\ SF_vars(conn = "absent" /\ \E s \in Session : Load(s, "connect"))
    /\ SF_vars(conn = "present" /\ stored = NoToken /\ \E s \in Session : Load(s, "setup"))
    /\ SF_vars(stored # NoToken /\ stored \notin shown /\ \E s \in Session : Load(s, "rotate"))

\* Started handlers run on, and a disabled runtime config is enabled again.
FairSpec ==
    /\ Spec
    /\ OwnerPersists
    /\ \A s \in Session : WF_vars(Handle(s))
    /\ WF_vars(runtime = "disabled" /\ SetRuntime)

-----------------------------------------------------------------------------

\* Editing the Jenkins connection never costs the project its token: a PUT that
\* loaded the row before another request minted must not write that column back.
ConnectKeepsToken ==
    [][stored # NoToken => stored' # NoToken \/ project' = "deleted"]_vars

\* ci_setup mints the project's token once; later fetches mint and show none.
SetupMintsOnce == setupMints <= 1

\* Two tabs may overwrite each other's tokens, but when all have answered the token
\* that authenticates is one the owner was shown: only a lost answer or a runtime
\* that was disabled meanwhile can leave a stored token nobody has seen.
OnlyLossLeavesTokenUnshown ==
    drops = 0 /\ disables = 0 /\ (\A s \in Session : pc[s] = "idle")
    => stored \in shown \cup {NoToken}

\* Lost answers and disabled runtimes delay a working token, they do not preclude
\* it: an owner who settles on one tab ends with a stored token that was shown, or
\* without the project.
OwnerGetsToken ==
    (\E s \in Session : <>[](\A q \in Session \ {s} : pc[q] = "idle"))
    => <>(project = "deleted" \/ stored \in shown)

=============================================================================
