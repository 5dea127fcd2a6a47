----------------------------- MODULE Admission ------------------------------
(***************************************************************************)
(* Account creation: POST /auth/register and POST /auth/google (app/api/   *)
(* auth.py, app/auth/service.register_user, app/auth/google.authenticate_  *)
(* google) under the transaction-scoped advisory lock of app/auth/         *)
(* admission.py, with the example projects of app/demo/onboarding created  *)
(* in the same transaction.  READ COMMITTED: a statement sees the accounts *)
(* committed before it, and an uncommitted account is seen by its own      *)
(* transaction alone.  Losing the worker rolls back and frees the lock.    *)
(***************************************************************************)
EXTENDS Integers, FiniteSets

CONSTANTS
    Worker,         \* requests in flight, over all replicas
    Email, Lower,   \* e-mail addresses and their lower-case form
    Subject,        \* Google `sub` identities
    NoSubject,      \* google_subject IS NULL: a password account
    NoWorker,       \* nobody holds the lock
    Capacity,       \* max_registered_users
    SeedNewUserExamples     \* seed_new_user_examples

ASSUME LowerAssumption == Lower \in [Email -> Email] /\ \A e \in Email : Lower[Lower[e]] = Lower[e]
ASSUME EmailAssumption == Email # {}
ASSUME CapacityAssumption == Capacity \in Nat
ASSUME SettingAssumption == SeedNewUserExamples \in BOOLEAN
ASSUME NullAssumption == NoSubject \notin Subject /\ NoWorker \notin Worker

VARIABLES
    users,          \* committed rows of "user"
    examples,       \* committed accounts that have their example projects
    lock,           \* holder of pg_advisory_xact_lock(384700)
    pc,             \* Worker -> step of the request's transaction
    ask             \* Worker -> the account the request asks for

vars == <<users, examples, lock, pc, ask>>

Identity == [email : Email, subject : Subject \cup {NoSubject}]
Account == {a \in Identity : a.subject # NoSubject => a.email = Lower[a.email]}
Nobody == CHOOSE a \in Account : TRUE      \* an idle worker's `ask`
InLock == {"locked", "free", "room", "inserted", "provisioned"}

TypeOK ==
    /\ users \subseteq Account /\ IsFiniteSet(users)
    /\ examples \subseteq Account
    /\ lock \in Worker \cup {NoWorker}
    /\ pc \in [Worker -> {"idle", "begun"} \cup InLock]
    /\ ask \in [Worker -> Account]

Init ==
    /\ users = {} /\ examples = {}
    /\ lock = NoWorker
    /\ pc = [w \in Worker |-> "idle"]
    /\ ask = [w \in Worker |-> Nobody]

Step(w, step) == pc' = [pc EXCEPT ![w] = step]
Advance(w, step) == Step(w, step) /\ UNCHANGED <<lock, ask>>

\* Commit or rollback: the transaction ends and the advisory lock is free.
End(w) ==
    /\ Step(w, "idle")
    /\ ask' = [ask EXCEPT ![w] = Nobody]
    /\ lock' = IF lock = w THEN NoWorker ELSE lock

Same(e1, e2) == Lower[e1] = Lower[e2]
EmailTaken(e) == \E u \in users : Same(u.email, e)
SubjectKnown(s) == s # NoSubject /\ \E u \in users : u.subject = s

-----------------------------------------------------------------------------

\* The account a request would create: google's e-mail is lower-cased, that of a
\* registration is stored as it was typed.
Created(r) == IF r.subject = NoSubject THEN r ELSE [r EXCEPT !.email = Lower[@]]

\* The route, before any lock: register refuses the exact e-mail (409), google
\* signs a known subject in (200); otherwise the transaction goes for the lock.
Begin(w, r) ==
    /\ pc[w] = "idle"
    /\ IF r.subject = NoSubject THEN ~ \E u \in users : u.email = r.email
                                ELSE ~ SubjectKnown(r.subject)
    /\ ask' = [ask EXCEPT ![w] = Created(r)]
    /\ Step(w, "begun")
    /\ UNCHANGED <<users, examples, lock>>

\* lock_registration.
LockRegistration(w) ==
    /\ pc[w] = "begun" /\ lock = NoWorker
    /\ lock' = w
    /\ Step(w, "locked")
    /\ UNCHANGED <<users, examples, ask>>

\* Mutant of LockTimeout: the request goes on waiting.
LockWait(w) ==
    /\ pc[w] = "begun" /\ lock # NoWorker
    /\ UNCHANGED vars

\* lock_timeout = 5s while another transaction holds it: 503.
LockTimeout(w) ==
    /\ pc[w] = "begun" /\ lock # NoWorker
    /\ End(w)
    /\ UNCHANGED <<users, examples>>

\* Mutant of CheckIdentity: the e-mail is compared as it is spelled.
CheckIdentityExact(w) ==
    /\ pc[w] = "locked"
    /\ IF SubjectKnown(ask[w].subject) \/ \E u \in users : u.email = ask[w].email
       THEN End(w)
       ELSE Advance(w, "free")
    /\ UNCHANGED <<users, examples>>

\* Under the lock: google looks its subject up again (200 if another login created
\* it meanwhile); an e-mail in use, whatever its case, is a 409.
CheckIdentity(w) ==
    /\ pc[w] = "locked"
    /\ IF SubjectKnown(ask[w].subject) \/ EmailTaken(ask[w].email)
       THEN End(w)
       ELSE Advance(w, "free")
    /\ UNCHANGED <<users, examples>>

\* Mutant of RequireCapacity: one account too many.
RequireCapacityOffByOne(w) ==
    /\ pc[w] = "free"
    /\ IF Cardinality(users) > Capacity
       THEN End(w)
       ELSE Advance(w, "room")
    /\ UNCHANGED <<users, examples>>

\* require_capacity: 409 when the committed accounts fill it.
RequireCapacity(w) ==
    /\ pc[w] = "free"
    /\ IF Cardinality(users) >= Capacity
       THEN End(w)
       ELSE Advance(w, "room")
    /\ UNCHANGED <<users, examples>>

\* Mutant of Insert: the account is committed before its examples are made.
InsertCommits(w) ==
    /\ pc[w] = "room"
    /\ users' = users \cup {ask[w]}
    /\ Advance(w, "inserted")
    /\ UNCHANGED examples

\* INSERT, still uncommitted; the unique constraints on email and google_subject
\* refuse a row that is there already (409).
Insert(w) ==
    /\ pc[w] = "room"
    /\ IF SubjectKnown(ask[w].subject) \/ \E u \in users : u.email = ask[w].email
       THEN End(w)
       ELSE Advance(w, "inserted")
    /\ UNCHANGED <<users, examples>>

\* provision_examples in the same transaction, if the setting says so: all of them,
\* or 503 and rollback.  (Both endpoints register with_examples; the account of the
\* demo seeder, which does not, is none of these requests.)
Provision(w) ==
    /\ pc[w] = "inserted"
    /\ \/ Advance(w, "provisioned")
       \/ SeedNewUserExamples /\ End(w)
    /\ UNCHANGED <<users, examples>>

\* commit: the account and its examples become visible, the lock is free.
Commit(w) ==
    /\ pc[w] = "provisioned"
    /\ users' = users \cup {ask[w]}
    /\ examples' = IF SeedNewUserExamples THEN examples \cup {ask[w]} ELSE examples
    /\ End(w)

\* The worker or its database connection dies: Postgres rolls back.
Crash(w) ==
    /\ pc[w] # "idle"
    /\ End(w)
    /\ UNCHANGED <<users, examples>>

Proceed(w) ==
    \/ LockRegistration(w) \/ LockTimeout(w) \/ CheckIdentity(w) \/ RequireCapacity(w)
    \/ Insert(w) \/ Provision(w) \/ Commit(w)

Next ==
    \E w \in Worker : (\E r \in Identity : Begin(w, r)) \/ Proceed(w) \/ Crash(w)

Spec == Init /\ [][Next]_vars

-----------------------------------------------------------------------------

\* The accounts never exceed max_registered_users, although count and insert are
\* two statements and requests run on several replicas.
WithinCapacity == Cardinality(users) <= Capacity

\* No two accounts share an e-mail up to case, which no database constraint
\* ensures (the unique one is case-sensitive), whichever way each was created.
EmailsUnique == \A u, v \in users : Same(u.email, v.email) => u = v

\* An account and the example projects it is to have appear together or not at all,
\* whatever dies in between.
ExamplesWithAccount == examples = IF SeedNewUserExamples THEN users ELSE {}

=============================================================================
