------------------------------- MODULE SignIn -------------------------------
(***************************************************************************)
(* The authentication endpoints as a whole (app/api/auth.py): the shared   *)
(* rate bucket in front of them, the challenge and the consumed nonce of a *)
(* Google sign-in (app/auth/google.py), and behind those the creation of   *)
(* an account (Admission), whose transaction is the one that consumes the  *)
(* nonce.  The database and the application are taken to agree on when a   *)
(* challenge expires.                                                      *)
(***************************************************************************)
EXTENDS Admission, AuthBucket

CONSTANTS
    Nonce,              \* challenges that are handed out
    Google              \* identities Google vouches for; an address may change

ASSUME GoogleAssumption ==
    /\ Nonce # {} /\ Google # {}
    /\ Google \subseteq {i \in Identity : i.subject # NoSubject}

VARIABLES
    stage,              \* Worker -> how far its request is
    login,              \* Worker -> the Google sign-in it works on
    challenge,          \* Nonce -> validity of the signed challenge
    nonces,             \* committed rows of google_login_nonce
    uses,               \* Nonce -> committed sign-ins with it, up to 2 (history)
    late                \* nonces consumed when their challenge had expired (history)

signInVars == <<stage, login, challenge, nonces, uses, late>>
allVars == <<vars, bucketVars, signInVars>>

Login == [nonce : Nonce, who : {Created(i) : i \in Google}, swept : SUBSET Nonce]

SignInTypeOK ==
    /\ stage \in [Worker -> {"out", "limited", "verified", "consumed", "account"}]
    /\ login \in [Worker -> Login]
    /\ challenge \in [Nonce -> {"unissued", "fresh", "expired"}]
    /\ nonces \subseteq Nonce /\ late \subseteq Nonce
    /\ uses \in [Nonce -> 0 .. 2]

NoLogin == CHOOSE l \in Login : l.swept = {}     \* that of a request without one

SignInInit ==
    /\ Init /\ BucketInit
    /\ stage = [w \in Worker |-> "out"]
    /\ login = [w \in Worker |-> NoLogin]
    /\ challenge = [n \in Nonce |-> "unissued"]
    /\ nonces = {} /\ late = {}
    /\ uses = [n \in Nonce |-> 0]

GoesTo(w, where) == stage' = [stage EXCEPT ![w] = where]
KeepsLogin == UNCHANGED <<login, challenge, nonces, uses, late>>

\* The request is answered or dies; what it worked on is forgotten.
Leaves(w) ==
    /\ GoesTo(w, "out")
    /\ login' = [login EXCEPT ![w] = NoLogin]

\* The transaction of the sign-in commits, and with it the sweep and the nonce.
UseNonce(w) ==
    LET n == login[w].nonce IN
    /\ nonces' = (nonces \ login[w].swept) \cup {n}
    /\ uses' = [uses EXCEPT ![n] = IF @ < 2 THEN @ + 1 ELSE 2]

-----------------------------------------------------------------------------

\* limit_auth_requests, committed before anything else is done: let through, or a
\* 429.  (A bucket row locked for two seconds is a 503 that changes nothing.)
Limit(w) ==
    /\ stage[w] = "out"
    /\ \/ Take /\ GoesTo(w, "limited")
       \/ Reject /\ UNCHANGED stage
    /\ KeepsLogin
    /\ UNCHANGED <<vars>>

LeaveFrom(w, stages) ==
    /\ stage[w] \in stages
    /\ Leaves(w)
    /\ UNCHANGED <<vars, bucketVars, challenge, nonces, uses, late>>

\* A password login is answered, registration refuses the exact address, or a
\* credential cannot be verified.
Answer(w) == LeaveFrom(w, {"limited"})

\* The worker or its connection dies, or the browser gives up: rollback.
Vanish(w) == LeaveFrom(w, {"verified", "consumed"})

\* create_challenge: five minutes for a new nonce; nothing is stored.
IssueChallenge(w, n) ==
    /\ stage[w] = "limited" /\ challenge[n] = "unissued"
    /\ challenge' = [challenge EXCEPT ![n] = "fresh"]
    /\ Leaves(w)
    /\ UNCHANGED <<vars, bucketVars, nonces, uses, late>>

Expire(n) ==
    /\ challenge[n] = "fresh"
    /\ challenge' = [challenge EXCEPT ![n] = "expired"]
    /\ UNCHANGED <<vars, bucketVars, stage, login, nonces, uses, late>>

\* POST /auth/register goes for the lock.
Register(w, r) ==
    /\ stage[w] = "limited" /\ r.subject = NoSubject
    /\ Begin(w, r)
    /\ GoesTo(w, "account") /\ KeepsLogin
    /\ UNCHANGED <<bucketVars>>

\* The challenge is decoded and the credential checked with Google's keys, before
\* the database is asked anything: the answer may take seconds.
Verify(w, n, i) ==
    /\ stage[w] = "limited" /\ challenge[n] = "fresh"
    /\ login' = [login EXCEPT ![w] = [nonce |-> n, who |-> Created(i), swept |-> {}]]
    /\ GoesTo(w, "verified")
    /\ UNCHANGED <<vars, bucketVars, challenge, nonces, uses, late>>

\* A sign-in has consumed its nonce and not ended its transaction.
Holds(w) ==
    \/ stage[w] = "consumed"
    \/ stage[w] = "account" /\ ask[w].subject # NoSubject

\* The DELETE waits for another one of the same rows, the INSERT for another one
\* of the same nonce, until that transaction ends.
Unobstructed(w) ==
    \A v \in Worker \ {w} :
        Holds(v) => login[v].nonce # login[w].nonce /\ login[v].swept = {}

Expired == {n \in Nonce : challenge[n] = "expired"}

\* Mutant of ConsumeNonce: a SELECT before the insert instead of its conflict.
ConsumeNonceUnguarded(w) ==
    LET n == login[w].nonce  swept == nonces \cap Expired IN
    /\ stage[w] = "verified"
    /\ IF n \in nonces \ swept
       THEN Leaves(w) /\ UNCHANGED late
       ELSE /\ login' = [login EXCEPT ![w].swept = swept]
            /\ late' = IF n \in Expired THEN late \cup {n} ELSE late
            /\ GoesTo(w, "consumed")
    /\ UNCHANGED <<vars, bucketVars, challenge, nonces, uses>>

\* Expired nonces are deleted and the sign-in's own is inserted; one that is there
\* already is a 401 and a rollback.
ConsumeNonce(w) ==
    LET n == login[w].nonce  swept == nonces \cap Expired IN
    /\ stage[w] = "verified" /\ Unobstructed(w)
    /\ IF n \in nonces \ swept
       THEN Leaves(w) /\ UNCHANGED late
       ELSE /\ login' = [login EXCEPT ![w].swept = swept]
            /\ late' = IF n \in Expired THEN late \cup {n} ELSE late
            /\ GoesTo(w, "consumed")
    /\ UNCHANGED <<vars, bucketVars, challenge, nonces, uses>>

\* The subject is known: signed in, nonce consumed.
SignInKnown(w) ==
    /\ stage[w] = "consumed" /\ SubjectKnown(login[w].who.subject)
    /\ UseNonce(w) /\ Leaves(w)
    /\ UNCHANGED <<vars, bucketVars, challenge, late>>

\* It is not: the same transaction goes on to the registration lock.
SignUp(w) ==
    /\ stage[w] = "consumed"
    /\ Begin(w, login[w].who)
    /\ GoesTo(w, "account") /\ KeepsLogin
    /\ UNCHANGED <<bucketVars>>

\* Ends of the account's transaction that commit it.  A Google sign-in also commits
\* when the subject or the e-mail turns out to be taken (200 or 409); no capacity,
\* a lock timeout and failed examples roll it back.
Ending(w) == pc[w] # "idle" /\ pc'[w] = "idle"
Commits(w) == pc[w] \in {"locked", "room", "provisioned"}

Closing(w) ==
    IF Ending(w)
    THEN /\ Leaves(w)
         /\ IF Holds(w) /\ Commits(w) THEN UseNonce(w) ELSE UNCHANGED <<nonces, uses>>
         /\ UNCHANGED <<challenge, late>>
    ELSE UNCHANGED signInVars

AccountStep(w) ==
    /\ stage[w] = "account"
    /\ Proceed(w)
    /\ Closing(w)
    /\ UNCHANGED <<bucketVars>>

AccountCrash(w) ==
    /\ stage[w] = "account"
    /\ Crash(w) /\ Leaves(w)
    /\ UNCHANGED <<bucketVars, challenge, nonces, uses, late>>

Tick == ClockTicks /\ UNCHANGED <<vars, signInVars>>
SetBack == ClockSetBack /\ UNCHANGED <<vars, signInVars>>
SetForward == ClockSetForward /\ UNCHANGED <<vars, signInVars>>

\* A request that was let through works on by itself.
WorkOn(w) == Answer(w) \/ SignInKnown(w) \/ SignUp(w) \/ AccountStep(w)

SignInNext ==
    \/ \E w \in Worker :
        \/ Limit(w) \/ WorkOn(w) \/ ConsumeNonce(w) \/ Vanish(w) \/ AccountCrash(w)
        \/ \E r \in Identity : Register(w, r)
        \/ \E n \in Nonce : IssueChallenge(w, n) \/ \E i \in Google : Verify(w, n, i)
    \/ \E n \in Nonce : Expire(n)
    \/ Tick \/ SetBack \/ SetForward

SignInSpec == SignInInit /\ [][SignInNext]_allVars

\* Requests work on, Postgres lets those in that wait for a nonce, time passes.
FairSignInSpec ==
    /\ SignInSpec
    /\ \A w \in Worker : WF_allVars(WorkOn(w)) /\ SF_allVars(ConsumeNonce(w))
    /\ WF_allVars(Tick)

-----------------------------------------------------------------------------

Bucket == INSTANCE TokenBucket WITH
    Client <- Worker,
    level <- Level,
    ahead <- forward,
    inside <- {w \in Worker : stage[w] # "out"}

\* The lazily filled row limits all requests of all replicas together as a bucket
\* does that is filled every second: Burst at once and PerMinute a minute by the
\* database's clock, however many requests are refused in between.  Setting the clock
\* back brings nothing, neither at once nor when it has caught up; setting it forward
\* by some seconds brings what those seconds would have, and no more.
ImplementsBucket == Bucket!Spec

\* A challenge signs somebody in once, on any number of workers, whether the account
\* existed or is created in the same transaction, and although used nonces are
\* deleted.  The deletion is safe because a challenge is not accepted any more when
\* its nonce goes; the exception is a sign-in that was verified in time and reaches
\* the table after the expiry.
ChallengeUsedOnce == \A n \in Nonce : uses[n] <= 1 \/ n \in late

\* Every request is answered: nobody waits for ever for a nonce or the registration
\* lock, in whatever order the two are taken.
EverySignInEnds == \A w \in Worker : stage[w] # "out" ~> stage[w] = "out"

=============================================================================
