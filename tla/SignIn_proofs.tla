--------------------------- MODULE SignIn_proofs ----------------------------
(***************************************************************************)
(* Proofs about the authentication endpoints, for any number of workers,   *)
(* addresses, challenges, identities, any capacity and any rate.  First    *)
(* the creation of accounts by itself (Admission): a worker inside the     *)
(* registration lock knows things about the committed accounts (its e-mail *)
(* is free, there is room), and they stay true because only the lock's     *)
(* holder commits.  Then the endpoints (SignIn): behind the bucket and the *)
(* nonce accounts are created as Admission says, the lazily filled row is  *)
(* a bucket, and a challenge is used once.                                 *)
(***************************************************************************)
EXTENDS SignIn, FiniteSetTheorems, TLAPS

-----------------------------------------------------------------------------
\* The creation of accounts.

USE LowerAssumption, CapacityAssumption, NullAssumption

\* The lock is held exactly by the worker between lock_registration and the end.
LockIsHeld == \A w \in Worker : pc[w] \in InLock <=> lock = w

\* What CheckIdentity found still holds when the account is committed.
FoundFree ==
    \A w \in Worker :
        pc[w] \in InLock \ {"locked"} => ~ EmailTaken(ask[w].email)

\* What RequireCapacity found still holds when the account is committed.
FoundRoom ==
    \A w \in Worker :
        pc[w] \in InLock \ {"locked", "free"} => Cardinality(users) < Capacity

IInv ==
    /\ TypeOK
    /\ LockIsHeld
    /\ FoundFree
    /\ FoundRoom
    /\ WithinCapacity
    /\ EmailsUnique
    /\ ExamplesWithAccount

\* What an idle worker's `ask` is set to is an account.
LEMMA NobodyIsAccount == Nobody \in Account
<1>1. PICK e \in Email : TRUE
  BY EmailAssumption
<1>2. [email |-> e, subject |-> NoSubject] \in Account
  BY DEF Account, Identity
<1> QED
  BY <1>2 DEF Nobody

\* The steps that commit nothing and let at most one worker move inside the lock.
Quiet(w) ==
    \/ \E r \in Identity : Begin(w, r)
    \/ LockRegistration(w) \/ LockTimeout(w) \/ Insert(w) \/ Provision(w) \/ Crash(w)

LEMMA InitIInv == Init => IInv
<1> SUFFICES ASSUME Init PROVE IInv
    OBVIOUS
<1> USE DEF Init
<1>1. IsFiniteSet(users) /\ Cardinality(users) = 0
  BY FS_EmptySet
<1> QED
  BY <1>1, NobodyIsAccount DEF IInv, TypeOK, LockIsHeld, FoundFree, FoundRoom, InLock, WithinCapacity,
              EmailsUnique, ExamplesWithAccount

\* What a request would create is an account.
LEMMA CreatedIsAccount == \A r \in Identity : Created(r) \in Account
BY DEF Created, Identity, Account

LEMMA QuietTypes ==
    ASSUME IInv, NEW w \in Worker, Quiet(w)
    PROVE  TypeOK' /\ users' = users /\ examples' = examples
BY CreatedIsAccount, NobodyIsAccount
   DEF IInv, TypeOK, Quiet, Begin, LockRegistration, LockTimeout, Insert, Provision, Crash,
       End, Step, Advance, InLock

LEMMA QuietLock ==
    ASSUME IInv, NEW w \in Worker, Quiet(w)
    PROVE  LockIsHeld'
BY DEF IInv, TypeOK, LockIsHeld, Quiet, Begin, LockRegistration, LockTimeout, Insert,
       Provision, Crash, End, Step, Advance, InLock

LEMMA QuietFound ==
    ASSUME IInv, NEW w \in Worker, Quiet(w)
    PROVE  FoundFree' /\ FoundRoom'
<1> USE DEF IInv, TypeOK, InLock, EmailTaken, Same, End, Step, Advance
<1>1. FoundFree'
  BY DEF FoundFree, Quiet, Begin, LockRegistration, LockTimeout, Insert, Provision, Crash
<1>2. FoundRoom'
  BY DEF FoundRoom, Quiet, Begin, LockRegistration, LockTimeout, Insert, Provision, Crash
<1> QED
  BY <1>1, <1>2

LEMMA CheckIdentityKeepsIInv ==
    ASSUME IInv, NEW w \in Worker, CheckIdentity(w)
    PROVE  IInv'
<1> USE NobodyIsAccount DEF IInv, CheckIdentity, End, Step, Advance
<1>1. TypeOK' /\ LockIsHeld'
  BY DEF TypeOK, LockIsHeld, InLock
<1>2. FoundFree'
  BY DEF TypeOK, FoundFree, InLock, EmailTaken, Same
<1>3. FoundRoom'
  BY DEF TypeOK, FoundRoom, InLock
<1>4. WithinCapacity' /\ EmailsUnique' /\ ExamplesWithAccount'
  BY DEF WithinCapacity, EmailsUnique, ExamplesWithAccount, Same
<1> QED
  BY <1>1, <1>2, <1>3, <1>4

LEMMA RequireCapacityKeepsIInv ==
    ASSUME IInv, NEW w \in Worker, RequireCapacity(w)
    PROVE  IInv'
<1> USE NobodyIsAccount DEF IInv, RequireCapacity, End, Step, Advance
<1>1. TypeOK' /\ LockIsHeld'
  BY DEF TypeOK, LockIsHeld, InLock
<1>2. FoundFree'
  BY DEF TypeOK, FoundFree, InLock, EmailTaken, Same
<1>3. FoundRoom'
  <2>1. Cardinality(users) \in Nat
    BY FS_CardinalityType DEF TypeOK
  <2> QED
    BY <2>1 DEF TypeOK, FoundRoom, InLock
<1>4. WithinCapacity' /\ EmailsUnique' /\ ExamplesWithAccount'
  BY DEF WithinCapacity, EmailsUnique, ExamplesWithAccount, Same
<1> QED
  BY <1>1, <1>2, <1>3, <1>4

\* The committing worker holds the lock, so no other is inside it: nothing that
\* another worker found can become false.
LEMMA CommitKeepsIInv ==
    ASSUME IInv, NEW w \in Worker, Commit(w)
    PROVE  IInv'
<1> USE NobodyIsAccount DEF IInv, Commit, End, Step
<1>1. lock = w /\ \A v \in Worker \ {w} : pc[v] \notin InLock
  BY DEF LockIsHeld, InLock
<1>2. TypeOK'
  BY FS_AddElement DEF TypeOK
<1>3. LockIsHeld'
  BY <1>1 DEF TypeOK, LockIsHeld, InLock
<1>4. FoundFree' /\ FoundRoom'
  BY <1>1 DEF TypeOK, FoundFree, FoundRoom, InLock
<1>5. WithinCapacity'
  <2>1. Cardinality(users) < Capacity /\ Cardinality(users) \in Nat
    BY FS_CardinalityType DEF TypeOK, FoundRoom, InLock
  <2>2. Cardinality(users') <= Cardinality(users) + 1
    <3>1. IsFiniteSet(users) /\ users' = users \cup {ask[w]}
      BY DEF TypeOK
    <3>2. Cardinality(users \cup {ask[w]}) =
             IF ask[w] \in users THEN Cardinality(users) ELSE Cardinality(users) + 1
      BY <3>1, FS_AddElement, Zenon
    <3> HIDE DEF IInv, Commit
    <3> QED
      BY <2>1, <3>1, <3>2
  <2>3. Cardinality(users') \in Nat
    BY <1>2, FS_CardinalityType DEF TypeOK
  <2> QED
    BY <2>1, <2>2, <2>3 DEF WithinCapacity
<1>6. EmailsUnique'
  BY DEF EmailsUnique, Same, FoundFree, EmailTaken, InLock
<1>7. ExamplesWithAccount'
  BY DEF ExamplesWithAccount
<1> QED
  BY <1>2, <1>3, <1>4, <1>5, <1>6, <1>7

LEMMA NextIInv == IInv /\ [Next]_vars => IInv'
<1> SUFFICES ASSUME IInv, [Next]_vars PROVE IInv'
    OBVIOUS
<1>1. ASSUME NEW w \in Worker, Quiet(w) PROVE IInv'
  <2>1. WithinCapacity' /\ EmailsUnique' /\ ExamplesWithAccount'
    BY <1>1, QuietTypes DEF IInv, WithinCapacity, EmailsUnique, ExamplesWithAccount, Same
  <2> QED
    BY <1>1, <2>1, QuietTypes, QuietLock, QuietFound DEF IInv
<1>2. CASE UNCHANGED vars
  BY <1>2 DEF vars, IInv, TypeOK, LockIsHeld, FoundFree, FoundRoom, WithinCapacity,
              EmailsUnique, ExamplesWithAccount, EmailTaken, Same
<1>3. CASE Next
  BY <1>1, <1>3, CheckIdentityKeepsIInv, RequireCapacityKeepsIInv, CommitKeepsIInv
     DEF Next, Proceed, Quiet
<1> QED
  BY <1>2, <1>3

LEMMA AdmissionInvariant == Spec => []IInv
BY InitIInv, NextIInv, PTL DEF Spec

\* The values of the accounts, the lock and the requests.
THEOREM AdmissionTypes == Spec => []TypeOK
BY AdmissionInvariant, PTL DEF IInv

\* max_registered_users is never exceeded, on any number of workers.
THEOREM CapacityHolds == Spec => []WithinCapacity
BY AdmissionInvariant, PTL DEF IInv

\* E-mail addresses are unique up to case.
THEOREM EmailsStayUnique == Spec => []EmailsUnique
BY AdmissionInvariant, PTL DEF IInv

\* No account without its examples, no examples without the account.
THEOREM ExamplesComeWithAccount == Spec => []ExamplesWithAccount
BY AdmissionInvariant, PTL DEF IInv

-----------------------------------------------------------------------------
\* The endpoints.

\* The steps that leave accounts and their transactions alone.
Outside(w) ==
    \/ Limit(w) \/ Answer(w) \/ Vanish(w) \/ ConsumeNonce(w) \/ SignInKnown(w)
    \/ \E n \in Nonce : IssueChallenge(w, n) \/ \E i \in Google : Verify(w, n, i)

\* The steps of a request that has come to the account's part.
Inside(w) ==
    \/ SignUp(w) \/ AccountStep(w) \/ AccountCrash(w)
    \/ \E r \in Identity : Register(w, r)

\* The other steps: a challenge expires, the clock of the database moves.
Elsewhere == (\E n \in Nonce : Expire(n)) \/ Tick \/ SetBack \/ SetForward

LEMMA StepCases ==
    ASSUME SignInNext
    PROVE  (\E w \in Worker : Outside(w) \/ Inside(w)) \/ Elsewhere
<1>1. ASSUME NEW w \in Worker,
             \/ Limit(w) \/ WorkOn(w) \/ ConsumeNonce(w) \/ Vanish(w) \/ AccountCrash(w)
             \/ \E r \in Identity : Register(w, r)
             \/ \E n \in Nonce : IssueChallenge(w, n) \/ \E i \in Google : Verify(w, n, i)
      PROVE  Outside(w) \/ Inside(w)
  BY <1>1 DEF WorkOn, Outside, Inside
<1> QED
  BY <1>1 DEF SignInNext, Elsewhere

-----------------------------------------------------------------------------
(* Types.                                                                  *)

LEMMA NoLoginIsLogin == NoLogin \in Login /\ NoLogin.swept = {}
<1>1. PICK n \in Nonce, i \in Google : TRUE
  BY GoogleAssumption
<1> DEFINE none == [nonce |-> n, who |-> Created(i), swept |-> {}]
<1>2. none \in Login /\ none.swept = {}
  BY DEF Login
<1> QED
  BY <1>2, Zenon DEF NoLogin

\* Who signs in with Google is an identity with a subject, and stays one when the
\* address is lower-cased.
LEMMA WhoIsGoogle ==
    ASSUME NEW l \in Login
    PROVE  l.who \in Identity /\ l.who.subject # NoSubject /\ Created(l.who).subject # NoSubject
<1>1. PICK i \in Google : l.who = Created(i)
  BY DEF Login
<1>2. i \in Identity /\ i.subject # NoSubject
  BY GoogleAssumption
<1>3. ASSUME NEW r \in Identity, r.subject # NoSubject
      PROVE  Created(r) \in Identity /\ Created(r).subject # NoSubject
  BY <1>3, LowerAssumption DEF Created, Identity
<1> QED
  BY <1>1, <1>2, <1>3

LEMMA SignInInitTypes == SignInInit => SignInTypeOK
BY NoLoginIsLogin DEF SignInInit, SignInTypeOK

LEMMA OutsideTypes ==
    ASSUME SignInTypeOK, NEW w \in Worker, Outside(w)
    PROVE  SignInTypeOK'
<1> USE NoLoginIsLogin DEF SignInTypeOK, GoesTo, KeepsLogin, Leaves, LeaveFrom, UseNonce
<1>1. CASE Limit(w) \/ Answer(w) \/ Vanish(w)
  BY <1>1 DEF Limit, Answer, Vanish
<1>2. CASE ConsumeNonce(w)
  <2>1. [login[w] EXCEPT !.swept = nonces \cap Expired] \in Login /\ login[w].nonce \in Nonce
    BY DEF Login
  <2>2. login' \in [Worker -> Login]
    BY <1>2, <2>1 DEF ConsumeNonce
  <2> QED
    BY <1>2, <2>1, <2>2 DEF ConsumeNonce
<1>3. CASE SignInKnown(w)
  <2>1. login[w].nonce \in Nonce
    BY DEF Login
  <2> QED
    BY <1>3, <2>1 DEF SignInKnown
<1>4. CASE \E n \in Nonce : IssueChallenge(w, n)
  BY <1>4 DEF IssueChallenge
<1>5. CASE \E n \in Nonce, i \in Google : Verify(w, n, i)
  <2>1. login' \in [Worker -> Login]
    BY <1>5 DEF Verify, Login
  <2> QED
    BY <1>5, <2>1 DEF Verify
<1> QED
  BY <1>1, <1>2, <1>3, <1>4, <1>5 DEF Outside

LEMMA InsideTypes ==
    ASSUME SignInTypeOK, NEW w \in Worker, Inside(w)
    PROVE  SignInTypeOK'
<1> USE NoLoginIsLogin DEF SignInTypeOK, GoesTo, KeepsLogin, Leaves
<1>1. CASE SignUp(w) \/ AccountCrash(w) \/ \E r \in Identity : Register(w, r)
  BY <1>1 DEF SignUp, AccountCrash, Register
<1>2. CASE AccountStep(w)
  <2>1. login[w].nonce \in Nonce
    BY DEF Login
  <2> QED
    BY <1>2, <2>1 DEF AccountStep, Closing, UseNonce, signInVars
<1> QED
  BY <1>1, <1>2 DEF Inside

LEMMA ElsewhereTypes == SignInTypeOK /\ Elsewhere => SignInTypeOK'
BY DEF SignInTypeOK, Elsewhere, Expire, Tick, SetBack, SetForward, signInVars

LEMMA SignInStepTypes == SignInTypeOK /\ [SignInNext]_allVars => SignInTypeOK'
<1>1. SignInTypeOK /\ UNCHANGED allVars => SignInTypeOK'
  BY DEF SignInTypeOK, allVars, signInVars
<1> QED
  BY <1>1, StepCases, OutsideTypes, InsideTypes, ElsewhereTypes

-----------------------------------------------------------------------------
(* Accounts.                                                               *)

LEMMA StepIsAdmissionStep == SignInTypeOK /\ [SignInNext]_allVars => [Next]_vars
<1> SUFFICES ASSUME SignInTypeOK, SignInNext PROVE [Next]_vars
    BY DEF allVars
<1>1. ASSUME NEW w \in Worker, Outside(w) PROVE UNCHANGED vars
  BY <1>1 DEF Outside, Limit, Answer, Vanish, LeaveFrom, ConsumeNonce, SignInKnown,
              IssueChallenge, Verify
<1>2. ASSUME NEW w \in Worker, Inside(w) PROVE Next
  <2>1. login[w].who \in Identity
    BY WhoIsGoogle DEF SignInTypeOK
  <2> QED
    BY <1>2, <2>1 DEF Inside, SignUp, AccountStep, AccountCrash, Register, Next
<1>3. CASE Elsewhere
  BY <1>3 DEF Elsewhere, Expire, Tick, SetBack, SetForward
<1> QED
  BY <1>1, <1>2, <1>3, StepCases

\* Behind the rate limit and the login nonce, accounts are created by the steps of
\* Admission and by no others: what is proved of those holds of the endpoints.
THEOREM SignInCreatesAccounts == SignInSpec => Spec
<1>1. SignInInit => Init
  BY DEF SignInInit
<1> QED
  BY <1>1, SignInInitTypes, SignInStepTypes, StepIsAdmissionStep, PTL DEF SignInSpec, Spec

\* The capacity holds for all the endpoints together.
THEOREM SignInWithinCapacity == SignInSpec => []WithinCapacity
BY SignInCreatesAccounts, CapacityHolds, PTL

-----------------------------------------------------------------------------
(* The nonce of a challenge.                                               *)

\* Two open sign-ins hold different nonces.
HoldersDiffer ==
    \A v, w \in Worker : v # w /\ Holds(v) /\ Holds(w) => login[v].nonce # login[w].nonce

\* An open sign-in that came in time is the first one with its nonce.
HolderIsFirst ==
    \A w \in Worker : Holds(w) /\ login[w].nonce \notin late => uses[login[w].nonce] = 0

\* Only nonces of expired challenges are on the way to being deleted.
SweptAreExpired == \A w \in Worker : login[w].swept \subseteq Expired

\* As long as a challenge can be accepted, the nonce of its use is in the table.
ValidAreStored ==
    \A n \in Nonce \ Expired : n \notin late /\ (n \notin nonces => uses[n] = 0)

NonceInv ==
    /\ SignInTypeOK
    /\ HoldersDiffer
    /\ HolderIsFirst
    /\ SweptAreExpired
    /\ ValidAreStored
    /\ ChallengeUsedOnce

\* Nobody new holds a nonce, and no nonce is used, deleted or expired.
NonceKept ==
    /\ \A v \in Worker :
        /\ Holds(v)' => Holds(v) /\ login'[v] = login[v]
        /\ login'[v].swept \subseteq login[v].swept
    /\ UNCHANGED <<nonces, uses, late>>
    /\ Expired \subseteq Expired'

LEMMA KeptKeepsNonce ==
    ASSUME NonceInv, SignInTypeOK', NonceKept
    PROVE  NonceInv'
BY DEF NonceInv, NonceKept, HoldersDiffer, HolderIsFirst, SweptAreExpired, ValidAreStored,
       ChallengeUsedOnce

\* A sign-in that ends by committing uses its nonce.
LEMMA UseKeepsNonce ==
    ASSUME NonceInv, SignInTypeOK', NEW w \in Worker, Holds(w), UseNonce(w), Leaves(w),
           UNCHANGED <<late, challenge>>,
           \A v \in Worker \ {w} : Holds(v)' <=> Holds(v)
    PROVE  NonceInv'
<1> DEFINE n == login[w].nonce
<1> USE DEF NonceInv
<1>1. /\ n \in Nonce /\ ~ Holds(w)'
      /\ \A v \in Worker \ {w} : login'[v] = login[v]
      /\ login'[w].swept = {}
      /\ Expired' = Expired
  BY NoLoginIsLogin DEF SignInTypeOK, Login, Leaves, GoesTo, Holds, Expired
<1>2. /\ nonces' = (nonces \ login[w].swept) \cup {n}
      /\ \A m \in Nonce \ {n} : uses'[m] = uses[m]
      /\ n \notin late => uses'[n] = 1
  BY <1>1 DEF UseNonce, SignInTypeOK, HolderIsFirst
<1>3. HoldersDiffer' /\ SweptAreExpired'
  BY <1>1 DEF HoldersDiffer, SweptAreExpired
<1>4. HolderIsFirst'
  <2> SUFFICES ASSUME NEW v \in Worker, Holds(v)', login'[v].nonce \notin late'
               PROVE  uses'[login'[v].nonce] = 0
      BY DEF HolderIsFirst
  <2>1. v # w /\ Holds(v) /\ login'[v] = login[v] /\ login[v].nonce # n
    BY <1>1 DEF HoldersDiffer
  <2>2. login[v].nonce \in Nonce
    BY DEF SignInTypeOK, Login
  <2> QED
    BY <1>2, <2>1, <2>2 DEF HolderIsFirst
<1>5. ValidAreStored'
  BY <1>1, <1>2 DEF ValidAreStored, SweptAreExpired
<1>6. ChallengeUsedOnce'
  BY <1>1, <1>2 DEF ChallengeUsedOnce
<1> QED
  BY <1>3, <1>4, <1>5, <1>6

LEMMA ConsumeKeepsNonce ==
    ASSUME NonceInv, SignInTypeOK', NEW w \in Worker, ConsumeNonce(w)
    PROVE  NonceInv'
<1> DEFINE n == login[w].nonce
           swept == nonces \cap Expired
<1> USE DEF NonceInv
<1>1. CASE n \in nonces \ swept
  <2>1. NonceKept
    BY <1>1, NoLoginIsLogin
       DEF NonceKept, ConsumeNonce, Leaves, GoesTo, SignInTypeOK, Holds, Expired, vars
  <2> QED
    BY <2>1, KeptKeepsNonce
<1>2. CASE n \notin nonces \ swept
  <2>1. /\ n \in Nonce
        /\ login' = [login EXCEPT ![w].swept = swept]
        /\ late' = IF n \in Expired THEN late \cup {n} ELSE late
        /\ UNCHANGED <<nonces, uses>> /\ Expired' = Expired
    BY <1>2 DEF ConsumeNonce, SignInTypeOK, Login, Expired
  <2>2. /\ login'[w].swept = swept /\ login'[w].nonce = n
        /\ \A v \in Worker \ {w} : login'[v] = login[v]
    BY <2>1 DEF SignInTypeOK, Login
  <2>3. \A v \in Worker \ {w} : Holds(v)' <=> Holds(v)
    BY <1>2 DEF ConsumeNonce, GoesTo, SignInTypeOK, Holds, vars
  <2>4. \A v \in Worker \ {w} : Holds(v) => login[v].nonce # n
    BY DEF ConsumeNonce, Unobstructed
  <2>5. n \notin late' => uses[n] = 0
    BY <1>2, <2>1 DEF ValidAreStored
  <2>6. HoldersDiffer'
    BY <2>2, <2>3, <2>4 DEF HoldersDiffer
  <2>7. HolderIsFirst'
    BY <2>1, <2>2, <2>3, <2>5 DEF HolderIsFirst
  <2>8. SweptAreExpired'
    BY <2>1, <2>2 DEF SweptAreExpired
  <2>9. ValidAreStored' /\ ChallengeUsedOnce'
    BY <2>1 DEF ValidAreStored, ChallengeUsedOnce
  <2> QED
    BY <2>6, <2>7, <2>8, <2>9
<1> QED
  BY <1>1, <1>2

LEMMA OutsideKeepsNonce ==
    ASSUME NonceInv, SignInTypeOK', NEW w \in Worker, Outside(w)
    PROVE  NonceInv'
<1> USE DEF NonceInv
<1>1. CASE Limit(w) \/ Answer(w) \/ Vanish(w)
  <2>1. NonceKept
    BY <1>1, NoLoginIsLogin
       DEF NonceKept, Limit, Answer, Vanish, LeaveFrom, Leaves, GoesTo, KeepsLogin,
           SignInTypeOK, Holds, Expired, vars
  <2> QED
    BY <2>1, KeptKeepsNonce
<1>2. CASE (\E n \in Nonce : IssueChallenge(w, n)) \/ \E n \in Nonce, i \in Google : Verify(w, n, i)
  <2>1. NonceKept
    BY <1>2, NoLoginIsLogin
       DEF NonceKept, IssueChallenge, Verify, Leaves, GoesTo, SignInTypeOK, Holds, Expired,
           vars
  <2> QED
    BY <2>1, KeptKeepsNonce
<1>3. CASE SignInKnown(w)
  <2>1. Holds(w) /\ \A v \in Worker \ {w} : Holds(v)' <=> Holds(v)
    BY <1>3 DEF SignInKnown, Leaves, GoesTo, SignInTypeOK, Holds, vars
  <2> QED
    BY <1>3, <2>1, UseKeepsNonce DEF SignInKnown
<1> QED
  BY <1>1, <1>2, <1>3, ConsumeKeepsNonce DEF Outside

LEMMA InsideKeepsNonce ==
    ASSUME NonceInv, TypeOK, SignInTypeOK', NEW w \in Worker, Inside(w)
    PROVE  NonceInv'
<1> USE DEF NonceInv
<1>1. CASE SignUp(w) \/ AccountCrash(w) \/ \E r \in Identity : Register(w, r)
  <2>1. login[w].who.subject # NoSubject
    BY WhoIsGoogle DEF SignInTypeOK
  <2>2. NonceKept
    BY <1>1, <2>1, NoLoginIsLogin
       DEF NonceKept, SignUp, AccountCrash, Register, Begin, Created, Crash, End, Step,
           Leaves, GoesTo, KeepsLogin, SignInTypeOK, TypeOK, Holds, Expired
  <2> QED
    BY <2>2, KeptKeepsNonce
<1>2. CASE AccountStep(w)
  <2>1. /\ pc[w] # "idle"
        /\ \A v \in Worker \ {w} : ask'[v] = ask[v]
        /\ pc'[w] # "idle" => ask' = ask
    BY <1>2 DEF AccountStep, Proceed, LockRegistration, LockTimeout, CheckIdentity,
                RequireCapacity, Insert, Provision, Commit, End, Step, Advance, TypeOK
  <2>2. CASE Ending(w)
    <3>1. \A v \in Worker \ {w} : Holds(v)' <=> Holds(v)
      BY <1>2, <2>1, <2>2 DEF AccountStep, Closing, Leaves, GoesTo, SignInTypeOK, Holds
    <3>2. CASE Holds(w) /\ Commits(w)
      BY <1>2, <2>2, <3>1, <3>2, UseKeepsNonce DEF AccountStep, Closing
    <3>3. CASE ~ (Holds(w) /\ Commits(w))
      <4>1. NonceKept
        BY <1>2, <2>1, <2>2, <3>1, <3>3, NoLoginIsLogin
           DEF AccountStep, Closing, Leaves, GoesTo, SignInTypeOK, NonceKept, Holds, Expired
      <4> QED
        BY <4>1, KeptKeepsNonce
    <3> QED
      BY <3>2, <3>3
  <2>3. CASE ~ Ending(w)
    <3>1. NonceKept
      BY <1>2, <2>1, <2>3
         DEF AccountStep, Closing, Ending, signInVars, NonceKept, Holds, Expired
    <3> QED
      BY <3>1, KeptKeepsNonce
  <2> QED
    BY <2>2, <2>3
<1> QED
  BY <1>1, <1>2 DEF Inside

LEMMA ElsewhereKeepsNonce ==
    ASSUME NonceInv, SignInTypeOK', Elsewhere
    PROVE  NonceInv'
<1>1. NonceKept
  BY DEF NonceInv, Elsewhere, Expire, Tick, SetBack, SetForward, NonceKept, signInVars, vars, Holds,
         Expired, SignInTypeOK
<1> QED
  BY <1>1, KeptKeepsNonce

LEMMA SignInKeepsNonce == NonceInv /\ TypeOK /\ [SignInNext]_allVars => NonceInv'
<1> SUFFICES ASSUME NonceInv, TypeOK, [SignInNext]_allVars PROVE NonceInv'
    OBVIOUS
<1>1. SignInTypeOK'
  BY SignInStepTypes DEF NonceInv
<1>2. CASE UNCHANGED allVars
  <2>1. NonceKept
    BY <1>2 DEF allVars, signInVars, vars, NonceKept, Holds, Expired
  <2> QED
    BY <1>1, <2>1, KeptKeepsNonce
<1> QED
  BY <1>1, <1>2, StepCases, OutsideKeepsNonce, InsideKeepsNonce, ElsewhereKeepsNonce

\* A challenge signs in once, for any number of concurrent requests, challenges and
\* sweeps of expired nonces, unless its sign-in reached the table too late.
THEOREM ChallengesUsedOnce == SignInSpec => []ChallengeUsedOnce
<1>1. SignInInit => NonceInv
  BY SignInInitTypes, NoLoginIsLogin
     DEF SignInInit, NonceInv, HoldersDiffer, HolderIsFirst, SweptAreExpired, ValidAreStored,
         ChallengeUsedOnce, Holds
<1>2. NonceInv => ChallengeUsedOnce
  BY DEF NonceInv
<1> QED
  BY <1>1, <1>2, SignInKeepsNonce, SignInCreatesAccounts, AdmissionTypes, PTL DEF SignInSpec

-----------------------------------------------------------------------------
(* The rate bucket.                                                        *)

USE DEF settings

LEMMA FullIsNat == Full \in Nat /\ Minute \in Nat \ {0} /\ Minute <= Full
<1>1. Burst \in Nat /\ Burst >= 1 /\ Minute \in Nat /\ Minute >= 1
  BY BucketAssumption
<1>2. Burst * Minute >= Minute
  BY <1>1
<1> QED
  BY <1>1, <1>2 DEF Full

\* What a row of a given age holds, more each second by PerMinute at most.
LEMMA AgeingRow ==
    ASSUME NEW t \in Nat, NEW a \in Int
    PROVE  /\ Topped(t + Elapsed(a) * PerMinute) \in 0 .. Full
           /\ t <= Full => t <= Topped(t + Elapsed(a) * PerMinute)
           /\ \A n \in Nat, b \in Int : b <= a + n =>
                 Topped(t + Elapsed(b) * PerMinute)
                     <= Topped(t + Elapsed(a) * PerMinute) + n * PerMinute
<1>1. PerMinute \in Nat /\ Full \in Nat
  BY BucketAssumption, FullIsNat
<1>2. Topped(t + Elapsed(a) * PerMinute) \in 0 .. Full
      /\ (t <= Full => t <= Topped(t + Elapsed(a) * PerMinute))
  <2>1. Elapsed(a) * PerMinute \in Nat
    BY <1>1 DEF Elapsed
  <2> QED
    BY <1>1, <2>1 DEF Topped
<1>3. ASSUME NEW n \in Nat, NEW b \in Int, b <= a + n
      PROVE  Topped(t + Elapsed(b) * PerMinute)
                 <= Topped(t + Elapsed(a) * PerMinute) + n * PerMinute
  <2> DEFINE ea == Elapsed(a)  eb == Elapsed(b)
  <2>1. ea \in Nat /\ eb \in Nat /\ eb <= ea + n
    BY <1>3 DEF Elapsed
  <2> HIDE DEF ea, eb
  <2>2. (ea + n) * PerMinute = ea * PerMinute + n * PerMinute
    BY <1>1, <2>1
  <2>3. eb * PerMinute <= (ea + n) * PerMinute
    BY <1>1, <2>1
  <2> DEFINE fa == ea * PerMinute  fb == eb * PerMinute  fn == n * PerMinute
  <2>4. fa \in Nat /\ fb \in Nat /\ fn \in Nat /\ fb <= fa + fn
    BY <1>1, <2>1, <2>2, <2>3
  <2> HIDE DEF fa, fb, fn
  <2>5. Topped(t + fb) <= Topped(t + fa) + fn
    BY <1>1, <2>4 DEF Topped
  <2> QED
    BY <2>5 DEF ea, eb, fa, fb, fn
<1> QED
  BY <1>2, <1>3

LEMMA LevelIsBounded == BucketTypeOK => Level \in 0 .. Full
<1>1. BucketTypeOK => tokens \in Nat /\ age \in Int
  BY FullIsNat DEF BucketTypeOK
<1> QED
  BY <1>1, AgeingRow DEF Level

\* A row as young as its last attempt holds what that attempt left.
LEMMA YoungRow == ASSUME NEW t \in 0 .. Full PROVE Topped(t + Elapsed(0) * PerMinute) = t
BY FullIsNat, BucketAssumption DEF Topped, Elapsed

LEMMA TakeLowersLevel ==
    ASSUME BucketTypeOK, Take
    PROVE  BucketTypeOK' /\ Level >= Minute /\ Level' = Level - Minute
<1>1. Level \in 0 .. Full /\ Level >= Minute /\ Full \in Nat /\ Minute \in Nat
  BY LevelIsBounded, FullIsNat DEF Take
<1>2. tokens' \in 0 .. Full /\ age' = 0 /\ tokens' = Level - Minute
  BY <1>1 DEF Take
<1> QED
  BY <1>1, <1>2, YoungRow, BucketAssumption DEF BucketTypeOK, Take, Level

\* The clock moves on by n seconds at most: so does the level.
LEMMA ClockMovesLevel ==
    ASSUME BucketTypeOK, NEW n \in Nat, tokens' = tokens, age' \in Int, age' <= age + n
    PROVE  Level' \in 0 .. Full /\ Level' <= Level + n * PerMinute
<1>1. tokens \in Nat /\ age \in Int
  BY FullIsNat DEF BucketTypeOK
<1>2. Level' = Topped(tokens + Elapsed(age') * PerMinute)
  BY DEF Level, Topped, Elapsed
<1>3. Topped(tokens + Elapsed(age') * PerMinute) \in 0 .. Full
  BY <1>1, AgeingRow
<1>4. Topped(tokens + Elapsed(age') * PerMinute)
          <= Topped(tokens + Elapsed(age) * PerMinute) + n * PerMinute
  BY <1>1, AgeingRow
<1> QED
  BY <1>2, <1>3, <1>4 DEF Level

LEMMA TickIsSecond ==
    ASSUME BucketTypeOK, ClockTicks
    PROVE  BucketTypeOK' /\ Level' \in 0 .. Full /\ Level' <= Level + PerMinute
<1>1. /\ tokens' = tokens /\ age' = age + 1 /\ UNCHANGED <<backs, forward>>
      /\ age \in Int /\ age < FillTime /\ FillTime \in Nat
  BY BucketAssumption DEF ClockTicks, BucketTypeOK
<1>2. BucketTypeOK'
  BY <1>1 DEF BucketTypeOK
<1>3. Level' \in 0 .. Full /\ Level' <= Level + 1 * PerMinute
  BY <1>1, ClockMovesLevel
<1> QED
  BY <1>2, <1>3, BucketAssumption

LEMMA SetBackIsSpill ==
    ASSUME BucketTypeOK, ClockSetBack
    PROVE  BucketTypeOK' /\ Level' \in 0 .. Level /\ UNCHANGED forward
<1>1. /\ tokens' = tokens /\ age' = age - 1 /\ backs' = backs + 1 /\ UNCHANGED forward
      /\ age \in Int /\ age <= FillTime /\ FillTime \in Nat /\ backs < MaxBacks
  BY BucketAssumption DEF ClockSetBack, BucketTypeOK
<1>2. BucketTypeOK'
  BY <1>1, BacksAssumption DEF BucketTypeOK
<1>3. Level' \in 0 .. Full /\ Level' <= Level + 0 * PerMinute
  BY <1>1, ClockMovesLevel
<1>4. Level \in 0 .. Full
  BY LevelIsBounded
<1> QED
  BY <1>1, <1>2, <1>3, <1>4, BucketAssumption, FullIsNat

LEMMA SetForwardIsSkip ==
    ASSUME BucketTypeOK, ClockSetForward
    PROVE  /\ BucketTypeOK'
           /\ forward' \in Nat /\ forward' > forward
           /\ Level' \in 0 .. Full /\ Level' <= Level + (forward' - forward) * PerMinute
<1>1. PICK n \in 1 .. MaxForward - forward : age' = Capped(age + n) /\ forward' = forward + n
  BY DEF ClockSetForward
<1>2. /\ tokens' = tokens /\ UNCHANGED backs
      /\ age \in Int /\ FillTime \in Nat /\ forward \in Nat /\ n \in Nat
  BY <1>1, BucketAssumption, BacksAssumption DEF ClockSetForward, BucketTypeOK
<1>3. age' \in Int /\ age' <= FillTime /\ age' <= age + n
  BY <1>1, <1>2 DEF Capped
<1>4. BucketTypeOK'
  BY <1>1, <1>2, <1>3, BacksAssumption DEF BucketTypeOK
<1>5. Level' \in 0 .. Full /\ Level' <= Level + n * PerMinute
  BY <1>2, <1>3, ClockMovesLevel
<1>6. forward' - forward = n /\ forward' \in Nat /\ forward' > forward
  BY <1>1, <1>2
<1> QED
  BY <1>4, <1>5, <1>6

\* The requests that were let through, as the bucket sees them.
Through == {w \in Worker : stage[w] # "out"}

LEMMA LimitIsAdmission ==
    ASSUME SignInTypeOK, BucketTypeOK, NEW w \in Worker, Limit(w)
    PROVE  BucketTypeOK' /\ [Bucket!Next]_(Bucket!bucket)
<1>1. CASE Take /\ GoesTo(w, "limited")
  <2>1. w \notin Through /\ Through' = Through \cup {w}
    BY <1>1 DEF Through, Limit, GoesTo, SignInTypeOK
  <2> QED
    BY <1>1, <2>1, TakeLowersLevel DEF Take, Bucket!Next, Bucket!Admit, Through
<1>2. CASE Reject /\ UNCHANGED stage
  BY <1>2 DEF Reject, bucketVars, BucketTypeOK, Bucket!bucket, Level, Topped, Elapsed
<1> QED
  BY <1>1, <1>2 DEF Limit

\* A step behind the limit leaves the row alone, and answers at most its request.
LEMMA RestIsAnswer ==
    ASSUME SignInTypeOK, BucketTypeOK, UNCHANGED bucketVars, NEW w \in Worker,
           stage[w] # "out", \A v \in Worker \ {w} : stage'[v] = stage[v]
    PROVE  BucketTypeOK' /\ [Bucket!Next]_(Bucket!bucket)
<1>1. BucketTypeOK' /\ UNCHANGED Level
  BY DEF bucketVars, BucketTypeOK, Level, Topped, Elapsed
<1>2. w \in Through /\ (Through' = Through \/ Through' = Through \ {w})
  BY DEF Through
<1>3. CASE Through' = Through
  BY <1>1, <1>3 DEF bucketVars, Through, Bucket!bucket
<1>4. CASE Through' = Through \ {w}
  BY <1>1, <1>2, <1>4 DEF bucketVars, Through, Bucket!Next, Bucket!Answered
<1> QED
  BY <1>1, <1>2, <1>3, <1>4

LEMMA SignInStepIsBucketStep ==
    SignInTypeOK /\ BucketTypeOK /\ [SignInNext]_allVars
        => BucketTypeOK' /\ [Bucket!Next]_(Bucket!bucket)
<1> SUFFICES ASSUME SignInTypeOK, BucketTypeOK, [SignInNext]_allVars
             PROVE  BucketTypeOK' /\ [Bucket!Next]_(Bucket!bucket)
    OBVIOUS
<1>1. ASSUME NEW w \in Worker, Outside(w), ~ Limit(w)
      PROVE  /\ UNCHANGED bucketVars /\ stage[w] # "out"
             /\ \A v \in Worker \ {w} : stage'[v] = stage[v]
  BY <1>1 DEF Outside, Answer, Vanish, LeaveFrom, ConsumeNonce, SignInKnown, IssueChallenge,
              Verify, Leaves, GoesTo, SignInTypeOK
<1>2. ASSUME NEW w \in Worker, Inside(w)
      PROVE  /\ UNCHANGED bucketVars /\ stage[w] # "out"
             /\ \A v \in Worker \ {w} : stage'[v] = stage[v]
  BY <1>2 DEF Inside, SignUp, AccountStep, AccountCrash, Register, Closing, Leaves, GoesTo,
              signInVars, SignInTypeOK
<1>3. ASSUME UNCHANGED <<bucketVars, stage>>
      PROVE  BucketTypeOK' /\ [Bucket!Next]_(Bucket!bucket)
  BY <1>3 DEF bucketVars, BucketTypeOK, Level, Topped, Elapsed, Bucket!bucket
<1>4. CASE Elsewhere
  <2>1. CASE \E n \in Nonce : Expire(n)
    BY <1>3, <2>1 DEF Expire
  <2>2. CASE Tick
    BY <2>2, TickIsSecond
       DEF Tick, ClockTicks, signInVars, Bucket!Next, Bucket!Second, Bucket!Full, Full
  <2>3. CASE SetBack
    BY <2>3, SetBackIsSpill DEF SetBack, signInVars, Bucket!Next, Bucket!Spill
  <2>4. CASE SetForward
    BY <2>4, SetForwardIsSkip
       DEF SetForward, signInVars, Bucket!Next, Bucket!Skip, Bucket!Full, Full
  <2> QED
    BY <1>4, <2>1, <2>2, <2>3, <2>4 DEF Elsewhere
<1>5. CASE UNCHANGED allVars
  BY <1>3, <1>5 DEF allVars, signInVars
<1> QED
  BY <1>1, <1>2, <1>4, <1>5, StepCases, LimitIsAdmission, RestIsAnswer

\* The lazily filled row is a bucket of Burst attempts that gains PerMinute a minute
\* by the database's clock, for any rate and any number of requests: a clock that is
\* set back brings nothing, one that is set forward the seconds it leaves out.
THEOREM RowIsBucket == SignInSpec => ImplementsBucket
<1>1. SignInInit => SignInTypeOK /\ BucketTypeOK /\ Bucket!Init
  <2>1. BucketInit => BucketTypeOK /\ Level = Full /\ forward = 0
    <3>1. BucketInit => BucketTypeOK
      BY FullIsNat, BucketAssumption, BacksAssumption DEF BucketInit, BucketTypeOK
    <3>2. BucketInit => tokens = Full /\ tokens <= Level /\ Level \in 0 .. Full
      <4>1. BucketInit => tokens = Full /\ age \in Int
        BY BucketAssumption DEF BucketInit
      <4> QED
        BY <4>1, AgeingRow, FullIsNat DEF Level
    <3> QED
      BY <3>1, <3>2, FullIsNat DEF BucketInit
  <2> QED
    BY <2>1, SignInInitTypes DEF SignInInit, Bucket!Init, Bucket!Full, Full
<1> QED
  BY <1>1, SignInStepTypes, SignInStepIsBucketStep, PTL
     DEF SignInSpec, ImplementsBucket, Bucket!Spec

=============================================================================
