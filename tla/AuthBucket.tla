----------------------------- MODULE AuthBucket -----------------------------
(***************************************************************************)
(* The row of auth_rate_bucket and the UPSERT of limit_auth_requests       *)
(* (app/auth/admission.py).  Nothing fills the bucket: the row keeps the   *)
(* tokens of the last admitted attempt and its time, and the next attempt  *)
(* works out what has come in since.  The database's clock runs, and may   *)
(* be set back (GREATEST(0, ...)) or forward, by hand or after a move to   *)
(* another host.  Units as in TokenBucket.                                 *)
(***************************************************************************)
EXTENDS Integers

CONSTANTS
    Burst, PerMinute, Minute,
    FillTime,       \* bound: seconds after which more age changes nothing
    MaxBacks,       \* bound: seconds by which the clock is set back in a behaviour
    MaxForward      \* bound: seconds by which it is set forward

Full == Burst * Minute

ASSUME BucketAssumption ==
    /\ Burst \in Nat \ {0} /\ PerMinute \in Nat \ {0} /\ Minute \in Nat \ {0}
    /\ FillTime \in Nat /\ FillTime * PerMinute >= Full
ASSUME BacksAssumption == MaxBacks \in Nat /\ MaxForward \in Nat

VARIABLES
    tokens,         \* tokens of the row; no row yet is a full bucket
    age,            \* clock_timestamp() - updated_at, negative after a step back
    backs, forward  \* seconds by which the clock was set so far (history)

settings == <<backs, forward>>
bucketVars == <<tokens, age, settings>>

BucketTypeOK ==
    /\ tokens \in 0 .. Full
    /\ age \in Int /\ age <= FillTime
    /\ backs \in 0 .. MaxBacks /\ forward \in 0 .. MaxForward

BucketInit == tokens = Full /\ age = FillTime /\ backs = 0 /\ forward = 0

\* GREATEST and LEAST.
Elapsed(a) == IF a > 0 THEN a ELSE 0
Topped(units) == IF units < Full THEN units ELSE Full

\* What the UPSERT finds in the bucket.
Level == Topped(tokens + Elapsed(age) * PerMinute)

\* An attempt that is taken leaves less than a full bucket.
RowExists == tokens < Full

-----------------------------------------------------------------------------

\* Mutant of Take: updated_at stays, the same seconds fill the bucket again.
TakeKeepingTime ==
    /\ Level >= Minute
    /\ tokens' = Level - Minute /\ age' = IF RowExists THEN age ELSE 0
    /\ UNCHANGED settings

\* INSERT, or DO UPDATE with its WHERE satisfied: an attempt is taken.
Take ==
    /\ Level >= Minute
    /\ tokens' = Level - Minute /\ age' = 0
    /\ UNCHANGED settings

\* Mutant of Reject: the time of a refused attempt is noted.
RejectNotingTime ==
    /\ Level < Minute
    /\ age' = 0
    /\ UNCHANGED <<tokens, settings>>

\* The WHERE is not satisfied: no row comes back (429) and the stored one stays.
Reject ==
    /\ Level < Minute
    /\ UNCHANGED bucketVars

Capped(a) == IF a < FillTime THEN a ELSE FillTime

ClockTicks ==
    /\ RowExists /\ age < FillTime
    /\ age' = age + 1
    /\ UNCHANGED <<tokens, settings>>

ClockSetBack ==
    /\ RowExists /\ backs < MaxBacks
    /\ age' = age - 1 /\ backs' = backs + 1
    /\ UNCHANGED <<tokens, forward>>

ClockSetForward ==
    /\ RowExists
    /\ \E n \in 1 .. MaxForward - forward : age' = Capped(age + n) /\ forward' = forward + n
    /\ UNCHANGED <<tokens, backs>>

-----------------------------------------------------------------------------

\* However often attempts are refused, there is room for another one again and
\* again: a refused attempt does not put off the refill.
BucketRefills == []<>(Level >= Minute)

=============================================================================
