---------------------------- MODULE TokenBucket -----------------------------
(***************************************************************************)
(* What the shared limit on sign-in attempts promises: a bucket that holds *)
(* Burst attempts and gains PerMinute of them a minute.  Amounts are in    *)
(* units of which an attempt costs Minute, so that a second is worth       *)
(* PerMinute of them.  A clock that is set forward brings the seconds it   *)
(* leaves out.  The promise is an upper bound: a second may bring less,    *)
(* and the level may drop.                                                 *)
(***************************************************************************)
EXTENDS Integers

CONSTANTS
    Client,         \* requests to the authentication endpoints
    Burst,          \* auth_burst
    PerMinute,      \* auth_requests_per_minute
    Minute          \* seconds of a minute: the cost of an attempt

VARIABLES
    level,          \* units in the bucket
    ahead,          \* seconds by which the clock was set forward
    inside          \* the requests that were let through and are not answered yet

bucket == <<level, ahead, inside>>

Full == Burst * Minute

Init == level = Full /\ ahead = 0 /\ inside = {}

\* A second passes.
Second ==
    /\ level' \in 0 .. Full /\ level' <= level + PerMinute
    /\ UNCHANGED <<ahead, inside>>

\* The clock is set forward.
Skip ==
    /\ ahead' \in Nat /\ ahead' > ahead
    /\ level' \in 0 .. Full /\ level' <= level + (ahead' - ahead) * PerMinute
    /\ UNCHANGED inside

Spill ==
    /\ level' \in 0 .. level
    /\ UNCHANGED <<ahead, inside>>

Admit(c) ==
    /\ c \notin inside /\ level >= Minute
    /\ level' = level - Minute
    /\ inside' = inside \cup {c}
    /\ UNCHANGED ahead

Answered(c) ==
    /\ c \in inside
    /\ inside' = inside \ {c}
    /\ UNCHANGED <<level, ahead>>

Next == Second \/ Skip \/ Spill \/ \E c \in Client : Admit(c) \/ Answered(c)

Spec == Init /\ [][Next]_bucket

=============================================================================
