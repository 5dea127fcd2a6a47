---------------------------- MODULE TokenBudget -----------------------------
(***************************************************************************)
(* The hourly token cap of the in-cluster model (app/llm_budget.py) as its *)
(* callers use it (app/ingest/service.ingest_source and app/chat/          *)
(* pipeline._CappedClient.complete): reserve the worst case in the hour's  *)
(* llm_usage row, call the provider, settle the reservation.  Every change *)
(* of the tally is one atomic add-and-return that commits by itself, so a  *)
(* caller that dies in between leaves its reservation behind.              *)
(***************************************************************************)
EXTENDS Integers, FiniteSets, Functions

CONSTANTS
    Caller,         \* requests in flight, over all replicas
    Estimate,       \* worst-case estimates a call may come with
    Cap,            \* llm_hourly_token_cap
    Overrun,        \* how far actual usage may exceed the estimate (approx_tokens)
    MaxHour,        \* bound: hours that pass
    MaxCrashes      \* bound: callers that die with a reservation

ASSUME CallerAssumption == IsFiniteSet(Caller)
ASSUME EstimateAssumption == Estimate \subseteq Nat \ {0}
ASSUME CapAssumption == Cap \in Nat \ {0}
ASSUME BoundAssumption == Overrun \in Nat /\ MaxHour \in Nat /\ MaxCrashes \in Nat

VARIABLES
    hour,           \* _current_hour
    tally,          \* llm_usage: hour -> tokens_used
    pc,             \* Caller -> "idle" | "over" | "calling" | "answered"
    held,           \* Caller -> its Reservation
    actual,         \* Caller -> what the provider's answer reports
    spent,          \* hour -> provider tokens of the calls reserved in it (history)
    lost,           \* hour -> reservations of callers that died (history)
    crashes

caller == <<pc, held, actual>>
history == <<spent, lost>>
vars == <<hour, tally, caller, history, crashes>>

Hour == 0 .. MaxHour
Reservation == [hour : Hour, estimate : Estimate \cup {0}]
Nothing == [hour |-> 0, estimate |-> 0]

TypeOK ==
    /\ hour \in Hour
    /\ tally \in [Hour -> Nat]
    /\ pc \in [Caller -> {"idle", "over", "calling", "answered"}]
    /\ held \in [Caller -> Reservation]
    /\ \A c \in Caller : held[c].estimate = 0 <=> pc[c] = "idle"
    /\ actual \in [Caller -> Nat]
    /\ \A c \in Caller : actual[c] <= held[c].estimate + Overrun
    /\ spent \in [Hour -> Nat] /\ lost \in [Hour -> Int]
    /\ crashes \in 0 .. MaxCrashes

Init ==
    /\ hour = 0
    /\ tally = [h \in Hour |-> 0]
    /\ pc = [c \in Caller |-> "idle"]
    /\ held = [c \in Caller |-> Nothing]
    /\ actual = [c \in Caller |-> 0]
    /\ spent = [h \in Hour |-> 0] /\ lost = [h \in Hour |-> 0]
    /\ crashes = 0

-----------------------------------------------------------------------------

Floored(n) == IF n < 0 THEN 0 ELSE n

\* _add: INSERT .. ON CONFLICT DO UPDATE GREATEST(tokens_used + delta, 0), commit.
Add(h, delta) == tally' = [tally EXCEPT ![h] = Floored(@ + delta)]

\* The call is over for this caller.
Close(c) ==
    /\ pc' = [pc EXCEPT ![c] = "idle"]
    /\ held' = [held EXCEPT ![c] = Nothing]
    /\ actual' = [actual EXCEPT ![c] = 0]

\* Mutant of Reserve: the cap is compared with the total before the reservation.
ReserveBlind(c, h, n) ==
    /\ pc[c] = "idle"
    /\ h <= hour
    /\ Add(h, n)
    /\ held' = [held EXCEPT ![c] = [hour |-> h, estimate |-> n]]
    /\ pc' = [pc EXCEPT ![c] = IF tally[h] > Cap THEN "over" ELSE "calling"]
    /\ UNCHANGED <<hour, actual, history, crashes>>

\* reserve_tokens: the total AFTER the reservation decides.  The clock was read
\* before the statement ran, so h may already be a past hour.
Reserve(c, h, n) ==
    /\ pc[c] = "idle"
    /\ h <= hour
    /\ Add(h, n)
    /\ held' = [held EXCEPT ![c] = [hour |-> h, estimate |-> n]]
    /\ pc' = [pc EXCEPT ![c] = IF tally'[h] > Cap THEN "over" ELSE "calling"]
    /\ UNCHANGED <<hour, actual, history, crashes>>

\* reserve_tokens, over the cap: release in a transaction of its own, then 429.
Reject(c) ==
    /\ pc[c] = "over"
    /\ Add(held[c].hour, - held[c].estimate)
    /\ Close(c)
    /\ UNCHANGED <<hour, history, crashes>>

\* The provider answers and reports the tokens it used.
ProviderAnswers(c) ==
    /\ pc[c] = "calling"
    /\ \E n \in 0 .. held[c].estimate + Overrun :
          /\ actual' = [actual EXCEPT ![c] = n]
          /\ spent' = [spent EXCEPT ![held[c].hour] = @ + n]
    /\ pc' = [pc EXCEPT ![c] = "answered"]
    /\ UNCHANGED <<hour, tally, held, lost, crashes>>

\* The provider call raises: release.
ProviderFails(c) ==
    /\ pc[c] = "calling"
    /\ Add(held[c].hour, - held[c].estimate)
    /\ Close(c)
    /\ UNCHANGED <<hour, history, crashes>>

\* Mutant of Reconcile: the refund goes to the hour it is now.
ReconcileCurrentHour(c) ==
    /\ pc[c] = "answered"
    /\ Add(hour, actual[c] - held[c].estimate)
    /\ Close(c)
    /\ UNCHANGED <<hour, history, crashes>>

\* reconcile: the reservation's own hour takes the difference.
Reconcile(c) ==
    /\ pc[c] = "answered"
    /\ Add(held[c].hour, actual[c] - held[c].estimate)
    /\ Close(c)
    /\ UNCHANGED <<hour, history, crashes>>

\* The worker dies (or loses the database) with the reservation unsettled.  What
\* stays in the tally beyond real usage is lost to the hour.
Crash(c) ==
    /\ pc[c] # "idle" /\ crashes < MaxCrashes
    /\ crashes' = crashes + 1
    /\ lost' = [lost EXCEPT ![held[c].hour] =
                   @ + held[c].estimate - (IF pc[c] = "answered" THEN actual[c] ELSE 0)]
    /\ Close(c)
    /\ UNCHANGED <<hour, tally, spent>>

HourPasses ==
    /\ hour < MaxHour
    /\ hour' = hour + 1
    /\ UNCHANGED <<tally, caller, history, crashes>>

Next ==
    \/ \E c \in Caller :
          \/ \E h \in Hour, n \in Estimate : Reserve(c, h, n)
          \/ Reject(c) \/ ProviderAnswers(c) \/ ProviderFails(c) \/ Reconcile(c) \/ Crash(c)
    \/ HourPasses

Spec == Init /\ [][Next]_vars

-----------------------------------------------------------------------------

\* What a caller in one of the states S still holds of hour h, beyond usage it has
\* already reported; and what all of them hold.
Owed(h, S) ==
    [c \in Caller |-> IF held[c].hour = h /\ pc[c] \in S
                      THEN held[c].estimate - (IF pc[c] = "answered" THEN actual[c] ELSE 0)
                      ELSE 0]
Held(h, S) == SumFunctionOnSet(Owed(h, S), Caller)

\* The shared row says exactly what was used, what is reserved and what dead
\* workers left: no settlement is counted twice, dropped, put in another hour or
\* cut off by the floor, however reserve, reject and reconcile interleave.
TallyAccounts ==
    \A h \in Hour : tally[h] = spent[h] + lost[h] + Held(h, {"over", "calling", "answered"})

\* A call is admitted only if it fits entirely, on any number of replicas: what was
\* used and what the admitted calls may still use exceeds the cap only by what calls
\* in flight at once, or dead with an answer in hand, used beyond their estimates.
\* An overrun that was settled is made up for by the calls after it.
AdmittedFitsCap ==
    \A h \in Hour : spent[h] + Held(h, {"calling", "answered"})
                        <= Cap + Overrun * (Cardinality(Caller) + crashes)

=============================================================================
