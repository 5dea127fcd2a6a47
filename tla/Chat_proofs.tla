----------------------------- MODULE Chat_proofs ----------------------------
(***************************************************************************)
(* The chat and the hourly token budget below it, for any finite number of *)
(* requests, any estimates, cap, overrun and retries.  First the budget:   *)
(* its invariant is about sums over the callers (SumTheorems), and a step  *)
(* of a caller changes one summand of each.  Then the turns.               *)
(***************************************************************************)
EXTENDS Chat, SumTheorems

USE CallerAssumption, EstimateAssumption, CapAssumption, BoundAssumption

-----------------------------------------------------------------------------
\* The budget: what the callers hold.

Active == {"over", "calling", "answered"}
Admitted == {"calling", "answered"}

\* A caller's reservation, and the most an admitted call may still add to the hour.
Reserved(h) == [c \in Caller |-> IF held[c].hour = h THEN held[c].estimate ELSE 0]
Exposure(h) == [c \in Caller |-> IF held[c].hour = h /\ pc[c] \in Admitted
                                 THEN Owed(h, Admitted)[c] + Overrun ELSE 0]

\* A tally never falls below the reservations in it, so that the floor never cuts.
Covered == \A h \in Hour : tally[h] >= Sum(Reserved(h), Caller)

\* Each dead caller hides at most its overrun.
LossBounded == \A h \in Hour : lost[h] >= -(Overrun * crashes)

\* Whatever every admitted call may still use is within the cap and one overrun
\* for each caller and each dead one.
Exposed ==
    \A h \in Hour : spent[h] + Sum(Exposure(h), Caller)
                        <= Cap + Overrun * (Cardinality(Caller) + crashes)

BudgetInv == TypeOK /\ TallyAccounts /\ Covered /\ LossBounded /\ Exposed

LEMMA NothingIsReservation == Nothing \in Reservation
BY DEF Nothing, Reservation, Hour

LEMMA CallerCount == Cardinality(Caller) \in Nat
BY FS_CardinalityType

LEMMA EstimatesAreNaturals == Estimate \cup {0} \subseteq Nat
OBVIOUS

LEMMA ReservationFields ==
    ASSUME NEW r \in Reservation
    PROVE  r.hour \in Hour /\ r.estimate \in Nat
<1>1. r.hour \in Hour /\ r.estimate \in Estimate \cup {0}
  BY DEF Reservation
<1> QED
  BY <1>1, EstimatesAreNaturals

\* What a caller holds, before and after a step.
LEMMA SummandTypes ==
    ASSUME TypeOK, NEW h \in Hour, NEW S, NEW c \in Caller
    PROVE  /\ Owed(h, S)[c] \in Int
           /\ Reserved(h)[c] \in Nat
           /\ Exposure(h)[c] \in Nat
<1>1. /\ held[c] \in Reservation /\ actual[c] \in Nat
      /\ actual[c] <= held[c].estimate + Overrun
  BY DEF TypeOK
<1>2. held[c].estimate \in Nat
  BY <1>1, ReservationFields
<1>3. actual[c] \in Nat /\ actual[c] <= held[c].estimate + Overrun
  BY <1>1, <1>2
<1> QED
  BY <1>2, <1>3 DEF Owed, Reserved, Exposure

\* What a caller adds to each sum is a number after a step too.
LEMMA NextSummandTypes ==
    ASSUME TypeOK', NEW h \in Hour, NEW S, NEW c \in Caller
    PROVE  /\ Owed(h, S)'[c] \in Int
           /\ Reserved(h)'[c] \in Nat
           /\ Exposure(h)'[c] \in Nat
<1>1. /\ held'[c] \in Reservation /\ actual'[c] \in Nat
      /\ actual'[c] <= held'[c].estimate + Overrun
  BY DEF TypeOK
<1>2. held'[c].estimate \in Nat
  BY <1>1, ReservationFields
<1>3. actual'[c] \in Nat /\ actual'[c] <= held'[c].estimate + Overrun
  BY <1>1, <1>2
<1> QED
  BY <1>2, <1>3 DEF Owed, Reserved, Exposure

\* Only caller c changes.
OnlyCaller(c) ==
    \A d \in Caller \ {c} : held'[d] = held[d] /\ pc'[d] = pc[d] /\ actual'[d] = actual[d]

\* A step of one caller moves each sum by what it changes of that caller.
LEMMA OneCallerMoves ==
    ASSUME TypeOK, TypeOK', NEW c \in Caller, OnlyCaller(c), NEW h \in Hour
    PROVE  /\ Held(h, Active)' = Held(h, Active) - Owed(h, Active)[c] + Owed(h, Active)'[c]
           /\ Sum(Reserved(h)', Caller) =
                 Sum(Reserved(h), Caller) - Reserved(h)[c] + Reserved(h)'[c]
           /\ Sum(Exposure(h)', Caller) =
                 Sum(Exposure(h), Caller) - Exposure(h)[c] + Exposure(h)'[c]
<1>1. Held(h, Active)' = Held(h, Active) - Owed(h, Active)[c] + Owed(h, Active)'[c]
  <2>1. \A d \in Caller : Owed(h, Active)[d] \in Int /\ Owed(h, Active)'[d] \in Int
    BY SummandTypes, NextSummandTypes
  <2>2. \A d \in Caller \ {c} : Owed(h, Active)[d] = Owed(h, Active)'[d]
    BY DEF Owed, OnlyCaller
  <2>3. Held(h, Active) = Sum(Owed(h, Active), Caller) /\ Held(h, Active)' = Sum(Owed(h, Active)', Caller)
    BY DEF Held, Sum
  <2> QED
    BY <2>1, <2>2, <2>3, SumChanges
<1>2. Sum(Reserved(h)', Caller) = Sum(Reserved(h), Caller) - Reserved(h)[c] + Reserved(h)'[c]
  <2>1. \A d \in Caller : Reserved(h)[d] \in Int /\ Reserved(h)'[d] \in Int
    BY SummandTypes, NextSummandTypes
  <2>2. \A d \in Caller \ {c} : Reserved(h)[d] = Reserved(h)'[d]
    BY DEF Reserved, OnlyCaller
  <2> QED
    BY <2>1, <2>2, SumChanges
<1>3. Sum(Exposure(h)', Caller) = Sum(Exposure(h), Caller) - Exposure(h)[c] + Exposure(h)'[c]
  <2>1. \A d \in Caller : Exposure(h)[d] \in Int /\ Exposure(h)'[d] \in Int
    BY SummandTypes, NextSummandTypes
  <2>2. \A d \in Caller \ {c} : Exposure(h)[d] = Exposure(h)'[d]
    BY DEF Owed, Exposure, OnlyCaller
  <2> QED
    BY <2>1, <2>2, SumChanges
<1> QED
  BY <1>1, <1>2, <1>3

\* The sums over the callers are numbers.
LEMMA SumTypes ==
    ASSUME TypeOK, NEW h \in Hour
    PROVE  /\ Held(h, Active) \in Int
           /\ Sum(Reserved(h), Caller) \in Nat
           /\ Sum(Exposure(h), Caller) \in Nat
<1>1. Held(h, Active) = Sum(Owed(h, Active), Caller)
  BY DEF Held, Sum
<1> QED
  BY <1>1, SummandTypes, SumType, SumNotNegative

\* A caller's reservation is part of the hour's.
LEMMA ReservedIsCovered ==
    ASSUME TypeOK, NEW h \in Hour, NEW c \in Caller
    PROVE  Reserved(h)[c] <= Sum(Reserved(h), Caller)
<1>1. Sum(Reserved(h), Caller) = Reserved(h)[c] + Sum(Reserved(h), Caller \ {c})
  BY SummandTypes, SumTakesOut
<1>2. Sum(Reserved(h), Caller \ {c}) \in Nat /\ Reserved(h)[c] \in Nat
  BY SummandTypes, SumNotNegative, FS_Subset
<1> QED
  BY <1>1, <1>2

-----------------------------------------------------------------------------
\* The budget keeps its types.

LEMMA AddTypes ==
    ASSUME tally \in [Hour -> Nat], NEW h \in Hour, NEW d \in Int, Add(h, d)
    PROVE  /\ tally' \in [Hour -> Nat]
           /\ tally'[h] = Floored(tally[h] + d)
           /\ \A k \in Hour \ {h} : tally'[k] = tally[k]
<1>1. Floored(tally[h] + d) \in Nat
  BY DEF Floored
<1> QED
  BY <1>1 DEF Add

\* A caller that is done holds nothing.
LEMMA CloseTypes ==
    ASSUME TypeOK, NEW c \in Caller, Close(c)
    PROVE  /\ pc' \in [Caller -> {"idle", "over", "calling", "answered"}]
           /\ held' \in [Caller -> Reservation] /\ actual' \in [Caller -> Nat]
           /\ \A d \in Caller : held'[d].estimate = 0 <=> pc'[d] = "idle"
           /\ \A d \in Caller : actual'[d] <= held'[d].estimate + Overrun
           /\ OnlyCaller(c)
           /\ pc'[c] = "idle" /\ held'[c] = Nothing /\ actual'[c] = 0
<1>1. /\ pc' \in [Caller -> {"idle", "over", "calling", "answered"}]
      /\ held' \in [Caller -> Reservation] /\ actual' \in [Caller -> Nat]
  BY NothingIsReservation DEF TypeOK, Close
<1>2. pc'[c] = "idle" /\ held'[c] = Nothing /\ actual'[c] = 0
  BY DEF TypeOK, Close
<1>3. OnlyCaller(c)
  BY DEF TypeOK, Close, OnlyCaller
<1>4. held'[c].estimate = 0 /\ actual'[c] <= held'[c].estimate + Overrun
  BY <1>2 DEF Nothing
<1> QED
  BY <1>1, <1>2, <1>3, <1>4 DEF TypeOK, OnlyCaller

\* Another way for a chat to die: between two calls.
IdleCrash ==
    /\ crashes < MaxCrashes
    /\ crashes' = crashes + 1
    /\ UNCHANGED <<hour, tally, caller, history>>

LEMMA ReserveTypes ==
    ASSUME TypeOK, NEW c \in Caller, NEW h \in Hour, NEW n \in Estimate, Reserve(c, h, n)
    PROVE  /\ TypeOK' /\ OnlyCaller(c)
           /\ held[c].estimate = 0 /\ pc[c] = "idle"
           /\ held'[c] = [hour |-> h, estimate |-> n] /\ n \in Nat \ {0}
           /\ pc'[c] = (IF tally'[h] > Cap THEN "over" ELSE "calling")
           /\ actual' = actual /\ spent' = spent /\ lost' = lost /\ crashes' = crashes
           /\ tally'[h] = tally[h] + n
           /\ \A k \in Hour \ {h} : tally'[k] = tally[k]
<1>1. n \in Nat \ {0}
  OBVIOUS
<1>2. [hour |-> h, estimate |-> n] \in Reservation
  BY DEF Reservation
<1>3. /\ tally' \in [Hour -> Nat] /\ tally'[h] = tally[h] + n
      /\ \A k \in Hour \ {h} : tally'[k] = tally[k]
  BY <1>1, AddTypes DEF Reserve, TypeOK, Floored
<1>4. /\ held' \in [Caller -> Reservation]
      /\ pc' \in [Caller -> {"idle", "over", "calling", "answered"}]
  BY <1>2 DEF Reserve, TypeOK
<1>5. /\ held'[c] = [hour |-> h, estimate |-> n]
      /\ pc'[c] = (IF tally'[h] > Cap THEN "over" ELSE "calling")
      /\ \A d \in Caller \ {c} : held'[d] = held[d] /\ pc'[d] = pc[d]
  BY DEF Reserve, TypeOK
<1>6. held[c].estimate = 0 /\ pc[c] = "idle"
  BY DEF Reserve, TypeOK
<1>7. /\ hour' = hour /\ actual' = actual /\ spent' = spent /\ lost' = lost
      /\ crashes' = crashes
  BY DEF Reserve, history
<1>8. \A d \in Caller : held'[d].estimate = 0 <=> pc'[d] = "idle"
  BY <1>1, <1>5 DEF TypeOK
<1>9. actual[c] <= n + Overrun
  BY <1>1, <1>6 DEF TypeOK
<1>10. \A d \in Caller : actual'[d] <= held'[d].estimate + Overrun
  BY <1>5, <1>7, <1>9 DEF TypeOK
<1>11. TypeOK'
  BY <1>3, <1>4, <1>7, <1>8, <1>10 DEF TypeOK
<1> QED
  BY <1>1, <1>3, <1>5, <1>6, <1>7, <1>11 DEF OnlyCaller

\* What a caller's reservation says of it.
CallerHolds(c) ==
    /\ held[c].hour \in Hour /\ held[c].estimate \in Nat
    /\ actual[c] \in Nat /\ actual[c] <= held[c].estimate + Overrun

LEMMA CallersHold ==
    ASSUME TypeOK, NEW c \in Caller
    PROVE  CallerHolds(c)
<1>1. held[c] \in Reservation
  BY DEF TypeOK
<1> QED
  BY <1>1, ReservationFields DEF TypeOK, CallerHolds

\* Reject, ProviderFails and Reconcile settle with the difference d.
LEMMA SettleTypes ==
    ASSUME TypeOK, NEW c \in Caller, NEW d \in Int, Add(held[c].hour, d), Close(c),
           UNCHANGED <<hour, history, crashes>>
    PROVE  /\ TypeOK' /\ OnlyCaller(c)
           /\ pc'[c] = "idle" /\ held'[c] = Nothing /\ actual'[c] = 0
           /\ spent' = spent /\ lost' = lost /\ crashes' = crashes
           /\ tally'[held[c].hour] = Floored(tally[held[c].hour] + d)
           /\ \A k \in Hour \ {held[c].hour} : tally'[k] = tally[k]
<1>1. held[c].hour \in Hour /\ tally \in [Hour -> Nat]
  BY CallersHold DEF TypeOK, CallerHolds
<1>2. /\ tally' \in [Hour -> Nat]
      /\ tally'[held[c].hour] = Floored(tally[held[c].hour] + d)
      /\ \A k \in Hour \ {held[c].hour} : tally'[k] = tally[k]
  BY <1>1, AddTypes
<1>3. hour' = hour /\ spent' = spent /\ lost' = lost /\ crashes' = crashes
  BY DEF history
<1>4. TypeOK'
  BY <1>2, <1>3, CloseTypes DEF TypeOK
<1> QED
  BY <1>2, <1>3, <1>4, CloseTypes

LEMMA AnswerTypes ==
    ASSUME TypeOK, NEW c \in Caller, ProviderAnswers(c)
    PROVE  /\ TypeOK' /\ OnlyCaller(c)
           /\ pc[c] = "calling" /\ pc'[c] = "answered"
           /\ held' = held /\ tally' = tally /\ lost' = lost /\ crashes' = crashes
           /\ actual'[c] \in 0 .. held[c].estimate + Overrun
           /\ spent'[held[c].hour] = spent[held[c].hour] + actual'[c]
           /\ \A k \in Hour \ {held[c].hour} : spent'[k] = spent[k]
<1>1. PICK n \in 0 .. held[c].estimate + Overrun :
         /\ actual' = [actual EXCEPT ![c] = n]
         /\ spent' = [spent EXCEPT ![held[c].hour] = @ + n]
  BY DEF ProviderAnswers
<1>2. CallerHolds(c)
  BY CallersHold
<1>3. n \in Nat /\ n <= held[c].estimate + Overrun
  BY <1>2 DEF CallerHolds
<1>4. /\ pc[c] = "calling" /\ pc' = [pc EXCEPT ![c] = "answered"]
      /\ hour' = hour /\ tally' = tally /\ held' = held /\ lost' = lost
      /\ crashes' = crashes
  BY DEF ProviderAnswers
<1>5. spent' \in [Hour -> Nat]
  BY <1>1, <1>2, <1>3 DEF TypeOK, CallerHolds
<1>6. /\ spent'[held[c].hour] = spent[held[c].hour] + n
      /\ \A k \in Hour \ {held[c].hour} : spent'[k] = spent[k]
  BY <1>1, <1>2 DEF TypeOK, CallerHolds
<1>7. actual' \in [Caller -> Nat] /\ actual'[c] = n
      /\ \A d \in Caller \ {c} : actual'[d] = actual[d]
  BY <1>1, <1>3 DEF TypeOK
<1>8. /\ pc' \in [Caller -> {"idle", "over", "calling", "answered"}]
      /\ pc'[c] = "answered" /\ \A d \in Caller \ {c} : pc'[d] = pc[d]
  BY <1>4 DEF TypeOK
<1>9. \A d \in Caller : held'[d].estimate = 0 <=> pc'[d] = "idle"
  BY <1>4, <1>8 DEF TypeOK
<1>10. \A d \in Caller : actual'[d] <= held'[d].estimate + Overrun
  BY <1>3, <1>4, <1>7 DEF TypeOK
<1>11. TypeOK'
  BY <1>4, <1>5, <1>7, <1>8, <1>9, <1>10 DEF TypeOK
<1> QED
  BY <1>1, <1>4, <1>6, <1>7, <1>8, <1>11 DEF OnlyCaller

LEMMA CrashTypes ==
    ASSUME TypeOK, NEW c \in Caller, Crash(c)
    PROVE  /\ TypeOK' /\ OnlyCaller(c)
           /\ pc'[c] = "idle" /\ held'[c] = Nothing /\ actual'[c] = 0
           /\ tally' = tally /\ spent' = spent /\ crashes' = crashes + 1
           /\ lost'[held[c].hour] = lost[held[c].hour] + held[c].estimate
                                    - (IF pc[c] = "answered" THEN actual[c] ELSE 0)
           /\ \A k \in Hour \ {held[c].hour} : lost'[k] = lost[k]
<1>1. CallerHolds(c)
  BY CallersHold
<1>2. /\ crashes < MaxCrashes /\ crashes' = crashes + 1
      /\ hour' = hour /\ tally' = tally /\ spent' = spent
      /\ lost' = [lost EXCEPT ![held[c].hour] =
                     @ + held[c].estimate - (IF pc[c] = "answered" THEN actual[c] ELSE 0)]
      /\ Close(c)
  BY DEF Crash
<1>3. lost' \in [Hour -> Int]
  BY <1>1, <1>2 DEF TypeOK, CallerHolds
<1>4. /\ lost'[held[c].hour] = lost[held[c].hour] + held[c].estimate
                               - (IF pc[c] = "answered" THEN actual[c] ELSE 0)
      /\ \A k \in Hour \ {held[c].hour} : lost'[k] = lost[k]
  BY <1>1, <1>2 DEF TypeOK, CallerHolds
<1>5. crashes' \in 0 .. MaxCrashes
  BY <1>2 DEF TypeOK
<1>6. TypeOK'
  BY <1>2, <1>3, <1>5, CloseTypes DEF TypeOK
<1> QED
  BY <1>2, <1>4, <1>6, CloseTypes

-----------------------------------------------------------------------------
\* The budget's invariant.

LEMMA Crashes ==
    ASSUME TypeOK
    PROVE  /\ crashes \in Nat /\ Overrun * crashes \in Nat
           /\ Overrun * (crashes + 1) = Overrun * crashes + Overrun
           /\ Overrun * (Cardinality(Caller) + crashes) \in Nat
           /\ Overrun * (Cardinality(Caller) + (crashes + 1)) =
                 Overrun * (Cardinality(Caller) + crashes) + Overrun
<1>1. crashes \in Nat
  BY DEF TypeOK
<1>2. Overrun \in Nat /\ Cardinality(Caller) \in Nat
  BY CallerCount
<1>3. \A m, n \in Nat : m * n \in Nat /\ m * (n + 1) = m * n + m
  OBVIOUS
<1>4. Cardinality(Caller) + (crashes + 1) = (Cardinality(Caller) + crashes) + 1
      /\ Cardinality(Caller) + crashes \in Nat
  BY <1>1, <1>2
<1> QED
  BY <1>1, <1>2, <1>3, <1>4

\* The invariant of one hour.
HourInv(h) ==
    /\ tally[h] = spent[h] + lost[h] + Held(h, Active)
    /\ tally[h] >= Sum(Reserved(h), Caller)
    /\ lost[h] >= -(Overrun * crashes)
    /\ spent[h] + Sum(Exposure(h), Caller) <= Cap + Overrun * (Cardinality(Caller) + crashes)

\* The invariant speaks of one hour at a time.
LEMMA BudgetByHour == BudgetInv <=> TypeOK /\ \A h \in Hour : HourInv(h)
BY DEF BudgetInv, HourInv, TallyAccounts, Covered, LossBounded, Exposed, Active

\* The same after a step.
LEMMA NextBudgetByHour == BudgetInv' <=> TypeOK' /\ \A h \in Hour : HourInv(h)'
BY DEF BudgetInv, HourInv, TallyAccounts, Covered, LossBounded, Exposed, Active, Hour

LEMMA HourTypes ==
    ASSUME TypeOK, NEW h \in Hour
    PROVE  tally[h] \in Nat /\ spent[h] \in Nat /\ lost[h] \in Int
BY DEF TypeOK

\* What the tally still owes to a caller, in its own hour.
Owing(c) == held[c].estimate - (IF pc[c] = "answered" THEN actual[c] ELSE 0)

\* The summands of a caller, by its state.
LEMMA SummandsBefore ==
    ASSUME TypeOK, NEW c \in Caller, NEW h \in Hour
    PROVE  /\ h # held[c].hour =>
                 Owed(h, Active)[c] = 0 /\ Reserved(h)[c] = 0 /\ Exposure(h)[c] = 0
           /\ pc[c] = "idle" =>
                 Owed(h, Active)[c] = 0 /\ Reserved(h)[c] = 0 /\ Exposure(h)[c] = 0
           /\ h = held[c].hour /\ pc[c] # "idle" =>
                 /\ Owed(h, Active)[c] = Owing(c) /\ Reserved(h)[c] = held[c].estimate
                 /\ Exposure(h)[c] = IF pc[c] = "over" THEN 0 ELSE Owing(c) + Overrun
<1>1. pc[c] \in {"idle", "over", "calling", "answered"}
  BY DEF TypeOK
<1>2. pc[c] = "idle" => held[c].estimate = 0
  BY DEF TypeOK
<1> QED
  BY <1>1, <1>2 DEF Owed, Reserved, Exposure, Active, Admitted, Owing

LEMMA SummandsAfterClose ==
    ASSUME NEW c \in Caller, pc'[c] = "idle", held'[c] = Nothing, NEW h \in Hour
    PROVE  Owed(h, Active)'[c] = 0 /\ Reserved(h)'[c] = 0 /\ Exposure(h)'[c] = 0
BY DEF Owed, Reserved, Exposure, Active, Admitted, Nothing

LEMMA OwingBounds ==
    ASSUME TypeOK, NEW c \in Caller
    PROVE  /\ Owing(c) \in Int /\ Owing(c) >= - Overrun /\ Owing(c) <= held[c].estimate
           /\ held[c].estimate \in Nat
BY CallersHold DEF CallerHolds, Owing

\* A settlement takes exactly what the caller holds out of the tally: the floor
\* never cuts, because the tally covers the reservation.
LEMMA SettleKeepsBudget ==
    ASSUME BudgetInv, NEW c \in Caller, pc[c] # "idle",
           Add(held[c].hour, - Owing(c)), Close(c), UNCHANGED <<hour, history, crashes>>
    PROVE  BudgetInv'
<1>1. TypeOK /\ \A h \in Hour : HourInv(h)
  BY BudgetByHour
<1>2. /\ TypeOK' /\ OnlyCaller(c)
      /\ pc'[c] = "idle" /\ held'[c] = Nothing /\ actual'[c] = 0
      /\ spent' = spent /\ lost' = lost /\ crashes' = crashes
      /\ tally'[held[c].hour] = Floored(tally[held[c].hour] - Owing(c))
      /\ \A k \in Hour \ {held[c].hour} : tally'[k] = tally[k]
  <2>1. - Owing(c) \in Int /\ held[c].hour \in Hour
    BY <1>1, OwingBounds, CallersHold DEF CallerHolds
  <2>2. tally[held[c].hour] + (- Owing(c)) = tally[held[c].hour] - Owing(c)
    BY <1>1, <2>1, OwingBounds, HourTypes
  <2> QED
    BY <1>1, <2>1, <2>2, SettleTypes
<1>3. ASSUME NEW h \in Hour PROVE HourInv(h)'
  <2>1. /\ Held(h, Active)' = Held(h, Active) - Owed(h, Active)[c]
        /\ Sum(Reserved(h)', Caller) = Sum(Reserved(h), Caller) - Reserved(h)[c]
        /\ Sum(Exposure(h)', Caller) = Sum(Exposure(h), Caller) - Exposure(h)[c]
    <3>1. Owed(h, Active)'[c] = 0 /\ Reserved(h)'[c] = 0 /\ Exposure(h)'[c] = 0
      BY <1>2, SummandsAfterClose
    <3>2. /\ Held(h, Active)' = Held(h, Active) - Owed(h, Active)[c] + 0
          /\ Sum(Reserved(h)', Caller) = Sum(Reserved(h), Caller) - Reserved(h)[c] + 0
          /\ Sum(Exposure(h)', Caller) = Sum(Exposure(h), Caller) - Exposure(h)[c] + 0
      BY <1>1, <1>2, <3>1, OneCallerMoves
    <3> QED
      BY <1>1, <3>2, SummandTypes, SumTypes
  <2>2. /\ Held(h, Active) \in Int /\ Sum(Reserved(h), Caller) \in Nat
        /\ Sum(Exposure(h), Caller) \in Nat
        /\ tally[h] \in Nat /\ spent[h] \in Nat /\ lost[h] \in Int
    BY <1>1, SumTypes, HourTypes
  <2>3. HourInv(h)
    BY <1>1
  <2>4. /\ Overrun * (Cardinality(Caller) + crashes) \in Nat /\ Overrun * crashes \in Nat
    BY <1>1, Crashes
  <2>5. CASE h # held[c].hour
    <3>1. Owed(h, Active)[c] = 0 /\ Reserved(h)[c] = 0 /\ Exposure(h)[c] = 0
      BY <1>1, <2>5, SummandsBefore
    <3>2. tally'[h] = tally[h]
      BY <1>2, <2>5
    <3> QED
      BY <1>2, <2>1, <2>2, <2>3, <2>4, <3>1, <3>2 DEF HourInv
  <2>6. CASE h = held[c].hour
    <3>1. Owed(h, Active)[c] = Owing(c) /\ Reserved(h)[c] = held[c].estimate
      BY <1>1, <2>6, SummandsBefore
    <3>2. Exposure(h)[c] \in Nat /\ Reserved(h)[c] <= Sum(Reserved(h), Caller)
      BY <1>1, SummandTypes, ReservedIsCovered
    <3>3. tally'[h] = tally[h] - Owing(c)
      <4>1. tally[h] >= held[c].estimate /\ tally[h] >= Owing(c)
        BY <1>1, <2>2, <2>3, <3>1, <3>2, OwingBounds DEF HourInv
      <4> QED
        BY <1>1, <1>2, <2>2, <2>6, <4>1, OwingBounds DEF Floored
    <3>4. Owing(c) \in Int /\ Owing(c) <= held[c].estimate /\ held[c].estimate \in Nat
      BY <1>1, OwingBounds
    <3> QED
      BY <1>2, <2>1, <2>2, <2>3, <2>4, <3>1, <3>2, <3>3, <3>4 DEF HourInv
  <2> QED
    BY <2>5, <2>6
<1> QED
  BY <1>2, <1>3, NextBudgetByHour

\* A reservation fits under the cap, with everything else that is held of the hour,
\* or its caller is turned away.
LEMMA ReserveKeepsBudget ==
    ASSUME BudgetInv, NEW c \in Caller, NEW k \in Hour, NEW n \in Estimate, Reserve(c, k, n)
    PROVE  BudgetInv'
<1>1. TypeOK /\ \A h \in Hour : HourInv(h)
  BY BudgetByHour
<1>2. /\ TypeOK' /\ OnlyCaller(c)
      /\ held[c].estimate = 0 /\ pc[c] = "idle"
      /\ held'[c] = [hour |-> k, estimate |-> n] /\ n \in Nat \ {0}
      /\ pc'[c] = (IF tally'[k] > Cap THEN "over" ELSE "calling")
      /\ actual' = actual /\ spent' = spent /\ lost' = lost /\ crashes' = crashes
      /\ tally'[k] = tally[k] + n
      /\ \A h \in Hour \ {k} : tally'[h] = tally[h]
  BY <1>1, ReserveTypes
<1>3. ASSUME NEW h \in Hour PROVE HourInv(h)'
  <2>1. /\ Held(h, Active) \in Int /\ Sum(Reserved(h), Caller) \in Nat
        /\ Sum(Exposure(h), Caller) \in Nat
        /\ tally[h] \in Nat /\ spent[h] \in Nat /\ lost[h] \in Int
    BY <1>1, SumTypes, HourTypes
  <2>2. HourInv(h)
    BY <1>1
  <2>3. /\ Overrun * (Cardinality(Caller) + crashes) \in Nat /\ Overrun * crashes \in Nat
    BY <1>1, Crashes
  <2>4. Owed(h, Active)[c] = 0 /\ Reserved(h)[c] = 0 /\ Exposure(h)[c] = 0
    BY <1>1, <1>2, SummandsBefore
  <2>5. /\ Held(h, Active)' = Held(h, Active) - 0 + Owed(h, Active)'[c]
        /\ Sum(Reserved(h)', Caller) = Sum(Reserved(h), Caller) - 0 + Reserved(h)'[c]
        /\ Sum(Exposure(h)', Caller) = Sum(Exposure(h), Caller) - 0 + Exposure(h)'[c]
    BY <1>1, <1>2, <2>4, OneCallerMoves
  <2>6. CASE h # k
    <3>1. Owed(h, Active)'[c] = 0 /\ Reserved(h)'[c] = 0 /\ Exposure(h)'[c] = 0
      BY <1>2, <2>6 DEF Owed, Reserved, Exposure
    <3>2. tally'[h] = tally[h]
      BY <1>2, <2>6
    <3> QED
      BY <1>2, <2>1, <2>2, <2>3, <2>5, <3>1, <3>2 DEF HourInv
  <2>7. CASE h = k
    <3>1. Owed(h, Active)'[c] = n /\ Reserved(h)'[c] = n
      BY <1>2, <2>7 DEF Owed, Reserved, Active
    <3>2. tally'[h] = tally[h] + n /\ Held(h, Active)' = Held(h, Active) + n
          /\ Sum(Reserved(h)', Caller) = Sum(Reserved(h), Caller) + n
          /\ n \in Nat
      BY <1>2, <2>1, <2>5, <2>7, <3>1
    <3>3. spent'[h] + Sum(Exposure(h)', Caller) <= Cap + Overrun * (Cardinality(Caller) + crashes)
      <4>1. CASE tally'[k] > Cap
        <5>1. Exposure(h)'[c] = 0
          BY <1>2, <4>1 DEF Exposure, Admitted
        <5> QED
          BY <1>2, <2>1, <2>2, <2>5, <5>1 DEF HourInv
      <4>2. CASE ~ (tally'[k] > Cap)
        <5>1. \A d \in Caller : /\ Exposure(h)'[d] \in Int /\ Owed(h, Active)'[d] \in Int
                                /\ Exposure(h)'[d] <= Owed(h, Active)'[d] + Overrun
          <6>1. SUFFICES ASSUME NEW d \in Caller
                         PROVE  Exposure(h)'[d] <= Owed(h, Active)'[d] + Overrun
            BY <1>2, NextSummandTypes
          <6>2. held'[d].estimate \in Nat
            <7>1. held'[d] \in Reservation
              BY <1>2 DEF TypeOK
            <7> QED
              BY <7>1, ReservationFields
          <6>3. pc'[d] \in Admitted => Exposure(h)'[d] <= Owed(h, Active)'[d] + Overrun
            <7>1. pc'[d] \in Admitted => pc'[d] \in Active
              BY DEF Admitted, Active
            <7>2. Owed(h, Active)'[d] \in Int
              BY <1>2, NextSummandTypes
            <7> QED
              BY <7>1, <7>2 DEF Exposure, Owed
          <6>4. pc'[d] \notin Admitted => Exposure(h)'[d] = 0 /\ Owed(h, Active)'[d] \in Nat
            BY <6>2 DEF Exposure, Owed, Admitted, Active
          <6> QED
            BY <6>3, <6>4
        <5>2. Sum(Exposure(h)', Caller) <= Sum(Owed(h, Active)', Caller) + Overrun * Cardinality(Caller)
          BY <5>1, SumBounded
        <5>3. Held(h, Active)' = Sum(Owed(h, Active)', Caller)
          BY DEF Held, Sum
        <5>4. tally'[h] <= Cap
          BY <2>1, <2>7, <3>2, <4>2
        <5>5. Overrun * (Cardinality(Caller) + crashes) =
                 Overrun * Cardinality(Caller) + Overrun * crashes
              /\ Overrun * Cardinality(Caller) \in Nat
          <6>1. \A l, m, p \in Nat : l * (m + p) = l * m + l * p /\ l * m \in Nat
            OBVIOUS
          <6>2. crashes \in Nat
            BY <1>1 DEF TypeOK
          <6> QED
            BY <6>1, <6>2, CallerCount
        <5>6. Sum(Exposure(h)', Caller) \in Int
          BY <5>1, SumType
        <5> QED
          BY <1>2, <2>1, <2>2, <2>3, <3>2, <5>2, <5>3, <5>4, <5>5, <5>6 DEF HourInv
      <4> QED
        BY <4>1, <4>2
    <3> QED
      BY <1>2, <2>1, <2>2, <2>3, <3>2, <3>3 DEF HourInv
  <2> QED
    BY <2>6, <2>7
<1> QED
  BY <1>2, <1>3, NextBudgetByHour

\* An answer moves what was owed to what is spent.
LEMMA AnswerKeepsBudget ==
    ASSUME BudgetInv, NEW c \in Caller, ProviderAnswers(c)
    PROVE  BudgetInv'
<1>1. TypeOK /\ \A h \in Hour : HourInv(h)
  BY BudgetByHour
<1>2. /\ TypeOK' /\ OnlyCaller(c)
      /\ pc[c] = "calling" /\ pc'[c] = "answered"
      /\ held' = held /\ tally' = tally /\ lost' = lost /\ crashes' = crashes
      /\ actual'[c] \in 0 .. held[c].estimate + Overrun
      /\ spent'[held[c].hour] = spent[held[c].hour] + actual'[c]
      /\ \A k \in Hour \ {held[c].hour} : spent'[k] = spent[k]
  BY <1>1, AnswerTypes
<1>3. held[c].estimate \in Nat /\ actual'[c] \in Int
  BY <1>1, <1>2, OwingBounds
<1>4. ASSUME NEW h \in Hour PROVE HourInv(h)'
  <2>1. /\ Held(h, Active) \in Int /\ Sum(Reserved(h), Caller) \in Nat
        /\ Sum(Exposure(h), Caller) \in Nat
        /\ tally[h] \in Nat /\ spent[h] \in Nat /\ lost[h] \in Int
    BY <1>1, SumTypes, HourTypes
  <2>2. HourInv(h)
    BY <1>1
  <2>3. /\ Overrun * (Cardinality(Caller) + crashes) \in Nat /\ Overrun * crashes \in Nat
    BY <1>1, Crashes
  <2>4. /\ Held(h, Active)' = Held(h, Active) - Owed(h, Active)[c] + Owed(h, Active)'[c]
        /\ Sum(Reserved(h)', Caller) = Sum(Reserved(h), Caller) - Reserved(h)[c] + Reserved(h)'[c]
        /\ Sum(Exposure(h)', Caller) = Sum(Exposure(h), Caller) - Exposure(h)[c] + Exposure(h)'[c]
    BY <1>1, <1>2, OneCallerMoves
  <2>5. Reserved(h)'[c] = Reserved(h)[c] /\ Reserved(h)[c] \in Nat
    BY <1>1, <1>2, SummandTypes DEF Reserved
  <2>6. CASE h # held[c].hour
    <3>1. /\ Owed(h, Active)[c] = 0 /\ Exposure(h)[c] = 0
          /\ Owed(h, Active)'[c] = 0 /\ Exposure(h)'[c] = 0
      BY <1>2, <2>6 DEF Owed, Exposure
    <3>2. spent'[h] = spent[h]
      BY <1>2, <2>6
    <3> QED
      BY <1>2, <2>1, <2>2, <2>3, <2>4, <2>5, <3>1, <3>2 DEF HourInv
  <2>7. CASE h = held[c].hour
    <3>1. /\ Owed(h, Active)[c] = held[c].estimate
          /\ Exposure(h)[c] = held[c].estimate + Overrun
          /\ Owed(h, Active)'[c] = held[c].estimate - actual'[c]
          /\ Exposure(h)'[c] = held[c].estimate - actual'[c] + Overrun
      BY <1>2, <1>3, <2>7 DEF Owed, Exposure, Active, Admitted
    <3>2. spent'[h] = spent[h] + actual'[c]
      BY <1>2, <2>7
    <3> QED
      BY <1>2, <1>3, <2>1, <2>2, <2>3, <2>4, <2>5, <3>1, <3>2 DEF HourInv
  <2> QED
    BY <2>6, <2>7
<1> QED
  BY <1>2, <1>4, NextBudgetByHour

\* A dead caller leaves what it held to the hour, at most its overrun short.
LEMMA CrashKeepsBudget ==
    ASSUME BudgetInv, NEW c \in Caller, Crash(c)
    PROVE  BudgetInv'
<1>1. TypeOK /\ \A h \in Hour : HourInv(h)
  BY BudgetByHour
<1>2. /\ TypeOK' /\ OnlyCaller(c)
      /\ pc'[c] = "idle" /\ held'[c] = Nothing /\ actual'[c] = 0
      /\ tally' = tally /\ spent' = spent /\ crashes' = crashes + 1
      /\ lost'[held[c].hour] = lost[held[c].hour] + held[c].estimate
                               - (IF pc[c] = "answered" THEN actual[c] ELSE 0)
      /\ \A k \in Hour \ {held[c].hour} : lost'[k] = lost[k]
  BY <1>1, CrashTypes
<1>3. ASSUME NEW h \in Hour PROVE HourInv(h)'
  <2>1. /\ Held(h, Active) \in Int /\ Sum(Reserved(h), Caller) \in Nat
        /\ Sum(Exposure(h), Caller) \in Nat
        /\ tally[h] \in Nat /\ spent[h] \in Nat /\ lost[h] \in Int
    BY <1>1, SumTypes, HourTypes
  <2>2. HourInv(h)
    BY <1>1
  <2>3. /\ Overrun * (Cardinality(Caller) + crashes) \in Nat /\ Overrun * crashes \in Nat
        /\ Overrun * (crashes + 1) = Overrun * crashes + Overrun
        /\ Overrun * (Cardinality(Caller) + (crashes + 1)) =
              Overrun * (Cardinality(Caller) + crashes) + Overrun
    BY <1>1, Crashes
  <2>4. /\ Held(h, Active)' = Held(h, Active) - Owed(h, Active)[c] + 0
        /\ Sum(Reserved(h)', Caller) = Sum(Reserved(h), Caller) - Reserved(h)[c] + 0
        /\ Sum(Exposure(h)', Caller) = Sum(Exposure(h), Caller) - Exposure(h)[c] + 0
    <3>1. Owed(h, Active)'[c] = 0 /\ Reserved(h)'[c] = 0 /\ Exposure(h)'[c] = 0
      BY <1>2, SummandsAfterClose
    <3> QED
      BY <1>1, <1>2, <3>1, OneCallerMoves
  <2>5. Reserved(h)[c] \in Nat /\ Exposure(h)[c] \in Nat
    BY <1>1, SummandTypes
  <2>6. CASE h # held[c].hour
    <3>1. Owed(h, Active)[c] = 0 /\ Reserved(h)[c] = 0 /\ Exposure(h)[c] = 0
      BY <1>1, <2>6, SummandsBefore
    <3>2. lost'[h] = lost[h]
      BY <1>2, <2>6
    <3> QED
      BY <1>2, <2>1, <2>2, <2>3, <2>4, <3>1, <3>2 DEF HourInv
  <2>7. CASE h = held[c].hour
    <3>1. pc[c] # "idle"
      BY DEF Crash
    <3>2. Owed(h, Active)[c] = Owing(c)
      BY <1>1, <2>7, <3>1, SummandsBefore
    <3>3. Owing(c) \in Int /\ Owing(c) >= - Overrun
      BY <1>1, OwingBounds
    <3>4. lost'[h] = lost[h] + Owing(c)
      <4>1. held[c].estimate \in Nat /\ (IF pc[c] = "answered" THEN actual[c] ELSE 0) \in Nat
        BY <1>1, CallersHold DEF CallerHolds
      <4> QED
        BY <1>2, <2>1, <2>7, <4>1 DEF Owing
    <3> QED
      BY <1>2, <2>1, <2>2, <2>3, <2>4, <2>5, <3>2, <3>3, <3>4 DEF HourInv
  <2> QED
    BY <2>6, <2>7
<1> QED
  BY <1>2, <1>3, NextBudgetByHour

\* Nobody's reservation changes.
LEMMA QuietKeepsBudget ==
    ASSUME BudgetInv, IdleCrash \/ HourPasses \/ UNCHANGED vars
    PROVE  BudgetInv'
<1>1. TypeOK /\ \A h \in Hour : HourInv(h)
  BY BudgetByHour
<1>2. /\ tally' = tally /\ pc' = pc /\ held' = held /\ actual' = actual
      /\ spent' = spent /\ lost' = lost
      /\ hour' \in Hour /\ crashes' \in 0 .. MaxCrashes
      /\ crashes' = crashes \/ crashes' = crashes + 1
  <2>1. hour \in 0 .. MaxHour /\ crashes \in 0 .. MaxCrashes
    BY <1>1 DEF TypeOK, Hour
  <2>2. CASE IdleCrash
    BY <2>1, <2>2, BoundAssumption DEF IdleCrash, caller, history, Hour
  <2>3. CASE HourPasses
    BY <2>1, <2>3, BoundAssumption DEF HourPasses, caller, history, Hour
  <2>4. CASE UNCHANGED vars
    BY <2>1, <2>4 DEF vars, caller, history, Hour
  <2> QED
    BY <2>2, <2>3, <2>4
<1>3. TypeOK'
  BY <1>1, <1>2 DEF TypeOK
<1>4. ASSUME NEW h \in Hour PROVE HourInv(h)'
  <2>1. /\ Held(h, Active)' = Held(h, Active)
        /\ Sum(Reserved(h)', Caller) = Sum(Reserved(h), Caller)
        /\ Sum(Exposure(h)', Caller) = Sum(Exposure(h), Caller)
    BY <1>2 DEF Held, Owed, Reserved, Exposure
  <2>2. /\ Held(h, Active) \in Int /\ Sum(Reserved(h), Caller) \in Nat
        /\ Sum(Exposure(h), Caller) \in Nat
        /\ tally[h] \in Nat /\ spent[h] \in Nat /\ lost[h] \in Int
    BY <1>1, SumTypes, HourTypes
  <2>3. HourInv(h)
    BY <1>1
  <2>4. /\ Overrun * (Cardinality(Caller) + crashes) \in Nat /\ Overrun * crashes \in Nat
        /\ Overrun * (crashes + 1) = Overrun * crashes + Overrun
        /\ Overrun * (Cardinality(Caller) + (crashes + 1)) =
              Overrun * (Cardinality(Caller) + crashes) + Overrun
    BY <1>1, Crashes
  <2>5. CASE crashes' = crashes
    BY <1>2, <2>1, <2>3, <2>5 DEF HourInv
  <2>6. CASE crashes' = crashes + 1
    BY <1>2, <2>1, <2>2, <2>3, <2>4, <2>6 DEF HourInv
  <2> QED
    BY <1>2, <2>5, <2>6
<1> QED
  BY <1>3, <1>4, NextBudgetByHour

\* The budget: the first state.
LEMMA BudgetStarts == Init => BudgetInv
<1> SUFFICES ASSUME Init PROVE BudgetInv
  OBVIOUS
<1>1. TypeOK
  BY NothingIsReservation DEF Init, TypeOK, Hour, Nothing
<1>2. ASSUME NEW h \in Hour PROVE HourInv(h)
  <2>1. \A c \in Caller : Owed(h, Active)[c] = 0 /\ Reserved(h)[c] = 0 /\ Exposure(h)[c] = 0
    BY <1>1, SummandsBefore DEF Init
  <2>2. Held(h, Active) = 0 /\ Sum(Reserved(h), Caller) = 0 /\ Sum(Exposure(h), Caller) = 0
    <3>1. Held(h, Active) = Sum(Owed(h, Active), Caller)
      BY DEF Held, Sum
    <3> QED
      BY <2>1, <3>1, SumOfZeros
  <2>3. tally[h] = 0 /\ spent[h] = 0 /\ lost[h] = 0 /\ crashes = 0
    BY DEF Init
  <2>4. Overrun * crashes = 0 /\ Overrun * (Cardinality(Caller) + crashes) \in Nat
    <3>1. \A n \in Nat : n * 0 = 0
      OBVIOUS
    <3> QED
      BY <1>1, <2>3, <3>1, Crashes
  <2> QED
    BY <2>2, <2>3, <2>4 DEF HourInv
<1> QED
  BY <1>1, <1>2, BudgetByHour

\* The budget: every step.
LEMMA BudgetStep ==
    ASSUME BudgetInv, [Next \/ IdleCrash]_vars
    PROVE  BudgetInv'
<1>1. TypeOK
  BY DEF BudgetInv
<1>2. ASSUME NEW c \in Caller, NEW h \in Hour, NEW n \in Estimate, Reserve(c, h, n)
      PROVE  BudgetInv'
  BY <1>2, ReserveKeepsBudget
<1>3. ASSUME NEW c \in Caller, Reject(c) \/ ProviderFails(c)
      PROVE  BudgetInv'
  <2>1. /\ pc[c] \in {"over", "calling"} /\ Close(c) /\ UNCHANGED <<hour, history, crashes>>
        /\ Add(held[c].hour, - held[c].estimate)
    BY <1>3 DEF Reject, ProviderFails
  <2>2. Owing(c) = held[c].estimate
    BY <1>1, <2>1, CallersHold DEF Owing, CallerHolds
  <2> QED
    BY <2>1, <2>2, SettleKeepsBudget
<1>4. ASSUME NEW c \in Caller, Reconcile(c)
      PROVE  BudgetInv'
  <2>1. /\ pc[c] = "answered" /\ Close(c) /\ UNCHANGED <<hour, history, crashes>>
        /\ Add(held[c].hour, actual[c] - held[c].estimate)
    BY <1>4 DEF Reconcile
  <2>2. - Owing(c) = actual[c] - held[c].estimate
    BY <1>1, <2>1, CallersHold DEF Owing, CallerHolds
  <2> QED
    BY <2>1, <2>2, SettleKeepsBudget
<1> QED
  BY <1>2, <1>3, <1>4, AnswerKeepsBudget, CrashKeepsBudget, QuietKeepsBudget DEF Next

\* What admitted calls hold is at most what they may still use.
LEMMA ExposureFits == BudgetInv => AdmittedFitsCap
<1> SUFFICES ASSUME BudgetInv, NEW h \in Hour
             PROVE  spent[h] + Held(h, Admitted) <= Cap + Overrun * (Cardinality(Caller) + crashes)
  BY DEF AdmittedFitsCap, Admitted
<1>1. TypeOK /\ HourInv(h)
  BY BudgetByHour
<1>2. \A c \in Caller : /\ Owed(h, Admitted)[c] \in Int /\ Exposure(h)[c] \in Int
                        /\ Owed(h, Admitted)[c] <= Exposure(h)[c]
  <2>1. SUFFICES ASSUME NEW c \in Caller PROVE Owed(h, Admitted)[c] <= Exposure(h)[c]
    BY <1>1, SummandTypes
  <2>2. Owed(h, Admitted)[c] \in Int
    BY <1>1, SummandTypes
  <2> QED
    BY <2>2 DEF Owed, Exposure
<1>3. Sum(Owed(h, Admitted), Caller) <= Sum(Exposure(h), Caller)
  BY <1>2, SumMonotone
<1>4. Held(h, Admitted) = Sum(Owed(h, Admitted), Caller)
  BY DEF Held, Sum
<1>5. Sum(Owed(h, Admitted), Caller) \in Int /\ Sum(Exposure(h), Caller) \in Int
  BY <1>2, SumType
<1>6. spent[h] \in Nat /\ Overrun * (Cardinality(Caller) + crashes) \in Nat
  BY <1>1, HourTypes, Crashes
<1> QED
  BY <1>1, <1>3, <1>4, <1>5, <1>6 DEF HourInv

-----------------------------------------------------------------------------
\* The chat rests on the budget: every step of it is one of the budget, or none.

LEMMA ChatStepsAreBudgetSteps == [ChatNext]_chatVars => [Next \/ IdleCrash]_vars
<1> SUFFICES ASSUME [ChatNext]_chatVars PROVE [Next \/ IdleCrash]_vars
  OBVIOUS
<1> USE TurnAssumption
<1>1. ASSUME NEW c \in Turn, Ask(c) \/ QueryAnswers(c) \/ QueryFails(c)
                             \/ InsertQuestion(c) \/ InsertAnswer(c) \/ CommitTurn(c)
      PROVE  UNCHANGED vars
  BY <1>1 DEF Ask, QueryAnswers, QueryFails, InsertQuestion, InsertAnswer, CommitTurn
<1>2. ASSUME NEW c \in Turn, ReserveCall(c) \/ Throttled(c) \/ CallAnswers(c) \/ CallFails(c)
                             \/ SqlGenerated(c) \/ AnswerGenerated(c)
      PROVE  Next
  <2>1. CASE ReserveCall(c)
    BY <2>1 DEF ReserveCall, Next
  <2>2. CASE Throttled(c)
    BY <2>2 DEF Throttled, Next
  <2>3. CASE CallAnswers(c)
    BY <2>3 DEF CallAnswers, Next
  <2>4. CASE CallFails(c)
    BY <2>4 DEF CallFails, Next
  <2>5. CASE SqlGenerated(c) \/ AnswerGenerated(c)
    BY <2>5 DEF SqlGenerated, AnswerGenerated, Settle, Next
  <2> QED
    BY <1>2, <2>1, <2>2, <2>3, <2>4, <2>5
<1>3. ASSUME NEW c \in Turn, Die(c) PROVE Next \/ IdleCrash
  BY <1>3 DEF Die, Next, IdleCrash
<1>4. ASSUME NEW v \in Visit, Look(v) \/ InsertOpener(v) \/ EndVisit(v) PROVE UNCHANGED vars
  BY <1>4 DEF Look, InsertOpener, EndVisit
<1>5. ASSUME DeleteProject PROVE UNCHANGED vars
  BY <1>5 DEF DeleteProject
<1>6. ASSUME NEW c \in Caller \ Turn, OtherCall(c) PROVE Next
  BY <1>6 DEF OtherCall, Next
<1>7. ASSUME HourPasses PROVE Next
  BY <1>7 DEF Next
<1>8. ASSUME UNCHANGED chatVars PROVE UNCHANGED vars
  BY <1>8 DEF chatVars
<1> QED
  BY <1>1, <1>2, <1>3, <1>4, <1>5, <1>6, <1>7, <1>8 DEF ChatNext, TurnStep

LEMMA ChatKeepsBudget == ChatSpec => []BudgetInv
<1>1. ChatInit => BudgetInv
  BY BudgetStarts DEF ChatInit
<1>2. BudgetInv /\ [ChatNext]_chatVars => BudgetInv'
  BY BudgetStep, ChatStepsAreBudgetSteps
<1> QED
  BY <1>1, <1>2, PTL DEF ChatSpec

\* The hour's row is what was used, reserved and left behind, whoever calls.
THEOREM TallyAddsUp == ChatSpec => []TallyAccounts
<1>1. BudgetInv => TallyAccounts
  BY DEF BudgetInv
<1> QED
  BY <1>1, ChatKeepsBudget, PTL

\* The cap holds, whatever the number of replicas and of callers.
THEOREM CapHolds == ChatSpec => []AdmittedFitsCap
BY ChatKeepsBudget, ExposureFits, PTL

-----------------------------------------------------------------------------
\* The messages, by id.

\* The ids that were drawn.
IdsDrawn == \A m \in conversation \cup inserted : m.id <= lastId

\* Unless a message raced a visit, there is none since it looked, committed or not.
EmptyLook ==
    \A v \in Visit \ raced : looked[v] = "empty" => conversation = {} /\ inserted = {}

\* OpenerComesFirst, the messages of open transactions included.
OpenersFirst ==
    \A m \in conversation \cup inserted : m.kind = "opener" /\ m.by \notin raced =>
        \A n \in conversation \cup inserted : m.id <= n.id

OrderInv == lastId \in Nat /\ conversation \cup inserted \subseteq Message
            /\ IdsDrawn /\ EmptyLook /\ OpenersFirst

\* A new message takes an id above all others, which an opener does only where there
\* is no other, and leaves nobody with an empty look unless the race is recorded.
LEMMA InsertKeepsOrder ==
    ASSUME OrderInv, NEW kind \in Ending \cup {"opener", "question"}, NEW by \in Turn \cup Visit,
           Insert(kind, by),
           \A v \in Visit \ {by} : looked'[v] = looked[v],
           by \in Visit => looked[by] = "empty" /\ looked'[by] # "empty",
           kind = "opener" => by \in Visit
    PROVE  OrderInv'
<1> DEFINE r == [id |-> lastId', kind |-> kind, by |-> by]
<1>1. /\ lastId' = lastId + 1 /\ lastId \in Nat
      /\ conversation' = conversation /\ inserted' = inserted \cup {r}
      /\ raced' = raced \cup {v \in Visit \ {by} : looked[v] = "empty"}
  BY DEF Insert, OrderInv
<1>2. r \in Message /\ r.id = lastId + 1 /\ r.kind = kind /\ r.by = by
  BY <1>1 DEF Message
<1> HIDE DEF r
<1>3. /\ conversation' \cup inserted' = (conversation \cup inserted) \cup {r}
      /\ conversation' \cup inserted' \subseteq Message
  BY <1>1, <1>2 DEF OrderInv
<1>4. \A m \in conversation \cup inserted : m.id \in Nat /\ m.id <= lastId
  BY DEF OrderInv, IdsDrawn, Message
<1>5. IdsDrawn'
  BY <1>1, <1>2, <1>3, <1>4 DEF IdsDrawn
<1>6. EmptyLook'
  BY <1>1 DEF EmptyLook
<1>7. OpenersFirst'
  <2> SUFFICES ASSUME NEW m \in conversation' \cup inserted', m.kind = "opener", m.by \notin raced',
                      NEW n \in conversation' \cup inserted'
               PROVE  m.id <= n.id
    BY DEF OpenersFirst
  <2>1. m.by \notin raced
    BY <1>1
  <2>2. CASE m \in conversation \cup inserted
    <3>1. CASE n \in conversation \cup inserted
      BY <2>1, <2>2, <3>1 DEF OrderInv, OpenersFirst
    <3>2. CASE n = r
      BY <1>1, <1>2, <1>4, <2>2, <3>2
    <3> QED
      BY <1>3, <3>1, <3>2
  <2>3. CASE m = r
    <3>1. by \in Visit \ raced /\ looked[by] = "empty"
      BY <1>2, <2>1, <2>3
    <3>2. conversation \cup inserted = {}
      BY <3>1 DEF OrderInv, EmptyLook
    <3>3. n = r
      BY <1>3, <3>2
    <3> QED
      BY <1>1, <1>2, <2>3, <3>3
  <2> QED
    BY <1>3, <2>2, <2>3
<1> QED
  BY <1>1, <1>3, <1>5, <1>6, <1>7 DEF OrderInv

\* Committing, rolling back and deleting leave no message that was not there.
LEMMA NothingNewKeepsOrder ==
    ASSUME OrderInv,
           conversation' \cup inserted' \subseteq conversation \cup inserted,
           UNCHANGED <<lastId, raced>>,
           \A v \in Visit : looked'[v] = "empty" => looked[v] = "empty"
    PROVE  OrderInv'
<1>1. IdsDrawn' /\ OpenersFirst'
  BY DEF OrderInv, IdsDrawn, OpenersFirst
<1>2. EmptyLook'
  BY DEF OrderInv, EmptyLook
<1> QED
  BY <1>1, <1>2 DEF OrderInv

-----------------------------------------------------------------------------
\* The turns.

USE TurnAssumption, RetryAssumption

Persisting == {"persist", "inserting", "flushed"}

\* A turn has a call under way only where answer_question makes one.
BusyTurns == \A c \in Turn : pc[c] # "idle" => at[c] \in {"generate", "ground"}

\* What is about to be persisted has a shape.
EndingKnown == \A c \in Turn : at[c] \in Persisting => ending[c] \in Ending

\* The responses kept so far are what the provider counted, but for the answer that
\* is not settled yet.
TokensAddUp ==
    \A c \in Turn : at[c] \notin {"throttled", "error"} =>
        used[c] = responses[c] + (IF pc[c] = "answered" THEN actual[c] ELSE 0)

\* An open transaction is one of a turn or a visit between its flush and its commit.
OpenRowsOwned ==
    \A m \in inserted : /\ m.by \in Turn => at[m.by] \in {"inserting", "flushed"}
                        /\ m.by \in Visit => looked[m.by] = "flushed"

\* What a turn has flushed is what it will have told.
Asked(c) == \E q \in inserted : q.by = c /\ q.kind = "question"
Answered(c) ==
    \E q, a \in inserted : /\ q.by = c /\ q.kind = "question"
                           /\ a.by = c /\ a.kind = ending[c]
                           /\ q.id < a.id
FlushesAreWhole ==
    \A c \in Turn : /\ at[c] = "inserting" => Asked(c)
                    /\ at[c] = "flushed" => project /\ Answered(c)

\* A flushed opener holds the project's row.
OpenersLock == \A v \in Visit : looked[v] = "flushed" => project

TurnInv ==
    /\ ChatTypeOK
    /\ BusyTurns
    /\ EndingKnown
    /\ TokensAddUp
    /\ RowsCountEveryCall

ChatInv ==
    /\ TurnInv
    /\ OpenRowsOwned
    /\ FlushesAreWhole
    /\ OpenersLock
    /\ TurnsAreWhole
    /\ OrderInv

\* What a step of the budget does to the caller that takes it.
LEMMA CallerMoves ==
    ASSUME TypeOK, NEW c \in Caller
    PROVE  /\ \A h \in Hour, n \in Estimate : Reserve(c, h, n) =>
                 /\ OnlyCaller(c) /\ TypeOK'
                 /\ pc[c] = "idle" /\ pc'[c] \in {"over", "calling"}
           /\ Reject(c) => /\ OnlyCaller(c) /\ TypeOK'
                           /\ pc[c] = "over" /\ pc'[c] = "idle"
           /\ ProviderFails(c) => /\ OnlyCaller(c) /\ TypeOK'
                                  /\ pc[c] = "calling" /\ pc'[c] = "idle"
           /\ ProviderAnswers(c) => /\ OnlyCaller(c) /\ TypeOK'
                                    /\ pc[c] = "calling" /\ pc'[c] = "answered"
           /\ Reconcile(c) => /\ OnlyCaller(c) /\ TypeOK'
                              /\ pc[c] = "answered" /\ pc'[c] = "idle"
           /\ Crash(c) => /\ OnlyCaller(c) /\ TypeOK'
                          /\ pc[c] # "idle" /\ pc'[c] = "idle"
<1>1. ASSUME NEW h \in Hour, NEW n \in Estimate, Reserve(c, h, n)
      PROVE  /\ OnlyCaller(c) /\ TypeOK'
             /\ pc[c] = "idle" /\ pc'[c] \in {"over", "calling"}
  BY <1>1, ReserveTypes
<1>2. ASSUME Reject(c) \/ ProviderFails(c)
      PROVE  OnlyCaller(c) /\ TypeOK' /\ pc'[c] = "idle"
  <2>1. /\ Close(c) /\ UNCHANGED <<hour, history, crashes>>
        /\ Add(held[c].hour, - held[c].estimate) /\ - held[c].estimate \in Int
    BY <1>2, CallersHold DEF Reject, ProviderFails, CallerHolds
  <2> QED
    BY <2>1, SettleTypes
<1>3. ASSUME Reconcile(c)
      PROVE  OnlyCaller(c) /\ TypeOK' /\ pc'[c] = "idle"
  <2>1. /\ Close(c) /\ UNCHANGED <<hour, history, crashes>>
        /\ Add(held[c].hour, actual[c] - held[c].estimate)
        /\ actual[c] - held[c].estimate \in Int
    BY <1>3, CallersHold DEF Reconcile, CallerHolds
  <2> QED
    BY <2>1, SettleTypes
<1>4. /\ Reject(c) => pc[c] = "over"
      /\ ProviderFails(c) => pc[c] = "calling"
      /\ Reconcile(c) => pc[c] = "answered"
      /\ Crash(c) => pc[c] # "idle"
  BY DEF Reject, ProviderFails, Reconcile, Crash
<1> QED
  BY <1>1, <1>2, <1>3, <1>4, AnswerTypes, CrashTypes

\* Where a turn goes.
LEMMA TurnGoes ==
    ASSUME ChatTypeOK, NEW c \in Turn, NEW step, GoTo(c, step)
    PROVE  at'[c] = step /\ \A d \in Turn \ {c} : at'[d] = at[d]
BY DEF ChatTypeOK, GoTo

LEMMA TurnEnds ==
    ASSUME ChatTypeOK, NEW c \in Turn, NEW shape \in Ending, EndAs(c, shape)
    PROVE  /\ at'[c] = "persist" /\ \A d \in Turn \ {c} : at'[d] = at[d]
           /\ at' \in [Turn -> Step]
           /\ ending' \in [Turn -> Ending \cup {"none"}]
           /\ ending'[c] = shape /\ \A d \in Turn \ {c} : ending'[d] = ending[d]
BY DEF ChatTypeOK, EndAs, GoTo, Step

\* The types of the turns' steps that call the model.
LEMMA SettleMoves ==
    ASSUME ChatTypeOK, NEW c \in Turn, Settle(c)
    PROVE  /\ TypeOK' /\ OnlyCaller(c) /\ pc[c] = "answered" /\ pc'[c] = "idle"
           /\ responses' \in [Turn -> Nat] /\ responses'[c] = responses[c] + actual[c]
           /\ \A d \in Turn \ {c} : responses'[d] = responses[d]
<1>1. TypeOK /\ c \in Caller
  BY DEF ChatTypeOK
<1>2. actual[c] \in Nat
  BY <1>1, CallersHold DEF CallerHolds
<1> QED
  BY <1>1, <1>2, CallerMoves DEF ChatTypeOK, Settle

\* Turn c moves and stores nothing: what it has inserted, if anything, goes.
QuietMove(c) ==
    /\ ChatTypeOK' /\ OnlyCaller(c)
    /\ UNCHANGED <<project, looked, conversation, lastId, raced, llmCall>>
    /\ inserted' = inserted \ OpenRows(c)
    /\ \A d \in Turn \ {c} : /\ at'[d] = at[d] /\ ending'[d] = ending[d]
                             /\ responses'[d] = responses[d] /\ used'[d] = used[d]
    /\ at[c] \notin Ended /\ at'[c] \notin {"answered", "inserting", "flushed"}
    /\ pc'[c] # "idle" => at'[c] \in {"generate", "ground"}
    /\ at'[c] = "persist" => ending'[c] \in Ending
    /\ at'[c] \notin {"throttled", "error"} =>
          used'[c] = responses'[c] + (IF pc'[c] = "answered" THEN actual'[c] ELSE 0)

\* Who has not flushed has no rows.
LEMMA NoOpenRows ==
    ASSUME ChatInv, NEW c \in Turn, at[c] \notin {"inserting", "flushed"}
    PROVE  inserted \ OpenRows(c) = inserted
BY DEF ChatInv, OpenRowsOwned, OpenRows

\* What a turn has flushed stays while another one works.
LEMMA FlushesStay ==
    ASSUME NEW c, NEW d, d # c, ending'[d] = ending[d], inserted \ OpenRows(c) \subseteq inserted'
    PROVE  /\ Asked(d) => Asked(d)'
           /\ Answered(d) => Answered(d)'
<1>1. \A m \in inserted : m.by = d => m \in inserted'
  BY DEF OpenRows
<1>2. Asked(d) => Asked(d)'
  BY <1>1 DEF Asked
<1>3. Answered(d) => Answered(d)'
  BY <1>1 DEF Answered
<1> QED
  BY <1>2, <1>3

LEMMA QuietMoveKeepsChat ==
    ASSUME ChatInv, NEW c \in Turn, QuietMove(c)
    PROVE  ChatInv'
<1>1. \A d \in Turn \ {c} : /\ pc'[d] = pc[d] /\ actual'[d] = actual[d]
                            /\ at'[d] = at[d] /\ ending'[d] = ending[d]
                            /\ responses'[d] = responses[d] /\ used'[d] = used[d]
  BY DEF QuietMove, OnlyCaller
<1>2. /\ project' = project /\ looked' = looked /\ conversation' = conversation
      /\ llmCall' = llmCall /\ raced' = raced /\ lastId' = lastId
      /\ inserted' = inserted \ OpenRows(c)
  BY DEF QuietMove
<1>3. at[c] # "answered" /\ at'[c] \notin {"answered", "inserting", "flushed"}
  BY DEF QuietMove, Ended
<1>4. TurnInv'
  <2>1. ChatTypeOK'
    BY DEF QuietMove
  <2>2. BusyTurns'
    BY <1>1 DEF ChatInv, TurnInv, BusyTurns, QuietMove
  <2>3. EndingKnown'
    BY <1>1 DEF ChatInv, TurnInv, EndingKnown, QuietMove, Persisting
  <2>4. TokensAddUp'
    BY <1>1 DEF ChatInv, TurnInv, TokensAddUp, QuietMove
  <2>5. RowsCountEveryCall'
    BY <1>1, <1>2, <1>3 DEF ChatInv, TurnInv, RowsCountEveryCall, ChatTypeOK
  <2> QED
    BY <2>1, <2>2, <2>3, <2>4, <2>5 DEF TurnInv
<1>5. OpenRowsOwned'
  <2>1. \A m \in inserted' : m \in inserted /\ m.by # c
    BY <1>2 DEF OpenRows
  <2> QED
    BY <1>1, <1>2, <2>1 DEF ChatInv, OpenRowsOwned
<1>6. FlushesAreWhole'
  <2>1. \A d \in Turn \ {c} : (Asked(d) => Asked(d)') /\ (Answered(d) => Answered(d)')
    BY <1>1, <1>2, FlushesStay
  <2> QED
    BY <1>1, <1>2, <1>3, <2>1 DEF ChatInv, FlushesAreWhole
<1>7. OpenersLock'
  BY <1>2 DEF ChatInv, OpenersLock
<1>8. TurnsAreWhole'
  <2>1. \A d \in Turn \ {c} : Told(d) => Told(d)'
    BY <1>1, <1>2 DEF Told
  <2> QED
    BY <1>1, <1>2, <1>3, <2>1 DEF ChatInv, TurnsAreWhole
<1>9. OrderInv'
  BY <1>2, NothingNewKeepsOrder DEF ChatInv
<1> QED
  BY <1>4, <1>5, <1>6, <1>7, <1>8, <1>9 DEF ChatInv

\* Asking, calling, querying and dying move a turn and store nothing.
LEMMA AskIsQuiet ==
    ASSUME ChatInv, NEW c \in Turn, Ask(c)
    PROVE  QuietMove(c)
<1>1. /\ at[c] = "new" /\ UNCHANGED <<vars, project, looked, ending, responses, used, stored>>
      /\ GoTo(c, "generate") \/ GoTo(c, "error")
      /\ tries' = tries \/ tries' = [tries EXCEPT ![c] = 1]
  BY DEF Ask
<1>2. at'[c] \in {"generate", "error"} /\ \A d \in Turn \ {c} : at'[d] = at[d]
  BY <1>1, TurnGoes DEF ChatInv, TurnInv
<1>3. UNCHANGED <<hour, tally, pc, held, actual, spent, lost, crashes>>
      /\ UNCHANGED <<ending, responses, used, project, looked, stored>>
      /\ UNCHANGED <<conversation, inserted, lastId, raced, llmCall>>
  BY <1>1 DEF vars, caller, history, messages, stored
<1>4. TypeOK' /\ OnlyCaller(c)
  BY <1>3 DEF ChatInv, TurnInv, ChatTypeOK, TypeOK, OnlyCaller
<1>5. ChatTypeOK'
  <2>1. at' \in [Turn -> Step]
    BY <1>1 DEF ChatInv, TurnInv, ChatTypeOK, GoTo, Step, Ended
  <2>2. tries' \in [Turn -> 0 .. MaxRetries + 1]
    <3>1. 1 \in 0 .. MaxRetries + 1
      OBVIOUS
    <3> QED
      BY <1>1, <3>1 DEF ChatInv, TurnInv, ChatTypeOK
  <2> QED
    BY <1>3, <1>4, <2>1, <2>2 DEF ChatInv, TurnInv, ChatTypeOK
<1>6. pc[c] = "idle" /\ used[c] = responses[c] + 0
  BY <1>1 DEF ChatInv, TurnInv, BusyTurns, TokensAddUp
<1> QED
  BY <1>1, <1>2, <1>3, <1>4, <1>5, <1>6, NoOpenRows DEF QuietMove, Ended

LEMMA ReserveCallIsQuiet ==
    ASSUME ChatInv, NEW c \in Turn, ReserveCall(c)
    PROVE  QuietMove(c)
<1>1. PICK h \in Hour, n \in Estimate : Reserve(c, h, n)
  BY DEF ReserveCall
<1>2. at[c] \in {"generate", "ground"} /\ UNCHANGED chat
  BY DEF ReserveCall
<1>3. UNCHANGED <<project, looked, at, tries, ending, responses, used, stored>>
      /\ UNCHANGED <<conversation, inserted, lastId, raced, llmCall>>
  BY <1>2 DEF chat, turn, messages, stored
<1>4. TypeOK' /\ OnlyCaller(c) /\ pc[c] = "idle" /\ pc'[c] \in {"over", "calling"}
  BY <1>1, CallerMoves DEF ChatInv, TurnInv, ChatTypeOK
<1>5. ChatTypeOK'
  BY <1>3, <1>4 DEF ChatInv, TurnInv, ChatTypeOK
<1>6. used[c] = responses[c] + 0
  BY <1>2, <1>4 DEF ChatInv, TurnInv, TokensAddUp
<1> QED
  BY <1>2, <1>3, <1>4, <1>5, <1>6, NoOpenRows DEF QuietMove, Ended

LEMMA EndingCallIsQuiet ==
    ASSUME ChatInv, NEW c \in Turn, Throttled(c) \/ CallFails(c) \/ Die(c)
    PROVE  QuietMove(c)
<1>1. GoTo(c, "throttled") \/ GoTo(c, "error")
  BY DEF Throttled, CallFails, Die
<1>2. /\ UNCHANGED <<project, looked, tries, ending, responses, used>>
      /\ UNCHANGED <<conversation, lastId, raced, llmCall>>
      /\ inserted' = inserted \ OpenRows(c)
  <2>1. CASE Throttled(c) \/ CallFails(c)
    <3>1. pc[c] # "idle"
      BY <2>1 DEF Throttled, CallFails, Reject, ProviderFails
    <3>2. inserted \ OpenRows(c) = inserted
      BY <3>1, NoOpenRows DEF ChatInv, TurnInv, BusyTurns
    <3> QED
      BY <2>1, <3>2 DEF Throttled, CallFails, messages, stored
  <2>2. CASE Die(c)
    BY <2>2 DEF Die, Rollback
  <2> QED
    BY <2>1, <2>2
<1>3. TypeOK' /\ OnlyCaller(c) /\ pc'[c] = "idle" /\ at[c] \notin Ended
  <2>1. ASSUME Throttled(c) \/ CallFails(c)
        PROVE  TypeOK' /\ OnlyCaller(c) /\ pc'[c] = "idle" /\ at[c] \notin Ended
    <3>1. TypeOK' /\ OnlyCaller(c) /\ pc[c] # "idle" /\ pc'[c] = "idle"
      BY <2>1, CallerMoves DEF ChatInv, TurnInv, ChatTypeOK, Throttled, CallFails
    <3> QED
      BY <3>1 DEF ChatInv, TurnInv, BusyTurns, Ended
  <2>2. ASSUME Die(c)
        PROVE  TypeOK' /\ OnlyCaller(c) /\ pc'[c] = "idle" /\ at[c] \notin Ended
    <3>1. at[c] \notin Ended
      BY <2>2 DEF Die
    <3>2. CASE Crash(c)
      BY <3>1, <3>2, CallerMoves DEF ChatInv, TurnInv, ChatTypeOK
    <3>3. CASE IdleCrash /\ pc[c] = "idle"
      BY <3>1, <3>3 DEF IdleCrash, caller, history, ChatInv, TurnInv, ChatTypeOK, TypeOK, OnlyCaller
    <3> QED
      BY <2>2, <3>2, <3>3 DEF Die, IdleCrash
  <2> QED
    BY <2>1, <2>2
<1>4. at'[c] \in {"throttled", "error"} /\ \A d \in Turn \ {c} : at'[d] = at[d]
  BY <1>1, TurnGoes DEF ChatInv, TurnInv
<1>5. ChatTypeOK'
  BY <1>1, <1>2, <1>3 DEF ChatInv, TurnInv, ChatTypeOK, GoTo, Step, Ended
<1> QED
  BY <1>2, <1>3, <1>4, <1>5 DEF QuietMove

LEMMA CallAnswersIsQuiet ==
    ASSUME ChatInv, NEW c \in Turn, CallAnswers(c)
    PROVE  QuietMove(c)
<1>1. TypeOK /\ c \in Caller
  BY DEF ChatInv, TurnInv, ChatTypeOK
<1>2. UNCHANGED <<project, looked, at, tries, ending, responses, stored>>
      /\ UNCHANGED <<conversation, inserted, lastId, raced, llmCall>>
  BY DEF CallAnswers, messages, stored
<1>3. TypeOK' /\ OnlyCaller(c) /\ pc[c] = "calling" /\ pc'[c] = "answered"
  BY <1>1, CallerMoves DEF CallAnswers
<1>4. at[c] \in {"generate", "ground"}
  BY <1>3 DEF ChatInv, TurnInv, BusyTurns
<1>5. actual'[c] \in Nat
  BY <1>1, <1>3 DEF TypeOK
<1>6. /\ used' \in [Turn -> Nat] /\ used'[c] = used[c] + actual'[c]
      /\ \A d \in Turn \ {c} : used'[d] = used[d]
  BY <1>5 DEF CallAnswers, ChatInv, TurnInv, ChatTypeOK
<1>7. ChatTypeOK'
  BY <1>2, <1>3, <1>6 DEF ChatInv, TurnInv, ChatTypeOK
<1>8. used[c] = responses[c] + 0 /\ responses[c] \in Nat
  BY <1>3, <1>4 DEF ChatInv, TurnInv, TokensAddUp, ChatTypeOK
<1> QED
  BY <1>2, <1>3, <1>4, <1>5, <1>6, <1>7, <1>8, NoOpenRows DEF QuietMove, Ended

LEMMA SettledIsQuiet ==
    ASSUME ChatInv, NEW c \in Turn, SqlGenerated(c) \/ AnswerGenerated(c)
    PROVE  QuietMove(c)
<1>1. /\ Settle(c) /\ at[c] \in {"generate", "ground"}
      /\ UNCHANGED <<project, looked, tries, used, stored>>
      /\ UNCHANGED <<conversation, inserted, lastId, raced, llmCall>>
  BY DEF SqlGenerated, AnswerGenerated, messages, stored
<1>2. /\ TypeOK' /\ OnlyCaller(c) /\ pc[c] = "answered" /\ pc'[c] = "idle"
      /\ responses' \in [Turn -> Nat] /\ responses'[c] = responses[c] + actual[c]
      /\ \A d \in Turn \ {c} : responses'[d] = responses[d]
  BY <1>1, SettleMoves DEF ChatInv, TurnInv
<1>3. /\ at' \in [Turn -> Step]
      /\ ending' \in [Turn -> Ending \cup {"none"}]
      /\ at'[c] \in {"query", "ground", "persist"}
      /\ at'[c] = "persist" => ending'[c] \in Ending
      /\ \A d \in Turn \ {c} : at'[d] = at[d] /\ ending'[d] = ending[d]
  <2>1. \/ \E shape \in Ending : EndAs(c, shape)
        \/ \E step \in {"query", "ground"} : GoTo(c, step) /\ UNCHANGED ending
    BY DEF SqlGenerated, AnswerGenerated, CheckSql, Ending
  <2>2. CASE \E shape \in Ending : EndAs(c, shape)
    BY <2>2, TurnEnds DEF ChatInv, TurnInv
  <2>3. CASE \E step \in {"query", "ground"} : GoTo(c, step) /\ UNCHANGED ending
    BY <2>3, TurnGoes DEF ChatInv, TurnInv, ChatTypeOK, GoTo, Step
  <2> QED
    BY <2>1, <2>2, <2>3
<1>4. ChatTypeOK'
  BY <1>1, <1>2, <1>3 DEF ChatInv, TurnInv, ChatTypeOK
<1>5. used'[c] = responses'[c] + 0
  <2>1. used[c] = responses[c] + actual[c]
    BY <1>1, <1>2 DEF ChatInv, TurnInv, TokensAddUp
  <2>2. responses[c] \in Nat /\ used[c] \in Nat
    BY DEF ChatInv, TurnInv, ChatTypeOK
  <2> QED
    BY <1>1, <1>2, <2>1, <2>2
<1> QED
  BY <1>1, <1>2, <1>3, <1>4, <1>5, NoOpenRows DEF QuietMove, Ended

LEMMA QueryIsQuiet ==
    ASSUME ChatInv, NEW c \in Turn,
           QueryAnswers(c) \/ QueryFails(c) \/ (InsertAnswer(c) /\ ~ project)
    PROVE  QuietMove(c)
<1>1. /\ at[c] \in {"query", "inserting"} /\ UNCHANGED vars
      /\ UNCHANGED <<project, looked, responses, used>>
      /\ UNCHANGED <<conversation, lastId, raced, llmCall>>
      /\ inserted' = inserted \ OpenRows(c)
  <2>1. CASE QueryAnswers(c) \/ QueryFails(c)
    <3>1. at[c] = "query" /\ inserted \ OpenRows(c) = inserted
      BY <2>1, NoOpenRows DEF QueryAnswers, QueryFails
    <3> QED
      BY <2>1, <3>1 DEF QueryAnswers, QueryFails, messages, stored
  <2>2. CASE InsertAnswer(c) /\ ~ project
    BY <2>2 DEF InsertAnswer, Rollback
  <2> QED
    BY <2>1, <2>2
<1>2. TypeOK' /\ OnlyCaller(c) /\ UNCHANGED <<pc, actual>>
  BY <1>1 DEF vars, caller, history, ChatInv, TurnInv, ChatTypeOK, TypeOK, OnlyCaller
<1>3. pc[c] = "idle" /\ used[c] = responses[c] + 0
  BY <1>1 DEF ChatInv, TurnInv, BusyTurns, TokensAddUp
<1>4. \/ EndAs(c, "failed") /\ UNCHANGED tries
      \/ /\ \E step \in {"ground", "generate", "error"} : GoTo(c, step)
         /\ UNCHANGED ending
         /\ \/ UNCHANGED tries
            \/ tries[c] < MaxRetries + 1 /\ tries' = [tries EXCEPT ![c] = @ + 1]
  BY DEF QueryAnswers, QueryFails, InsertAnswer
<1>5. /\ at' \in [Turn -> Step]
      /\ ending' \in [Turn -> Ending \cup {"none"}]
      /\ at'[c] \notin {"answered", "inserting", "flushed"}
      /\ at'[c] = "persist" => ending'[c] \in Ending
      /\ \A d \in Turn \ {c} : at'[d] = at[d] /\ ending'[d] = ending[d]
  <2>1. CASE EndAs(c, "failed")
    <3>1. "failed" \in Ending
      BY DEF Ending
    <3> QED
      BY <2>1, <3>1, TurnEnds DEF ChatInv, TurnInv
  <2>2. CASE \E step \in {"ground", "generate", "error"} : GoTo(c, step) /\ UNCHANGED ending
    BY <2>2, TurnGoes DEF ChatInv, TurnInv, ChatTypeOK, GoTo, Step, Ended
  <2> QED
    BY <1>4, <2>1, <2>2
<1>6. tries' \in [Turn -> 0 .. MaxRetries + 1]
  <2>1. tries \in [Turn -> 0 .. MaxRetries + 1] /\ tries[c] \in 0 .. MaxRetries + 1
    BY DEF ChatInv, TurnInv, ChatTypeOK
  <2>2. CASE tries[c] < MaxRetries + 1 /\ tries' = [tries EXCEPT ![c] = @ + 1]
    <3>1. tries[c] + 1 \in 0 .. MaxRetries + 1
      BY <2>1, <2>2
    <3> QED
      BY <2>1, <2>2, <3>1
  <2> QED
    BY <1>4, <2>1, <2>2
<1>7. ChatTypeOK'
  BY <1>1, <1>2, <1>5, <1>6 DEF ChatInv, TurnInv, ChatTypeOK
<1> QED
  BY <1>1, <1>2, <1>3, <1>5, <1>7, NoOpenRows DEF QuietMove, Ended

\* The two inserts of a flush and the commit behind them.
LEMMA PersistTypes ==
    ASSUME ChatInv, NEW c \in Turn, InsertQuestion(c) \/ (InsertAnswer(c) /\ project) \/ CommitTurn(c)
    PROVE  /\ UNCHANGED <<pc, actual, project, looked, tries, ending, responses, used>>
           /\ TypeOK'
           /\ at' \in [Turn -> Step]
           /\ at[c] \in Persisting /\ at'[c] \in {"inserting", "flushed", "answered"}
           /\ \A d \in Turn \ {c} : at'[d] = at[d]
           /\ ending[c] \in Ending
           /\ BusyTurns' /\ EndingKnown' /\ TokensAddUp'
<1>1. /\ UNCHANGED <<pc, actual, project, looked, tries, ending, responses, used>>
      /\ UNCHANGED <<hour, tally, held, spent, lost, crashes>>
  BY DEF InsertQuestion, InsertAnswer, CommitTurn, vars, caller, history
<1>2. TypeOK'
  BY <1>1 DEF ChatInv, TurnInv, ChatTypeOK, TypeOK
<1>3. \E step \in {"inserting", "flushed", "answered"} : GoTo(c, step)
  BY DEF InsertQuestion, InsertAnswer, CommitTurn
<1>4. at[c] \in Persisting
  BY DEF InsertQuestion, InsertAnswer, CommitTurn, Persisting
<1>5. /\ at' \in [Turn -> Step] /\ at'[c] \in {"inserting", "flushed", "answered"}
      /\ \A d \in Turn \ {c} : at'[d] = at[d]
  BY <1>3, TurnGoes DEF ChatInv, TurnInv, ChatTypeOK, GoTo, Step, Ended
<1>6. ending[c] \in Ending
  BY <1>4 DEF ChatInv, TurnInv, EndingKnown
<1>7. at[c] \notin {"generate", "ground", "throttled", "error"}
  BY <1>4 DEF Persisting
<1>8. BusyTurns'
  BY <1>1, <1>5, <1>7 DEF ChatInv, TurnInv, BusyTurns
<1>9. EndingKnown'
  BY <1>1, <1>5, <1>6 DEF ChatInv, TurnInv, EndingKnown
<1>10. TokensAddUp'
  BY <1>1, <1>5, <1>7 DEF ChatInv, TurnInv, TokensAddUp
<1> QED
  BY <1>1, <1>2, <1>4, <1>5, <1>6, <1>8, <1>9, <1>10

\* The question and the answer are inserted alike.
LEMMA InsertTypes ==
    ASSUME ChatInv, NEW c \in Turn, NEW kind \in Ending \cup {"question"}, Insert(kind, c),
           InsertQuestion(c) \/ (InsertAnswer(c) /\ project)
    PROVE  /\ TurnInv' /\ OpenRowsOwned' /\ OpenersLock' /\ TurnsAreWhole' /\ OrderInv'
           /\ \A d \in Turn \ {c} : (Asked(d) => Asked(d)') /\ (Answered(d) => Answered(d)')
<1>1. /\ UNCHANGED <<pc, actual, project, looked, tries, ending, responses, used, llmCall, conversation>>
      /\ \A d \in Turn \ {c} : at'[d] = at[d]
      /\ at' \in [Turn -> Step] /\ TypeOK' /\ BusyTurns' /\ EndingKnown' /\ TokensAddUp'
  BY PersistTypes DEF InsertQuestion, InsertAnswer, Insert
<1>2. at[c] # "answered" /\ at'[c] \in {"inserting", "flushed"}
  BY TurnGoes DEF InsertQuestion, InsertAnswer, ChatInv, TurnInv
<1>3. /\ inserted' = inserted \cup {[id |-> lastId', kind |-> kind, by |-> c]}
      /\ raced' = raced \cup {v \in Visit \ {c} : looked[v] = "empty"}
  BY DEF Insert
<1>4. OrderInv'
  <2>1. kind \in Ending \cup {"opener", "question"} /\ c \in Turn \cup Visit /\ c \notin Visit
    OBVIOUS
  <2>2. kind # "opener"
    BY DEF Ending
  <2>3. \A v \in Visit \ {c} : looked'[v] = looked[v]
    BY <1>1
  <2> QED
    BY <2>1, <2>2, <2>3, InsertKeepsOrder DEF ChatInv
<1>5. TurnInv'
  <2>1. raced' \subseteq Visit /\ lastId' \in Nat /\ conversation' \cup inserted' \subseteq Message
    BY <1>3, <1>4 DEF ChatInv, TurnInv, ChatTypeOK, OrderInv
  <2>2. ChatTypeOK'
    BY <1>1, <2>1 DEF ChatInv, TurnInv, ChatTypeOK
  <2>3. RowsCountEveryCall'
    BY <1>1, <1>2 DEF ChatInv, TurnInv, RowsCountEveryCall, ChatTypeOK
  <2> QED
    BY <1>1, <2>2, <2>3 DEF TurnInv
<1>6. OpenRowsOwned'
  BY <1>1, <1>2, <1>3 DEF ChatInv, OpenRowsOwned
<1>7. OpenersLock'
  BY <1>1 DEF ChatInv, OpenersLock
<1>8. TurnsAreWhole'
  <2>1. \A d \in Turn : Told(d) => Told(d)'
    BY <1>1 DEF Told
  <2> QED
    BY <1>1, <1>2, <2>1 DEF ChatInv, TurnsAreWhole
<1>9. \A d \in Turn \ {c} : (Asked(d) => Asked(d)') /\ (Answered(d) => Answered(d)')
  BY <1>1, <1>3, FlushesStay
<1> QED
  BY <1>4, <1>5, <1>6, <1>7, <1>8, <1>9

LEMMA QuestionKeepsChat ==
    ASSUME ChatInv, NEW c \in Turn, InsertQuestion(c)
    PROVE  ChatInv'
<1>1. Insert("question", c) /\ GoTo(c, "inserting") /\ project' = project
  BY DEF InsertQuestion
<1>2. /\ TurnInv' /\ OpenRowsOwned' /\ OpenersLock' /\ TurnsAreWhole' /\ OrderInv'
      /\ \A d \in Turn \ {c} : (Asked(d) => Asked(d)') /\ (Answered(d) => Answered(d)')
  BY <1>1, InsertTypes
<1>3. at'[c] = "inserting" /\ \A d \in Turn \ {c} : at'[d] = at[d]
  BY <1>1, TurnGoes DEF ChatInv, TurnInv
<1>4. Asked(c)'
  <2> DEFINE q == [id |-> lastId', kind |-> "question", by |-> c]
  <2>1. q \in inserted' /\ q.by = c /\ q.kind = "question"
    BY <1>1 DEF Insert
  <2> HIDE DEF q
  <2> QED
    BY <2>1 DEF Asked
<1>5. FlushesAreWhole'
  BY <1>1, <1>2, <1>3, <1>4 DEF ChatInv, FlushesAreWhole
<1> QED
  BY <1>2, <1>5 DEF ChatInv

LEMMA AnswerKeepsChat ==
    ASSUME ChatInv, NEW c \in Turn, InsertAnswer(c), project
    PROVE  ChatInv'
<1>1. Insert(ending[c], c) /\ GoTo(c, "flushed") /\ project' = project /\ ending' = ending
      /\ at[c] = "inserting"
  BY DEF InsertAnswer
<1>2. ending[c] \in Ending
  BY PersistTypes
<1>3. /\ TurnInv' /\ OpenRowsOwned' /\ OpenersLock' /\ TurnsAreWhole' /\ OrderInv'
      /\ \A d \in Turn \ {c} : (Asked(d) => Asked(d)') /\ (Answered(d) => Answered(d)')
  BY <1>1, <1>2, InsertTypes
<1>4. at'[c] = "flushed" /\ \A d \in Turn \ {c} : at'[d] = at[d]
  BY <1>1, TurnGoes DEF ChatInv, TurnInv
<1>5. Answered(c)'
  <2>1. PICK q \in inserted : q.by = c /\ q.kind = "question"
    BY <1>1 DEF ChatInv, FlushesAreWhole, Asked
  <2>2. q.id \in Nat /\ q.id <= lastId /\ lastId \in Nat
    BY <2>1 DEF ChatInv, OrderInv, IdsDrawn, Message
  <2> DEFINE a == [id |-> lastId', kind |-> ending[c], by |-> c]
  <2>3. /\ inserted' = inserted \cup {a} /\ lastId' = lastId + 1
        /\ a.id = lastId' /\ a.kind = ending'[c] /\ a.by = c
    BY <1>1 DEF Insert
  <2> HIDE DEF a
  <2>4. q \in inserted' /\ a \in inserted' /\ q.id < a.id
    BY <2>2, <2>3
  <2> QED
    BY <2>1, <2>3, <2>4 DEF Answered
<1>6. FlushesAreWhole'
  BY <1>1, <1>3, <1>4, <1>5 DEF ChatInv, FlushesAreWhole
<1> QED
  BY <1>3, <1>6 DEF ChatInv

\* What the turn had flushed is what its commit tells.
LEMMA CommitKeepsChat ==
    ASSUME ChatInv, NEW c \in Turn, CommitTurn(c)
    PROVE  ChatInv'
<1> DEFINE row == [turn |-> c, tokens |-> responses[c]]
<1>1. /\ at[c] = "flushed" /\ GoTo(c, "answered")
      /\ llmCall' = llmCall \cup {row}
      /\ conversation' = conversation \cup OpenRows(c)
      /\ inserted' = inserted \ OpenRows(c)
      /\ UNCHANGED <<lastId, raced>>
  BY DEF CommitTurn, CommitRows
<1>2. /\ UNCHANGED <<pc, actual, project, looked, tries, ending, responses, used>>
      /\ at' \in [Turn -> Step] /\ TypeOK' /\ BusyTurns' /\ EndingKnown' /\ TokensAddUp'
  BY PersistTypes
<1>3. at'[c] = "answered" /\ \A d \in Turn \ {c} : at'[d] = at[d]
  BY <1>1, TurnGoes DEF ChatInv, TurnInv
<1>4. conversation' \cup inserted' = conversation \cup inserted
  BY <1>1 DEF OpenRows
<1>5. ChatTypeOK'
  <2>1. row.turn = c /\ row.tokens = responses[c] /\ responses[c] \in Nat
    BY DEF ChatInv, TurnInv, ChatTypeOK
  <2> HIDE DEF row
  <2> QED
    BY <1>1, <1>2, <1>4, <2>1 DEF ChatInv, TurnInv, ChatTypeOK
<1>6. RowsCountEveryCall'
  <2>1. used[c] = responses[c]
    <3>1. pc[c] = "idle"
      BY <1>1 DEF ChatInv, TurnInv, BusyTurns
    <3>2. used[c] = responses[c] + 0 /\ responses[c] \in Nat
      BY <1>1, <3>1 DEF ChatInv, TurnInv, ChatTypeOK, TokensAddUp
    <3> QED
      BY <3>2
  <2>2. \A r \in llmCall : r.turn \in Turn /\ at[r.turn] = "answered" /\ r.tokens = used[r.turn]
    BY DEF ChatInv, TurnInv, ChatTypeOK, RowsCountEveryCall
  <2>3. row.turn = c /\ row.tokens = used[c]
    BY <2>1
  <2> HIDE DEF row
  <2>4. \A r \in llmCall' : r \in llmCall \/ r = row
    BY <1>1
  <2> QED
    BY <1>1, <1>2, <1>3, <2>2, <2>3, <2>4 DEF RowsCountEveryCall
<1>7. OpenRowsOwned'
  <2>1. \A m \in inserted' : m \in inserted /\ m.by # c
    BY <1>1 DEF OpenRows
  <2> QED
    BY <1>2, <1>3, <2>1 DEF ChatInv, OpenRowsOwned
<1>8. FlushesAreWhole'
  <2>1. \A d \in Turn \ {c} : (Asked(d) => Asked(d)') /\ (Answered(d) => Answered(d)')
    BY <1>1, <1>2, FlushesStay
  <2> QED
    BY <1>2, <1>3, <2>1 DEF ChatInv, FlushesAreWhole
<1>9. OpenersLock'
  BY <1>2 DEF ChatInv, OpenersLock
<1>10. TurnsAreWhole'
  <2>1. project
    BY <1>1 DEF ChatInv, FlushesAreWhole
  <2>2. Told(c)'
    <3>1. PICK q \in inserted, a \in inserted : /\ q.by = c /\ q.kind = "question"
                                                /\ a.by = c /\ a.kind = ending[c]
                                                /\ q.id < a.id
      BY <1>1 DEF ChatInv, FlushesAreWhole, Answered
    <3>2. q \in conversation' /\ a \in conversation'
      BY <1>1, <3>1 DEF OpenRows
    <3> QED
      BY <1>2, <3>1, <3>2 DEF Told
  <2>3. \A d \in Turn : Told(d) => Told(d)'
    BY <1>1, <1>2 DEF Told
  <2>4. \A m \in conversation' : m.by \in Turn => at'[m.by] = "answered"
    <3>1. \A m \in conversation' : m \in conversation \/ m.by = c
      BY <1>1 DEF OpenRows
    <3> QED
      BY <1>1, <1>3, <3>1 DEF ChatInv, TurnsAreWhole
  <2> QED
    BY <1>2, <1>3, <2>1, <2>2, <2>3, <2>4 DEF ChatInv, TurnsAreWhole
<1>11. OrderInv'
  BY <1>1, <1>2, <1>4, NothingNewKeepsOrder DEF ChatInv
<1> QED
  BY <1>2, <1>5, <1>6, <1>7, <1>8, <1>9, <1>10, <1>11 DEF ChatInv, TurnInv

-----------------------------------------------------------------------------
\* The visits, the project's owner and the other users of the budget.

\* A step of nobody's turn.
TurnsStay ==
    /\ UNCHANGED <<at, tries, ending, responses, used, llmCall>>
    /\ TypeOK' /\ \A d \in Turn : pc'[d] = pc[d] /\ actual'[d] = actual[d]

LEMMA StayingKeepsTurns ==
    ASSUME TurnInv, TurnsStay, project' \in BOOLEAN, conversation' \cup inserted' \subseteq Message,
           lastId' \in Nat, raced' \subseteq Visit,
           looked' \in [Visit -> {"new", "empty", "flushed", "done"}]
    PROVE  TurnInv'
<1>1. ChatTypeOK'
  BY DEF TurnInv, TurnsStay, ChatTypeOK
<1>2. BusyTurns' /\ EndingKnown' /\ TokensAddUp'
  BY DEF TurnInv, TurnsStay, BusyTurns, EndingKnown, TokensAddUp
<1>3. RowsCountEveryCall'
  BY DEF TurnInv, TurnsStay, RowsCountEveryCall
<1> QED
  BY <1>1, <1>2, <1>3 DEF TurnInv

\* The rows that turns have inserted stay where the step takes no more than a visit's.
LEMMA StayingKeepsFlushes ==
    ASSUME ChatInv, TurnsStay, NEW v \in Visit, inserted \ OpenRows(v) \subseteq inserted',
           project' = project
    PROVE  FlushesAreWhole'
<1>1. \A d \in Turn : d # v /\ ending'[d] = ending[d] /\ at'[d] = at[d]
  BY DEF TurnsStay
<1>2. \A d \in Turn : (Asked(d) => Asked(d)') /\ (Answered(d) => Answered(d)')
  BY <1>1, FlushesStay
<1> QED
  BY <1>1, <1>2 DEF ChatInv, FlushesAreWhole

\* Turns are as whole as before where messages of visits only come and go.
LEMMA StayingKeepsWhole ==
    ASSUME ChatInv, TurnsStay, project' = project, conversation \subseteq conversation',
           \A m \in conversation' : m \in conversation \/ m.by \in Visit,
           ~ project => conversation' = {}
    PROVE  TurnsAreWhole'
<1>1. \A d \in Turn : Told(d) => Told(d)'
  BY DEF TurnsStay, Told
<1>2. \A m \in conversation' : m.by \in Turn => m \in conversation
  OBVIOUS
<1> QED
  BY <1>1, <1>2 DEF ChatInv, TurnsAreWhole, TurnsStay

LEMMA VisitStays ==
    ASSUME ChatInv, NEW v \in Visit, Look(v) \/ InsertOpener(v) \/ EndVisit(v)
    PROVE  /\ TurnsStay /\ project' = project /\ project \in BOOLEAN
           /\ looked' \in [Visit -> {"new", "empty", "flushed", "done"}]
           /\ \A w \in Visit \ {v} : looked'[w] = looked[w]
<1>1. UNCHANGED <<at, tries, ending, responses, used, llmCall, project, pc, actual>>
      /\ UNCHANGED <<hour, tally, held, spent, lost, crashes>>
  BY DEF Look, InsertOpener, EndVisit, turn, vars, caller, history
<1>2. TurnsStay
  BY <1>1 DEF ChatInv, TurnInv, ChatTypeOK, TypeOK, TurnsStay
<1>3. /\ looked \in [Visit -> {"new", "empty", "flushed", "done"}]
      /\ \E step \in {"empty", "flushed", "done"} : looked' = [looked EXCEPT ![v] = step]
  BY DEF Look, InsertOpener, EndVisit, ChatInv, TurnInv, ChatTypeOK
<1> QED
  BY <1>1, <1>2, <1>3 DEF ChatInv, TurnInv, ChatTypeOK

\* A visit that finds nothing, and nothing in flight, may open.
LEMMA LookKeepsChat ==
    ASSUME ChatInv, NEW v \in Visit, Look(v)
    PROVE  ChatInv'
<1>1. /\ looked' = [looked EXCEPT ![v] = IF conversation = {} THEN "empty" ELSE "done"]
      /\ raced' = IF inserted = {} THEN raced ELSE raced \cup {v}
      /\ looked[v] = "new" /\ UNCHANGED <<conversation, inserted, lastId>>
  BY DEF Look
<1>2. /\ TurnsStay /\ project' = project /\ project \in BOOLEAN
      /\ looked' \in [Visit -> {"new", "empty", "flushed", "done"}]
      /\ \A w \in Visit \ {v} : looked'[w] = looked[w]
  BY VisitStays
<1>3. looked'[v] = IF conversation = {} THEN "empty" ELSE "done"
  BY <1>1 DEF ChatInv, TurnInv, ChatTypeOK
<1>4. OrderInv'
  <2>1. raced \subseteq raced'
    BY <1>1
  <2>2. IdsDrawn' /\ OpenersFirst'
    BY <1>1, <2>1 DEF ChatInv, OrderInv, IdsDrawn, OpenersFirst
  <2>3. EmptyLook'
    <3> SUFFICES ASSUME NEW w \in Visit \ raced', looked'[w] = "empty"
                 PROVE  conversation = {} /\ inserted = {}
      BY <1>1 DEF EmptyLook
    <3>1. CASE w = v
      BY <1>1, <1>3, <3>1
    <3>2. CASE w # v
      BY <1>2, <2>1, <3>2 DEF ChatInv, OrderInv, EmptyLook
    <3> QED
      BY <3>1, <3>2
  <2> QED
    BY <1>1, <2>2, <2>3 DEF ChatInv, OrderInv
<1>5. TurnInv'
  <2>1. raced' \subseteq Visit
    BY <1>1 DEF ChatInv, TurnInv, ChatTypeOK
  <2> QED
    BY <1>2, <1>4, <2>1, StayingKeepsTurns DEF ChatInv, OrderInv
<1>6. OpenRowsOwned'
  BY <1>1, <1>2, <1>3 DEF ChatInv, OpenRowsOwned, TurnsStay
<1>7. FlushesAreWhole'
  BY <1>1, <1>2, StayingKeepsFlushes
<1>8. OpenersLock'
  BY <1>2, <1>3 DEF ChatInv, OpenersLock
<1>9. TurnsAreWhole'
  BY <1>1, <1>2, StayingKeepsWhole DEF ChatInv, TurnsAreWhole
<1> QED
  BY <1>4, <1>5, <1>6, <1>7, <1>8, <1>9 DEF ChatInv

\* An opener is inserted where its visit found nothing.
LEMMA OpenerKeepsChat ==
    ASSUME ChatInv, NEW v \in Visit, InsertOpener(v)
    PROVE  ChatInv'
<1>1. /\ TurnsStay /\ project' = project /\ project \in BOOLEAN
      /\ looked' \in [Visit -> {"new", "empty", "flushed", "done"}]
      /\ \A w \in Visit \ {v} : looked'[w] = looked[w]
  BY VisitStays
<1>2. looked[v] = "empty" /\ v \notin Turn
  BY DEF InsertOpener
<1>3. conversation' = conversation /\ inserted \subseteq inserted'
  BY DEF InsertOpener, Insert, messages
<1>4. looked'[v] = IF project THEN "flushed" ELSE "done"
  BY DEF InsertOpener, ChatInv, TurnInv, ChatTypeOK
<1>5. OrderInv' /\ raced' \subseteq Visit
  <2>1. CASE project
    <3>1. Insert("opener", v)
      BY <2>1 DEF InsertOpener
    <3>2. "opener" \in Ending \cup {"opener", "question"} /\ v \in Turn \cup Visit
      OBVIOUS
    <3>3. OrderInv'
      BY <1>1, <1>2, <1>4, <2>1, <3>1, <3>2, InsertKeepsOrder DEF ChatInv
    <3> QED
      BY <3>1, <3>3 DEF Insert, ChatInv, TurnInv, ChatTypeOK
  <2>2. CASE ~ project
    <3>1. UNCHANGED <<conversation, inserted, lastId, raced>>
      BY <2>2 DEF InsertOpener, messages
    <3>2. \A w \in Visit : looked'[w] = "empty" => looked[w] = "empty"
      BY <1>1, <1>2
    <3> QED
      BY <3>1, <3>2, NothingNewKeepsOrder DEF ChatInv, TurnInv, ChatTypeOK
  <2> QED
    BY <2>1, <2>2
<1>6. TurnInv'
  BY <1>1, <1>5, StayingKeepsTurns DEF ChatInv, OrderInv
<1>7. OpenRowsOwned'
  <2>1. \A m \in inserted' : m \in inserted \/ (m.by = v /\ looked'[v] = "flushed")
    <3>1. CASE project
      BY <1>4, <3>1 DEF InsertOpener, Insert
    <3>2. CASE ~ project
      BY <3>2 DEF InsertOpener, messages
    <3> QED
      BY <3>1, <3>2
  <2>2. \A m \in inserted : m.by \in Visit => m.by # v
    BY <1>2 DEF ChatInv, OpenRowsOwned
  <2> QED
    BY <1>1, <1>2, <2>1, <2>2 DEF ChatInv, OpenRowsOwned, TurnsStay
<1>8. FlushesAreWhole'
  BY <1>1, <1>3, StayingKeepsFlushes
<1>9. OpenersLock'
  BY <1>1, <1>4 DEF ChatInv, OpenersLock
<1>10. TurnsAreWhole'
  BY <1>1, <1>3, StayingKeepsWhole DEF ChatInv, TurnsAreWhole
<1> QED
  BY <1>5, <1>6, <1>7, <1>8, <1>9, <1>10 DEF ChatInv

LEMMA VisitKeepsChat ==
    ASSUME ChatInv, NEW v \in Visit, EndVisit(v)
    PROVE  ChatInv'
<1>1. /\ TurnsStay /\ project' = project /\ project \in BOOLEAN
      /\ looked' \in [Visit -> {"new", "empty", "flushed", "done"}]
      /\ \A w \in Visit \ {v} : looked'[w] = looked[w]
  BY VisitStays
<1>2. /\ looked[v] = "flushed" /\ inserted' = inserted \ OpenRows(v)
      /\ conversation' = conversation \/ conversation' = conversation \cup OpenRows(v)
      /\ UNCHANGED <<lastId, raced>>
  BY DEF EndVisit, CommitRows, Rollback
<1>3. looked'[v] = "done"
  BY DEF EndVisit, ChatInv, TurnInv, ChatTypeOK
<1>4. conversation' \cup inserted' \subseteq conversation \cup inserted
  BY <1>2 DEF OpenRows
<1>5. OrderInv'
  BY <1>1, <1>2, <1>3, <1>4, NothingNewKeepsOrder DEF ChatInv
<1>6. TurnInv'
  BY <1>1, <1>2, <1>5, StayingKeepsTurns DEF ChatInv, TurnInv, ChatTypeOK, OrderInv
<1>7. OpenRowsOwned'
  <2>1. \A m \in inserted' : m \in inserted /\ m.by # v
    BY <1>2 DEF OpenRows
  <2> QED
    BY <1>1, <2>1 DEF ChatInv, OpenRowsOwned, TurnsStay
<1>8. FlushesAreWhole'
  BY <1>1, <1>2, StayingKeepsFlushes
<1>9. OpenersLock'
  BY <1>1, <1>3 DEF ChatInv, OpenersLock
<1>10. TurnsAreWhole'
  <2>1. project
    BY <1>2 DEF ChatInv, OpenersLock
  <2>2. \A m \in conversation' : m \in conversation \/ m.by \in Visit
    BY <1>2 DEF OpenRows
  <2>3. conversation \subseteq conversation'
    BY <1>2
  <2> QED
    BY <1>1, <2>1, <2>2, <2>3, StayingKeepsWhole
<1> QED
  BY <1>5, <1>6, <1>7, <1>8, <1>9, <1>10 DEF ChatInv

LEMMA DeletionKeepsChat ==
    ASSUME ChatInv, DeleteProject
    PROVE  ChatInv'
<1>1. /\ project' = FALSE /\ conversation' = {}
      /\ UNCHANGED <<looked, inserted, lastId, raced>>
      /\ UNCHANGED <<at, tries, ending, responses, used, llmCall, pc, actual>>
      /\ UNCHANGED <<hour, tally, held, spent, lost, crashes>>
      /\ \A c \in Turn : at[c] # "flushed"
      /\ \A v \in Visit : looked[v] # "flushed"
  BY DEF DeleteProject, vars, caller, history, turn
<1>2. TurnsStay
  BY <1>1 DEF ChatInv, TurnInv, ChatTypeOK, TypeOK, TurnsStay
<1>3. OrderInv'
  BY <1>1, NothingNewKeepsOrder DEF ChatInv
<1>4. TurnInv'
  BY <1>1, <1>2, <1>3, StayingKeepsTurns DEF ChatInv, TurnInv, ChatTypeOK, OrderInv
<1>5. OpenRowsOwned' /\ OpenersLock'
  BY <1>1 DEF ChatInv, OpenRowsOwned, OpenersLock
<1>6. FlushesAreWhole'
  <2>1. \A d \in Turn : Asked(d) => Asked(d)'
    BY <1>1 DEF Asked
  <2> QED
    BY <1>1, <2>1 DEF ChatInv, FlushesAreWhole
<1>7. TurnsAreWhole'
  BY <1>1 DEF TurnsAreWhole
<1> QED
  BY <1>3, <1>4, <1>5, <1>6, <1>7 DEF ChatInv

\* The other users of the budget touch nothing of the chat.
LEMMA OthersKeepChat ==
    ASSUME ChatInv,
           \/ DeleteProject
           \/ \E c \in Caller \ Turn : OtherCall(c)
           \/ HourPasses /\ UNCHANGED chat
           \/ UNCHANGED chatVars
    PROVE  ChatInv'
<1>1. CASE ~ DeleteProject
  <2>1. UNCHANGED <<project, looked, at, tries, ending, responses, used>>
        /\ UNCHANGED <<conversation, inserted, lastId, raced, llmCall>>
    BY <1>1 DEF OtherCall, chat, chatVars, turn, messages, stored
  <2>2. TypeOK' /\ \A d \in Turn : pc'[d] = pc[d] /\ actual'[d] = actual[d]
    <3>1. TypeOK
      BY DEF ChatInv, TurnInv, ChatTypeOK
    <3>2. CASE \E c \in Caller \ Turn : OtherCall(c)
      <4>1. PICK c \in Caller \ Turn : OtherCall(c)
        BY <3>2
      <4>2. TypeOK' /\ OnlyCaller(c)
        BY <3>1, <4>1, CallerMoves DEF OtherCall
      <4> QED
        BY <4>2 DEF OnlyCaller
    <3>3. CASE HourPasses
      <4>1. pc' = pc /\ actual' = actual /\ held' = held
        BY <3>3 DEF HourPasses, caller
      <4>2. TypeOK'
        BY <3>1, <3>3 DEF HourPasses, caller, history, TypeOK, Hour
      <4> QED
        BY <4>1, <4>2
    <3>4. CASE UNCHANGED vars
      BY <3>1, <3>4 DEF vars, caller, history, TypeOK
    <3> QED
      BY <1>1, <3>2, <3>3, <3>4 DEF chatVars
  <2>3. TurnsStay
    BY <2>1, <2>2 DEF TurnsStay
  <2>4. OrderInv'
    BY <2>1, NothingNewKeepsOrder DEF ChatInv
  <2>5. TurnInv'
    BY <2>1, <2>3, <2>4, StayingKeepsTurns DEF ChatInv, TurnInv, ChatTypeOK, OrderInv
  <2>6. OpenRowsOwned' /\ OpenersLock'
    BY <2>1 DEF ChatInv, OpenRowsOwned, OpenersLock
  <2>7. FlushesAreWhole'
    BY <2>1 DEF ChatInv, FlushesAreWhole, Asked, Answered
  <2>8. TurnsAreWhole'
    BY <2>1 DEF ChatInv, TurnsAreWhole, Told
  <2> QED
    BY <2>4, <2>5, <2>6, <2>7, <2>8 DEF ChatInv
<1> QED
  BY <1>1, DeletionKeepsChat

\* The conversation: the first state.
LEMMA ChatStarts == ChatInit => ChatInv
<1> SUFFICES ASSUME ChatInit PROVE ChatInv
  OBVIOUS
<1>1. TypeOK
  BY BudgetStarts DEF ChatInit, BudgetInv
<1>2. ChatTypeOK
  <2>1. 0 \in 0 .. MaxRetries + 1 /\ "new" \in Step
    BY DEF Step
  <2> QED
    BY <1>1, <2>1 DEF ChatInit, ChatTypeOK
<1>3. \A c \in Turn : pc[c] = "idle"
  BY DEF ChatInit, Init
<1>4. TurnInv
  BY <1>2, <1>3 DEF ChatInit, TurnInv, BusyTurns, EndingKnown, Persisting, TokensAddUp,
                    RowsCountEveryCall
<1>5. OrderInv
  BY DEF ChatInit, OrderInv, IdsDrawn, EmptyLook, OpenersFirst
<1> QED
  BY <1>4, <1>5 DEF ChatInit, ChatInv, OpenRowsOwned, FlushesAreWhole, OpenersLock, TurnsAreWhole

\* The conversation: every step.
LEMMA ChatStep == ChatInv /\ [ChatNext]_chatVars => ChatInv'
<1> SUFFICES ASSUME ChatInv, [ChatNext]_chatVars PROVE ChatInv'
  OBVIOUS
<1>1. ASSUME NEW c \in Turn, TurnStep(c) \/ Ask(c) \/ QueryAnswers(c) \/ QueryFails(c) \/ Die(c) PROVE ChatInv'
  <2>1. QuietMove(c) \/ InsertQuestion(c) \/ (InsertAnswer(c) /\ project) \/ CommitTurn(c)
    BY <1>1, AskIsQuiet, ReserveCallIsQuiet, EndingCallIsQuiet, CallAnswersIsQuiet,
       SettledIsQuiet, QueryIsQuiet DEF TurnStep
  <2> QED
    BY <2>1, QuietMoveKeepsChat, QuestionKeepsChat, AnswerKeepsChat, CommitKeepsChat
<1>2. ASSUME NEW v \in Visit, Look(v) \/ InsertOpener(v) \/ EndVisit(v) PROVE ChatInv'
  BY <1>2, LookKeepsChat, OpenerKeepsChat, VisitKeepsChat
<1> QED
  BY <1>1, <1>2, OthersKeepChat DEF ChatNext

\* Every state of the chat is well-typed.
THEOREM ChatTypes == ChatSpec => []ChatTypeOK
<1>1. ChatInv => ChatTypeOK
  BY DEF ChatInv, TurnInv
<1> QED
  BY <1>1, ChatStarts, ChatStep, PTL DEF ChatSpec

\* A turn is stored whole or not at all, whatever ends it.
THEOREM TurnsStoredWhole == ChatSpec => []TurnsAreWhole
<1>1. ChatInv => TurnsAreWhole
  BY DEF ChatInv
<1> QED
  BY <1>1, ChatStarts, ChatStep, PTL DEF ChatSpec

\* A stored llm_call row counts all the tokens of its turn.
THEOREM RowsCountAllTokens == ChatSpec => []RowsCountEveryCall
<1>1. ChatInv => RowsCountEveryCall
  BY DEF ChatInv, TurnInv
<1> QED
  BY <1>1, ChatStarts, ChatStep, PTL DEF ChatSpec

\* In the order of ids the opener opens, whatever is flushed and committed when, unless
\* a message was in flight at its visit's look or inserted before the opener.
THEOREM OpenersComeFirst == ChatSpec => []OpenerComesFirst
<1>1. ChatInv => OpenerComesFirst
  BY DEF ChatInv, OrderInv, OpenersFirst, OpenerComesFirst
<1> QED
  BY <1>1, ChatStarts, ChatStep, PTL DEF ChatSpec

=============================================================================
