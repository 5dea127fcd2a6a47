--------------------------- MODULE CiToken_proofs ----------------------------
(***************************************************************************)
(* The token of a project's Jenkins connection, for any number of browser  *)
(* tabs and tokens.  A stored token that no answer has shown is in the     *)
(* hand of the handler that minted it (TokenInHand), which has committed   *)
(* and not answered yet; no handler answers without showing it, unless the *)
(* answer is lost or the runtime was disabled.                             *)
(***************************************************************************)
EXTENDS CiToken, TLAPS

USE NoTokenAssumption, BoundsAssumption

TokenInHand ==
    drops = 0 /\ disables = 0 =>
        /\ runtime = "enabled"
        /\ \/ stored \in shown \cup {NoToken}
           \/ \E s \in Session : pc[s] = "committed" /\ plain[s] = stored

\* The types of the row and the owner's view of it, and of the handlers.
RowTypes ==
    /\ project \in {"live", "deleted"}
    /\ conn \in {"absent", "present"}
    /\ project = "deleted" => conn = "absent"
    /\ stored \in TokenOrNone
    /\ conn = "absent" => stored = NoToken
    /\ shown \subseteq {stored} \cap Token
RequestTypes ==
    /\ pc \in [Session -> {"idle", "loaded", "committed"}]
    /\ kind \in [Session -> Kind]
    /\ saw \in [Session -> [conn : {"absent", "present"}, stored : TokenOrNone]]
    /\ plain \in [Session -> TokenOrNone]
    /\ code \in [Session -> {0, 200, 404, 422, 500}]
CountTypes ==
    /\ setupMints \in 0 .. 2
    /\ runtime \in {"enabled", "disabled"}
    /\ drops \in 0 .. MaxDrops
    /\ disables \in 0 .. MaxDisables

\* The type invariant is the three parts.
LEMMA TypesInParts == TypeOK <=> RowTypes /\ RequestTypes /\ CountTypes
BY DEF TypeOK, RowTypes, RequestTypes, CountTypes

\* What the two ends of a handler's step leave of its own state.
LEMMA AnswerTypes ==
    ASSUME RequestTypes, NEW s \in Session, NEW status \in {0, 200, 404, 422, 500}, Answer(s, status)
    PROVE  RequestTypes'
<1>1. Unread \in [conn : {"absent", "present"}, stored : TokenOrNone] /\ NoToken \in TokenOrNone
  BY DEF Unread, TokenOrNone
<1> QED
  BY <1>1 DEF RequestTypes, Answer

LEMMA CommittedTypes ==
    ASSUME RequestTypes, NEW s \in Session, NEW t \in TokenOrNone, Committed(s, t)
    PROVE  RequestTypes'
BY DEF RequestTypes, Committed

LEMMA FreshTokenTypes ==
    ASSUME RequestTypes, RowTypes, NEW s \in Session, StoreFreshToken(s), project' = project, conn' = conn
    PROVE  RequestTypes' /\ RowTypes'
<1>1. ASSUME conn = "present", NEW t \in Token, stored' = t, Committed(s, t), shown' = {}
      PROVE  RequestTypes' /\ RowTypes'
  <2>1. t \in TokenOrNone
    BY DEF TokenOrNone
  <2> QED
    BY <1>1, <2>1, CommittedTypes DEF RowTypes
<1>2. ASSUME conn = "absent", Answer(s, 500), UNCHANGED <<stored, shown>>
      PROVE  RequestTypes' /\ RowTypes'
  BY <1>2, AnswerTypes DEF RowTypes
<1>3. \/ /\ conn = "present"
         /\ \E t \in Token : stored' = t /\ Committed(s, t)
         /\ shown' = {}
      \/ conn = "absent" /\ Answer(s, 500) /\ UNCHANGED <<stored, shown>>
  BY DEF StoreFreshToken
<1> QED
  BY <1>1, <1>2, <1>3

\* Types: every step, handler by handler.
LEMMA TypesStep ==
    ASSUME RowTypes, RequestTypes, CountTypes, [Next]_vars
    PROVE  RowTypes' /\ RequestTypes' /\ CountTypes'
<1>1. ASSUME NEW s \in Session, NEW k \in Kind, Load(s, k)
      PROVE  RowTypes' /\ RequestTypes' /\ CountTypes'
  <2>1. RowTypes' /\ CountTypes'
    BY <1>1 DEF Load, row, RowTypes, CountTypes
  <2>2. [conn |-> conn, stored |-> stored] \in [conn : {"absent", "present"}, stored : TokenOrNone]
    BY DEF RowTypes
  <2>3. RequestTypes'
    BY <1>1, <2>2 DEF Load, RequestTypes
  <2> QED
    BY <2>1, <2>3
<1>2. ASSUME NEW s \in Session, InsertConnection(s)
      PROVE  RowTypes' /\ RequestTypes' /\ CountTypes'
  <2>1. RequestTypes'
    BY <1>2, AnswerTypes DEF InsertConnection
  <2>2. RowTypes' /\ CountTypes'
    BY <1>2 DEF InsertConnection, RowTypes, CountTypes
  <2> QED
    BY <2>1, <2>2
<1>3. ASSUME NEW s \in Session, UpdateConnection(s)
      PROVE  RowTypes' /\ RequestTypes' /\ CountTypes'
  <2>1. Answer(s, 200) \/ Answer(s, 500)
    BY <1>3 DEF UpdateConnection
  <2>2. RequestTypes'
    BY <2>1, AnswerTypes
  <2>3. RowTypes' /\ CountTypes'
    BY <1>3 DEF UpdateConnection, row, RowTypes, CountTypes
  <2> QED
    BY <2>2, <2>3
<1>4. ASSUME NEW s \in Session, SetupMint(s)
      PROVE  RowTypes' /\ RequestTypes' /\ CountTypes'
  <2>1. RowTypes' /\ RequestTypes'
    BY <1>4, FreshTokenTypes DEF SetupMint
  <2>2. CountTypes'
    BY <1>4 DEF SetupMint, CountMint, CountTypes
  <2> QED
    BY <2>1, <2>2
<1>5. ASSUME NEW s \in Session, SetupAgain(s)
      PROVE  RowTypes' /\ RequestTypes' /\ CountTypes'
  <2>1. NoToken \in TokenOrNone
    BY DEF TokenOrNone
  <2>2. RequestTypes'
    BY <1>5, <2>1, CommittedTypes DEF SetupAgain
  <2>3. RowTypes' /\ CountTypes'
    BY <1>5 DEF SetupAgain, row, RowTypes, CountTypes
  <2> QED
    BY <2>2, <2>3
<1>6. ASSUME NEW s \in Session, Rotate(s)
      PROVE  RowTypes' /\ RequestTypes' /\ CountTypes'
  <2>1. RowTypes' /\ RequestTypes'
    BY <1>6, FreshTokenTypes DEF Rotate
  <2>2. CountTypes'
    BY <1>6 DEF Rotate, CountTypes
  <2> QED
    BY <2>1, <2>2
<1>7. ASSUME NEW s \in Session, Deliver(s)
      PROVE  RowTypes' /\ RequestTypes' /\ CountTypes'
  <2>1. Answer(s, 200) \/ Answer(s, 422) \/ Answer(s, 500)
    BY <1>7 DEF Deliver
  <2>2. RequestTypes'
    BY <2>1, AnswerTypes
  <2>3. project' = project /\ conn' = conn /\ stored' = stored
        /\ shown' \subseteq shown \cup ({stored} \ {NoToken})
    BY <1>7 DEF Deliver, row
  <2>4. RowTypes'
    BY <2>3 DEF RowTypes, TokenOrNone
  <2>5. CountTypes'
    BY <1>7 DEF Deliver, CountTypes
  <2> QED
    BY <2>2, <2>4, <2>5
<1>8. ASSUME NEW s \in Session, Drop(s)
      PROVE  RowTypes' /\ RequestTypes' /\ CountTypes'
  <2>1. RequestTypes'
    BY <1>8, AnswerTypes DEF Drop
  <2>2. RowTypes'
    BY <1>8 DEF Drop, row, RowTypes
  <2>3. CountTypes'
    BY <1>8 DEF Drop, CountTypes
  <2> QED
    BY <2>1, <2>2, <2>3
<1>9. CASE SetRuntime
  BY <1>9 DEF SetRuntime, row, request, RowTypes, RequestTypes, CountTypes
<1>10. CASE DeleteProject
  BY <1>10 DEF DeleteProject, request, RowTypes, RequestTypes, CountTypes, TokenOrNone
<1>11. CASE UNCHANGED vars
  BY <1>11 DEF vars, row, request, RowTypes, RequestTypes, CountTypes
<1> QED
  BY <1>1, <1>2, <1>3, <1>4, <1>5, <1>6, <1>7, <1>8, <1>9, <1>10, <1>11 DEF Next, Handle

\* Type correctness of the connection row and its handlers.
THEOREM ConnectionTypes == Spec => []TypeOK
<1>1. Init => RowTypes /\ RequestTypes /\ CountTypes
  BY DEF Init, RowTypes, RequestTypes, CountTypes, TokenOrNone, Kind, Unread
<1>2. RowTypes /\ RequestTypes /\ CountTypes /\ [Next]_vars
      => RowTypes' /\ RequestTypes' /\ CountTypes'
  BY TypesStep
<1>3. RowTypes /\ RequestTypes /\ CountTypes => TypeOK
  BY TypesInParts
<1> QED
  BY <1>1, <1>2, <1>3, PTL DEF Spec

-----------------------------------------------------------------------------

\* A handler that is not the one with the stored token in hand may come and go.
Holds(s) == pc[s] = "committed" /\ plain[s] = stored
HoldsNext(s) == pc'[s] = "committed" /\ plain'[s] = stored'

\* A request that holds the stored token goes on holding it while others move.
LEMMA HolderStays ==
    ASSUME RequestTypes, NEW s \in Session, ~Holds(s), stored' = stored,
           \A q \in Session \ {s} : pc'[q] = pc[q] /\ plain'[q] = plain[q]
    PROVE  (\E q \in Session : Holds(q)) => \E q \in Session : HoldsNext(q)
BY DEF Holds, HoldsNext

LEMMA OthersUntouched ==
    ASSUME RequestTypes, NEW s \in Session, NEW status, NEW t,
           Answer(s, status) \/ Committed(s, t)
    PROVE  \A q \in Session \ {s} : pc'[q] = pc[q] /\ plain'[q] = plain[q]
BY DEF RequestTypes, Answer, Committed

HandStep ==
    drops' = 0 /\ disables' = 0 =>
        /\ runtime' = "enabled"
        /\ \/ stored' \in shown' \cup {NoToken}
           \/ \E s \in Session : HoldsNext(s)

\* A step of a handler without the token, which leaves row and page alone.
LEMMA HandKept ==
    ASSUME TokenInHand, RequestTypes, NEW s \in Session, pc[s] # "committed",
           stored' = stored, shown' = shown, runtime' = runtime,
           drops' = drops, disables' = disables,
           \A q \in Session \ {s} : pc'[q] = pc[q] /\ plain'[q] = plain[q]
    PROVE  HandStep
<1>1. ~Holds(s)
  BY DEF Holds
<1> QED
  BY <1>1, HolderStays DEF TokenInHand, HandStep, Holds

\* A commit that replaces the token leaves it in the hand of the request that minted
\* it.
LEMMA FreshTokenInHand ==
    ASSUME TokenInHand, RowTypes, RequestTypes, NEW s \in Session, StoreFreshToken(s),
           runtime' = runtime, drops' = drops, disables' = disables
    PROVE  HandStep
<1>1. ASSUME NEW t \in Token, stored' = t, Committed(s, t)
      PROVE  HoldsNext(s)
  BY <1>1 DEF HoldsNext, Committed, RequestTypes
<1>2. CASE conn = "present"
  BY <1>1, <1>2 DEF StoreFreshToken, HandStep, TokenInHand
<1>3. CASE conn = "absent"
  BY <1>3 DEF StoreFreshToken, RowTypes, HandStep, TokenInHand
<1> QED
  BY <1>2, <1>3 DEF RowTypes

LEMMA HandNext ==
    ASSUME TokenInHand, RowTypes, RequestTypes, CountTypes, [Next]_vars
    PROVE  HandStep
<1>1. ASSUME NEW s \in Session, NEW k \in Kind, Load(s, k) PROVE HandStep
  <2>1. /\ pc[s] # "committed"
        /\ stored' = stored /\ shown' = shown /\ runtime' = runtime
        /\ drops' = drops /\ disables' = disables
        /\ \A q \in Session \ {s} : pc'[q] = pc[q] /\ plain'[q] = plain[q]
    BY <1>1 DEF Load, row, RequestTypes
  <2> QED
    BY <2>1, HandKept
<1>2. ASSUME NEW s \in Session,
             InsertConnection(s) \/ UpdateConnection(s) \/ SetupAgain(s)
      PROVE  HandStep
  <2>1. /\ pc[s] # "committed"
        /\ stored' = stored /\ shown' = shown /\ runtime' = runtime
        /\ drops' = drops /\ disables' = disables
    BY <1>2 DEF InsertConnection, UpdateConnection, SetupAgain, row
  <2>2. \/ Answer(s, 200) \/ Answer(s, 500) \/ Committed(s, NoToken)
    BY <1>2 DEF InsertConnection, UpdateConnection, SetupAgain
  <2>3. \A q \in Session \ {s} : pc'[q] = pc[q] /\ plain'[q] = plain[q]
    BY <2>2, OthersUntouched
  <2> QED
    BY <2>1, <2>3, HandKept
<1>3. ASSUME NEW s \in Session, SetupMint(s) \/ Rotate(s) PROVE HandStep
  BY <1>3, FreshTokenInHand DEF SetupMint, Rotate
<1>4. ASSUME NEW s \in Session, Deliver(s) PROVE HandStep
  <2> SUFFICES ASSUME drops' = 0, disables' = 0
               PROVE  /\ runtime' = "enabled"
                      /\ \/ stored' \in shown' \cup {NoToken}
                         \/ \E q \in Session : HoldsNext(q)
    BY DEF HandStep
  <2>1. drops = 0 /\ disables = 0 /\ runtime' = runtime /\ stored' = stored /\ runtime = "enabled"
    BY <1>4 DEF Deliver, row, TokenInHand
  <2>2. \A q \in Session \ {s} : pc'[q] = pc[q] /\ plain'[q] = plain[q]
    BY <1>4, OthersUntouched DEF Deliver
  <2>3. CASE stored = NoToken
    BY <2>1, <2>3
  <2>4. CASE stored # NoToken
    <3>1. project = "live"
      BY <2>4 DEF RowTypes
    <3>2. shown' = shown \cup ({plain[s]} \cap ({stored} \ {NoToken}))
      BY <1>4, <2>1, <3>1 DEF Deliver
    <3>3. CASE Holds(s)
      BY <2>1, <2>4, <3>2, <3>3 DEF Holds
    <3>4. CASE ~Holds(s)
      <4>1. stored \in shown \/ \E q \in Session : Holds(q)
        BY <2>1, <2>4 DEF TokenInHand, Holds
      <4> QED
        BY <2>1, <2>2, <3>2, <3>4, <4>1, HolderStays
    <3> QED
      BY <3>3, <3>4
  <2> QED
    BY <2>1, <2>3, <2>4
<1>5. ASSUME NEW s \in Session, Drop(s) PROVE HandStep
  BY <1>5 DEF Drop, HandStep, CountTypes
<1>6. CASE SetRuntime
  <2>1. CASE disables' = 0
    <3>1. disables = 0 /\ runtime = "disabled"
      BY <1>6, <2>1 DEF SetRuntime, CountTypes
    <3> QED
      BY <1>6, <3>1 DEF SetRuntime, TokenInHand, HandStep
  <2> QED
    BY <2>1 DEF HandStep
<1>7. CASE DeleteProject
  BY <1>7 DEF DeleteProject, HandStep, TokenInHand
<1>8. CASE UNCHANGED vars
  BY <1>8 DEF vars, row, request, HandStep, TokenInHand, HoldsNext
<1> QED
  BY <1>1, <1>2, <1>3, <1>4, <1>5, <1>6, <1>7, <1>8 DEF Next, Handle

\* The token that authenticates is one the owner was shown, once all tabs have their
\* answers: for any number of tabs that connect, fetch and rotate at once, as long as
\* no answer is lost and no runtime disabled (app/ci/service).
THEOREM NoTokenIsLost == Spec => []OnlyLossLeavesTokenUnshown
<1> DEFINE Inv == RowTypes /\ RequestTypes /\ CountTypes /\ TokenInHand
<1>1. Init => Inv
  BY DEF Init, RowTypes, RequestTypes, CountTypes, TokenOrNone, Kind, Unread, TokenInHand
<1>2. Inv /\ [Next]_vars => Inv'
  <2> SUFFICES ASSUME Inv, [Next]_vars PROVE Inv'
    OBVIOUS
  <2>1. RowTypes' /\ RequestTypes' /\ CountTypes'
    BY TypesStep
  <2>2. TokenInHand'
    BY HandNext DEF HandStep, HoldsNext, TokenInHand
  <2> QED
    BY <2>1, <2>2
<1>3. Inv => OnlyLossLeavesTokenUnshown
  BY DEF TokenInHand, OnlyLossLeavesTokenUnshown
<1> QED
  BY <1>1, <1>2, <1>3, PTL DEF Spec

\* Editing the connection, or anything else but deletion, never leaves a project
\* without the token it had (app/projects/jenkins_service).
THEOREM TokenIsKept == Spec => ConnectKeepsToken
<1>1. [Next]_vars => [stored # NoToken => stored' # NoToken \/ project' = "deleted"]_vars
  <2> SUFFICES ASSUME Next, stored # NoToken PROVE stored' # NoToken \/ project' = "deleted"
    OBVIOUS
  <2>1. CASE DeleteProject
    BY <2>1 DEF DeleteProject
  <2>2. ASSUME NEW s \in Session, StoreFreshToken(s) PROVE stored' # NoToken
    BY <2>2 DEF StoreFreshToken
  <2>3. ASSUME NEW s \in Session, SetupMint(s) \/ Rotate(s) PROVE stored' # NoToken
    BY <2>2, <2>3 DEF SetupMint, Rotate
  <2>4. ASSUME NEW s \in Session,
               (\E k \in Kind : Load(s, k)) \/ InsertConnection(s) \/ UpdateConnection(s)
               \/ SetupAgain(s) \/ Deliver(s) \/ Drop(s)
        PROVE  stored' = stored
    BY <2>4 DEF Load, InsertConnection, UpdateConnection, SetupAgain, Deliver, Drop, row
  <2>5. CASE SetRuntime
    BY <2>5 DEF SetRuntime, row
  <2> QED
    BY <2>1, <2>3, <2>4, <2>5 DEF Next, Handle
<1> QED
  BY <1>1, PTL DEF Spec, ConnectKeepsToken

=============================================================================
