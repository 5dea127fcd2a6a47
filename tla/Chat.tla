-------------------------------- MODULE Chat --------------------------------
(***************************************************************************)
(* The grounded chat of one project (app/chat, app/api/chat.py) over the   *)
(* hourly token budget it shares with ingestion.  POST asks a question: a  *)
(* turn generates catalog SQL with the model, gates and runs it, retries a *)
(* failed query, lets the model answer, and stores the whole turn in one   *)
(* transaction, where ids are drawn at the flush and seen at the commit;   *)
(* each model call reserves and settles tokens in transactions of its own. *)
(* GET opens the conversation.  The owner may delete the project meanwhile.*)
(***************************************************************************)
EXTENDS TokenBudget

CONSTANTS
    Turn,           \* POSTs to the project's chat: callers of the budget
    Visit,          \* GETs of the project's chat
    MaxRetries      \* chat_retry_max

ASSUME TurnAssumption == Turn \subseteq Caller /\ Visit \cap Turn = {}
ASSUME RetryAssumption == MaxRetries \in Nat

VARIABLES
    project,        \* the project row exists
    conversation,   \* chat_message rows of the project, committed
    inserted,       \* chat_message rows of transactions still open
    lastId,         \* chat_message.id, the sequence: a rollback leaves a gap
    llmCall,        \* llm_call rows of purpose chat
    at,             \* Turn -> the step of answer_question
    tries,          \* Turn -> attempts of retrieve_catalog
    ending,         \* Turn -> the terminal shape to persist
    responses,      \* Turn -> total tokens of _CappedClient.responses
    looked,         \* Visit -> "new" | "empty" | "flushed" | "done"
    used,           \* Turn -> tokens the provider counted for it (history)
    raced           \* visits that looked while a message was in flight, or had one
                    \* inserted after their empty look (history)

turn == <<at, tries, ending, responses, used>>
messages == <<conversation, inserted, lastId, raced>>
stored == <<messages, llmCall>>
chat == <<project, looked, turn, stored>>
chatVars == <<vars, chat>>

Ending == {"grounded", "refused", "failed"}
Ended == {"answered", "throttled", "error"}
Step == {"new", "generate", "query", "ground", "persist", "inserting", "flushed"} \cup Ended
Message == [id : Nat, kind : Ending \cup {"opener", "question"}, by : Turn \cup Visit]

ChatTypeOK ==
    /\ TypeOK
    /\ project \in BOOLEAN
    /\ conversation \cup inserted \subseteq Message /\ lastId \in Nat
    /\ \A r \in llmCall : r.turn \in Turn /\ r.tokens \in Nat
    /\ at \in [Turn -> Step]
    /\ tries \in [Turn -> 0 .. MaxRetries + 1]
    /\ ending \in [Turn -> Ending \cup {"none"}]
    /\ responses \in [Turn -> Nat] /\ used \in [Turn -> Nat]
    /\ looked \in [Visit -> {"new", "empty", "flushed", "done"}]
    /\ raced \subseteq Visit

ChatInit ==
    /\ Init
    /\ project = TRUE
    /\ conversation = {} /\ inserted = {} /\ lastId = 0 /\ raced = {}
    /\ llmCall = {}
    /\ at = [c \in Turn |-> "new"]
    /\ tries = [c \in Turn |-> 0]
    /\ ending = [c \in Turn |-> "none"]
    /\ responses = [c \in Turn |-> 0] /\ used = [c \in Turn |-> 0]
    /\ looked = [v \in Visit |-> "new"]

-----------------------------------------------------------------------------

GoTo(c, step) == at' = [at EXCEPT ![c] = step]

\* INSERT INTO chat_message: the next id, in a transaction of by's.
Insert(kind, by) ==
    /\ lastId' = lastId + 1
    /\ inserted' = inserted \cup {[id |-> lastId', kind |-> kind, by |-> by]}
    /\ raced' = raced \cup {v \in Visit \ {by} : looked[v] = "empty"}
    /\ UNCHANGED conversation

OpenRows(by) == {m \in inserted : m.by = by}

CommitRows(by) ==
    /\ conversation' = conversation \cup OpenRows(by)
    /\ inserted' = inserted \ OpenRows(by)
    /\ UNCHANGED <<lastId, raced>>

Rollback(by) ==
    /\ inserted' = inserted \ OpenRows(by)
    /\ UNCHANGED <<conversation, lastId, raced>>

\* answer_question: the savings of an existing project, then the first attempt.
Ask(c) ==
    /\ at[c] = "new"
    /\ IF project
       THEN GoTo(c, "generate") /\ tries' = [tries EXCEPT ![c] = 1]
       ELSE GoTo(c, "error") /\ UNCHANGED tries
    /\ UNCHANGED <<vars, project, looked, ending, responses, used, stored>>

\* _CappedClient.complete: reserve.  Over the cap the turn ends in a 429.
ReserveCall(c) ==
    /\ at[c] \in {"generate", "ground"}
    /\ \E h \in Hour, n \in Estimate : Reserve(c, h, n)
    /\ UNCHANGED chat

Throttled(c) ==
    /\ Reject(c)
    /\ GoTo(c, "throttled")
    /\ UNCHANGED <<project, looked, tries, ending, responses, used, stored>>

\* The provider call: an answer, or an exception that ends the turn in a 500.
CallAnswers(c) ==
    /\ ProviderAnswers(c)
    /\ used' = [used EXCEPT ![c] = @ + actual'[c]]
    /\ UNCHANGED <<project, looked, at, tries, ending, responses, stored>>

CallFails(c) ==
    /\ ProviderFails(c)
    /\ GoTo(c, "error")
    /\ UNCHANGED <<project, looked, tries, ending, responses, used, stored>>

\* Mutant of Settle: only the last response is kept.
SettleLast(c) ==
    /\ Reconcile(c)
    /\ responses' = [responses EXCEPT ![c] = actual[c]]

\* _CappedClient.complete: reconcile and keep the response.
Settle(c) ==
    /\ Reconcile(c)
    /\ responses' = [responses EXCEPT ![c] = @ + actual[c]]

EndAs(c, shape) ==
    /\ GoTo(c, "persist")
    /\ ending' = [ending EXCEPT ![c] = shape]

\* check_sql: unsafe SQL is terminal, safe SQL is run.
CheckSql(c) == EndAs(c, "failed") \/ (GoTo(c, "query") /\ UNCHANGED ending)

\* generate_sql: CANNOT_ANSWER, NO_QUERY, or SQL.
SqlGenerated(c) ==
    /\ at[c] = "generate"
    /\ Settle(c)
    /\ EndAs(c, "refused") \/ (GoTo(c, "ground") /\ UNCHANGED ending) \/ CheckSql(c)
    /\ UNCHANGED <<project, looked, tries, used, stored>>

\* run_readonly returned rows.
QueryAnswers(c) ==
    /\ at[c] = "query"
    /\ GoTo(c, "ground")
    /\ UNCHANGED <<vars, project, looked, tries, ending, responses, used, stored>>

\* Mutant of QueryFails: a failed query does not use an attempt up.
QueryFailsUncounted(c) ==
    /\ at[c] = "query"
    /\ GoTo(c, "generate")
    /\ UNCHANGED <<vars, project, looked, tries, ending, responses, used, stored>>

\* SQLAlchemyError: a fresh attempt with the error as context, or give up.
QueryFails(c) ==
    /\ at[c] = "query"
    /\ IF tries[c] < MaxRetries + 1
       THEN GoTo(c, "generate") /\ tries' = [tries EXCEPT ![c] = @ + 1] /\ UNCHANGED ending
       ELSE EndAs(c, "failed") /\ UNCHANGED tries
    /\ UNCHANGED <<vars, project, looked, responses, used, stored>>

\* generate_answer.
AnswerGenerated(c) ==
    /\ at[c] = "ground"
    /\ Settle(c)
    /\ EndAs(c, "grounded")
    /\ UNCHANGED <<project, looked, tries, used, stored>>

\* Mutant of InsertQuestion: the question is committed by itself.
InsertQuestionAlone(c) ==
    /\ at[c] = "persist"
    /\ lastId' = lastId + 1
    /\ conversation' = conversation \cup {[id |-> lastId', kind |-> "question", by |-> c]}
    /\ GoTo(c, "inserting")
    /\ UNCHANGED <<vars, project, looked, tries, ending, responses, used,
                   inserted, raced, llmCall>>

\* _persist_turn's flush draws the two ids one after the other.
InsertQuestion(c) ==
    /\ at[c] = "persist"
    /\ Insert("question", c)
    /\ GoTo(c, "inserting")
    /\ UNCHANGED <<vars, project, looked, tries, ending, responses, used, llmCall>>

\* The flush ends with the foreign key's check, which locks the project row or
\* refuses the messages of a project that is gone.
InsertAnswer(c) ==
    /\ at[c] = "inserting"
    /\ IF project
       THEN Insert(ending[c], c) /\ GoTo(c, "flushed")
       ELSE Rollback(c) /\ GoTo(c, "error")
    /\ UNCHANGED <<vars, project, looked, tries, ending, responses, used, llmCall>>

\* _persist_turn: the traces and the llm_call row go in with the commit.
CommitTurn(c) ==
    /\ at[c] = "flushed"
    /\ CommitRows(c)
    /\ llmCall' = llmCall \cup {[turn |-> c, tokens |-> responses[c]]}
    /\ GoTo(c, "answered")
    /\ UNCHANGED <<vars, project, looked, tries, ending, responses, used>>

\* The worker dies, during a call (its reservation is left behind) or between two,
\* and its open transaction with it.
Die(c) ==
    /\ at[c] \notin Ended \cup {"new"}
    /\ \/ Crash(c)
       \/ /\ pc[c] = "idle" /\ crashes < MaxCrashes
          /\ crashes' = crashes + 1
          /\ UNCHANGED <<hour, tally, caller, history>>
    /\ GoTo(c, "error")
    /\ Rollback(c)
    /\ UNCHANGED <<project, looked, tries, ending, responses, used, llmCall>>

\* Mutant of Look: every visit opens.
LookAway(v) ==
    /\ looked[v] = "new" /\ project
    /\ looked' = [looked EXCEPT ![v] = "empty"]
    /\ UNCHANGED <<vars, project, turn, stored>>

\* ensure_opener: is there any message?
Look(v) ==
    /\ looked[v] = "new" /\ project
    /\ looked' = [looked EXCEPT ![v] = IF conversation = {} THEN "empty" ELSE "done"]
    /\ raced' = IF inserted = {} THEN raced ELSE raced \cup {v}
    /\ UNCHANGED <<vars, project, turn, conversation, inserted, lastId, llmCall>>

\* ensure_opener's flush, which the foreign key refuses when the project is gone.
InsertOpener(v) ==
    /\ looked[v] = "empty"
    /\ IF project
       THEN Insert("opener", v) /\ looked' = [looked EXCEPT ![v] = "flushed"]
       ELSE looked' = [looked EXCEPT ![v] = "done"] /\ UNCHANGED messages
    /\ UNCHANGED <<vars, project, turn, llmCall>>

\* ensure_opener's commit, trace included; or the worker dies before it.
EndVisit(v) ==
    /\ looked[v] = "flushed"
    /\ looked' = [looked EXCEPT ![v] = "done"]
    /\ CommitRows(v) \/ Rollback(v)
    /\ UNCHANGED <<vars, project, turn, llmCall>>

\* delete_project waits for who has the project row locked.  The committed messages
\* and traces cascade; a chat's llm_call row has no run and stays.
DeleteProject ==
    /\ project
    /\ \A c \in Turn : at[c] # "flushed"
    /\ \A v \in Visit : looked[v] # "flushed"
    /\ project' = FALSE /\ conversation' = {}
    /\ UNCHANGED <<vars, looked, turn, inserted, lastId, raced, llmCall>>

\* Other users of the hour's budget: ingestion.
OtherCall(c) ==
    /\ \/ \E h \in Hour, n \in Estimate : Reserve(c, h, n)
       \/ Reject(c) \/ ProviderAnswers(c) \/ ProviderFails(c) \/ Reconcile(c) \/ Crash(c)
    /\ UNCHANGED chat

TurnStep(c) ==
    \/ ReserveCall(c) \/ Throttled(c) \/ CallAnswers(c) \/ CallFails(c)
    \/ SqlGenerated(c) \/ AnswerGenerated(c)
    \/ InsertQuestion(c) \/ InsertAnswer(c) \/ CommitTurn(c)

ChatNext ==
    \/ \E c \in Turn : Ask(c) \/ TurnStep(c) \/ QueryAnswers(c) \/ QueryFails(c) \/ Die(c)
    \/ \E v \in Visit : Look(v) \/ InsertOpener(v) \/ EndVisit(v)
    \/ DeleteProject
    \/ \E c \in Caller \ Turn : OtherCall(c)
    \/ HourPasses /\ UNCHANGED chat

\* A request that was asked is worked on, and the provider answers or fails.  Nothing
\* makes the model's SQL return: run_readonly sets no statement timeout.
ChatSpec == ChatInit /\ [][ChatNext]_chatVars /\ \A c \in Turn : WF_chatVars(TurnStep(c))

-----------------------------------------------------------------------------

Told(c) ==
    \E q, a \in conversation :
        /\ q.by = c /\ q.kind = "question"
        /\ a.by = c /\ a.kind = ending[c]
        /\ q.id < a.id

\* A turn is stored whole or not at all: an answered question stands in the
\* conversation with its answer behind it, while a throttled, failed or dead turn, or
\* one whose project was deleted under it, leaves no message that anybody can read.
TurnsAreWhole ==
    /\ \A c \in Turn : project /\ at[c] = "answered" => Told(c)
    /\ \A m \in conversation : m.by \in Turn => at[m.by] = "answered"
    /\ ~project => conversation = {}

\* The llm_call row of a turn counts every token the provider counted for it, over
\* all attempts and both prompts.
RowsCountEveryCall == \A r \in llmCall : at[r.turn] = "answered" /\ r.tokens = used[r.turn]

\* The opener opens: in the order of ids it stands before every other message, unless
\* a message was in flight when its visit looked, or inserted between that look and
\* the opener.
OpenerComesFirst ==
    \A m \in conversation : m.kind = "opener" /\ m.by \notin raced =>
        \A n \in conversation : m.id <= n.id

\* Every question asked gets an answer, a 429 or an error, unless one of its queries
\* never returns: the retry loop is finite and no turn waits for another one's tokens.
EveryTurnEnds ==
    \A c \in Turn : at[c] = "generate" ~> (at[c] \in Ended \/ [](at[c] = "query"))

=============================================================================
