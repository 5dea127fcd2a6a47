---------------------------- MODULE CatalogStore ----------------------------
(***************************************************************************)
(* The benchmark catalog and its writers: POST /benchmarks and the seed    *)
(* (app/catalog/service.upsert_catalog_row), the ingestion of a source     *)
(* (app/ingest/service.ingest_source) and the import of a RealVuln report  *)
(* (app/catalog/ingest_realvuln).  Each row is checked against the one-    *)
(* group-per-task rule and then upserted and committed by itself; ingest   *)
(* and import insert their source_document before the rows, uncommitted    *)
(* until the first row's commit takes it along.  No lock is held from the  *)
(* check to the write.                                                     *)
(***************************************************************************)
EXTENDS Integers, Sequences

CONSTANTS
    Writer,         \* requests and scripts writing the catalog
    Key,            \* (model, harness) pairs
    Group,          \* (benchmark, metric) pairs
    Task, NoTask,   \* task types; task_type IS NULL
    Absent,         \* no such row
    Source,         \* content hashes of sources
    NoSource,       \* the rows come from POST /benchmarks or the seed
    Batch,          \* lists of valid rows a payload, a seed or an extraction has
    Report,         \* the sources that are RealVuln dashboards
    Scanner,        \* _SCANNERS: the scanners mapped, in the order of their slugs
    ReportGroup, ReportTask,    \* (BENCHMARK, METRIC) and TASK_TYPE of the report
    MaxCrashes      \* bound: workers that die part-way

Row == [key : Key, group : Group, task : Task \cup {NoTask}]

\* What the two upstream files have about a scanner.
Upstream == [Key -> {"scored and priced", "unscored", "unpriced", "local", "absent"}]

\* The rows of a report: scanners without a score or a published price are skipped,
\* and so are models that run on the operator's own machine.
build_rows(upstream) ==
    LET usable == SelectSeq(Scanner, LAMBDA k : upstream[k] = "scored and priced")
    IN  [i \in DOMAIN usable |->
            [key |-> usable[i], group |-> ReportGroup, task |-> ReportTask]]

ASSUME CrashAssumption == MaxCrashes \in Nat
ASSUME BatchAssumption == Batch \subseteq Seq(Row)
ASSUME ReportAssumption ==
    /\ Report \subseteq Source
    /\ \A upstream \in Upstream : build_rows(upstream) \in Batch \cup {<<>>}
ASSUME NullAssumption ==
    NoTask \notin Task /\ Absent \notin Task \cup {NoTask} /\ NoSource \notin Source

VARIABLES
    catalog,        \* benchmark_result: Group -> Key -> its task_type
    stored,         \* source_document.status, or "unseen"
    extracted,      \* Source -> the valid rows of the ingest that stored it (history)
    pc,             \* Writer -> step
    src, rows,      \* Writer -> the source and the rows still to be written
    batch,          \* Writer -> all the rows of the job
    open,           \* sources inserted and not yet committed
    raced,          \* a row was written between another row's check and write (history)
    crashes

job == <<src, rows, batch>>
vars == <<catalog, stored, extracted, pc, job, open, raced, crashes>>

Status == {"unseen", "ingested", "invalid"}

TypeOK ==
    /\ catalog \in [Group -> [Key -> Task \cup {NoTask, Absent}]]
    /\ stored \in [Source -> Status]
    /\ extracted \in [Source -> Batch \cup {<<>>}]
    /\ pc \in [Writer -> {"idle", "extracting", "extracted", "checking", "writing", "written"}]
    /\ src \in [Writer -> Source \cup {NoSource}]
    /\ \A w \in Writer : pc[w] \in {"extracting", "extracted"} => src[w] \in Source
    /\ rows \in [Writer -> Seq(Row)]
    /\ \A w \in Writer : pc[w] \in {"checking", "writing"} => rows[w] # <<>>
    /\ batch \in [Writer -> Batch \cup {<<>>}]
    /\ open \subseteq {s \in Source : stored[s] = "unseen"}
    /\ raced \in BOOLEAN
    /\ crashes \in 0 .. MaxCrashes

Init ==
    /\ catalog = [g \in Group |-> [k \in Key |-> Absent]]
    /\ stored = [s \in Source |-> "unseen"]
    /\ extracted = [s \in Source |-> <<>>]
    /\ pc = [w \in Writer |-> "idle"]
    /\ src = [w \in Writer |-> NoSource]
    /\ rows = [w \in Writer |-> <<>>] /\ batch = [w \in Writer |-> <<>>]
    /\ open = {} /\ raced = FALSE /\ crashes = 0

Step(w, step) == pc' = [pc EXCEPT ![w] = step]

\* The session closes: what it has not committed is rolled back.
Close(w) ==
    /\ Step(w, "idle")
    /\ src' = [src EXCEPT ![w] = NoSource]
    /\ rows' = [rows EXCEPT ![w] = <<>>]
    /\ batch' = [batch EXCEPT ![w] = <<>>]
    /\ open' = IF pc[w] \in {"checking", "writing", "written"} THEN open \ {src[w]} ELSE open

\* Commit the source_document the writer's transaction has inserted, if any.
CommitSource(w) ==
    IF src[w] \in open
    THEN /\ stored' = [stored EXCEPT ![src[w]] =
                         IF batch[w] = <<>> /\ src[w] \notin Report THEN "invalid" ELSE "ingested"]
         /\ extracted' = [extracted EXCEPT ![src[w]] = batch[w]]
    ELSE UNCHANGED <<stored, extracted>>

-----------------------------------------------------------------------------

\* The rows that came out valid, in their order: parse_catalog_rows keeps those of
\* an answer and reports the others.
Valid(w, list) ==
    /\ rows' = [rows EXCEPT ![w] = list]
    /\ batch' = [batch EXCEPT ![w] = list]

\* POST /benchmarks (one row) or load_seed (several).
Load(w, list) ==
    /\ pc[w] = "idle" /\ list # <<>>
    /\ Valid(w, list)
    /\ Step(w, "checking")
    /\ UNCHANGED <<catalog, raced, stored, extracted, src, open, crashes>>

\* ingest_source, the idempotency check: a stored source is skipped.
Lookup(w, s) ==
    /\ pc[w] = "idle" /\ stored[s] = "unseen"
    /\ src' = [src EXCEPT ![w] = s]
    /\ Step(w, "extracting")
    /\ UNCHANGED <<catalog, raced, stored, extracted, rows, batch, open, crashes>>

\* ingest_to_db: a report that is stored already is imported again all the same (its
\* hash does not cover the prices), only without another source_document.
ImportReport(w, s, upstream) ==
    /\ pc[w] = "idle"
    /\ Valid(w, build_rows(upstream))
    /\ IF stored[s] = "unseen"
       THEN src' = [src EXCEPT ![w] = s] /\ Step(w, "extracted")
       ELSE /\ Step(w, IF build_rows(upstream) = <<>> THEN "written" ELSE "checking")
            /\ UNCHANGED src
    /\ UNCHANGED <<catalog, raced, stored, extracted, open, crashes>>

\* The paid extraction and its validation; or the cap (429) or the provider
\* stops it and nothing is stored.
Extract(w) ==
    /\ pc[w] = "extracting"
    /\ \/ \E list \in Batch \cup {<<>>} :
            /\ Valid(w, list)
            /\ Step(w, "extracted")
            /\ UNCHANGED <<src, open>>
       \/ Close(w)
    /\ UNCHANGED <<catalog, raced, stored, extracted, crashes>>

Inserted(w) ==
    /\ Step(w, IF rows[w] = <<>> THEN "written" ELSE "checking")
    /\ UNCHANGED job

\* Mutant of AddSource: the source is committed before its rows.
AddSourceCommits(w) ==
    /\ pc[w] = "extracted" /\ src[w] \notin open
    /\ IF stored[src[w]] = "unseen"
       THEN /\ stored' = [stored EXCEPT ![src[w]] = IF rows[w] = <<>> THEN "invalid" ELSE "ingested"]
            /\ extracted' = [extracted EXCEPT ![src[w]] = batch[w]]
            /\ Inserted(w) /\ UNCHANGED open
       ELSE Close(w) /\ UNCHANGED <<stored, extracted>>
    /\ UNCHANGED <<catalog, raced, crashes>>

\* db.add(source_doc), flush: waits for another open insert of the same hash, and
\* fails on the unique content_hash when that one was committed.
AddSource(w) ==
    /\ pc[w] = "extracted" /\ src[w] \notin open
    /\ IF stored[src[w]] = "unseen"
       THEN Inserted(w) /\ open' = open \cup {src[w]}
       ELSE Close(w)
    /\ UNCHANGED <<catalog, raced, stored, extracted, crashes>>

\* The groups that own task t; the code reads any one of its rows.
Owners(t) == {g \in Group : \E k \in Key : catalog[g][k] = t}

\* _assert_task_owns_one_group; an untyped row belongs to no task.
Fits(row) == row.task = NoTask \/ Owners(row.task) = {} \/ row.group \in Owners(row.task)

Conflicts(row) == row.task # NoTask /\ Owners(row.task) \ {row.group} # {}

\* Before anything is written.  TaskBenchmarkConflict leaves the remaining rows
\* unwritten (422 for POST /benchmarks, 500 for an ingest).
CheckTask(w) ==
    /\ pc[w] = "checking"
    /\ \/ /\ Fits(Head(rows[w]))
          /\ Step(w, "writing") /\ UNCHANGED <<job, open>>
       \/ Conflicts(Head(rows[w])) /\ Close(w)
    /\ UNCHANGED <<catalog, raced, stored, extracted, crashes>>

NoteRace(w) == raced' = (raced \/ \E v \in Writer \ {w} : pc[v] = "writing")

\* Mutant of WriteRow: the rule is checked once for the whole list.
WriteRowUnchecked(w) ==
    /\ pc[w] = "writing"
    /\ LET row == Head(rows[w]) IN
       catalog' = [catalog EXCEPT ![row.group][row.key] = row.task]
    /\ NoteRace(w)
    /\ CommitSource(w) /\ open' = open \ {src[w]}
    /\ rows' = [rows EXCEPT ![w] = Tail(@)]
    /\ Step(w, IF Tail(rows[w]) = <<>> THEN "written" ELSE "writing")
    /\ UNCHANGED <<src, batch, crashes>>

\* The upsert on the row's identity, its task_type included, and its commit,
\* which commits the source with it.
WriteRow(w) ==
    /\ pc[w] = "writing"
    /\ LET row == Head(rows[w]) IN
       catalog' = [catalog EXCEPT ![row.group][row.key] = row.task]
    /\ NoteRace(w)
    /\ CommitSource(w) /\ open' = open \ {src[w]}
    /\ rows' = [rows EXCEPT ![w] = Tail(@)]
    /\ Step(w, IF Tail(rows[w]) = <<>> THEN "written" ELSE "checking")
    /\ UNCHANGED <<src, batch, crashes>>

\* The final commit: it stores a source that had no valid row.
Finish(w) ==
    /\ pc[w] = "written"
    /\ CommitSource(w)
    /\ Close(w)
    /\ UNCHANGED <<catalog, raced, crashes>>

\* The worker dies or loses the database.
Crash(w) ==
    /\ pc[w] # "idle" /\ crashes < MaxCrashes
    /\ crashes' = crashes + 1
    /\ Close(w)
    /\ UNCHANGED <<catalog, raced, stored, extracted>>

Next ==
    \E w \in Writer :
        \/ \E list \in Batch : Load(w, list)
        \/ \E s \in Source \ Report : Lookup(w, s)
        \/ \E s \in Report, upstream \in Upstream : ImportReport(w, s, upstream)
        \/ Extract(w) \/ AddSource(w) \/ CheckTask(w) \/ WriteRow(w) \/ Finish(w) \/ Crash(w)

Spec == Init /\ [][Next]_vars

-----------------------------------------------------------------------------

\* A task type is measured by one (benchmark, metric), always: what the check
\* before each write is there for.
TaskOwnsOneGroup ==
    \A g, h \in Group, k, l \in Key :
        catalog[g][k] = catalog[h][l] /\ catalog[g][k] \in Task => g = h

\* The check keeps it as long as nobody writes between it and its write, although
\* rows are re-typed, lists stop half-way and workers die.
UnracedTasksOwnOneGroup == ~ raced => TaskOwnsOneGroup

Written(row) == catalog[row.group][row.key] # Absent

\* A source is never marked ingested (and skipped from then on) with nothing of it
\* in the catalog, whatever conflicts, crashes or competes with it.  Only a report
\* of which nothing could be used is; but that is never skipped.
IngestedHasRows ==
    \A s \in Source : stored[s] = "ingested" =>
        \/ \E i \in DOMAIN extracted[s] : Written(extracted[s][i])
        \/ s \in Report /\ extracted[s] = <<>>

=============================================================================
